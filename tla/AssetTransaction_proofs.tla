----------------------- MODULE AssetTransaction_proofs -----------------------
(***************************************************************************)
(* Proofs about AssetTransaction: while no doctor works beside a living    *)
(* process, what an import records as committed is live; and until a death *)
(* or a failure exposes an asset, no asset that the project had is lost,   *)
(* no free asset is half imported, and an import that is over has left     *)
(* nothing behind.                                                         *)
(***************************************************************************)
EXTENDS MCAssets, FiniteSetTheorems, TLAPS

\* No doctor works beside a living import, or another doctor.
DoctorsAlone == \A d \in Doctors : Alive(d) => \A q \in Procs \ {d} : ~Alive(q)

\* Nothing has stopped or failed where the code leaves an asset at risk.
Unexposed == exposed = {}

-----------------------------------------------------------------------------
(* The inductive invariants *)

Hold == CommitSteps \ {"lock"}
Agree(c) == c.prov = c.files

\* Who commits an asset has its lock.
Exclusive == \A e \in Importers : pc[e] \in Hold => lock[Item(e)] = {e}

\* What is live while an import commits it.
Fresh ==
  \A e \in Importers :
    /\ pc[e] \in {"mark", "aside", "place"} => mem[e].stage.files = New(e)
    /\ pc[e] \in {"engine", "prov"} => dest[Item(e)].files = New(e)
    /\ pc[e] \in {"reuse", "verified", "drop", "committed"} => dest[Item(e)] = [files |-> New(e), prov |-> New(e)]
    /\ pc[e] \in {"place", "undo_restore"} => dest[Item(e)] = Nothing

\* While the new files are live and may yet be removed, the old ones are saved.
Saved ==
  \A e \in Importers :
    pc[e] \in {"engine", "prov", "verified", "drop", "undo_rm"} /\ Item(e) \in had =>
      \E f \in Importers : backup[f][Item(e)] # Nothing

\* A journal that says 'committing' is its import's, which has the lock of the asset.
JournalsLocked ==
  \A e \in Importers :
    journal[e].state = "committing" =>
      /\ pc[e] \in {"aside", "place", "engine", "prov", "verified", "undo_rm", "undo_restore", "undo_mark", "dead"}
      /\ pc[e] # "dead" => journal[e].destination = mem[e].item
      /\ \A a \in journal[e].destination : lock[a] = {e}

\* A lock is its holder's, at the steps of that asset or dead.
LocksUsed ==
  \A a \in Assets, e \in Importers :
    e \in lock[a] => lock[a] = {e} /\ (pc[e] = "dead" \/ (pc[e] \in Hold /\ mem[e].item = {a}))

BackupsLocked == \A e \in Importers, a \in Assets : backup[e][a] # Nothing => lock[a] = {e}
NoBackup ==
  \A e \in Importers :
    pc[e] \in {"decide", "reuse", "mark", "aside", "committed", "undo_mark", "release"} => backup[e][Item(e)] = Nothing

\* What a doctor removes can be put back.
Restorable ==
  \A e \in Importers :
    /\ journal[e].state = "committing" /\ pc[e] \notin {"aside", "undo_mark"}
    /\ \A d \in Doctors : pc[d] = "d_mark" => visit[d].at # {e}
    => \A a \in journal[e].destination \cap had : backup[e][a] # Nothing

\* The journal of a commit says whether there was something to save.
Promised ==
  \A e \in Importers :
    journal[e].state = "committing" =>
      \A a \in journal[e].destination \cap had : journal[e].saved

\* A doctor works on the journal of a dead import, as it is.
Tended ==
  \A d \in Doctors : pc[d] \in {"d_rm", "d_restore", "d_mark"} =>
    \E e \in Importers :
      /\ visit[d].at = {e} /\ visit[d].copy = journal[e]
      /\ journal[e].state = "committing" /\ pc[e] = "dead"
      /\ pc[d] = "d_restore" => \A a \in journal[e].destination : dest[a] = Nothing

\* What is moved away, or put back, is whole; half an import is of a journal.
WholeMoved ==
  /\ \A e \in Importers, a \in Assets : Agree(backup[e][a])
  /\ \A e \in Importers : pc[e] \in {"aside", "undo_mark"} => Agree(dest[Item(e)])
  /\ \A e \in Importers : pc[e] \in {"aside", "place", "engine", "prov"} => journal[e].state = "committing"
  /\ \A d \in Doctors, a \in Assets : pc[d] = "d_mark" /\ a \in visit[d].copy.destination => Agree(dest[a])
HalfNamed ==
  \A a \in Assets :
    Agree(dest[a]) \/ \E e \in Importers : journal[e].state = "committing" /\ a \in journal[e].destination

\* A journal of an import that is over has nothing any more.
OverTrue ==
  /\ \A e \in Importers : pc[e] = "terminal" => ~quarantine[e] /\ ~received[e]
  /\ \A e \in Importers :
       journal[e].state \in {"complete", "failed", "aborted"} =>
         /\ pc[e] \in {"abort", "done", "dead"}
         /\ ~quarantine[e] /\ ~received[e]
         /\ \A a \in Assets : e \notin lock[a]

Careful ==
  /\ JournalsLocked /\ LocksUsed /\ BackupsLocked /\ NoBackup /\ Restorable /\ Promised /\ Tended

Visits == [todo : SUBSET Importers, at : SUBSET Importers, copy : Journals]

\* Types, with the one asset of a step of commitItem named.
Disks ==
  /\ dest \in [Assets -> Contents]
  /\ backup \in [Importers -> [Assets -> Contents]]
  /\ journal \in [Importers -> Journals]
  /\ quarantine \in [Importers -> BOOLEAN] /\ received \in [Importers -> BOOLEAN]
  /\ lock \in [Assets -> SUBSET Importers]
Memories ==
  /\ pc \in [Procs -> Steps] /\ mem \in [Importers -> Memory] /\ visit \in [Doctors -> Visits]
  /\ crashes \in 0 .. MaxCrashes /\ faults \in 0 .. MaxFaults
  /\ had \in SUBSET Assets /\ exposed \in SUBSET Assets
SingleItem == \A e \in Importers : pc[e] \in CommitSteps => \E a \in Assets : mem[e].item = {a}
OneAsset ==
  \A e \in Importers :
    journal[e].state = "committing" => \E a \in Assets : journal[e].destination = {a}
OneVisit ==
  \A d \in Doctors : pc[d] \in {"d_rm", "d_restore", "d_mark"} =>
    \E e \in Importers, a \in Assets : visit[d].at = {e} /\ visit[d].copy.destination = {a}
Typed == Disks /\ Memories /\ SingleItem /\ OneAsset /\ OneVisit

-----------------------------------------------------------------------------
(* Records and their fields *)

LEMMA Kinds == \A e \in Importers : e \in Procs /\ e \notin Doctors
BY Constants DEF Procs

LEMMA ItemIs ==
  ASSUME NEW e \in Importers, NEW a \in Assets, mem[e].item = {a}
  PROVE  Item(e) = a
BY DEF Item

LEMMA VisitIs ==
  ASSUME NEW d \in Doctors, NEW e \in Importers, NEW a \in Assets,
         visit[d].at = {e}, visit[d].copy.destination = {a}
  PROVE  Visiting(d) = e /\ Recovered(d) = a
<1>1. Visiting(d) = e
  BY DEF Visiting
<1>2. Recovered(d) = a
  BY DEF Recovered
<1> QED BY <1>1, <1>2

LEMMA NothingTyped == Nothing \in Contents /\ NoJournal \in Journals
BY DEF Nothing, Contents, NoJournal, Journals, States

LEMMA JournalUpdates ==
  ASSUME NEW j \in Journals, NEW s \in States
  PROVE  [j EXCEPT !.state = s] \in Journals /\ [j EXCEPT !.state = s].state = s
         /\ [j EXCEPT !.state = s].destination = j.destination
BY DEF Journals

LEMMA MemoryUpdates ==
  ASSUME NEW m \in Memory, NEW j \in Journals, NEW s \in Contents, NEW t \in SUBSET Assets, NEW i \in SUBSET Assets
  PROVE  /\ [m EXCEPT !.failed = TRUE] \in Memory
         /\ [m EXCEPT !.copy = j] \in Memory
         /\ [m EXCEPT !.stage = s] \in Memory
         /\ [m EXCEPT !.todo = t, !.failed = TRUE] \in Memory
         /\ [m EXCEPT !.todo = t, !.item = i, !.copy = j] \in Memory
         /\ \A r \in BOOLEAN : [m EXCEPT !.copy = j, !.refresh = r, !.todo = t] \in Memory
BY DEF Memory

LEMMA ContentsIs == \A c \in Contents : c = [files |-> c.files, prov |-> c.prov]
BY DEF Contents

LEMMA ProvenanceUpdate ==
  ASSUME NEW c \in Contents, NEW v
  PROVE  [c EXCEPT !.prov = v] = [files |-> c.files, prov |-> v]
BY DEF Contents

-----------------------------------------------------------------------------
(* What a step of an import leaves alone *)

Moves(e) ==
  /\ \A p \in Procs \ {e} : pc'[p] = pc[p]
  /\ \A f \in Importers \ {e} :
       /\ mem'[f] = mem[f] /\ journal'[f] = journal[f] /\ backup'[f] = backup[f]
       /\ quarantine'[f] = quarantine[f] /\ received'[f] = received[f]
  /\ visit' = visit /\ had' = had /\ crashes' = crashes

\* Only asset a is touched, or none is.
Touches(e, a) ==
  \A b \in Assets \ {a} : dest'[b] = dest[b] /\ lock'[b] = lock[b] /\ backup'[e][b] = backup[e][b]
Remote == UNCHANGED <<dest, lock, backup>>
SameItem(e) == mem'[e].item = mem[e].item

LEMMA SameItems ==
  ASSUME mem \in [Importers -> Memory], NEW e \in Importers,
         \/ mem' = mem \/ mem' = [mem EXCEPT ![e].failed = TRUE]
         \/ \E s : mem' = [mem EXCEPT ![e].stage = s] \/ mem' = [mem EXCEPT ![e].copy = s]
  PROVE  SameItem(e)
BY DEF SameItem, Memory

-----------------------------------------------------------------------------
(* What each step of an import does *)

LEMMA BeginEffect ==
  ASSUME Typed, NEW e \in Importers, Begin(e)
  PROVE  /\ Moves(e)
         /\ Remote
         /\ SameItem(e)
         /\ pc[e] = "idle"
         /\ pc'[e] = "fill"
         /\ journal'[e].state = "begun"
<1>0. e \in Procs
  BY Kinds
<1> USE <1>0 DEF Begin, Typed, Disks, Memories, Goto, Keep, NoJournal, Memory, Journals, Moves, Remote, SameItem
<1>1. Moves(e)
  OBVIOUS
<1>2. Remote
  OBVIOUS
<1>3. SameItem(e)
  OBVIOUS
<1>4. pc[e] = "idle"
  OBVIOUS
<1>5. pc'[e] = "fill"
  OBVIOUS
<1>6. journal'[e].state = "begun"
  OBVIOUS
<1> QED BY <1>1, <1>2, <1>3, <1>4, <1>5, <1>6

LEMMA FillEffect ==
  ASSUME Typed, NEW e \in Importers, Fill(e)
  PROVE  /\ Moves(e)
         /\ Remote
         /\ SameItem(e)
         /\ pc[e] = "fill"
         /\ pc'[e] \in {"result", "abort"}
         /\ UNCHANGED <<journal, quarantine, received, mem>>
<1>0. e \in Procs
  BY Kinds
<1> USE <1>0 DEF Fill, Typed, Disks, Memories, Goto, Keep, disk, Memory, Journals, Moves, Remote, SameItem
<1>1. Moves(e)
  OBVIOUS
<1>2. Remote
  OBVIOUS
<1>3. SameItem(e)
  OBVIOUS
<1>4. pc[e] = "fill"
  OBVIOUS
<1>5. pc'[e] \in {"result", "abort"}
  OBVIOUS
<1>6. UNCHANGED <<journal, quarantine, received, mem>>
  OBVIOUS
<1> QED BY <1>1, <1>2, <1>3, <1>4, <1>5, <1>6

LEMMA RecordResultEffect ==
  ASSUME Typed, NEW e \in Importers, RecordResult(e)
  PROVE  /\ Moves(e)
         /\ Remote
         /\ SameItem(e)
         /\ pc[e] = "result"
         /\ pc'[e] = "record"
         /\ UNCHANGED <<journal, mem>>
<1>0. e \in Procs
  BY Kinds
<1> USE <1>0 DEF RecordResult, Typed, Disks, Memories, Goto, Keep, Memory, Journals, Moves, Remote, SameItem
<1>1. Moves(e)
  OBVIOUS
<1>2. Remote
  OBVIOUS
<1>3. SameItem(e)
  OBVIOUS
<1>4. pc[e] = "result"
  OBVIOUS
<1>5. pc'[e] = "record"
  OBVIOUS
<1>6. UNCHANGED <<journal, mem>>
  OBVIOUS
<1> QED BY <1>1, <1>2, <1>3, <1>4, <1>5, <1>6

LEMMA RecordJournalEffect ==
  ASSUME Typed, NEW e \in Importers, RecordJournal(e)
  PROVE  /\ Moves(e)
         /\ Remote
         /\ SameItem(e)
         /\ pc[e] = "record"
         /\ pc'[e] = "validate"
         /\ journal'[e].state = "provider_complete"
<1>0. e \in Procs
  BY Kinds
<1> USE <1>0 DEF RecordJournal, Typed, Disks, Memories, Goto, Keep, Write, Update, Memory, Journals, Moves, Remote, SameItem
<1>1. Moves(e)
  OBVIOUS
<1>2. Remote
  OBVIOUS
<1>3. SameItem(e)
  OBVIOUS
<1>4. pc[e] = "record"
  OBVIOUS
<1>5. pc'[e] = "validate"
  OBVIOUS
<1>6. journal'[e].state = "provider_complete"
  OBVIOUS
<1> QED BY <1>1, <1>2, <1>3, <1>4, <1>5, <1>6

LEMMA ValidateEffect ==
  ASSUME Typed, NEW e \in Importers, Validate(e)
  PROVE  /\ Moves(e)
         /\ Remote
         /\ SameItem(e)
         /\ pc[e] = "validate"
         /\ pc'[e] \in {"next", "abort"}
         /\ journal'[e].state = "validated" \/ (pc'[e] = "abort" /\ (journal' = journal \/ (journal'[e].state = "failed" /\ ~quarantine'[e] /\ ~received'[e])))
<1>0. e \in Procs
  BY Kinds
<1> USE <1>0 DEF Validate, Typed, Disks, Memories, Goto, Keep, Write, Update, Memory, Journals, Moves, Remote, SameItem
<1>1. Moves(e)
  OBVIOUS
<1>2. Remote
  OBVIOUS
<1>3. SameItem(e)
  OBVIOUS
<1>4. pc[e] = "validate"
  OBVIOUS
<1>5. pc'[e] \in {"next", "abort"}
  OBVIOUS
<1>6. journal'[e].state = "validated" \/ (pc'[e] = "abort" /\ (journal' = journal \/ (journal'[e].state = "failed" /\ ~quarantine'[e] /\ ~received'[e])))
  OBVIOUS
<1> QED BY <1>1, <1>2, <1>3, <1>4, <1>5, <1>6

LEMMA AbortEffect ==
  ASSUME Typed, NEW e \in Importers, Abort(e)
  PROVE  /\ Moves(e)
         /\ Remote
         /\ SameItem(e)
         /\ pc[e] = "abort"
         /\ pc'[e] = "done"
         /\ journal'[e].state = "aborted"
         /\ ~quarantine'[e] /\ ~received'[e]
<1>0. e \in Procs
  BY Kinds
<1> USE <1>0 DEF Abort, Typed, Disks, Memories, Goto, Keep, Write, Memory, Journals, Moves, Remote, SameItem
<1>1. Moves(e)
  OBVIOUS
<1>2. Remote
  OBVIOUS
<1>3. SameItem(e)
  OBVIOUS
<1>4. pc[e] = "abort"
  OBVIOUS
<1>5. pc'[e] = "done"
  OBVIOUS
<1>6. journal'[e].state = "aborted"
  OBVIOUS
<1>7. ~quarantine'[e] /\ ~received'[e]
  OBVIOUS
<1> QED BY <1>1, <1>2, <1>3, <1>4, <1>5, <1>6, <1>7

LEMMA NextItemEffect ==
  ASSUME Typed, NEW e \in Importers, NextItem(e)
  PROVE  /\ Moves(e)
         /\ Remote
         /\ pc[e] = "next"
         /\ pc'[e] = "lock"
         /\ UNCHANGED <<journal, quarantine, received>>
         /\ \E a \in Assets : mem'[e].item = {a}
<1>0. e \in Procs
  BY Kinds
<1> USE <1>0 DEF NextItem, Typed, Disks, Memories, Goto, Keep, disk, NoJournal, Memory, Journals, Moves, Remote
<1>1. Moves(e)
  OBVIOUS
<1>2. Remote
  OBVIOUS
<1>3. pc[e] = "next"
  OBVIOUS
<1>4. pc'[e] = "lock"
  OBVIOUS
<1>5. UNCHANGED <<journal, quarantine, received>>
  OBVIOUS
<1>6. \E a \in Assets : mem'[e].item = {a}
  OBVIOUS
<1> QED BY <1>1, <1>2, <1>3, <1>4, <1>5, <1>6

LEMMA ProviderErrorEffect ==
  ASSUME Typed, NEW e \in Importers, ProviderError(e)
  PROVE  /\ Moves(e)
         /\ Remote
         /\ SameItem(e)
         /\ pc[e] = "next"
         /\ pc'[e] = "next"
         /\ UNCHANGED <<journal, quarantine, received>>
<1>0. e \in Procs
  BY Kinds
<1> USE <1>0 DEF ProviderError, Typed, Disks, Memories, Keep, disk, Memory, Journals, Moves, Remote, SameItem
<1>1. Moves(e)
  OBVIOUS
<1>2. Remote
  OBVIOUS
<1>3. SameItem(e)
  OBVIOUS
<1>4. pc[e] = "next"
  OBVIOUS
<1>5. pc'[e] = "next"
  OBVIOUS
<1>6. UNCHANGED <<journal, quarantine, received>>
  OBVIOUS
<1> QED BY <1>1, <1>2, <1>3, <1>4, <1>5, <1>6

LEMMA SweepEffect ==
  ASSUME Typed, NEW e \in Importers, Sweep(e)
  PROVE  /\ Moves(e)
         /\ Remote
         /\ SameItem(e)
         /\ pc[e] = "next"
         /\ pc'[e] = "terminal"
         /\ UNCHANGED <<journal, mem>>
         /\ ~quarantine'[e] /\ ~received'[e]
<1>0. e \in Procs
  BY Kinds
<1> USE <1>0 DEF Sweep, Typed, Disks, Memories, Goto, Keep, Memory, Journals, Moves, Remote, SameItem
<1>1. Moves(e)
  OBVIOUS
<1>2. Remote
  OBVIOUS
<1>3. SameItem(e)
  OBVIOUS
<1>4. pc[e] = "next"
  OBVIOUS
<1>5. pc'[e] = "terminal"
  OBVIOUS
<1>6. UNCHANGED <<journal, mem>>
  OBVIOUS
<1>7. ~quarantine'[e] /\ ~received'[e]
  OBVIOUS
<1> QED BY <1>1, <1>2, <1>3, <1>4, <1>5, <1>6, <1>7

LEMMA TerminalEffect ==
  ASSUME Typed, NEW e \in Importers, Terminal(e)
  PROVE  /\ Moves(e)
         /\ Remote
         /\ SameItem(e)
         /\ pc[e] = "terminal"
         /\ pc'[e] = "done"
         /\ journal'[e].state \in {"failed", "complete"}
         /\ UNCHANGED <<quarantine, received>>
<1>0. e \in Procs
  BY Kinds
<1> USE <1>0 DEF Terminal, Typed, Disks, Memories, Goto, Keep, Write, NoJournal, Memory, Journals, Moves, Remote, SameItem
<1>1. Moves(e)
  OBVIOUS
<1>2. Remote
  OBVIOUS
<1>3. SameItem(e)
  OBVIOUS
<1>4. pc[e] = "terminal"
  OBVIOUS
<1>5. pc'[e] = "done"
  OBVIOUS
<1>6. journal'[e].state \in {"failed", "complete"}
  OBVIOUS
<1>7. UNCHANGED <<quarantine, received>>
  OBVIOUS
<1> QED BY <1>1, <1>2, <1>3, <1>4, <1>5, <1>6, <1>7

LEMMA AcquireLockEffect ==
  ASSUME Typed, NEW e \in Importers, NEW a \in Assets, mem[e].item = {a}, AcquireLock(e)
  PROVE  /\ Moves(e)
         /\ Touches(e, a)
         /\ SameItem(e)
         /\ pc[e] = "lock"
         /\ pc'[e] = "decide"
         /\ lock[a] = {}
         /\ lock'[a] = {e}
         /\ UNCHANGED <<dest, backup, journal, quarantine, received, mem>>
<1>0. e \in Procs /\ Item(e) = a
  BY Kinds, ItemIs
<1> USE <1>0 DEF AcquireLock, Typed, Disks, Memories, Goto, Keep, Memory, Journals, Moves, Touches, SameItem
<1>1. Moves(e)
  OBVIOUS
<1>2. Touches(e, a)
  OBVIOUS
<1>3. SameItem(e)
  OBVIOUS
<1>4. pc[e] = "lock"
  OBVIOUS
<1>5. pc'[e] = "decide"
  OBVIOUS
<1>6. lock[a] = {}
  OBVIOUS
<1>7. lock'[a] = {e}
  OBVIOUS
<1>8. UNCHANGED <<dest, backup, journal, quarantine, received, mem>>
  OBVIOUS
<1> QED BY <1>1, <1>2, <1>3, <1>4, <1>5, <1>6, <1>7, <1>8

LEMMA AssetBusyEffect ==
  ASSUME Typed, NEW e \in Importers, AssetBusy(e)
  PROVE  /\ Moves(e)
         /\ Remote
         /\ SameItem(e)
         /\ pc[e] = "lock"
         /\ pc'[e] = "next"
         /\ UNCHANGED <<journal, quarantine, received>>
<1>0. e \in Procs
  BY Kinds
<1> USE <1>0 DEF AssetBusy, Typed, Disks, Memories, Goto, Keep, disk, Memory, Journals, Moves, Remote, SameItem
<1>1. Moves(e)
  OBVIOUS
<1>2. Remote
  OBVIOUS
<1>3. SameItem(e)
  OBVIOUS
<1>4. pc[e] = "lock"
  OBVIOUS
<1>5. pc'[e] = "next"
  OBVIOUS
<1>6. UNCHANGED <<journal, quarantine, received>>
  OBVIOUS
<1> QED BY <1>1, <1>2, <1>3, <1>4, <1>5, <1>6

LEMMA DecideEffect ==
  ASSUME Typed, NEW e \in Importers, NEW a \in Assets, mem[e].item = {a}, Decide(e)
  PROVE  /\ Moves(e)
         /\ Touches(e, a)
         /\ SameItem(e)
         /\ pc[e] = "decide"
         /\ pc'[e] \in {"reuse", "release", "mark"}
         /\ UNCHANGED <<dest, backup, lock, journal, quarantine, received>>
         /\ pc'[e] = "reuse" => dest[a] = [files |-> New(e), prov |-> New(e)]
         /\ pc'[e] = "mark" => mem'[e].stage.files = New(e)
<1>0. e \in Procs /\ Item(e) = a
  BY Kinds, ItemIs
<1> USE <1>0 DEF Decide, Typed, Disks, Memories, Goto, Keep, disk, ItemFails, Memory, Journals, Moves, Touches, SameItem
<1>1. Moves(e)
  OBVIOUS
<1>2. Touches(e, a)
  OBVIOUS
<1>3. SameItem(e)
  <2>1. mem \in [Importers -> Memory]
    BY DEF Typed, Memories
  <2>2. \/ mem' = mem \/ mem' = [mem EXCEPT ![e].failed = TRUE]
        \/ \E s : mem' = [mem EXCEPT ![e].stage = s] \/ mem' = [mem EXCEPT ![e].copy = s]
    BY DEF Decide, ItemFails
  <2> QED BY <2>1, <2>2, SameItems
<1>4. pc[e] = "decide"
  OBVIOUS
<1>5. pc'[e] \in {"reuse", "release", "mark"}
  OBVIOUS
<1>6. UNCHANGED <<dest, backup, lock, journal, quarantine, received>>
  OBVIOUS
<1>7. pc'[e] = "reuse" => dest[a] = [files |-> New(e), prov |-> New(e)]
  <2>1. CASE dest[a].prov = New(e) /\ dest[a].files = New(e)
    <3>1. dest[a] \in Contents
      BY DEF Typed, Disks
    <3> QED BY <2>1, <3>1, ContentsIs
  <2>2. CASE ~(dest[a].prov = New(e) /\ dest[a].files = New(e))
    <3>1. pc'[e] \in {"release", "mark"}
      BY <1>0, <2>2 DEF Decide, Typed, Memories, Goto, ItemFails
    <3> QED BY <3>1
  <2> QED BY <2>1, <2>2
<1>8. pc'[e] = "mark" => mem'[e].stage.files = New(e)
  OBVIOUS
<1> QED BY <1>1, <1>2, <1>3, <1>4, <1>5, <1>6, <1>7, <1>8

LEMMA ReuseEffect ==
  ASSUME Typed, NEW e \in Importers, NEW a \in Assets, mem[e].item = {a}, Reuse(e)
  PROVE  /\ Moves(e)
         /\ Touches(e, a)
         /\ SameItem(e)
         /\ pc[e] = "reuse"
         /\ pc'[e] = "release"
         /\ UNCHANGED <<dest, backup, lock, quarantine, received>>
         /\ journal'[e].state = "committed" \/ journal' = journal
<1>0. e \in Procs /\ Item(e) = a
  BY Kinds, ItemIs
<1> USE <1>0 DEF Reuse, Typed, Disks, Memories, Goto, Keep, Write, Update, ItemFails, Memory, Journals, Moves, Touches, SameItem
<1>1. Moves(e)
  OBVIOUS
<1>2. Touches(e, a)
  OBVIOUS
<1>3. SameItem(e)
  <2>1. mem \in [Importers -> Memory]
    BY DEF Typed, Memories
  <2>2. \/ mem' = mem \/ mem' = [mem EXCEPT ![e].failed = TRUE]
        \/ \E s : mem' = [mem EXCEPT ![e].stage = s] \/ mem' = [mem EXCEPT ![e].copy = s]
    BY DEF Reuse, ItemFails, Update, Write
  <2> QED BY <2>1, <2>2, SameItems
<1>4. pc[e] = "reuse"
  OBVIOUS
<1>5. pc'[e] = "release"
  OBVIOUS
<1>6. UNCHANGED <<dest, backup, lock, quarantine, received>>
  OBVIOUS
<1>7. journal'[e].state = "committed" \/ journal' = journal
  OBVIOUS
<1> QED BY <1>1, <1>2, <1>3, <1>4, <1>5, <1>6, <1>7

LEMMA MarkEffect ==
  ASSUME Typed, NEW e \in Importers, NEW a \in Assets, mem[e].item = {a}, Mark(e)
  PROVE  /\ Moves(e)
         /\ Touches(e, a)
         /\ SameItem(e)
         /\ pc[e] = "mark"
         /\ pc'[e] = "aside"
         /\ UNCHANGED <<dest, backup, lock, quarantine, received>>
         /\ mem'[e].stage = mem[e].stage
         /\ journal'[e].state = "committing"
         /\ journal'[e].destination = {a}
         /\ journal'[e].saved = (dest[a] # Nothing)
<1>0. e \in Procs /\ Item(e) = a
  BY Kinds, ItemIs
<1> USE <1>0 DEF Mark, Typed, Disks, Memories, Goto, Keep, Write, Memory, Journals, Moves, Touches, SameItem
<1>1. Moves(e)
  OBVIOUS
<1>2. Touches(e, a)
  OBVIOUS
<1>3. SameItem(e)
  OBVIOUS
<1>4. pc[e] = "mark"
  OBVIOUS
<1>5. pc'[e] = "aside"
  OBVIOUS
<1>6. UNCHANGED <<dest, backup, lock, quarantine, received>>
  OBVIOUS
<1>7. mem'[e].stage = mem[e].stage
  OBVIOUS
<1>8. journal'[e].state = "committing"
  OBVIOUS
<1>9. journal'[e].destination = {a} /\ journal'[e].saved = (dest[a] # Nothing)
  OBVIOUS
<1> QED BY <1>1, <1>2, <1>3, <1>4, <1>5, <1>6, <1>7, <1>8, <1>9

LEMMA AsideEffect ==
  ASSUME Typed, NEW e \in Importers, NEW a \in Assets, mem[e].item = {a}, Aside(e)
  PROVE  /\ Moves(e)
         /\ Touches(e, a)
         /\ SameItem(e)
         /\ pc[e] = "aside"
         /\ pc'[e] = "place"
         /\ UNCHANGED <<lock, journal, quarantine, received, mem>>
         /\ dest'[a] = Nothing
         /\ dest[a] = Nothing => backup' = backup
         /\ dest[a] # Nothing => backup'[e][a] = dest[a]
<1>0. e \in Procs /\ Item(e) = a
  BY Kinds, ItemIs
<1> USE <1>0 DEF Aside, Typed, Disks, Memories, Goto, Keep, Memory, Journals, Moves, Touches, SameItem
<1>1. Moves(e)
  OBVIOUS
<1>2. Touches(e, a)
  OBVIOUS
<1>3. SameItem(e)
  OBVIOUS
<1>4. pc[e] = "aside"
  OBVIOUS
<1>5. pc'[e] = "place"
  OBVIOUS
<1>6. UNCHANGED <<lock, journal, quarantine, received, mem>>
  OBVIOUS
<1>7. dest'[a] = Nothing
  OBVIOUS
<1>8. dest[a] = Nothing => backup' = backup
  OBVIOUS
<1>9. dest[a] # Nothing => backup'[e][a] = dest[a]
  OBVIOUS
<1> QED BY <1>1, <1>2, <1>3, <1>4, <1>5, <1>6, <1>7, <1>8, <1>9

LEMMA PlaceEffect ==
  ASSUME Typed, NEW e \in Importers, NEW a \in Assets, mem[e].item = {a}, Place(e)
  PROVE  /\ Moves(e)
         /\ Touches(e, a)
         /\ SameItem(e)
         /\ pc[e] = "place"
         /\ UNCHANGED <<backup, lock, journal, quarantine, received>>
         /\ \/ dest[a] = Nothing /\ pc'[e] = "engine" /\ dest'[a] = mem[e].stage
            \/ dest[a] # Nothing /\ pc'[e] = "release" /\ dest' = dest
<1>0. e \in Procs /\ Item(e) = a
  BY Kinds, ItemIs
<1> USE <1>0 DEF Place, Typed, Disks, Memories, Goto, Keep, ItemFails, Memory, Journals, Moves, Touches, SameItem
<1>1. Moves(e)
  OBVIOUS
<1>2. Touches(e, a)
  OBVIOUS
<1>3. SameItem(e)
  <2>1. mem \in [Importers -> Memory]
    BY DEF Typed, Memories
  <2>2. \/ mem' = mem \/ mem' = [mem EXCEPT ![e].failed = TRUE]
        \/ \E s : mem' = [mem EXCEPT ![e].stage = s] \/ mem' = [mem EXCEPT ![e].copy = s]
    BY DEF Place, ItemFails
  <2> QED BY <2>1, <2>2, SameItems
<1>4. pc[e] = "place"
  OBVIOUS
<1>5. UNCHANGED <<backup, lock, journal, quarantine, received>>
  OBVIOUS
<1>6. \/ dest[a] = Nothing /\ pc'[e] = "engine" /\ dest'[a] = mem[e].stage
      \/ dest[a] # Nothing /\ pc'[e] = "release" /\ dest' = dest
  <2>1. pc \in [Procs -> Steps] /\ dest \in [Assets -> Contents]
    BY DEF Typed, Disks, Memories
  <2>2. CASE dest[a] = Nothing
    <3>1. dest' = [dest EXCEPT ![a] = mem[e].stage] /\ pc' = [pc EXCEPT ![e] = "engine"]
      BY <1>0, <2>2 DEF Place, Goto
    <3> QED BY <1>0, <2>1, <2>2, <3>1
  <2>3. CASE dest[a] # Nothing
    <3>1. dest' = dest /\ pc' = [pc EXCEPT ![e] = "release"]
      BY <1>0, <2>3 DEF Place, Goto, ItemFails
    <3> QED BY <1>0, <2>1, <2>3, <3>1
  <2> QED BY <2>2, <2>3
<1> QED BY <1>1, <1>2, <1>3, <1>4, <1>5, <1>6

LEMMA EngineEffect ==
  ASSUME Typed, NEW e \in Importers, NEW a \in Assets, mem[e].item = {a}, Engine(e)
  PROVE  /\ Moves(e)
         /\ Touches(e, a)
         /\ SameItem(e)
         /\ pc[e] = "engine"
         /\ pc'[e] \in {"prov", "undo_rm"}
         /\ UNCHANGED <<disk, mem>>
<1>0. e \in Procs /\ Item(e) = a
  BY Kinds, ItemIs
<1> USE <1>0 DEF Engine, Typed, Disks, Memories, Goto, Keep, disk, Memory, Journals, Moves, Touches, SameItem
<1>1. Moves(e)
  OBVIOUS
<1>2. Touches(e, a)
  OBVIOUS
<1>3. SameItem(e)
  OBVIOUS
<1>4. pc[e] = "engine"
  OBVIOUS
<1>5. pc'[e] \in {"prov", "undo_rm"}
  OBVIOUS
<1>6. UNCHANGED <<disk, mem>>
  OBVIOUS
<1> QED BY <1>1, <1>2, <1>3, <1>4, <1>5, <1>6

LEMMA WriteProvenanceEffect ==
  ASSUME Typed, NEW e \in Importers, NEW a \in Assets, mem[e].item = {a}, WriteProvenance(e)
  PROVE  /\ Moves(e)
         /\ Touches(e, a)
         /\ SameItem(e)
         /\ pc[e] = "prov"
         /\ pc'[e] = "verified"
         /\ UNCHANGED <<backup, lock, journal, quarantine, received, mem>>
         /\ dest'[a] = [files |-> dest[a].files, prov |-> New(e)]
<1>0. e \in Procs /\ Item(e) = a
  BY Kinds, ItemIs
<1> USE <1>0 DEF WriteProvenance, Typed, Disks, Memories, Goto, Keep, Memory, Journals, Moves, Touches, SameItem
<1>1. Moves(e)
  OBVIOUS
<1>2. Touches(e, a)
  OBVIOUS
<1>3. SameItem(e)
  OBVIOUS
<1>4. pc[e] = "prov"
  OBVIOUS
<1>5. pc'[e] = "verified"
  OBVIOUS
<1>6. UNCHANGED <<backup, lock, journal, quarantine, received, mem>>
  OBVIOUS
<1>7. dest'[a] = [files |-> dest[a].files, prov |-> New(e)]
  <2>1. dest \in [Assets -> Contents] /\ dest[a] \in Contents
    BY DEF Typed, Disks
  <2>2. dest' = [dest EXCEPT ![a].prov = New(e)]
    BY <1>0 DEF WriteProvenance
  <2>3. dest'[a] = [dest[a] EXCEPT !.prov = New(e)]
    BY <2>1, <2>2
  <2> QED BY <2>1, <2>3, ProvenanceUpdate
<1> QED BY <1>1, <1>2, <1>3, <1>4, <1>5, <1>6, <1>7

LEMMA EngineVerifiedEffect ==
  ASSUME Typed, NEW e \in Importers, NEW a \in Assets, mem[e].item = {a}, EngineVerified(e)
  PROVE  /\ Moves(e)
         /\ Touches(e, a)
         /\ SameItem(e)
         /\ pc[e] = "verified"
         /\ pc'[e] = "drop"
         /\ UNCHANGED <<dest, backup, lock, quarantine, received>>
         /\ journal'[e].state = "engine_verified"
<1>0. e \in Procs /\ Item(e) = a
  BY Kinds, ItemIs
<1> USE <1>0 DEF EngineVerified, Typed, Disks, Memories, Goto, Keep, Write, Update, Memory, Journals, Moves, Touches, SameItem
<1>1. Moves(e)
  OBVIOUS
<1>2. Touches(e, a)
  OBVIOUS
<1>3. SameItem(e)
  OBVIOUS
<1>4. pc[e] = "verified"
  OBVIOUS
<1>5. pc'[e] = "drop"
  OBVIOUS
<1>6. UNCHANGED <<dest, backup, lock, quarantine, received>>
  OBVIOUS
<1>7. journal'[e].state = "engine_verified"
  OBVIOUS
<1> QED BY <1>1, <1>2, <1>3, <1>4, <1>5, <1>6, <1>7

LEMMA DropBackupEffect ==
  ASSUME Typed, NEW e \in Importers, NEW a \in Assets, mem[e].item = {a}, DropBackup(e)
  PROVE  /\ Moves(e)
         /\ Touches(e, a)
         /\ SameItem(e)
         /\ pc[e] = "drop"
         /\ pc'[e] = "committed"
         /\ UNCHANGED <<dest, lock, journal, quarantine, received, mem>>
         /\ backup'[e][a] = Nothing
<1>0. e \in Procs /\ Item(e) = a
  BY Kinds, ItemIs
<1> USE <1>0 DEF DropBackup, Typed, Disks, Memories, Goto, Keep, Memory, Journals, Moves, Touches, SameItem
<1>1. Moves(e)
  OBVIOUS
<1>2. Touches(e, a)
  OBVIOUS
<1>3. SameItem(e)
  OBVIOUS
<1>4. pc[e] = "drop"
  OBVIOUS
<1>5. pc'[e] = "committed"
  OBVIOUS
<1>6. UNCHANGED <<dest, lock, journal, quarantine, received, mem>>
  OBVIOUS
<1>7. backup'[e][a] = Nothing
  OBVIOUS
<1> QED BY <1>1, <1>2, <1>3, <1>4, <1>5, <1>6, <1>7

LEMMA CommittedEffect ==
  ASSUME Typed, NEW e \in Importers, NEW a \in Assets, mem[e].item = {a}, Committed(e)
  PROVE  /\ Moves(e)
         /\ Touches(e, a)
         /\ SameItem(e)
         /\ pc[e] = "committed"
         /\ pc'[e] = "release"
         /\ UNCHANGED <<dest, backup, lock, quarantine, received>>
         /\ journal'[e].state = "committed"
<1>0. e \in Procs /\ Item(e) = a
  BY Kinds, ItemIs
<1> USE <1>0 DEF Committed, Typed, Disks, Memories, Goto, Keep, Write, Update, Memory, Journals, Moves, Touches, SameItem
<1>1. Moves(e)
  OBVIOUS
<1>2. Touches(e, a)
  OBVIOUS
<1>3. SameItem(e)
  OBVIOUS
<1>4. pc[e] = "committed"
  OBVIOUS
<1>5. pc'[e] = "release"
  OBVIOUS
<1>6. UNCHANGED <<dest, backup, lock, quarantine, received>>
  OBVIOUS
<1>7. journal'[e].state = "committed"
  OBVIOUS
<1> QED BY <1>1, <1>2, <1>3, <1>4, <1>5, <1>6, <1>7

LEMMA UndoRemoveEffect ==
  ASSUME Typed, NEW e \in Importers, NEW a \in Assets, mem[e].item = {a}, UndoRemove(e)
  PROVE  /\ Moves(e)
         /\ Touches(e, a)
         /\ SameItem(e)
         /\ pc[e] = "undo_rm"
         /\ pc'[e] = "undo_restore"
         /\ UNCHANGED <<backup, lock, journal, quarantine, received, mem>>
         /\ dest'[a] = Nothing
<1>0. e \in Procs /\ Item(e) = a
  BY Kinds, ItemIs
<1> USE <1>0 DEF UndoRemove, Typed, Disks, Memories, Goto, Keep, Memory, Journals, Moves, Touches, SameItem
<1>1. Moves(e)
  OBVIOUS
<1>2. Touches(e, a)
  OBVIOUS
<1>3. SameItem(e)
  OBVIOUS
<1>4. pc[e] = "undo_rm"
  OBVIOUS
<1>5. pc'[e] = "undo_restore"
  OBVIOUS
<1>6. UNCHANGED <<backup, lock, journal, quarantine, received, mem>>
  OBVIOUS
<1>7. dest'[a] = Nothing
  OBVIOUS
<1> QED BY <1>1, <1>2, <1>3, <1>4, <1>5, <1>6, <1>7

LEMMA UndoRestoreEffect ==
  ASSUME Typed, NEW e \in Importers, NEW a \in Assets, mem[e].item = {a}, UndoRestore(e)
  PROVE  /\ Moves(e)
         /\ Touches(e, a)
         /\ SameItem(e)
         /\ pc[e] = "undo_restore"
         /\ UNCHANGED <<lock, journal, quarantine, received>>
         /\ \/ backup[e][a] = Nothing /\ pc'[e] = "undo_mark" /\ UNCHANGED <<dest, backup>>
            \/ backup[e][a] # Nothing /\ dest[a] = Nothing /\ pc'[e] = "undo_mark" /\ dest'[a] = backup[e][a] /\ backup'[e][a] = Nothing
            \/ backup[e][a] # Nothing /\ dest[a] # Nothing /\ pc'[e] = "release" /\ UNCHANGED <<dest, backup>>
<1>0. e \in Procs /\ Item(e) = a
  BY Kinds, ItemIs
<1> USE <1>0 DEF UndoRestore, Typed, Disks, Memories, Goto, Keep, ItemFails, Memory, Journals, Moves, Touches, SameItem
<1>1. Moves(e)
  OBVIOUS
<1>2. Touches(e, a)
  OBVIOUS
<1>3. SameItem(e)
  <2>1. mem \in [Importers -> Memory]
    BY DEF Typed, Memories
  <2>2. \/ mem' = mem \/ mem' = [mem EXCEPT ![e].failed = TRUE]
        \/ \E s : mem' = [mem EXCEPT ![e].stage = s] \/ mem' = [mem EXCEPT ![e].copy = s]
    BY DEF UndoRestore, ItemFails
  <2> QED BY <2>1, <2>2, SameItems
<1>4. pc[e] = "undo_restore"
  OBVIOUS
<1>5. UNCHANGED <<lock, journal, quarantine, received>>
  OBVIOUS
<1>6. \/ backup[e][a] = Nothing /\ pc'[e] = "undo_mark" /\ UNCHANGED <<dest, backup>>
      \/ backup[e][a] # Nothing /\ dest[a] = Nothing /\ pc'[e] = "undo_mark" /\ dest'[a] = backup[e][a] /\ backup'[e][a] = Nothing
      \/ backup[e][a] # Nothing /\ dest[a] # Nothing /\ pc'[e] = "release" /\ UNCHANGED <<dest, backup>>
  <2>1. pc \in [Procs -> Steps] /\ dest \in [Assets -> Contents] /\ backup \in [Importers -> [Assets -> Contents]]
    BY DEF Typed, Disks, Memories
  <2>2. CASE backup[e][a] = Nothing
    <3>1. UNCHANGED <<dest, backup>> /\ pc' = [pc EXCEPT ![e] = "undo_mark"]
      BY <1>0, <2>2 DEF UndoRestore, Goto
    <3> QED BY <1>0, <2>1, <2>2, <3>1
  <2>3. CASE backup[e][a] # Nothing /\ dest[a] = Nothing
    <3>1. /\ dest' = [dest EXCEPT ![a] = backup[e][a]]
          /\ backup' = [backup EXCEPT ![e][a] = Nothing]
          /\ pc' = [pc EXCEPT ![e] = "undo_mark"]
      BY <1>0, <2>3 DEF UndoRestore, Goto
    <3>2. dest'[a] = backup[e][a] /\ backup'[e][a] = Nothing
      BY <1>0, <2>1, <3>1
    <3> QED BY <1>0, <2>1, <2>3, <3>1, <3>2
  <2>4. CASE backup[e][a] # Nothing /\ dest[a] # Nothing
    BY <1>0, <2>1, <2>4 DEF UndoRestore, Goto, ItemFails
  <2> QED BY <2>2, <2>3, <2>4
<1> QED BY <1>1, <1>2, <1>3, <1>4, <1>5, <1>6

LEMMA UndoMarkEffect ==
  ASSUME Typed, NEW e \in Importers, NEW a \in Assets, mem[e].item = {a}, UndoMark(e)
  PROVE  /\ Moves(e)
         /\ Touches(e, a)
         /\ SameItem(e)
         /\ pc[e] = "undo_mark"
         /\ pc'[e] = "release"
         /\ UNCHANGED <<dest, backup, lock, quarantine, received>>
         /\ journal'[e].state = "rolled_back"
<1>0. e \in Procs /\ Item(e) = a
  BY Kinds, ItemIs
<1> USE <1>0 DEF UndoMark, Typed, Disks, Memories, Goto, Keep, ItemFails, Memory, Journals, Moves, Touches, SameItem
<1>1. Moves(e)
  OBVIOUS
<1>2. Touches(e, a)
  OBVIOUS
<1>3. SameItem(e)
  OBVIOUS
<1>4. pc[e] = "undo_mark"
  OBVIOUS
<1>5. pc'[e] = "release"
  OBVIOUS
<1>6. UNCHANGED <<dest, backup, lock, quarantine, received>>
  OBVIOUS
<1>7. journal'[e].state = "rolled_back"
  OBVIOUS
<1> QED BY <1>1, <1>2, <1>3, <1>4, <1>5, <1>6, <1>7

LEMMA ReleaseLockEffect ==
  ASSUME Typed, NEW e \in Importers, NEW a \in Assets, mem[e].item = {a}, ReleaseLock(e)
  PROVE  /\ Moves(e)
         /\ Touches(e, a)
         /\ SameItem(e)
         /\ pc[e] = "release"
         /\ pc'[e] = "next"
         /\ UNCHANGED <<dest, backup, journal, quarantine, received, mem>>
         /\ lock'[a] = lock[a] \ {e}
<1>0. e \in Procs /\ Item(e) = a
  BY Kinds, ItemIs
<1> USE <1>0 DEF ReleaseLock, Typed, Disks, Memories, Goto, Keep, Memory, Journals, Moves, Touches, SameItem
<1>1. Moves(e)
  OBVIOUS
<1>2. Touches(e, a)
  OBVIOUS
<1>3. SameItem(e)
  OBVIOUS
<1>4. pc[e] = "release"
  OBVIOUS
<1>5. pc'[e] = "next"
  OBVIOUS
<1>6. UNCHANGED <<dest, backup, journal, quarantine, received, mem>>
  OBVIOUS
<1>7. lock'[a] = lock[a] \ {e}
  OBVIOUS
<1> QED BY <1>1, <1>2, <1>3, <1>4, <1>5, <1>6, <1>7

LEMMA FaultEffect ==
  ASSUME Typed, NEW e \in Importers, NEW a \in Assets, mem[e].item = {a}, Fault(e)
  PROVE  /\ Moves(e)
         /\ Touches(e, a)
         /\ SameItem(e)
         /\ UNCHANGED disk
         /\ pc[e] \in FaultSteps
         /\ \/ pc[e] \in Guarded /\ pc'[e] = "undo_rm"
            \/ pc[e] \in Unguarded /\ pc'[e] = "release"
         /\ exposed' = IF pc[e] \in Exposing THEN exposed \cup {a} ELSE exposed
<1>0. e \in Procs /\ Item(e) = a
  BY Kinds, ItemIs
<1> USE <1>0 DEF Fault, Typed, Disks, Memories, Goto, disk, ItemFails, Memory, Journals, Moves, Touches, SameItem
<1>1. Moves(e)
  OBVIOUS
<1>2. Touches(e, a)
  OBVIOUS
<1>3. SameItem(e)
  OBVIOUS
<1>4. UNCHANGED disk
  OBVIOUS
<1>5. pc[e] \in FaultSteps
  OBVIOUS
<1>6. \/ pc[e] \in Guarded /\ pc'[e] = "undo_rm"
      \/ pc[e] \in Unguarded /\ pc'[e] = "release"
  <2>1. pc \in [Procs -> Steps]
    BY DEF Typed, Memories
  <2>2. CASE pc[e] \in Guarded /\ pc' = [pc EXCEPT ![e] = "undo_rm"]
    BY <1>0, <2>1, <2>2
  <2>3. CASE pc[e] \in Unguarded /\ pc' = [pc EXCEPT ![e] = "release"]
    BY <1>0, <2>1, <2>3
  <2> QED BY <1>0, <2>2, <2>3 DEF Fault, Goto, ItemFails
<1>7. exposed' = IF pc[e] \in Exposing THEN exposed \cup {a} ELSE exposed
  OBVIOUS
<1> QED BY <1>1, <1>2, <1>3, <1>4, <1>5, <1>6, <1>7

-----------------------------------------------------------------------------
(* Types *)

LEMMA OnesKept ==
  ASSUME Typed, NEW e \in Importers, Moves(e),
         pc'[e] \in CommitSteps => \E a \in Assets : mem'[e].item = {a},
         journal'[e].state = "committing" => \E a \in Assets : journal'[e].destination = {a}
  PROVE  SingleItem' /\ OneAsset' /\ OneVisit'
<1>1. SingleItem'
  BY Kinds DEF Typed, SingleItem, Moves
<1>2. OneAsset'
  BY DEF Typed, OneAsset, Moves
<1>3. OneVisit'
  BY Kinds DEF Typed, OneVisit, Moves, Procs
<1> QED BY <1>1, <1>2, <1>3

LEMMA AnItem ==
  ASSUME Typed, NEW e \in Importers, pc[e] \in CommitSteps
  PROVE  \E a \in Assets : mem[e].item = {a}
BY DEF Typed, SingleItem

LEMMA InitTyped == Init => Typed
<1> SUFFICES ASSUME Init PROVE Typed
  OBVIOUS
<1>1. Disks
  BY Constants, NothingTyped DEF Init, Disks
<1>2. Memories
  <2>1. pc \in [Procs -> Steps]
    BY DEF Init, Steps
  <2>2. mem \in [Importers -> Memory]
    BY NothingTyped DEF Init, Memory
  <2>3. visit \in [Doctors -> Visits]
    BY NothingTyped DEF Init, Visits
  <2>4. 0 \in 0 .. MaxCrashes /\ 0 \in 0 .. MaxFaults
    BY Constants
  <2> QED BY <2>1, <2>2, <2>3, <2>4 DEF Init, Memories
<1>3. SingleItem /\ OneAsset /\ OneVisit
  BY Kinds DEF Init, SingleItem, OneAsset, OneVisit, CommitSteps, Guarded, NoJournal, Procs
<1> QED BY <1>1, <1>2, <1>3 DEF Typed

LEMMA GotoTyped ==
  ASSUME pc \in [Procs -> Steps], NEW p \in Procs, NEW s \in Steps, Goto(p, s)
  PROVE  pc' \in [Procs -> Steps]
BY DEF Goto

\* Copies of journals and the memories of imports.
LEMMA WriteTyped ==
  ASSUME Typed, NEW e \in Importers, NEW j \in Journals, Write(e, j)
  PROVE  journal' \in [Importers -> Journals] /\ mem' \in [Importers -> Memory]
<1>1. mem[e] \in Memory /\ Nothing \in Contents
  BY NothingTyped DEF Typed, Memories
<1>2. [mem[e] EXCEPT !.copy = j] \in Memory
  BY <1>1, MemoryUpdates
<1>3. mem' \in [Importers -> Memory]
  BY <1>2 DEF Typed, Memories, Write
<1> QED BY <1>3 DEF Write, Typed, Disks

LEMMA UpdateTyped ==
  ASSUME Typed, NEW e \in Importers, NEW s \in States, Update(e, s)
  PROVE  journal' \in [Importers -> Journals] /\ mem' \in [Importers -> Memory]
<1>1. mem[e].copy \in Journals
  BY DEF Typed, Memories, Memory
<1>2. [mem[e].copy EXCEPT !.state = s] \in Journals
  BY <1>1, JournalUpdates
<1> QED BY <1>2, WriteTyped DEF Update

LEMMA PutTyped ==
  ASSUME Typed, NEW e \in Importers, NEW m \in Memory, mem' = [mem EXCEPT ![e] = m]
  PROVE  mem' \in [Importers -> Memory]
BY DEF Typed, Memories

LEMMA FailedTyped ==
  ASSUME Typed, NEW e \in Importers, mem' = [mem EXCEPT ![e].failed = TRUE]
  PROVE  mem' \in [Importers -> Memory]
<1>1. mem[e] \in Memory /\ Nothing \in Contents /\ NoJournal \in Journals /\ {} \in SUBSET Assets
  BY NothingTyped DEF Typed, Memories
<1>2. [mem[e] EXCEPT !.failed = TRUE] \in Memory
  BY <1>1, MemoryUpdates
<1> QED BY <1>2, PutTyped

LEMMA FailsTyped ==
  ASSUME Typed, NEW e \in Importers, ItemFails(e)
  PROVE  pc' \in [Procs -> Steps] /\ mem' \in [Importers -> Memory]
<1>1. mem' \in [Importers -> Memory]
  BY FailedTyped DEF ItemFails
<1> QED BY <1>1, Kinds DEF Typed, Memories, ItemFails, Goto, Steps

LEMMA ImportTyped ==
  ASSUME Typed, NEW e \in Importers, Import(e) \/ CommitItem(e) \/ Fault(e)
  PROVE  Typed'
<1>0. e \in Procs /\ mem[e] \in Memory /\ Nothing \in Contents /\ NoJournal \in Journals
  BY Kinds, NothingTyped DEF Typed, Memories
<1>1. CASE Begin(e)
  <2>1. \A i \in {mem[e].item} : i \subseteq Assets
    BY <1>0 DEF Memory
  <2>2. Moves(e)
    BY <1>1, BeginEffect
  <2>3. Disks'
    <3>1. dest' \in [Assets -> Contents] /\ backup' \in [Importers -> [Assets -> Contents]]
      BY <1>1, <1>0, <2>1 DEF Begin, Typed, Disks, Memories, Memory, disk, Contents
    <3>2. journal' \in [Importers -> Journals]
      <4>1. [NoJournal EXCEPT !.state = "begun"] \in Journals
        BY <1>0, JournalUpdates DEF States
      <4> QED BY <1>1, <4>1 DEF Begin, Typed, Disks
    <3>3. quarantine' \in [Importers -> BOOLEAN] /\ received' \in [Importers -> BOOLEAN]
      BY <1>1 DEF Begin, Typed, Disks, disk
    <3>4. lock' \in [Assets -> SUBSET Importers]
      BY <1>1, <2>1 DEF Begin, Typed, Disks, disk
    <3> QED BY <3>1, <3>2, <3>3, <3>4 DEF Disks
  <2>4. Memories'
    <3>1. pc' \in [Procs -> Steps]
      BY <1>1, <1>0, GotoTyped, FailsTyped DEF Begin, Typed, Memories, Steps
    <3>2. mem' \in [Importers -> Memory]
      <4>1. PICK r \in Refreshes : mem' = [mem EXCEPT ![e] = [@ EXCEPT !.copy = [NoJournal EXCEPT !.state = "begun"], !.refresh = r, !.todo = Items[e]]]
        BY <1>1 DEF Begin
      <4>2. [NoJournal EXCEPT !.state = "begun"] \in Journals /\ r \in BOOLEAN /\ Items[e] \in SUBSET Assets
        BY <1>0, JournalUpdates, Constants DEF States
      <4>3. [mem[e] EXCEPT !.copy = [NoJournal EXCEPT !.state = "begun"], !.refresh = r, !.todo = Items[e]] \in Memory
        BY <1>0, <4>2, MemoryUpdates
      <4> QED BY <4>1, <4>3, PutTyped
    <3> QED BY <1>1, <3>1, <3>2 DEF Begin, Typed, Memories, Keep
  <2>5. SingleItem' /\ OneAsset' /\ OneVisit'
    <3>1. pc'[e] \in CommitSteps => \E b \in Assets : mem'[e].item = {b}
      BY <1>1, BeginEffect DEF CommitSteps, Guarded, SameItem
    <3>2. journal'[e].state = "committing" => \E b \in Assets : journal'[e].destination = {b}
      BY <1>1, BeginEffect DEF Typed, OneAsset, disk
    <3> QED BY <2>2, <3>1, <3>2, OnesKept
  <2> QED BY <2>3, <2>4, <2>5 DEF Typed
<1>2. CASE Fill(e)
  <2>1. \A i \in {mem[e].item} : i \subseteq Assets
    BY <1>0 DEF Memory
  <2>2. Moves(e)
    BY <1>2, FillEffect
  <2>3. Disks'
    <3>1. dest' \in [Assets -> Contents] /\ backup' \in [Importers -> [Assets -> Contents]]
      BY <1>2, <1>0, <2>1 DEF Fill, Typed, Disks, Memories, Memory, disk, Contents
    <3>2. journal' \in [Importers -> Journals]
      BY <1>2, <1>0, UpdateTyped, WriteTyped, JournalUpdates DEF Fill, Typed, Disks, Memories, Memory, disk, Journals, States
    <3>3. quarantine' \in [Importers -> BOOLEAN] /\ received' \in [Importers -> BOOLEAN]
      BY <1>2 DEF Fill, Typed, Disks, disk
    <3>4. lock' \in [Assets -> SUBSET Importers]
      BY <1>2, <2>1 DEF Fill, Typed, Disks, disk
    <3> QED BY <3>1, <3>2, <3>3, <3>4 DEF Disks
  <2>4. Memories'
    <3>1. pc' \in [Procs -> Steps]
      BY <1>2, <1>0, GotoTyped, FailsTyped DEF Fill, Typed, Memories, Steps
    <3>2. mem' \in [Importers -> Memory]
      BY <1>2 DEF Fill, Typed, Memories
    <3> QED BY <1>2, <3>1, <3>2 DEF Fill, Typed, Memories, Keep
  <2>5. SingleItem' /\ OneAsset' /\ OneVisit'
    <3>1. pc'[e] \in CommitSteps => \E b \in Assets : mem'[e].item = {b}
      BY <1>2, FillEffect DEF CommitSteps, Guarded, SameItem
    <3>2. journal'[e].state = "committing" => \E b \in Assets : journal'[e].destination = {b}
      BY <1>2, FillEffect DEF Typed, OneAsset, disk
    <3> QED BY <2>2, <3>1, <3>2, OnesKept
  <2> QED BY <2>3, <2>4, <2>5 DEF Typed
<1>3. CASE RecordResult(e)
  <2>1. \A i \in {mem[e].item} : i \subseteq Assets
    BY <1>0 DEF Memory
  <2>2. Moves(e)
    BY <1>3, RecordResultEffect
  <2>3. Disks'
    <3>1. dest' \in [Assets -> Contents] /\ backup' \in [Importers -> [Assets -> Contents]]
      BY <1>3, <1>0, <2>1 DEF RecordResult, Typed, Disks, Memories, Memory, disk, Contents
    <3>2. journal' \in [Importers -> Journals]
      BY <1>3, <1>0, UpdateTyped, WriteTyped, JournalUpdates DEF RecordResult, Typed, Disks, Memories, Memory, disk, Journals, States
    <3>3. quarantine' \in [Importers -> BOOLEAN] /\ received' \in [Importers -> BOOLEAN]
      BY <1>3 DEF RecordResult, Typed, Disks, disk
    <3>4. lock' \in [Assets -> SUBSET Importers]
      BY <1>3, <2>1 DEF RecordResult, Typed, Disks, disk
    <3> QED BY <3>1, <3>2, <3>3, <3>4 DEF Disks
  <2>4. Memories'
    <3>1. pc' \in [Procs -> Steps]
      BY <1>3, <1>0, GotoTyped, FailsTyped DEF RecordResult, Typed, Memories, Steps
    <3>2. mem' \in [Importers -> Memory]
      BY <1>3 DEF RecordResult, Typed, Memories
    <3> QED BY <1>3, <3>1, <3>2 DEF RecordResult, Typed, Memories, Keep
  <2>5. SingleItem' /\ OneAsset' /\ OneVisit'
    <3>1. pc'[e] \in CommitSteps => \E b \in Assets : mem'[e].item = {b}
      BY <1>3, RecordResultEffect DEF CommitSteps, Guarded, SameItem
    <3>2. journal'[e].state = "committing" => \E b \in Assets : journal'[e].destination = {b}
      BY <1>3, RecordResultEffect DEF Typed, OneAsset, disk
    <3> QED BY <2>2, <3>1, <3>2, OnesKept
  <2> QED BY <2>3, <2>4, <2>5 DEF Typed
<1>4. CASE RecordJournal(e)
  <2>1. \A i \in {mem[e].item} : i \subseteq Assets
    BY <1>0 DEF Memory
  <2>2. Moves(e)
    BY <1>4, RecordJournalEffect
  <2>3. Disks'
    <3>1. dest' \in [Assets -> Contents] /\ backup' \in [Importers -> [Assets -> Contents]]
      BY <1>4, <1>0, <2>1 DEF RecordJournal, Typed, Disks, Memories, Memory, disk, Contents
    <3>2. journal' \in [Importers -> Journals]
      BY <1>4, <1>0, UpdateTyped, WriteTyped, JournalUpdates DEF RecordJournal, Typed, Disks, Memories, Memory, disk, Journals, States
    <3>3. quarantine' \in [Importers -> BOOLEAN] /\ received' \in [Importers -> BOOLEAN]
      BY <1>4 DEF RecordJournal, Typed, Disks, disk
    <3>4. lock' \in [Assets -> SUBSET Importers]
      BY <1>4, <2>1 DEF RecordJournal, Typed, Disks, disk
    <3> QED BY <3>1, <3>2, <3>3, <3>4 DEF Disks
  <2>4. Memories'
    <3>1. pc' \in [Procs -> Steps]
      BY <1>4, <1>0, GotoTyped, FailsTyped DEF RecordJournal, Typed, Memories, Steps
    <3>2. mem' \in [Importers -> Memory]
      BY <1>4, UpdateTyped DEF RecordJournal, States
    <3> QED BY <1>4, <3>1, <3>2 DEF RecordJournal, Typed, Memories, Keep
  <2>5. SingleItem' /\ OneAsset' /\ OneVisit'
    <3>1. pc'[e] \in CommitSteps => \E b \in Assets : mem'[e].item = {b}
      BY <1>4, RecordJournalEffect DEF CommitSteps, Guarded, SameItem
    <3>2. journal'[e].state = "committing" => \E b \in Assets : journal'[e].destination = {b}
      BY <1>4, RecordJournalEffect DEF Typed, OneAsset, disk
    <3> QED BY <2>2, <3>1, <3>2, OnesKept
  <2> QED BY <2>3, <2>4, <2>5 DEF Typed
<1>5. CASE Validate(e)
  <2>1. \A i \in {mem[e].item} : i \subseteq Assets
    BY <1>0 DEF Memory
  <2>2. Moves(e)
    BY <1>5, ValidateEffect
  <2>3. Disks'
    <3>1. dest' \in [Assets -> Contents] /\ backup' \in [Importers -> [Assets -> Contents]]
      BY <1>5, <1>0, <2>1 DEF Validate, Typed, Disks, Memories, Memory, disk, Contents
    <3>2. journal' \in [Importers -> Journals]
      BY <1>5, <1>0, UpdateTyped, WriteTyped, JournalUpdates DEF Validate, Typed, Disks, Memories, Memory, disk, Journals, States
    <3>3. quarantine' \in [Importers -> BOOLEAN] /\ received' \in [Importers -> BOOLEAN]
      BY <1>5 DEF Validate, Typed, Disks, disk
    <3>4. lock' \in [Assets -> SUBSET Importers]
      BY <1>5, <2>1 DEF Validate, Typed, Disks, disk
    <3> QED BY <3>1, <3>2, <3>3, <3>4 DEF Disks
  <2>4. Memories'
    <3>1. pc' \in [Procs -> Steps]
      BY <1>5, <1>0, GotoTyped, FailsTyped DEF Validate, Typed, Memories, Steps
    <3>2. mem' \in [Importers -> Memory]
      <4>1. CASE Update(e, "validated") \/ Update(e, "failed")
        BY <4>1, UpdateTyped DEF States
      <4>2. CASE UNCHANGED mem
        BY <4>2 DEF Typed, Memories
      <4> QED BY <1>5, <4>1, <4>2 DEF Validate
    <3> QED BY <1>5, <3>1, <3>2 DEF Validate, Typed, Memories, Keep
  <2>5. SingleItem' /\ OneAsset' /\ OneVisit'
    <3>1. pc'[e] \in CommitSteps => \E b \in Assets : mem'[e].item = {b}
      BY <1>5, ValidateEffect DEF CommitSteps, Guarded, SameItem
    <3>2. journal'[e].state = "committing" => \E b \in Assets : journal'[e].destination = {b}
      BY <1>5, ValidateEffect DEF Typed, OneAsset, disk
    <3> QED BY <2>2, <3>1, <3>2, OnesKept
  <2> QED BY <2>3, <2>4, <2>5 DEF Typed
<1>6. CASE Abort(e)
  <2>1. \A i \in {mem[e].item} : i \subseteq Assets
    BY <1>0 DEF Memory
  <2>2. Moves(e)
    BY <1>6, AbortEffect
  <2>3. Disks'
    <3>1. dest' \in [Assets -> Contents] /\ backup' \in [Importers -> [Assets -> Contents]]
      BY <1>6, <1>0, <2>1 DEF Abort, Typed, Disks, Memories, Memory, disk, Contents
    <3>2. journal' \in [Importers -> Journals]
      BY <1>6, <1>0, UpdateTyped, WriteTyped, JournalUpdates DEF Abort, Typed, Disks, Memories, Memory, disk, Journals, States
    <3>3. quarantine' \in [Importers -> BOOLEAN] /\ received' \in [Importers -> BOOLEAN]
      BY <1>6 DEF Abort, Typed, Disks, disk
    <3>4. lock' \in [Assets -> SUBSET Importers]
      BY <1>6, <2>1 DEF Abort, Typed, Disks, disk
    <3> QED BY <3>1, <3>2, <3>3, <3>4 DEF Disks
  <2>4. Memories'
    <3>1. pc' \in [Procs -> Steps]
      BY <1>6, <1>0, GotoTyped, FailsTyped DEF Abort, Typed, Memories, Steps
    <3>2. mem' \in [Importers -> Memory]
      <4>1. [journal[e] EXCEPT !.state = "aborted"] \in Journals
        BY JournalUpdates DEF Typed, Disks, States
      <4> QED BY <1>6, <4>1, WriteTyped DEF Abort
    <3> QED BY <1>6, <3>1, <3>2 DEF Abort, Typed, Memories, Keep
  <2>5. SingleItem' /\ OneAsset' /\ OneVisit'
    <3>1. pc'[e] \in CommitSteps => \E b \in Assets : mem'[e].item = {b}
      BY <1>6, AbortEffect DEF CommitSteps, Guarded, SameItem
    <3>2. journal'[e].state = "committing" => \E b \in Assets : journal'[e].destination = {b}
      BY <1>6, AbortEffect DEF Typed, OneAsset, disk
    <3> QED BY <2>2, <3>1, <3>2, OnesKept
  <2> QED BY <2>3, <2>4, <2>5 DEF Typed
<1>7. CASE NextItem(e)
  <2>1. \A i \in {mem[e].item} : i \subseteq Assets
    BY <1>0 DEF Memory
  <2>2. Moves(e)
    BY <1>7, NextItemEffect
  <2>3. Disks'
    <3>1. dest' \in [Assets -> Contents] /\ backup' \in [Importers -> [Assets -> Contents]]
      BY <1>7, <1>0, <2>1 DEF NextItem, Typed, Disks, Memories, Memory, disk, Contents
    <3>2. journal' \in [Importers -> Journals]
      BY <1>7, <1>0, UpdateTyped, WriteTyped, JournalUpdates DEF NextItem, Typed, Disks, Memories, Memory, disk, Journals, States
    <3>3. quarantine' \in [Importers -> BOOLEAN] /\ received' \in [Importers -> BOOLEAN]
      BY <1>7 DEF NextItem, Typed, Disks, disk
    <3>4. lock' \in [Assets -> SUBSET Importers]
      BY <1>7, <2>1 DEF NextItem, Typed, Disks, disk
    <3> QED BY <3>1, <3>2, <3>3, <3>4 DEF Disks
  <2>4. Memories'
    <3>1. pc' \in [Procs -> Steps]
      BY <1>7, <1>0, GotoTyped, FailsTyped DEF NextItem, Typed, Memories, Steps
    <3>2. mem' \in [Importers -> Memory]
      <4> DEFINE begun == [NoJournal EXCEPT !.state = "validated"]
      <4>1. PICK b \in mem[e].todo : mem' = [mem EXCEPT ![e] = [@ EXCEPT !.todo = mem[e].todo \ {b}, !.item = {b}, !.copy = begun]]
        BY <1>7 DEF NextItem
      <4>2. begun \in Journals
        BY <1>0, JournalUpdates DEF States
      <4>3. mem[e].todo \ {b} \in SUBSET Assets /\ {b} \in SUBSET Assets
        BY <1>0 DEF Memory
      <4> HIDE DEF begun
      <4> DEFINE m == [mem[e] EXCEPT !.todo = mem[e].todo \ {b}, !.item = {b}, !.copy = begun]
      <4>4. m \in Memory
        BY <1>0, <4>2, <4>3, MemoryUpdates
      <4>5. mem' = [mem EXCEPT ![e] = m]
        BY <4>1
      <4> HIDE DEF m
      <4> QED BY <4>4, <4>5, PutTyped
    <3> QED BY <1>7, <3>1, <3>2 DEF NextItem, Typed, Memories, Keep
  <2>5. SingleItem' /\ OneAsset' /\ OneVisit'
    <3>1. pc'[e] \in CommitSteps => \E b \in Assets : mem'[e].item = {b}
      BY <1>7, NextItemEffect DEF CommitSteps, Guarded, SameItem
    <3>2. journal'[e].state = "committing" => \E b \in Assets : journal'[e].destination = {b}
      BY <1>7, NextItemEffect DEF Typed, OneAsset, disk
    <3> QED BY <2>2, <3>1, <3>2, OnesKept
  <2> QED BY <2>3, <2>4, <2>5 DEF Typed
<1>8. CASE ProviderError(e)
  <2>1. \A i \in {mem[e].item} : i \subseteq Assets
    BY <1>0 DEF Memory
  <2>2. Moves(e)
    BY <1>8, ProviderErrorEffect
  <2>3. Disks'
    <3>1. dest' \in [Assets -> Contents] /\ backup' \in [Importers -> [Assets -> Contents]]
      BY <1>8, <1>0, <2>1 DEF ProviderError, Typed, Disks, Memories, Memory, disk, Contents
    <3>2. journal' \in [Importers -> Journals]
      BY <1>8, <1>0, UpdateTyped, WriteTyped, JournalUpdates DEF ProviderError, Typed, Disks, Memories, Memory, disk, Journals, States
    <3>3. quarantine' \in [Importers -> BOOLEAN] /\ received' \in [Importers -> BOOLEAN]
      BY <1>8 DEF ProviderError, Typed, Disks, disk
    <3>4. lock' \in [Assets -> SUBSET Importers]
      BY <1>8, <2>1 DEF ProviderError, Typed, Disks, disk
    <3> QED BY <3>1, <3>2, <3>3, <3>4 DEF Disks
  <2>4. Memories'
    <3>1. pc' \in [Procs -> Steps]
      BY <1>8, <1>0, GotoTyped, FailsTyped DEF ProviderError, Typed, Memories, Steps
    <3>2. mem' \in [Importers -> Memory]
      <4>1. PICK b \in mem[e].todo : mem' = [mem EXCEPT ![e] = [@ EXCEPT !.todo = mem[e].todo \ {b}, !.failed = TRUE]]
        BY <1>8 DEF ProviderError
      <4>2. mem[e].todo \ {b} \in SUBSET Assets
        BY <1>0 DEF Memory
      <4> DEFINE m == [mem[e] EXCEPT !.todo = mem[e].todo \ {b}, !.failed = TRUE]
      <4>3. m \in Memory
        BY <1>0, <4>2, MemoryUpdates
      <4>4. mem' = [mem EXCEPT ![e] = m]
        BY <4>1
      <4> HIDE DEF m
      <4> QED BY <4>3, <4>4, PutTyped
    <3> QED BY <1>8, <3>1, <3>2 DEF ProviderError, Typed, Memories, Keep
  <2>5. SingleItem' /\ OneAsset' /\ OneVisit'
    <3>1. pc'[e] \in CommitSteps => \E b \in Assets : mem'[e].item = {b}
      BY <1>8, ProviderErrorEffect DEF CommitSteps, Guarded, SameItem
    <3>2. journal'[e].state = "committing" => \E b \in Assets : journal'[e].destination = {b}
      BY <1>8, ProviderErrorEffect DEF Typed, OneAsset, disk
    <3> QED BY <2>2, <3>1, <3>2, OnesKept
  <2> QED BY <2>3, <2>4, <2>5 DEF Typed
<1>9. CASE Sweep(e)
  <2>1. \A i \in {mem[e].item} : i \subseteq Assets
    BY <1>0 DEF Memory
  <2>2. Moves(e)
    BY <1>9, SweepEffect
  <2>3. Disks'
    <3>1. dest' \in [Assets -> Contents] /\ backup' \in [Importers -> [Assets -> Contents]]
      BY <1>9, <1>0, <2>1 DEF Sweep, Typed, Disks, Memories, Memory, disk, Contents
    <3>2. journal' \in [Importers -> Journals]
      BY <1>9, <1>0, UpdateTyped, WriteTyped, JournalUpdates DEF Sweep, Typed, Disks, Memories, Memory, disk, Journals, States
    <3>3. quarantine' \in [Importers -> BOOLEAN] /\ received' \in [Importers -> BOOLEAN]
      BY <1>9 DEF Sweep, Typed, Disks, disk
    <3>4. lock' \in [Assets -> SUBSET Importers]
      BY <1>9, <2>1 DEF Sweep, Typed, Disks, disk
    <3> QED BY <3>1, <3>2, <3>3, <3>4 DEF Disks
  <2>4. Memories'
    <3>1. pc' \in [Procs -> Steps]
      BY <1>9, <1>0, GotoTyped, FailsTyped DEF Sweep, Typed, Memories, Steps
    <3>2. mem' \in [Importers -> Memory]
      BY <1>9 DEF Sweep, Typed, Memories
    <3> QED BY <1>9, <3>1, <3>2 DEF Sweep, Typed, Memories, Keep
  <2>5. SingleItem' /\ OneAsset' /\ OneVisit'
    <3>1. pc'[e] \in CommitSteps => \E b \in Assets : mem'[e].item = {b}
      BY <1>9, SweepEffect DEF CommitSteps, Guarded, SameItem
    <3>2. journal'[e].state = "committing" => \E b \in Assets : journal'[e].destination = {b}
      BY <1>9, SweepEffect DEF Typed, OneAsset, disk
    <3> QED BY <2>2, <3>1, <3>2, OnesKept
  <2> QED BY <2>3, <2>4, <2>5 DEF Typed
<1>10. CASE Terminal(e)
  <2>1. \A i \in {mem[e].item} : i \subseteq Assets
    BY <1>0 DEF Memory
  <2>2. Moves(e)
    BY <1>10, TerminalEffect
  <2>3. Disks'
    <3>1. dest' \in [Assets -> Contents] /\ backup' \in [Importers -> [Assets -> Contents]]
      BY <1>10, <1>0, <2>1 DEF Terminal, Typed, Disks, Memories, Memory, disk, Contents
    <3>2. journal' \in [Importers -> Journals]
      <4>1. [NoJournal EXCEPT !.state = IF mem[e].failed THEN "failed" ELSE "complete"] \in Journals
        BY <1>0, JournalUpdates DEF States
      <4> QED BY <1>10, <4>1, WriteTyped DEF Terminal
    <3>3. quarantine' \in [Importers -> BOOLEAN] /\ received' \in [Importers -> BOOLEAN]
      BY <1>10 DEF Terminal, Typed, Disks, disk
    <3>4. lock' \in [Assets -> SUBSET Importers]
      BY <1>10, <2>1 DEF Terminal, Typed, Disks, disk
    <3> QED BY <3>1, <3>2, <3>3, <3>4 DEF Disks
  <2>4. Memories'
    <3>1. pc' \in [Procs -> Steps]
      BY <1>10, <1>0, GotoTyped, FailsTyped DEF Terminal, Typed, Memories, Steps
    <3>2. mem' \in [Importers -> Memory]
      <4>1. [NoJournal EXCEPT !.state = IF mem[e].failed THEN "failed" ELSE "complete"] \in Journals
        BY <1>0, JournalUpdates DEF States
      <4> QED BY <1>10, <4>1, WriteTyped DEF Terminal
    <3> QED BY <1>10, <3>1, <3>2 DEF Terminal, Typed, Memories, Keep
  <2>5. SingleItem' /\ OneAsset' /\ OneVisit'
    <3>1. pc'[e] \in CommitSteps => \E b \in Assets : mem'[e].item = {b}
      BY <1>10, TerminalEffect DEF CommitSteps, Guarded, SameItem
    <3>2. journal'[e].state = "committing" => \E b \in Assets : journal'[e].destination = {b}
      BY <1>10, TerminalEffect DEF Typed, OneAsset, disk
    <3> QED BY <2>2, <3>1, <3>2, OnesKept
  <2> QED BY <2>3, <2>4, <2>5 DEF Typed
<1>11. CASE AcquireLock(e)
  <2>0. PICK a \in Assets : mem[e].item = {a}
    BY <1>11, AnItem DEF AcquireLock, CommitSteps, Guarded, Unguarded
  <2>1. Item(e) = a
    BY <2>0, ItemIs
  <2>2. Moves(e)
    BY <1>11, <2>0, AcquireLockEffect
  <2>3. Disks'
    <3>1. dest' \in [Assets -> Contents] /\ backup' \in [Importers -> [Assets -> Contents]]
      BY <1>11, <1>0, <2>1 DEF AcquireLock, Typed, Disks, Memories, Memory, disk, Contents
    <3>2. journal' \in [Importers -> Journals]
      BY <1>11, <1>0, UpdateTyped, WriteTyped, JournalUpdates DEF AcquireLock, Typed, Disks, Memories, Memory, disk, Journals, States
    <3>3. quarantine' \in [Importers -> BOOLEAN] /\ received' \in [Importers -> BOOLEAN]
      BY <1>11 DEF AcquireLock, Typed, Disks, disk
    <3>4. lock' \in [Assets -> SUBSET Importers]
      BY <1>11, <2>1 DEF AcquireLock, Typed, Disks, disk
    <3> QED BY <3>1, <3>2, <3>3, <3>4 DEF Disks
  <2>4. Memories'
    <3>1. pc' \in [Procs -> Steps]
      BY <1>11, <1>0, GotoTyped, FailsTyped DEF AcquireLock, Typed, Memories, Steps
    <3>2. mem' \in [Importers -> Memory]
      BY <1>11 DEF AcquireLock, Typed, Memories
    <3> QED BY <1>11, <3>1, <3>2 DEF AcquireLock, Typed, Memories, Keep
  <2>5. SingleItem' /\ OneAsset' /\ OneVisit'
    <3>1. pc'[e] \in CommitSteps => \E b \in Assets : mem'[e].item = {b}
      BY <1>11, <2>0, AcquireLockEffect DEF CommitSteps, Guarded, SameItem
    <3>2. journal'[e].state = "committing" => \E b \in Assets : journal'[e].destination = {b}
      BY <1>11, <2>0, AcquireLockEffect DEF Typed, OneAsset, disk
    <3> QED BY <2>2, <3>1, <3>2, OnesKept
  <2> QED BY <2>3, <2>4, <2>5 DEF Typed
<1>12. CASE AssetBusy(e)
  <2>1. \A i \in {mem[e].item} : i \subseteq Assets
    BY <1>0 DEF Memory
  <2>2. Moves(e)
    BY <1>12, AssetBusyEffect
  <2>3. Disks'
    <3>1. dest' \in [Assets -> Contents] /\ backup' \in [Importers -> [Assets -> Contents]]
      BY <1>12, <1>0, <2>1 DEF AssetBusy, Typed, Disks, Memories, Memory, disk, Contents
    <3>2. journal' \in [Importers -> Journals]
      BY <1>12, <1>0, UpdateTyped, WriteTyped, JournalUpdates DEF AssetBusy, Typed, Disks, Memories, Memory, disk, Journals, States
    <3>3. quarantine' \in [Importers -> BOOLEAN] /\ received' \in [Importers -> BOOLEAN]
      BY <1>12 DEF AssetBusy, Typed, Disks, disk
    <3>4. lock' \in [Assets -> SUBSET Importers]
      BY <1>12, <2>1 DEF AssetBusy, Typed, Disks, disk
    <3> QED BY <3>1, <3>2, <3>3, <3>4 DEF Disks
  <2>4. Memories'
    <3>1. pc' \in [Procs -> Steps]
      BY <1>12, <1>0, GotoTyped, FailsTyped DEF AssetBusy, Typed, Memories, Steps
    <3>2. mem' \in [Importers -> Memory]
      BY <1>12, FailedTyped DEF AssetBusy
    <3> QED BY <1>12, <3>1, <3>2 DEF AssetBusy, Typed, Memories, Keep
  <2>5. SingleItem' /\ OneAsset' /\ OneVisit'
    <3>1. pc'[e] \in CommitSteps => \E b \in Assets : mem'[e].item = {b}
      BY <1>12, AssetBusyEffect DEF CommitSteps, Guarded, SameItem
    <3>2. journal'[e].state = "committing" => \E b \in Assets : journal'[e].destination = {b}
      BY <1>12, AssetBusyEffect DEF Typed, OneAsset, disk
    <3> QED BY <2>2, <3>1, <3>2, OnesKept
  <2> QED BY <2>3, <2>4, <2>5 DEF Typed
<1>13. CASE Decide(e)
  <2>0. PICK a \in Assets : mem[e].item = {a}
    BY <1>13, AnItem DEF Decide, CommitSteps, Guarded, Unguarded
  <2>1. Item(e) = a
    BY <2>0, ItemIs
  <2>2. Moves(e)
    BY <1>13, <2>0, DecideEffect
  <2>3. Disks'
    <3>1. dest' \in [Assets -> Contents] /\ backup' \in [Importers -> [Assets -> Contents]]
      BY <1>13, <1>0, <2>1 DEF Decide, Typed, Disks, Memories, Memory, disk, Contents
    <3>2. journal' \in [Importers -> Journals]
      BY <1>13, <1>0, UpdateTyped, WriteTyped, JournalUpdates DEF Decide, Typed, Disks, Memories, Memory, disk, Journals, States
    <3>3. quarantine' \in [Importers -> BOOLEAN] /\ received' \in [Importers -> BOOLEAN]
      BY <1>13 DEF Decide, Typed, Disks, disk
    <3>4. lock' \in [Assets -> SUBSET Importers]
      BY <1>13, <2>1 DEF Decide, Typed, Disks, disk
    <3> QED BY <3>1, <3>2, <3>3, <3>4 DEF Disks
  <2>4. Memories'
    <3>1. pc' \in [Procs -> Steps]
      BY <1>13, <1>0, GotoTyped, FailsTyped DEF Decide, Typed, Memories, Steps
    <3>2. mem' \in [Importers -> Memory]
      <4>1. CASE UNCHANGED mem \/ ItemFails(e)
        BY <4>1, FailsTyped DEF Typed, Memories
      <4>2. CASE mem' = [mem EXCEPT ![e].stage = [files |-> New(e), prov |-> dest[a].prov]]
        <5>1. [files |-> New(e), prov |-> dest[a].prov] \in Contents
          BY Constants DEF Contents, New, Typed, Disks
        <5>2. [mem[e] EXCEPT !.stage = [files |-> New(e), prov |-> dest[a].prov]] \in Memory
          BY <1>0, <5>1, MemoryUpdates
        <5> QED BY <4>2, <5>2, PutTyped
      <4> QED BY <1>13, <2>1, <4>1, <4>2 DEF Decide
    <3> QED BY <1>13, <3>1, <3>2 DEF Decide, Typed, Memories, Keep
  <2>5. SingleItem' /\ OneAsset' /\ OneVisit'
    <3>1. pc'[e] \in CommitSteps => \E b \in Assets : mem'[e].item = {b}
      BY <1>13, <2>0, DecideEffect DEF CommitSteps, Guarded, SameItem
    <3>2. journal'[e].state = "committing" => \E b \in Assets : journal'[e].destination = {b}
      BY <1>13, <2>0, DecideEffect DEF Typed, OneAsset, disk
    <3> QED BY <2>2, <3>1, <3>2, OnesKept
  <2> QED BY <2>3, <2>4, <2>5 DEF Typed
<1>14. CASE Reuse(e)
  <2>0. PICK a \in Assets : mem[e].item = {a}
    BY <1>14, AnItem DEF Reuse, CommitSteps, Guarded, Unguarded
  <2>1. Item(e) = a
    BY <2>0, ItemIs
  <2>2. Moves(e)
    BY <1>14, <2>0, ReuseEffect
  <2>3. Disks'
    <3>1. dest' \in [Assets -> Contents] /\ backup' \in [Importers -> [Assets -> Contents]]
      BY <1>14, <1>0, <2>1 DEF Reuse, Typed, Disks, Memories, Memory, disk, Contents
    <3>2. journal' \in [Importers -> Journals]
      BY <1>14, <1>0, UpdateTyped, WriteTyped, JournalUpdates DEF Reuse, Typed, Disks, Memories, Memory, disk, Journals, States
    <3>3. quarantine' \in [Importers -> BOOLEAN] /\ received' \in [Importers -> BOOLEAN]
      BY <1>14 DEF Reuse, Typed, Disks, disk
    <3>4. lock' \in [Assets -> SUBSET Importers]
      BY <1>14, <2>1 DEF Reuse, Typed, Disks, disk
    <3> QED BY <3>1, <3>2, <3>3, <3>4 DEF Disks
  <2>4. Memories'
    <3>1. pc' \in [Procs -> Steps]
      BY <1>14, <1>0, GotoTyped, FailsTyped DEF Reuse, Typed, Memories, Steps
    <3>2. mem' \in [Importers -> Memory]
      BY <1>14, UpdateTyped, FailsTyped DEF Reuse, States
    <3> QED BY <1>14, <3>1, <3>2 DEF Reuse, Typed, Memories, Keep
  <2>5. SingleItem' /\ OneAsset' /\ OneVisit'
    <3>1. pc'[e] \in CommitSteps => \E b \in Assets : mem'[e].item = {b}
      BY <1>14, <2>0, ReuseEffect DEF CommitSteps, Guarded, SameItem
    <3>2. journal'[e].state = "committing" => \E b \in Assets : journal'[e].destination = {b}
      BY <1>14, <2>0, ReuseEffect DEF Typed, OneAsset, disk
    <3> QED BY <2>2, <3>1, <3>2, OnesKept
  <2> QED BY <2>3, <2>4, <2>5 DEF Typed
<1>15. CASE Mark(e)
  <2>0. PICK a \in Assets : mem[e].item = {a}
    BY <1>15, AnItem DEF Mark, CommitSteps, Guarded, Unguarded
  <2>1. Item(e) = a
    BY <2>0, ItemIs
  <2>2. Moves(e)
    BY <1>15, <2>0, MarkEffect
  <2>3. Disks'
    <3>1. dest' \in [Assets -> Contents] /\ backup' \in [Importers -> [Assets -> Contents]]
      BY <1>15, <1>0, <2>1 DEF Mark, Typed, Disks, Memories, Memory, disk, Contents
    <3>2. journal' \in [Importers -> Journals]
      BY <1>15, <1>0, UpdateTyped, WriteTyped, JournalUpdates DEF Mark, Typed, Disks, Memories, Memory, disk, Journals, States
    <3>3. quarantine' \in [Importers -> BOOLEAN] /\ received' \in [Importers -> BOOLEAN]
      BY <1>15 DEF Mark, Typed, Disks, disk
    <3>4. lock' \in [Assets -> SUBSET Importers]
      BY <1>15, <2>1 DEF Mark, Typed, Disks, disk
    <3> QED BY <3>1, <3>2, <3>3, <3>4 DEF Disks
  <2>4. Memories'
    <3>1. pc' \in [Procs -> Steps]
      BY <1>15, <1>0, GotoTyped, FailsTyped DEF Mark, Typed, Memories, Steps
    <3>2. mem' \in [Importers -> Memory]
      <4>1. [state |-> "committing", destination |-> mem[e].item, saved |-> dest[Item(e)] # Nothing] \in Journals
        BY <2>0 DEF Journals, States
      <4> QED BY <1>15, <4>1, WriteTyped DEF Mark
    <3> QED BY <1>15, <3>1, <3>2 DEF Mark, Typed, Memories, Keep
  <2>5. SingleItem' /\ OneAsset' /\ OneVisit'
    <3>1. pc'[e] \in CommitSteps => \E b \in Assets : mem'[e].item = {b}
      BY <1>15, <2>0, MarkEffect DEF CommitSteps, Guarded, SameItem
    <3>2. journal'[e].state = "committing" => \E b \in Assets : journal'[e].destination = {b}
      BY <1>15, <2>0, MarkEffect DEF Typed, OneAsset, disk
    <3> QED BY <2>2, <3>1, <3>2, OnesKept
  <2> QED BY <2>3, <2>4, <2>5 DEF Typed
<1>16. CASE Aside(e)
  <2>0. PICK a \in Assets : mem[e].item = {a}
    BY <1>16, AnItem DEF Aside, CommitSteps, Guarded, Unguarded
  <2>1. Item(e) = a
    BY <2>0, ItemIs
  <2>2. Moves(e)
    BY <1>16, <2>0, AsideEffect
  <2>3. Disks'
    <3>1. dest' \in [Assets -> Contents] /\ backup' \in [Importers -> [Assets -> Contents]]
      <4>1. CASE dest[a] = Nothing
        BY <1>16, <2>1, <4>1 DEF Aside, Typed, Disks
      <4>2. CASE dest[a] # Nothing
        <5>1. dest' = [dest EXCEPT ![a] = Nothing] /\ backup' = [backup EXCEPT ![e][a] = dest[a]]
          BY <1>16, <2>1, <4>2 DEF Aside
        <5> QED BY <1>0, <5>1 DEF Typed, Disks
      <4> QED BY <4>1, <4>2
    <3>2. journal' \in [Importers -> Journals]
      BY <1>16, <1>0, UpdateTyped, WriteTyped, JournalUpdates DEF Aside, Typed, Disks, Memories, Memory, disk, Journals, States
    <3>3. quarantine' \in [Importers -> BOOLEAN] /\ received' \in [Importers -> BOOLEAN]
      BY <1>16 DEF Aside, Typed, Disks, disk
    <3>4. lock' \in [Assets -> SUBSET Importers]
      BY <1>16, <2>1 DEF Aside, Typed, Disks, disk
    <3> QED BY <3>1, <3>2, <3>3, <3>4 DEF Disks
  <2>4. Memories'
    <3>1. pc' \in [Procs -> Steps]
      BY <1>16, <1>0, GotoTyped, FailsTyped DEF Aside, Typed, Memories, Steps
    <3>2. mem' \in [Importers -> Memory]
      BY <1>16 DEF Aside, Typed, Memories
    <3> QED BY <1>16, <3>1, <3>2 DEF Aside, Typed, Memories, Keep
  <2>5. SingleItem' /\ OneAsset' /\ OneVisit'
    <3>1. pc'[e] \in CommitSteps => \E b \in Assets : mem'[e].item = {b}
      BY <1>16, <2>0, AsideEffect DEF CommitSteps, Guarded, SameItem
    <3>2. journal'[e].state = "committing" => \E b \in Assets : journal'[e].destination = {b}
      BY <1>16, <2>0, AsideEffect DEF Typed, OneAsset, disk
    <3> QED BY <2>2, <3>1, <3>2, OnesKept
  <2> QED BY <2>3, <2>4, <2>5 DEF Typed
<1>17. CASE Place(e)
  <2>0. PICK a \in Assets : mem[e].item = {a}
    BY <1>17, AnItem DEF Place, CommitSteps, Guarded, Unguarded
  <2>1. Item(e) = a
    BY <2>0, ItemIs
  <2>2. Moves(e)
    BY <1>17, <2>0, PlaceEffect
  <2>3. Disks'
    <3>1. dest' \in [Assets -> Contents] /\ backup' \in [Importers -> [Assets -> Contents]]
      BY <1>17, <1>0, <2>1 DEF Place, Typed, Disks, Memories, Memory, disk, Contents
    <3>2. journal' \in [Importers -> Journals]
      BY <1>17, <1>0, UpdateTyped, WriteTyped, JournalUpdates DEF Place, Typed, Disks, Memories, Memory, disk, Journals, States
    <3>3. quarantine' \in [Importers -> BOOLEAN] /\ received' \in [Importers -> BOOLEAN]
      BY <1>17 DEF Place, Typed, Disks, disk
    <3>4. lock' \in [Assets -> SUBSET Importers]
      BY <1>17, <2>1 DEF Place, Typed, Disks, disk
    <3> QED BY <3>1, <3>2, <3>3, <3>4 DEF Disks
  <2>4. Memories'
    <3>1. pc' \in [Procs -> Steps]
      BY <1>17, <1>0, GotoTyped, FailsTyped DEF Place, Typed, Memories, Steps
    <3>2. mem' \in [Importers -> Memory]
      BY <1>17, FailsTyped DEF Place, Typed, Memories
    <3> QED BY <1>17, <3>1, <3>2 DEF Place, Typed, Memories, Keep
  <2>5. SingleItem' /\ OneAsset' /\ OneVisit'
    <3>1. pc'[e] \in CommitSteps => \E b \in Assets : mem'[e].item = {b}
      BY <1>17, <2>0, PlaceEffect DEF CommitSteps, Guarded, SameItem
    <3>2. journal'[e].state = "committing" => \E b \in Assets : journal'[e].destination = {b}
      BY <1>17, <2>0, PlaceEffect DEF Typed, OneAsset, disk
    <3> QED BY <2>2, <3>1, <3>2, OnesKept
  <2> QED BY <2>3, <2>4, <2>5 DEF Typed
<1>18. CASE Engine(e)
  <2>0. PICK a \in Assets : mem[e].item = {a}
    BY <1>18, AnItem DEF Engine, CommitSteps, Guarded, Unguarded
  <2>1. Item(e) = a
    BY <2>0, ItemIs
  <2>2. Moves(e)
    BY <1>18, <2>0, EngineEffect
  <2>3. Disks'
    <3>1. dest' \in [Assets -> Contents] /\ backup' \in [Importers -> [Assets -> Contents]]
      BY <1>18, <1>0, <2>1 DEF Engine, Typed, Disks, Memories, Memory, disk, Contents
    <3>2. journal' \in [Importers -> Journals]
      BY <1>18, <1>0, UpdateTyped, WriteTyped, JournalUpdates DEF Engine, Typed, Disks, Memories, Memory, disk, Journals, States
    <3>3. quarantine' \in [Importers -> BOOLEAN] /\ received' \in [Importers -> BOOLEAN]
      BY <1>18 DEF Engine, Typed, Disks, disk
    <3>4. lock' \in [Assets -> SUBSET Importers]
      BY <1>18, <2>1 DEF Engine, Typed, Disks, disk
    <3> QED BY <3>1, <3>2, <3>3, <3>4 DEF Disks
  <2>4. Memories'
    <3>1. pc' \in [Procs -> Steps]
      BY <1>18, <1>0, GotoTyped, FailsTyped DEF Engine, Typed, Memories, Steps
    <3>2. mem' \in [Importers -> Memory]
      BY <1>18 DEF Engine, Typed, Memories
    <3> QED BY <1>18, <3>1, <3>2 DEF Engine, Typed, Memories, Keep
  <2>5. SingleItem' /\ OneAsset' /\ OneVisit'
    <3>1. pc'[e] \in CommitSteps => \E b \in Assets : mem'[e].item = {b}
      BY <1>18, <2>0, EngineEffect DEF CommitSteps, Guarded, SameItem
    <3>2. journal'[e].state = "committing" => \E b \in Assets : journal'[e].destination = {b}
      BY <1>18, <2>0, EngineEffect DEF Typed, OneAsset, disk
    <3> QED BY <2>2, <3>1, <3>2, OnesKept
  <2> QED BY <2>3, <2>4, <2>5 DEF Typed
<1>19. CASE WriteProvenance(e)
  <2>0. PICK a \in Assets : mem[e].item = {a}
    BY <1>19, AnItem DEF WriteProvenance, CommitSteps, Guarded, Unguarded
  <2>1. Item(e) = a
    BY <2>0, ItemIs
  <2>2. Moves(e)
    BY <1>19, <2>0, WriteProvenanceEffect
  <2>3. Disks'
    <3>1. dest' \in [Assets -> Contents] /\ backup' \in [Importers -> [Assets -> Contents]]
      <4>1. dest' = [dest EXCEPT ![a].prov = New(e)] /\ backup' = backup
        BY <1>19, <2>1 DEF WriteProvenance
      <4>2. dest[a] \in Contents /\ New(e) \in Versions
        BY Constants DEF Typed, Disks, New
      <4>3. [dest[a] EXCEPT !.prov = New(e)] = [files |-> dest[a].files, prov |-> New(e)]
        BY <4>2, ProvenanceUpdate
      <4>4. [dest[a] EXCEPT !.prov = New(e)] \in Contents
        BY <4>2, <4>3 DEF Contents
      <4>5. dest' = [dest EXCEPT ![a] = [dest[a] EXCEPT !.prov = New(e)]]
        BY <4>1
      <4> QED BY <4>1, <4>4, <4>5 DEF Typed, Disks
    <3>2. journal' \in [Importers -> Journals]
      BY <1>19, <1>0, UpdateTyped, WriteTyped, JournalUpdates DEF WriteProvenance, Typed, Disks, Memories, Memory, disk, Journals, States
    <3>3. quarantine' \in [Importers -> BOOLEAN] /\ received' \in [Importers -> BOOLEAN]
      BY <1>19 DEF WriteProvenance, Typed, Disks, disk
    <3>4. lock' \in [Assets -> SUBSET Importers]
      BY <1>19, <2>1 DEF WriteProvenance, Typed, Disks, disk
    <3> QED BY <3>1, <3>2, <3>3, <3>4 DEF Disks
  <2>4. Memories'
    <3>1. pc' \in [Procs -> Steps]
      BY <1>19, <1>0, GotoTyped, FailsTyped DEF WriteProvenance, Typed, Memories, Steps
    <3>2. mem' \in [Importers -> Memory]
      BY <1>19 DEF WriteProvenance, Typed, Memories
    <3> QED BY <1>19, <3>1, <3>2 DEF WriteProvenance, Typed, Memories, Keep
  <2>5. SingleItem' /\ OneAsset' /\ OneVisit'
    <3>1. pc'[e] \in CommitSteps => \E b \in Assets : mem'[e].item = {b}
      BY <1>19, <2>0, WriteProvenanceEffect DEF CommitSteps, Guarded, SameItem
    <3>2. journal'[e].state = "committing" => \E b \in Assets : journal'[e].destination = {b}
      BY <1>19, <2>0, WriteProvenanceEffect DEF Typed, OneAsset, disk
    <3> QED BY <2>2, <3>1, <3>2, OnesKept
  <2> QED BY <2>3, <2>4, <2>5 DEF Typed
<1>20. CASE EngineVerified(e)
  <2>0. PICK a \in Assets : mem[e].item = {a}
    BY <1>20, AnItem DEF EngineVerified, CommitSteps, Guarded, Unguarded
  <2>1. Item(e) = a
    BY <2>0, ItemIs
  <2>2. Moves(e)
    BY <1>20, <2>0, EngineVerifiedEffect
  <2>3. Disks'
    <3>1. dest' \in [Assets -> Contents] /\ backup' \in [Importers -> [Assets -> Contents]]
      BY <1>20, <1>0, <2>1 DEF EngineVerified, Typed, Disks, Memories, Memory, disk, Contents
    <3>2. journal' \in [Importers -> Journals]
      BY <1>20, <1>0, UpdateTyped, WriteTyped, JournalUpdates DEF EngineVerified, Typed, Disks, Memories, Memory, disk, Journals, States
    <3>3. quarantine' \in [Importers -> BOOLEAN] /\ received' \in [Importers -> BOOLEAN]
      BY <1>20 DEF EngineVerified, Typed, Disks, disk
    <3>4. lock' \in [Assets -> SUBSET Importers]
      BY <1>20, <2>1 DEF EngineVerified, Typed, Disks, disk
    <3> QED BY <3>1, <3>2, <3>3, <3>4 DEF Disks
  <2>4. Memories'
    <3>1. pc' \in [Procs -> Steps]
      BY <1>20, <1>0, GotoTyped, FailsTyped DEF EngineVerified, Typed, Memories, Steps
    <3>2. mem' \in [Importers -> Memory]
      BY <1>20, UpdateTyped DEF EngineVerified, States
    <3> QED BY <1>20, <3>1, <3>2 DEF EngineVerified, Typed, Memories, Keep
  <2>5. SingleItem' /\ OneAsset' /\ OneVisit'
    <3>1. pc'[e] \in CommitSteps => \E b \in Assets : mem'[e].item = {b}
      BY <1>20, <2>0, EngineVerifiedEffect DEF CommitSteps, Guarded, SameItem
    <3>2. journal'[e].state = "committing" => \E b \in Assets : journal'[e].destination = {b}
      BY <1>20, <2>0, EngineVerifiedEffect DEF Typed, OneAsset, disk
    <3> QED BY <2>2, <3>1, <3>2, OnesKept
  <2> QED BY <2>3, <2>4, <2>5 DEF Typed
<1>21. CASE DropBackup(e)
  <2>0. PICK a \in Assets : mem[e].item = {a}
    BY <1>21, AnItem DEF DropBackup, CommitSteps, Guarded, Unguarded
  <2>1. Item(e) = a
    BY <2>0, ItemIs
  <2>2. Moves(e)
    BY <1>21, <2>0, DropBackupEffect
  <2>3. Disks'
    <3>1. dest' \in [Assets -> Contents] /\ backup' \in [Importers -> [Assets -> Contents]]
      BY <1>21, <1>0, <2>1 DEF DropBackup, Typed, Disks, Memories, Memory, disk, Contents
    <3>2. journal' \in [Importers -> Journals]
      BY <1>21, <1>0, UpdateTyped, WriteTyped, JournalUpdates DEF DropBackup, Typed, Disks, Memories, Memory, disk, Journals, States
    <3>3. quarantine' \in [Importers -> BOOLEAN] /\ received' \in [Importers -> BOOLEAN]
      BY <1>21 DEF DropBackup, Typed, Disks, disk
    <3>4. lock' \in [Assets -> SUBSET Importers]
      BY <1>21, <2>1 DEF DropBackup, Typed, Disks, disk
    <3> QED BY <3>1, <3>2, <3>3, <3>4 DEF Disks
  <2>4. Memories'
    <3>1. pc' \in [Procs -> Steps]
      BY <1>21, <1>0, GotoTyped, FailsTyped DEF DropBackup, Typed, Memories, Steps
    <3>2. mem' \in [Importers -> Memory]
      BY <1>21 DEF DropBackup, Typed, Memories
    <3> QED BY <1>21, <3>1, <3>2 DEF DropBackup, Typed, Memories, Keep
  <2>5. SingleItem' /\ OneAsset' /\ OneVisit'
    <3>1. pc'[e] \in CommitSteps => \E b \in Assets : mem'[e].item = {b}
      BY <1>21, <2>0, DropBackupEffect DEF CommitSteps, Guarded, SameItem
    <3>2. journal'[e].state = "committing" => \E b \in Assets : journal'[e].destination = {b}
      BY <1>21, <2>0, DropBackupEffect DEF Typed, OneAsset, disk
    <3> QED BY <2>2, <3>1, <3>2, OnesKept
  <2> QED BY <2>3, <2>4, <2>5 DEF Typed
<1>22. CASE Committed(e)
  <2>0. PICK a \in Assets : mem[e].item = {a}
    BY <1>22, AnItem DEF Committed, CommitSteps, Guarded, Unguarded
  <2>1. Item(e) = a
    BY <2>0, ItemIs
  <2>2. Moves(e)
    BY <1>22, <2>0, CommittedEffect
  <2>3. Disks'
    <3>1. dest' \in [Assets -> Contents] /\ backup' \in [Importers -> [Assets -> Contents]]
      BY <1>22, <1>0, <2>1 DEF Committed, Typed, Disks, Memories, Memory, disk, Contents
    <3>2. journal' \in [Importers -> Journals]
      BY <1>22, <1>0, UpdateTyped, WriteTyped, JournalUpdates DEF Committed, Typed, Disks, Memories, Memory, disk, Journals, States
    <3>3. quarantine' \in [Importers -> BOOLEAN] /\ received' \in [Importers -> BOOLEAN]
      BY <1>22 DEF Committed, Typed, Disks, disk
    <3>4. lock' \in [Assets -> SUBSET Importers]
      BY <1>22, <2>1 DEF Committed, Typed, Disks, disk
    <3> QED BY <3>1, <3>2, <3>3, <3>4 DEF Disks
  <2>4. Memories'
    <3>1. pc' \in [Procs -> Steps]
      BY <1>22, <1>0, GotoTyped, FailsTyped DEF Committed, Typed, Memories, Steps
    <3>2. mem' \in [Importers -> Memory]
      BY <1>22, UpdateTyped DEF Committed, States
    <3> QED BY <1>22, <3>1, <3>2 DEF Committed, Typed, Memories, Keep
  <2>5. SingleItem' /\ OneAsset' /\ OneVisit'
    <3>1. pc'[e] \in CommitSteps => \E b \in Assets : mem'[e].item = {b}
      BY <1>22, <2>0, CommittedEffect DEF CommitSteps, Guarded, SameItem
    <3>2. journal'[e].state = "committing" => \E b \in Assets : journal'[e].destination = {b}
      BY <1>22, <2>0, CommittedEffect DEF Typed, OneAsset, disk
    <3> QED BY <2>2, <3>1, <3>2, OnesKept
  <2> QED BY <2>3, <2>4, <2>5 DEF Typed
<1>23. CASE UndoRemove(e)
  <2>0. PICK a \in Assets : mem[e].item = {a}
    BY <1>23, AnItem DEF UndoRemove, CommitSteps, Guarded, Unguarded
  <2>1. Item(e) = a
    BY <2>0, ItemIs
  <2>2. Moves(e)
    BY <1>23, <2>0, UndoRemoveEffect
  <2>3. Disks'
    <3>1. dest' \in [Assets -> Contents] /\ backup' \in [Importers -> [Assets -> Contents]]
      BY <1>23, <1>0, <2>1 DEF UndoRemove, Typed, Disks, Memories, Memory, disk, Contents
    <3>2. journal' \in [Importers -> Journals]
      BY <1>23, <1>0, UpdateTyped, WriteTyped, JournalUpdates DEF UndoRemove, Typed, Disks, Memories, Memory, disk, Journals, States
    <3>3. quarantine' \in [Importers -> BOOLEAN] /\ received' \in [Importers -> BOOLEAN]
      BY <1>23 DEF UndoRemove, Typed, Disks, disk
    <3>4. lock' \in [Assets -> SUBSET Importers]
      BY <1>23, <2>1 DEF UndoRemove, Typed, Disks, disk
    <3> QED BY <3>1, <3>2, <3>3, <3>4 DEF Disks
  <2>4. Memories'
    <3>1. pc' \in [Procs -> Steps]
      BY <1>23, <1>0, GotoTyped, FailsTyped DEF UndoRemove, Typed, Memories, Steps
    <3>2. mem' \in [Importers -> Memory]
      BY <1>23 DEF UndoRemove, Typed, Memories
    <3> QED BY <1>23, <3>1, <3>2 DEF UndoRemove, Typed, Memories, Keep
  <2>5. SingleItem' /\ OneAsset' /\ OneVisit'
    <3>1. pc'[e] \in CommitSteps => \E b \in Assets : mem'[e].item = {b}
      BY <1>23, <2>0, UndoRemoveEffect DEF CommitSteps, Guarded, SameItem
    <3>2. journal'[e].state = "committing" => \E b \in Assets : journal'[e].destination = {b}
      BY <1>23, <2>0, UndoRemoveEffect DEF Typed, OneAsset, disk
    <3> QED BY <2>2, <3>1, <3>2, OnesKept
  <2> QED BY <2>3, <2>4, <2>5 DEF Typed
<1>24. CASE UndoRestore(e)
  <2>0. PICK a \in Assets : mem[e].item = {a}
    BY <1>24, AnItem DEF UndoRestore, CommitSteps, Guarded, Unguarded
  <2>1. Item(e) = a
    BY <2>0, ItemIs
  <2>2. Moves(e)
    BY <1>24, <2>0, UndoRestoreEffect
  <2>3. Disks'
    <3>1. dest' \in [Assets -> Contents] /\ backup' \in [Importers -> [Assets -> Contents]]
      <4>1. CASE UNCHANGED <<dest, backup>>
        BY <4>1 DEF Typed, Disks
      <4>2. CASE dest' = [dest EXCEPT ![a] = backup[e][a]] /\ backup' = [backup EXCEPT ![e][a] = Nothing]
        <5>1. backup[e][a] \in Contents
          BY DEF Typed, Disks
        <5> QED BY <1>0, <4>2, <5>1 DEF Typed, Disks
      <4> QED BY <1>24, <2>1, <4>1, <4>2 DEF UndoRestore
    <3>2. journal' \in [Importers -> Journals]
      BY <1>24, <1>0, UpdateTyped, WriteTyped, JournalUpdates DEF UndoRestore, Typed, Disks, Memories, Memory, disk, Journals, States
    <3>3. quarantine' \in [Importers -> BOOLEAN] /\ received' \in [Importers -> BOOLEAN]
      BY <1>24 DEF UndoRestore, Typed, Disks, disk
    <3>4. lock' \in [Assets -> SUBSET Importers]
      BY <1>24, <2>1 DEF UndoRestore, Typed, Disks, disk
    <3> QED BY <3>1, <3>2, <3>3, <3>4 DEF Disks
  <2>4. Memories'
    <3>1. pc' \in [Procs -> Steps]
      BY <1>24, <1>0, GotoTyped, FailsTyped DEF UndoRestore, Typed, Memories, Steps
    <3>2. mem' \in [Importers -> Memory]
      BY <1>24, FailsTyped DEF UndoRestore, Typed, Memories
    <3> QED BY <1>24, <3>1, <3>2 DEF UndoRestore, Typed, Memories, Keep
  <2>5. SingleItem' /\ OneAsset' /\ OneVisit'
    <3>1. pc'[e] \in CommitSteps => \E b \in Assets : mem'[e].item = {b}
      BY <1>24, <2>0, UndoRestoreEffect DEF CommitSteps, Guarded, SameItem
    <3>2. journal'[e].state = "committing" => \E b \in Assets : journal'[e].destination = {b}
      BY <1>24, <2>0, UndoRestoreEffect DEF Typed, OneAsset, disk
    <3> QED BY <2>2, <3>1, <3>2, OnesKept
  <2> QED BY <2>3, <2>4, <2>5 DEF Typed
<1>25. CASE UndoMark(e)
  <2>0. PICK a \in Assets : mem[e].item = {a}
    BY <1>25, AnItem DEF UndoMark, CommitSteps, Guarded, Unguarded
  <2>1. Item(e) = a
    BY <2>0, ItemIs
  <2>2. Moves(e)
    BY <1>25, <2>0, UndoMarkEffect
  <2>3. Disks'
    <3>1. dest' \in [Assets -> Contents] /\ backup' \in [Importers -> [Assets -> Contents]]
      BY <1>25, <1>0, <2>1 DEF UndoMark, Typed, Disks, Memories, Memory, disk, Contents
    <3>2. journal' \in [Importers -> Journals]
      BY <1>25, <1>0, UpdateTyped, WriteTyped, JournalUpdates DEF UndoMark, Typed, Disks, Memories, Memory, disk, Journals, States
    <3>3. quarantine' \in [Importers -> BOOLEAN] /\ received' \in [Importers -> BOOLEAN]
      BY <1>25 DEF UndoMark, Typed, Disks, disk
    <3>4. lock' \in [Assets -> SUBSET Importers]
      BY <1>25, <2>1 DEF UndoMark, Typed, Disks, disk
    <3> QED BY <3>1, <3>2, <3>3, <3>4 DEF Disks
  <2>4. Memories'
    <3>1. pc' \in [Procs -> Steps]
      BY <1>25, <1>0, GotoTyped, FailsTyped DEF UndoMark, Typed, Memories, Steps
    <3>2. mem' \in [Importers -> Memory]
      BY <1>25, FailsTyped DEF UndoMark
    <3> QED BY <1>25, <3>1, <3>2 DEF UndoMark, Typed, Memories, Keep
  <2>5. SingleItem' /\ OneAsset' /\ OneVisit'
    <3>1. pc'[e] \in CommitSteps => \E b \in Assets : mem'[e].item = {b}
      BY <1>25, <2>0, UndoMarkEffect DEF CommitSteps, Guarded, SameItem
    <3>2. journal'[e].state = "committing" => \E b \in Assets : journal'[e].destination = {b}
      BY <1>25, <2>0, UndoMarkEffect DEF Typed, OneAsset, disk
    <3> QED BY <2>2, <3>1, <3>2, OnesKept
  <2> QED BY <2>3, <2>4, <2>5 DEF Typed
<1>26. CASE ReleaseLock(e)
  <2>0. PICK a \in Assets : mem[e].item = {a}
    BY <1>26, AnItem DEF ReleaseLock, CommitSteps, Guarded, Unguarded
  <2>1. Item(e) = a
    BY <2>0, ItemIs
  <2>2. Moves(e)
    BY <1>26, <2>0, ReleaseLockEffect
  <2>3. Disks'
    <3>1. dest' \in [Assets -> Contents] /\ backup' \in [Importers -> [Assets -> Contents]]
      BY <1>26, <1>0, <2>1 DEF ReleaseLock, Typed, Disks, Memories, Memory, disk, Contents
    <3>2. journal' \in [Importers -> Journals]
      BY <1>26, <1>0, UpdateTyped, WriteTyped, JournalUpdates DEF ReleaseLock, Typed, Disks, Memories, Memory, disk, Journals, States
    <3>3. quarantine' \in [Importers -> BOOLEAN] /\ received' \in [Importers -> BOOLEAN]
      BY <1>26 DEF ReleaseLock, Typed, Disks, disk
    <3>4. lock' \in [Assets -> SUBSET Importers]
      BY <1>26, <2>1 DEF ReleaseLock, Typed, Disks, disk
    <3> QED BY <3>1, <3>2, <3>3, <3>4 DEF Disks
  <2>4. Memories'
    <3>1. pc' \in [Procs -> Steps]
      BY <1>26, <1>0, GotoTyped, FailsTyped DEF ReleaseLock, Typed, Memories, Steps
    <3>2. mem' \in [Importers -> Memory]
      BY <1>26 DEF ReleaseLock, Typed, Memories
    <3> QED BY <1>26, <3>1, <3>2 DEF ReleaseLock, Typed, Memories, Keep
  <2>5. SingleItem' /\ OneAsset' /\ OneVisit'
    <3>1. pc'[e] \in CommitSteps => \E b \in Assets : mem'[e].item = {b}
      BY <1>26, <2>0, ReleaseLockEffect DEF CommitSteps, Guarded, SameItem
    <3>2. journal'[e].state = "committing" => \E b \in Assets : journal'[e].destination = {b}
      BY <1>26, <2>0, ReleaseLockEffect DEF Typed, OneAsset, disk
    <3> QED BY <2>2, <3>1, <3>2, OnesKept
  <2> QED BY <2>3, <2>4, <2>5 DEF Typed
<1>27. CASE Fault(e)
  <2>0. PICK a \in Assets : mem[e].item = {a}
    BY <1>27, AnItem DEF Fault, CommitSteps, Guarded, Unguarded
  <2>1. Item(e) = a
    BY <2>0, ItemIs
  <2>2. Moves(e)
    BY <1>27, <2>0, FaultEffect
  <2>3. Disks'
    <3>1. dest' \in [Assets -> Contents] /\ backup' \in [Importers -> [Assets -> Contents]]
      BY <1>27, <1>0, <2>1 DEF Fault, Typed, Disks, Memories, Memory, disk, Contents
    <3>2. journal' \in [Importers -> Journals]
      BY <1>27, <1>0, UpdateTyped, WriteTyped, JournalUpdates DEF Fault, Typed, Disks, Memories, Memory, disk, Journals, States
    <3>3. quarantine' \in [Importers -> BOOLEAN] /\ received' \in [Importers -> BOOLEAN]
      BY <1>27 DEF Fault, Typed, Disks, disk
    <3>4. lock' \in [Assets -> SUBSET Importers]
      BY <1>27, <2>1 DEF Fault, Typed, Disks, disk
    <3> QED BY <3>1, <3>2, <3>3, <3>4 DEF Disks
  <2>4. Memories'
    <3>1. pc' \in [Procs -> Steps]
      BY <1>27, <1>0, GotoTyped, FailsTyped DEF Fault, Typed, Memories, Steps
    <3>2. mem' \in [Importers -> Memory]
      BY <1>27, FailsTyped DEF Fault, Typed, Memories
    <3>3. visit' \in [Doctors -> Visits] /\ crashes' \in 0 .. MaxCrashes /\ had' \in SUBSET Assets
          /\ exposed' \in SUBSET Assets
      BY <1>27, <2>0, FaultEffect DEF Fault, Typed, Memories
    <3>4. faults \in 0 .. MaxFaults /\ faults < MaxFaults /\ faults' = faults + 1 /\ MaxFaults \in Nat
      BY <1>27, Constants DEF Fault, Typed, Memories
    <3>5. faults' \in 0 .. MaxFaults
      BY <3>4
    <3> QED BY <3>1, <3>2, <3>3, <3>5 DEF Memories
  <2>5. SingleItem' /\ OneAsset' /\ OneVisit'
    <3>1. pc'[e] \in CommitSteps => \E b \in Assets : mem'[e].item = {b}
      BY <1>27, <2>0, FaultEffect DEF CommitSteps, Guarded, SameItem
    <3>2. journal'[e].state = "committing" => \E b \in Assets : journal'[e].destination = {b}
      BY <1>27, <2>0, FaultEffect DEF Typed, OneAsset, disk
    <3> QED BY <2>2, <3>1, <3>2, OnesKept
  <2> QED BY <2>3, <2>4, <2>5 DEF Typed
<1> QED BY <1>1, <1>2, <1>3, <1>4, <1>5, <1>6, <1>7, <1>8, <1>9, <1>10, <1>11, <1>12, <1>13, <1>14, <1>15, <1>16, <1>17, <1>18, <1>19, <1>20, <1>21, <1>22, <1>23, <1>24, <1>25, <1>26, <1>27 DEF Import, CommitItem

\* A doctor moves alone and writes no import's memory.
LEMMA DoctorTyped ==
  ASSUME Typed, NEW d \in Doctors, Doctor(d)
  PROVE  Typed'
<1>0. d \in Procs /\ Nothing \in Contents /\ visit[d] \in Visits
  BY NothingTyped DEF Procs, Typed, Memories
<1>1. /\ \A p \in Procs \ {d} : pc'[p] = pc[p]
      /\ \A c \in Doctors \ {d} : visit'[c] = visit[c]
      /\ UNCHANGED <<mem, lock, quarantine, received, crashes, faults, had, exposed>>
  BY DEF Doctor, Scan, Visit, DoctorRemove, DoctorRestore, DoctorMark, DoctorDone, Goto, Typed, Memories, disk
<1>2. pc' \in [Procs -> Steps]
  BY <1>0, GotoTyped DEF Doctor, Scan, Visit, DoctorRemove, DoctorRestore, DoctorMark, DoctorDone, Typed, Memories, Steps
<1>3. SingleItem'
  BY <1>1, Kinds DEF Typed, SingleItem
<1>4. CASE Scan(d) \/ DoctorDone(d)
  <2>1. UNCHANGED disk /\ visit' \in [Doctors -> Visits] /\ pc'[d] \in {"visit", "done"}
    BY <1>0, <1>4 DEF Scan, DoctorDone, Typed, Memories, Visits, Goto
  <2>2. OneAsset' /\ OneVisit' /\ Disks'
    <3>1. OneAsset' /\ Disks'
      BY <2>1 DEF Typed, OneAsset, Disks, disk
    <3>2. visit'[d].at = visit[d].at /\ visit'[d].copy = visit[d].copy
      BY <1>0, <1>4 DEF Scan, DoctorDone, Typed, Memories, Visits
    <3>3. OneVisit'
      BY <1>1, <2>1, <3>2 DEF Typed, OneVisit, Procs
    <3> QED BY <3>1, <3>3
  <2> QED BY <1>1, <1>2, <1>3, <2>1, <2>2 DEF Typed, Memories
<1>5. CASE Visit(d)
  <2>1. PICK e \in visit[d].todo :
          /\ visit' = [visit EXCEPT ![d] = [todo |-> @.todo \ {e}, at |-> {e}, copy |-> journal[e]]]
          /\ Goto(d, IF journal[e].state = "committing" THEN "d_rm" ELSE "visit")
    BY <1>5 DEF Visit
  <2>2. e \in Importers /\ journal[e] \in Journals /\ visit[d].todo \subseteq Importers
    BY <1>0, <2>1 DEF Visits, Typed, Disks
  <2>3. visit'[d] = [todo |-> visit[d].todo \ {e}, at |-> {e}, copy |-> journal[e]] /\ visit' \in [Doctors -> Visits]
    BY <2>1, <2>2 DEF Typed, Memories, Visits
  <2>4. UNCHANGED disk
    BY <1>5 DEF Visit
  <2>5. OneAsset' /\ Disks'
    BY <2>4 DEF Typed, OneAsset, Disks, disk
  <2>6. pc'[d] \in {"d_rm", "visit"} /\ (pc'[d] = "d_rm" => journal[e].state = "committing")
    BY <1>0, <2>1 DEF Goto, Typed, Memories
  <2>7. OneVisit'
    BY <1>1, <2>2, <2>3, <2>6 DEF Typed, OneVisit, OneAsset, Procs
  <2> QED BY <1>1, <1>2, <1>3, <2>3, <2>5, <2>7 DEF Typed, Memories
<1>6. CASE DoctorRemove(d) \/ DoctorRestore(d) \/ DoctorMark(d)
  <2>0. pc[d] \in {"d_rm", "d_restore", "d_mark"} /\ UNCHANGED visit
    BY <1>6 DEF DoctorRemove, DoctorRestore, DoctorMark
  <2>1. PICK e \in Importers, a \in Assets : visit[d].at = {e} /\ visit[d].copy.destination = {a}
    BY <2>0 DEF Typed, OneVisit
  <2>2. Visiting(d) = e /\ Recovered(d) = a
    BY <2>1, VisitIs
  <2>3. dest' \in [Assets -> Contents] /\ backup' \in [Importers -> [Assets -> Contents]]
    <3>1. CASE DoctorRemove(d) \/ DoctorMark(d)
      BY <1>0, <2>2, <3>1 DEF DoctorRemove, DoctorMark, Typed, Disks
    <3>2. CASE DoctorRestore(d) /\ UNCHANGED <<dest, backup>>
      BY <3>2 DEF Typed, Disks
    <3>3. CASE dest' = [dest EXCEPT ![a] = backup[e][a]] /\ backup' = [backup EXCEPT ![e][a] = Nothing]
      <4>1. backup[e][a] \in Contents
        BY DEF Typed, Disks
      <4> QED BY <1>0, <3>3, <4>1 DEF Typed, Disks
    <3> QED BY <1>6, <2>2, <3>1, <3>2, <3>3 DEF DoctorRestore
  <2>4. /\ journal' \in [Importers -> Journals]
        /\ \A f \in Importers : journal'[f] = journal[f] \/ journal'[f].state = "rolled_back"
    <3>1. CASE DoctorRemove(d) \/ DoctorRestore(d)
      BY <3>1 DEF DoctorRemove, DoctorRestore, Typed, Disks
    <3>2. CASE DoctorMark(d)
      <4>1. visit[d].copy \in Journals
        BY <1>0 DEF Visits
      <4>2. /\ [visit[d].copy EXCEPT !.state = "rolled_back"] \in Journals
            /\ [visit[d].copy EXCEPT !.state = "rolled_back"].state = "rolled_back"
        BY <4>1, JournalUpdates DEF States
      <4> QED BY <2>2, <3>2, <4>2 DEF DoctorMark, Typed, Disks
    <3> QED BY <1>6, <3>1, <3>2
  <2>5. OneAsset'
    BY <2>4 DEF Typed, OneAsset
  <2>6. OneVisit'
    BY <1>1, <2>0, <2>1 DEF Typed, OneVisit, Procs
  <2>7. visit' \in [Doctors -> Visits]
    BY <2>0 DEF Typed, Memories
  <2> QED BY <1>1, <1>2, <1>3, <2>3, <2>4, <2>5, <2>6, <2>7 DEF Typed, Memories, Disks
<1> QED BY <1>4, <1>5, <1>6 DEF Doctor

LEMMA CrashMoves ==
  ASSUME Typed, NEW p \in Procs, Crash(p)
  PROVE  /\ Alive(p) /\ pc[p] \in CrashSteps /\ pc'[p] = "dead" /\ \A q \in Procs \ {p} : pc'[q] = pc[q]
         /\ UNCHANGED <<disk, mem, visit, faults, had>>
         /\ \A e \in Importers : p = e \/ (p \in Doctors /\ visit[p].at = {e}) => Unbacked(e) \subseteq exposed'
         /\ exposed \subseteq exposed'
<1>1. Importers \cap Doctors = {}
  BY Constants
<1>2. \A e \in Importers : p = e \/ (p \in Doctors /\ visit[p].at = {e}) => Unbacked(e) \subseteq exposed'
  BY <1>1 DEF Crash
<1> QED BY <1>2 DEF Crash, Goto, Typed, Memories

LEMMA CrashTyped ==
  ASSUME Typed, NEW p \in Procs, Crash(p)
  PROVE  Typed'
<1>1. pc' \in [Procs -> Steps]
  BY GotoTyped DEF Crash, Typed, Memories, Steps
<1>2. crashes' \in 0 .. MaxCrashes
  <2>1. crashes \in 0 .. MaxCrashes /\ crashes < MaxCrashes /\ crashes' = crashes + 1 /\ MaxCrashes \in Nat
    BY Constants DEF Crash, Typed, Memories
  <2> QED BY <2>1
<1>3. exposed' \in SUBSET Assets
  <2>1. \A e \in Importers : Unbacked(e) \subseteq Assets
    BY DEF Unbacked, Typed, Disks, Journals
  <2>2. \A e \in (IF p \in Importers THEN {p} ELSE visit[p].at) : e \in Importers
    BY DEF Typed, Memories, Visits, Procs
  <2> QED BY <2>1, <2>2 DEF Crash, Typed, Memories
<1>5. Disks' /\ Memories' /\ OneAsset'
  BY <1>1, <1>2, <1>3, CrashMoves DEF Typed, Disks, Memories, OneAsset, disk
<1>4. SingleItem' /\ OneVisit'
  BY CrashMoves, Kinds DEF Typed, SingleItem, OneVisit, CommitSteps, Guarded, Procs
<1> QED BY <1>4, <1>5 DEF Typed

LEMMA StutterTyped == Typed /\ UNCHANGED vars => Typed'
<1> SUFFICES ASSUME Typed, UNCHANGED vars PROVE Typed'
  OBVIOUS
<1>1. Disks' /\ Memories'
  BY DEF Typed, Disks, Memories, vars, disk
<1>2. SingleItem' /\ OneAsset' /\ OneVisit'
  BY DEF Typed, SingleItem, OneAsset, OneVisit, vars, disk
<1> QED BY <1>1, <1>2 DEF Typed

LEMMA StepIs ==
  ASSUME [Next]_vars
  PROVE  \/ \E e \in Importers : Import(e) \/ CommitItem(e) \/ Fault(e)
         \/ \E d \in Doctors : Doctor(d)
         \/ \E p \in Procs : Crash(p)
         \/ UNCHANGED vars
BY DEF Next, Finished

LEMMA TypedKept == Typed /\ [Next]_vars => Typed'
BY StepIs, ImportTyped, DoctorTyped, CrashTyped, StutterTyped

LEMMA AlwaysTyped == Spec => []Typed
BY InitTyped, TypedKept, PTL DEF Spec

\* What is on disk and in memory has its type; a step of a commit has one asset,
\* and a doctor takes away only what a journal names.
THEOREM TypeCorrect == Spec => []TypeOK
<1>1. Typed => TypeOK
  <2> SUFFICES ASSUME Typed PROVE TypeOK
    OBVIOUS
  <2>1. \A e \in Importers : pc[e] \in CommitSteps => Cardinality(mem[e].item) = 1
    BY FS_Singleton DEF Typed, SingleItem
  <2>2. \A d \in Doctors : pc[d] \in {"d_rm", "d_restore", "d_mark"} =>
          Cardinality(visit[d].copy.destination) = 1 /\ Cardinality(visit[d].at) = 1
    BY ZenonT(60), FS_Singleton DEF Typed, OneVisit
  <2> QED BY <2>1, <2>2 DEF Typed, Disks, Memories, Visits, TypeOK
<1> QED BY <1>1, AlwaysTyped, PTL

-----------------------------------------------------------------------------
(* What an import commits is live *)

LEMMA OtherItems ==
  ASSUME NEW e \in Importers, Moves(e)
  PROVE  \A f \in Importers \ {e} : Item(f)' = Item(f)
BY DEF Item, Moves

LEMMA HoldSteps == Hold \subseteq CommitSteps /\ {"idle", "done", "dead", "lock", "next"} \cap Hold = {}
BY DEF Hold, CommitSteps, Guarded

ExclusiveAt(e) == pc[e] \in Hold => lock[Item(e)] = {e}
FreshAt(e) ==
  /\ pc[e] \in {"mark", "aside", "place"} => mem[e].stage.files = New(e)
  /\ pc[e] \in {"engine", "prov"} => dest[Item(e)].files = New(e)
  /\ pc[e] \in {"reuse", "verified", "drop", "committed"} => dest[Item(e)] = [files |-> New(e), prov |-> New(e)]
  /\ pc[e] \in {"place", "undo_restore"} => dest[Item(e)] = Nothing

\* Who does not have the lock of the asset a step is about keeps what it has.
LEMMA HoldersKept ==
  ASSUME Typed, Exclusive, Fresh, NEW e \in Importers, Moves(e), ExclusiveAt(e)', FreshAt(e)',
         Remote \/ \E a \in Assets : Touches(e, a) /\ lock[a] \subseteq {e}
  PROVE  Exclusive' /\ Fresh'
<1>1. ASSUME NEW f \in Importers \ {e} PROVE ExclusiveAt(f)' /\ FreshAt(f)'
  <2>1. Item(f)' = Item(f) /\ pc'[f] = pc[f] /\ mem'[f] = mem[f] /\ New(f)' = New(f)
    BY OtherItems, Kinds DEF Moves, New
  <2>2. CASE pc[f] \notin Hold
    BY <2>1, <2>2 DEF ExclusiveAt, FreshAt, Hold, CommitSteps, Guarded
  <2>3. CASE pc[f] \in Hold
    <3>1. PICK b \in Assets : mem[f].item = {b}
      BY <2>3, AnItem, HoldSteps
    <3>2. Item(f) = b /\ lock[b] = {f}
      BY <2>3, <3>1, ItemIs DEF Exclusive
    <3>3. dest'[b] = dest[b] /\ lock'[b] = lock[b]
      BY <3>2 DEF Remote, Touches
    <3> QED BY <2>1, <3>2, <3>3 DEF Exclusive, ExclusiveAt, Fresh, FreshAt
  <2> QED BY <2>2, <2>3
<1> QED BY <1>1 DEF Exclusive, ExclusiveAt, Fresh, FreshAt

LEMMA ImportFresh ==
  ASSUME Typed, Exclusive, Fresh, NEW e \in Importers, Import(e) \/ CommitItem(e) \/ Fault(e)
  PROVE  Exclusive' /\ Fresh'
<1>1. CASE Begin(e)
  <2>1. Moves(e) /\ Remote
    BY <1>1, BeginEffect
  <2>2. pc'[e] \in {"fill", "result", "record", "validate", "next", "abort", "terminal", "done", "lock"}
    BY <1>1, BeginEffect
  <2> QED BY <2>1, <2>2, HoldersKept DEF ExclusiveAt, FreshAt, Hold, CommitSteps, Guarded
<1>2. CASE Fill(e)
  <2>1. Moves(e) /\ Remote
    BY <1>2, FillEffect
  <2>2. pc'[e] \in {"fill", "result", "record", "validate", "next", "abort", "terminal", "done", "lock"}
    BY <1>2, FillEffect
  <2> QED BY <2>1, <2>2, HoldersKept DEF ExclusiveAt, FreshAt, Hold, CommitSteps, Guarded
<1>3. CASE RecordResult(e)
  <2>1. Moves(e) /\ Remote
    BY <1>3, RecordResultEffect
  <2>2. pc'[e] \in {"fill", "result", "record", "validate", "next", "abort", "terminal", "done", "lock"}
    BY <1>3, RecordResultEffect
  <2> QED BY <2>1, <2>2, HoldersKept DEF ExclusiveAt, FreshAt, Hold, CommitSteps, Guarded
<1>4. CASE RecordJournal(e)
  <2>1. Moves(e) /\ Remote
    BY <1>4, RecordJournalEffect
  <2>2. pc'[e] \in {"fill", "result", "record", "validate", "next", "abort", "terminal", "done", "lock"}
    BY <1>4, RecordJournalEffect
  <2> QED BY <2>1, <2>2, HoldersKept DEF ExclusiveAt, FreshAt, Hold, CommitSteps, Guarded
<1>5. CASE Validate(e)
  <2>1. Moves(e) /\ Remote
    BY <1>5, ValidateEffect
  <2>2. pc'[e] \in {"fill", "result", "record", "validate", "next", "abort", "terminal", "done", "lock"}
    BY <1>5, ValidateEffect
  <2> QED BY <2>1, <2>2, HoldersKept DEF ExclusiveAt, FreshAt, Hold, CommitSteps, Guarded
<1>6. CASE Abort(e)
  <2>1. Moves(e) /\ Remote
    BY <1>6, AbortEffect
  <2>2. pc'[e] \in {"fill", "result", "record", "validate", "next", "abort", "terminal", "done", "lock"}
    BY <1>6, AbortEffect
  <2> QED BY <2>1, <2>2, HoldersKept DEF ExclusiveAt, FreshAt, Hold, CommitSteps, Guarded
<1>7. CASE NextItem(e)
  <2>1. Moves(e) /\ Remote
    BY <1>7, NextItemEffect
  <2>2. pc'[e] \in {"fill", "result", "record", "validate", "next", "abort", "terminal", "done", "lock"}
    BY <1>7, NextItemEffect
  <2> QED BY <2>1, <2>2, HoldersKept DEF ExclusiveAt, FreshAt, Hold, CommitSteps, Guarded
<1>8. CASE ProviderError(e)
  <2>1. Moves(e) /\ Remote
    BY <1>8, ProviderErrorEffect
  <2>2. pc'[e] \in {"fill", "result", "record", "validate", "next", "abort", "terminal", "done", "lock"}
    BY <1>8, ProviderErrorEffect
  <2> QED BY <2>1, <2>2, HoldersKept DEF ExclusiveAt, FreshAt, Hold, CommitSteps, Guarded
<1>9. CASE Sweep(e)
  <2>1. Moves(e) /\ Remote
    BY <1>9, SweepEffect
  <2>2. pc'[e] \in {"fill", "result", "record", "validate", "next", "abort", "terminal", "done", "lock"}
    BY <1>9, SweepEffect
  <2> QED BY <2>1, <2>2, HoldersKept DEF ExclusiveAt, FreshAt, Hold, CommitSteps, Guarded
<1>10. CASE Terminal(e)
  <2>1. Moves(e) /\ Remote
    BY <1>10, TerminalEffect
  <2>2. pc'[e] \in {"fill", "result", "record", "validate", "next", "abort", "terminal", "done", "lock"}
    BY <1>10, TerminalEffect
  <2> QED BY <2>1, <2>2, HoldersKept DEF ExclusiveAt, FreshAt, Hold, CommitSteps, Guarded
<1>11. CASE AcquireLock(e)
  <2>0. PICK a \in Assets : mem[e].item = {a}
    BY <1>11, AnItem DEF AcquireLock, CommitSteps, Guarded, Unguarded
  <2>1. Moves(e) /\ Touches(e, a) /\ mem'[e].item = {a}
    BY <1>11, <2>0, AcquireLockEffect DEF SameItem
  <2>2. Item(e) = a /\ Item(e)' = a /\ New(e)' = New(e) /\ dest[a] \in Contents
    BY <2>0, <2>1, ItemIs DEF Item, New, Typed, Disks
  <2>3. lock[a] \subseteq {e} /\ lock'[a] = {e}
    BY <1>11, <2>0, AcquireLockEffect
  <2>4. ExclusiveAt(e)'
    BY <1>11, <2>0, <2>2, <2>3, AcquireLockEffect DEF ExclusiveAt, Hold
  <2>5. FreshAt(e)'
    BY <1>11, <2>0, <2>2, <2>3, AcquireLockEffect DEF Fresh, FreshAt, disk
  <2> QED BY <2>1, <2>3, <2>4, <2>5, HoldersKept
<1>12. CASE AssetBusy(e)
  <2>1. Moves(e) /\ Remote
    BY <1>12, AssetBusyEffect
  <2>2. pc'[e] \in {"fill", "result", "record", "validate", "next", "abort", "terminal", "done", "lock"}
    BY <1>12, AssetBusyEffect
  <2> QED BY <2>1, <2>2, HoldersKept DEF ExclusiveAt, FreshAt, Hold, CommitSteps, Guarded
<1>13. CASE Decide(e)
  <2>0. PICK a \in Assets : mem[e].item = {a}
    BY <1>13, AnItem DEF Decide, CommitSteps, Guarded, Unguarded
  <2>1. Moves(e) /\ Touches(e, a) /\ mem'[e].item = {a}
    BY <1>13, <2>0, DecideEffect DEF SameItem
  <2>2. Item(e) = a /\ Item(e)' = a /\ New(e)' = New(e) /\ dest[a] \in Contents
    BY <2>0, <2>1, ItemIs DEF Item, New, Typed, Disks
  <2>3. lock[a] = {e} /\ lock'[a] = {e}
    BY <1>13, <2>0, <2>2, DecideEffect DEF Decide, Exclusive, Hold, CommitSteps, Guarded, Unguarded, disk
  <2>4. ExclusiveAt(e)'
    BY <1>13, <2>0, <2>2, <2>3, DecideEffect DEF ExclusiveAt, Hold
  <2>5. FreshAt(e)'
    BY <1>13, <2>0, <2>2, <2>3, DecideEffect DEF Fresh, FreshAt, disk
  <2> QED BY <2>1, <2>3, <2>4, <2>5, HoldersKept
<1>14. CASE Reuse(e)
  <2>0. PICK a \in Assets : mem[e].item = {a}
    BY <1>14, AnItem DEF Reuse, CommitSteps, Guarded, Unguarded
  <2>1. Moves(e) /\ Touches(e, a) /\ mem'[e].item = {a}
    BY <1>14, <2>0, ReuseEffect DEF SameItem
  <2>2. Item(e) = a /\ Item(e)' = a /\ New(e)' = New(e) /\ dest[a] \in Contents
    BY <2>0, <2>1, ItemIs DEF Item, New, Typed, Disks
  <2>3. lock[a] = {e} /\ lock'[a] = {e}
    BY <1>14, <2>0, <2>2, ReuseEffect DEF Reuse, Exclusive, Hold, CommitSteps, Guarded, Unguarded, disk
  <2>4. ExclusiveAt(e)'
    BY <1>14, <2>0, <2>2, <2>3, ReuseEffect DEF ExclusiveAt, Hold
  <2>5. FreshAt(e)'
    BY <1>14, <2>0, <2>2, <2>3, ReuseEffect DEF Fresh, FreshAt, disk
  <2> QED BY <2>1, <2>3, <2>4, <2>5, HoldersKept
<1>15. CASE Mark(e)
  <2>0. PICK a \in Assets : mem[e].item = {a}
    BY <1>15, AnItem DEF Mark, CommitSteps, Guarded, Unguarded
  <2>1. Moves(e) /\ Touches(e, a) /\ mem'[e].item = {a}
    BY <1>15, <2>0, MarkEffect DEF SameItem
  <2>2. Item(e) = a /\ Item(e)' = a /\ New(e)' = New(e) /\ dest[a] \in Contents
    BY <2>0, <2>1, ItemIs DEF Item, New, Typed, Disks
  <2>3. lock[a] = {e} /\ lock'[a] = {e}
    BY <1>15, <2>0, <2>2, MarkEffect DEF Mark, Exclusive, Hold, CommitSteps, Guarded, Unguarded, disk
  <2>4. ExclusiveAt(e)'
    BY <1>15, <2>0, <2>2, <2>3, MarkEffect DEF ExclusiveAt, Hold
  <2>5. FreshAt(e)'
    BY <1>15, <2>0, <2>2, <2>3, MarkEffect DEF Fresh, FreshAt, disk
  <2> QED BY <2>1, <2>3, <2>4, <2>5, HoldersKept
<1>16. CASE Aside(e)
  <2>0. PICK a \in Assets : mem[e].item = {a}
    BY <1>16, AnItem DEF Aside, CommitSteps, Guarded, Unguarded
  <2>1. Moves(e) /\ Touches(e, a) /\ mem'[e].item = {a}
    BY <1>16, <2>0, AsideEffect DEF SameItem
  <2>2. Item(e) = a /\ Item(e)' = a /\ New(e)' = New(e) /\ dest[a] \in Contents
    BY <2>0, <2>1, ItemIs DEF Item, New, Typed, Disks
  <2>3. lock[a] = {e} /\ lock'[a] = {e}
    BY <1>16, <2>0, <2>2, AsideEffect DEF Aside, Exclusive, Hold, CommitSteps, Guarded, Unguarded, disk
  <2>4. ExclusiveAt(e)'
    BY <1>16, <2>0, <2>2, <2>3, AsideEffect DEF ExclusiveAt, Hold
  <2>5. FreshAt(e)'
    BY <1>16, <2>0, <2>2, <2>3, AsideEffect DEF Fresh, FreshAt, disk
  <2> QED BY <2>1, <2>3, <2>4, <2>5, HoldersKept
<1>17. CASE Place(e)
  <2>0. PICK a \in Assets : mem[e].item = {a}
    BY <1>17, AnItem DEF Place, CommitSteps, Guarded, Unguarded
  <2>1. Moves(e) /\ Touches(e, a) /\ mem'[e].item = {a}
    BY <1>17, <2>0, PlaceEffect DEF SameItem
  <2>2. Item(e) = a /\ Item(e)' = a /\ New(e)' = New(e) /\ dest[a] \in Contents
    BY <2>0, <2>1, ItemIs DEF Item, New, Typed, Disks
  <2>3. lock[a] = {e} /\ lock'[a] = {e}
    BY <1>17, <2>0, <2>2, PlaceEffect DEF Place, Exclusive, Hold, CommitSteps, Guarded, Unguarded, disk
  <2>4. ExclusiveAt(e)'
    BY <1>17, <2>0, <2>2, <2>3, PlaceEffect DEF ExclusiveAt, Hold
  <2>5. FreshAt(e)'
    BY <1>17, <2>0, <2>2, <2>3, PlaceEffect DEF Fresh, FreshAt, disk
  <2> QED BY <2>1, <2>3, <2>4, <2>5, HoldersKept
<1>18. CASE Engine(e)
  <2>0. PICK a \in Assets : mem[e].item = {a}
    BY <1>18, AnItem DEF Engine, CommitSteps, Guarded, Unguarded
  <2>1. Moves(e) /\ Touches(e, a) /\ mem'[e].item = {a}
    BY <1>18, <2>0, EngineEffect DEF SameItem
  <2>2. Item(e) = a /\ Item(e)' = a /\ New(e)' = New(e) /\ dest[a] \in Contents
    BY <2>0, <2>1, ItemIs DEF Item, New, Typed, Disks
  <2>3. lock[a] = {e} /\ lock'[a] = {e}
    BY <1>18, <2>0, <2>2, EngineEffect DEF Engine, Exclusive, Hold, CommitSteps, Guarded, Unguarded, disk
  <2>4. ExclusiveAt(e)'
    BY <1>18, <2>0, <2>2, <2>3, EngineEffect DEF ExclusiveAt, Hold
  <2>5. FreshAt(e)'
    BY <1>18, <2>0, <2>2, <2>3, EngineEffect DEF Fresh, FreshAt, disk
  <2> QED BY <2>1, <2>3, <2>4, <2>5, HoldersKept
<1>19. CASE WriteProvenance(e)
  <2>0. PICK a \in Assets : mem[e].item = {a}
    BY <1>19, AnItem DEF WriteProvenance, CommitSteps, Guarded, Unguarded
  <2>1. Moves(e) /\ Touches(e, a) /\ mem'[e].item = {a}
    BY <1>19, <2>0, WriteProvenanceEffect DEF SameItem
  <2>2. Item(e) = a /\ Item(e)' = a /\ New(e)' = New(e) /\ dest[a] \in Contents
    BY <2>0, <2>1, ItemIs DEF Item, New, Typed, Disks
  <2>3. lock[a] = {e} /\ lock'[a] = {e}
    BY <1>19, <2>0, <2>2, WriteProvenanceEffect DEF WriteProvenance, Exclusive, Hold, CommitSteps, Guarded, Unguarded, disk
  <2>4. ExclusiveAt(e)'
    BY <1>19, <2>0, <2>2, <2>3, WriteProvenanceEffect DEF ExclusiveAt, Hold
  <2>5. pc[e] = "prov" /\ pc'[e] = "verified" /\ dest'[a] = [files |-> dest[a].files, prov |-> New(e)]
    BY <1>19, <2>0, WriteProvenanceEffect
  <2>6. dest[a].files = New(e)
    BY <2>2, <2>5 DEF Fresh
  <2>7. FreshAt(e)'
    BY <2>2, <2>5, <2>6 DEF FreshAt
  <2> QED BY <2>1, <2>3, <2>4, <2>7, HoldersKept
<1>20. CASE EngineVerified(e)
  <2>0. PICK a \in Assets : mem[e].item = {a}
    BY <1>20, AnItem DEF EngineVerified, CommitSteps, Guarded, Unguarded
  <2>1. Moves(e) /\ Touches(e, a) /\ mem'[e].item = {a}
    BY <1>20, <2>0, EngineVerifiedEffect DEF SameItem
  <2>2. Item(e) = a /\ Item(e)' = a /\ New(e)' = New(e) /\ dest[a] \in Contents
    BY <2>0, <2>1, ItemIs DEF Item, New, Typed, Disks
  <2>3. lock[a] = {e} /\ lock'[a] = {e}
    BY <1>20, <2>0, <2>2, EngineVerifiedEffect DEF EngineVerified, Exclusive, Hold, CommitSteps, Guarded, Unguarded, disk
  <2>4. ExclusiveAt(e)'
    BY <1>20, <2>0, <2>2, <2>3, EngineVerifiedEffect DEF ExclusiveAt, Hold
  <2>5. FreshAt(e)'
    BY <1>20, <2>0, <2>2, <2>3, EngineVerifiedEffect DEF Fresh, FreshAt, disk
  <2> QED BY <2>1, <2>3, <2>4, <2>5, HoldersKept
<1>21. CASE DropBackup(e)
  <2>0. PICK a \in Assets : mem[e].item = {a}
    BY <1>21, AnItem DEF DropBackup, CommitSteps, Guarded, Unguarded
  <2>1. Moves(e) /\ Touches(e, a) /\ mem'[e].item = {a}
    BY <1>21, <2>0, DropBackupEffect DEF SameItem
  <2>2. Item(e) = a /\ Item(e)' = a /\ New(e)' = New(e) /\ dest[a] \in Contents
    BY <2>0, <2>1, ItemIs DEF Item, New, Typed, Disks
  <2>3. lock[a] = {e} /\ lock'[a] = {e}
    BY <1>21, <2>0, <2>2, DropBackupEffect DEF DropBackup, Exclusive, Hold, CommitSteps, Guarded, Unguarded, disk
  <2>4. ExclusiveAt(e)'
    BY <1>21, <2>0, <2>2, <2>3, DropBackupEffect DEF ExclusiveAt, Hold
  <2>5. FreshAt(e)'
    BY <1>21, <2>0, <2>2, <2>3, DropBackupEffect DEF Fresh, FreshAt, disk
  <2> QED BY <2>1, <2>3, <2>4, <2>5, HoldersKept
<1>22. CASE Committed(e)
  <2>0. PICK a \in Assets : mem[e].item = {a}
    BY <1>22, AnItem DEF Committed, CommitSteps, Guarded, Unguarded
  <2>1. Moves(e) /\ Touches(e, a) /\ mem'[e].item = {a}
    BY <1>22, <2>0, CommittedEffect DEF SameItem
  <2>2. Item(e) = a /\ Item(e)' = a /\ New(e)' = New(e) /\ dest[a] \in Contents
    BY <2>0, <2>1, ItemIs DEF Item, New, Typed, Disks
  <2>3. lock[a] = {e} /\ lock'[a] = {e}
    BY <1>22, <2>0, <2>2, CommittedEffect DEF Committed, Exclusive, Hold, CommitSteps, Guarded, Unguarded, disk
  <2>4. ExclusiveAt(e)'
    BY <1>22, <2>0, <2>2, <2>3, CommittedEffect DEF ExclusiveAt, Hold
  <2>5. FreshAt(e)'
    BY <1>22, <2>0, <2>2, <2>3, CommittedEffect DEF Fresh, FreshAt, disk
  <2> QED BY <2>1, <2>3, <2>4, <2>5, HoldersKept
<1>23. CASE UndoRemove(e)
  <2>0. PICK a \in Assets : mem[e].item = {a}
    BY <1>23, AnItem DEF UndoRemove, CommitSteps, Guarded, Unguarded
  <2>1. Moves(e) /\ Touches(e, a) /\ mem'[e].item = {a}
    BY <1>23, <2>0, UndoRemoveEffect DEF SameItem
  <2>2. Item(e) = a /\ Item(e)' = a /\ New(e)' = New(e) /\ dest[a] \in Contents
    BY <2>0, <2>1, ItemIs DEF Item, New, Typed, Disks
  <2>3. lock[a] = {e} /\ lock'[a] = {e}
    BY <1>23, <2>0, <2>2, UndoRemoveEffect DEF UndoRemove, Exclusive, Hold, CommitSteps, Guarded, Unguarded, disk
  <2>4. ExclusiveAt(e)'
    BY <1>23, <2>0, <2>2, <2>3, UndoRemoveEffect DEF ExclusiveAt, Hold
  <2>5. FreshAt(e)'
    BY <1>23, <2>0, <2>2, <2>3, UndoRemoveEffect DEF Fresh, FreshAt, disk
  <2> QED BY <2>1, <2>3, <2>4, <2>5, HoldersKept
<1>24. CASE UndoRestore(e)
  <2>0. PICK a \in Assets : mem[e].item = {a}
    BY <1>24, AnItem DEF UndoRestore, CommitSteps, Guarded, Unguarded
  <2>1. Moves(e) /\ Touches(e, a) /\ mem'[e].item = {a}
    BY <1>24, <2>0, UndoRestoreEffect DEF SameItem
  <2>2. Item(e) = a /\ Item(e)' = a /\ New(e)' = New(e) /\ dest[a] \in Contents
    BY <2>0, <2>1, ItemIs DEF Item, New, Typed, Disks
  <2>3. lock[a] = {e} /\ lock'[a] = {e}
    BY <1>24, <2>0, <2>2, UndoRestoreEffect DEF UndoRestore, Exclusive, Hold, CommitSteps, Guarded, Unguarded, disk
  <2>4. ExclusiveAt(e)'
    BY <1>24, <2>0, <2>2, <2>3, UndoRestoreEffect DEF ExclusiveAt, Hold
  <2>5. FreshAt(e)'
    BY <1>24, <2>0, <2>2, <2>3, UndoRestoreEffect DEF Fresh, FreshAt, disk
  <2> QED BY <2>1, <2>3, <2>4, <2>5, HoldersKept
<1>25. CASE UndoMark(e)
  <2>0. PICK a \in Assets : mem[e].item = {a}
    BY <1>25, AnItem DEF UndoMark, CommitSteps, Guarded, Unguarded
  <2>1. Moves(e) /\ Touches(e, a) /\ mem'[e].item = {a}
    BY <1>25, <2>0, UndoMarkEffect DEF SameItem
  <2>2. Item(e) = a /\ Item(e)' = a /\ New(e)' = New(e) /\ dest[a] \in Contents
    BY <2>0, <2>1, ItemIs DEF Item, New, Typed, Disks
  <2>3. lock[a] = {e} /\ lock'[a] = {e}
    BY <1>25, <2>0, <2>2, UndoMarkEffect DEF UndoMark, Exclusive, Hold, CommitSteps, Guarded, Unguarded, disk
  <2>4. ExclusiveAt(e)'
    BY <1>25, <2>0, <2>2, <2>3, UndoMarkEffect DEF ExclusiveAt, Hold
  <2>5. FreshAt(e)'
    BY <1>25, <2>0, <2>2, <2>3, UndoMarkEffect DEF Fresh, FreshAt, disk
  <2> QED BY <2>1, <2>3, <2>4, <2>5, HoldersKept
<1>26. CASE ReleaseLock(e)
  <2>0. PICK a \in Assets : mem[e].item = {a}
    BY <1>26, AnItem DEF ReleaseLock, CommitSteps, Guarded, Unguarded
  <2>1. Moves(e) /\ Touches(e, a) /\ mem'[e].item = {a}
    BY <1>26, <2>0, ReleaseLockEffect DEF SameItem
  <2>2. Item(e) = a /\ Item(e)' = a /\ New(e)' = New(e) /\ dest[a] \in Contents
    BY <2>0, <2>1, ItemIs DEF Item, New, Typed, Disks
  <2>3. lock[a] = {e}
    BY <1>26, <2>0, <2>2, ReleaseLockEffect DEF ReleaseLock, Exclusive, Hold, CommitSteps, Guarded, Unguarded
  <2>4. ExclusiveAt(e)'
    BY <1>26, <2>0, <2>2, <2>3, ReleaseLockEffect, HoldSteps DEF ExclusiveAt, Hold
  <2>5. FreshAt(e)'
    BY <1>26, <2>0, <2>2, <2>3, ReleaseLockEffect, HoldSteps DEF Fresh, FreshAt, disk
  <2> QED BY <2>1, <2>3, <2>4, <2>5, HoldersKept
<1>27. CASE Fault(e)
  <2>0. PICK a \in Assets : mem[e].item = {a}
    BY <1>27, AnItem DEF Fault, CommitSteps, Guarded, Unguarded
  <2>1. Moves(e) /\ Touches(e, a) /\ mem'[e].item = {a}
    BY <1>27, <2>0, FaultEffect DEF SameItem
  <2>2. Item(e) = a /\ Item(e)' = a /\ New(e)' = New(e) /\ dest[a] \in Contents
    BY <2>0, <2>1, ItemIs DEF Item, New, Typed, Disks
  <2>3. lock[a] = {e} /\ lock'[a] = {e}
    BY <1>27, <2>0, <2>2, FaultEffect DEF Fault, Exclusive, Hold, CommitSteps, Guarded, Unguarded, disk
  <2>4. ExclusiveAt(e)'
    BY <1>27, <2>0, <2>2, <2>3, FaultEffect DEF ExclusiveAt, Hold
  <2>5. FreshAt(e)'
    BY <1>27, <2>0, <2>2, <2>3, FaultEffect DEF Fresh, FreshAt, disk, Guarded, Unguarded
  <2> QED BY <2>1, <2>3, <2>4, <2>5, HoldersKept
<1> QED BY <1>1, <1>2, <1>3, <1>4, <1>5, <1>6, <1>7, <1>8, <1>9, <1>10, <1>11, <1>12, <1>13, <1>14, <1>15, <1>16, <1>17, <1>18, <1>19, <1>20, <1>21, <1>22, <1>23, <1>24, <1>25, <1>26, <1>27 DEF Import, CommitItem

\* What the processes that do not crash do next.
LEMMA DoctorMoves ==
  ASSUME Typed, NEW d \in Doctors, Doctor(d)
  PROVE  /\ \A p \in Procs \ {d} : pc'[p] = pc[p]
         /\ \A c \in Doctors \ {d} : visit'[c] = visit[c]
         /\ UNCHANGED <<mem, lock, quarantine, received, had>>
         /\ UNCHANGED disk \/ Alive(d)
BY DEF Doctor, Scan, Visit, DoctorRemove, DoctorRestore, DoctorMark, DoctorDone, Goto, Typed, Memories, disk, Alive

LEMMA DoctorFresh ==
  ASSUME Typed, DoctorsAlone, Exclusive, Fresh, NEW d \in Doctors, Doctor(d)
  PROVE  Exclusive' /\ Fresh'
<1>1. \A e \in Importers : e \in Procs /\ e # d /\ pc'[e] = pc[e] /\ Item(e)' = Item(e) /\ New(e)' = New(e)
  BY DoctorMoves, Kinds DEF Item, New
<1>2. lock' = lock /\ mem' = mem
  BY DoctorMoves
<1>3. Exclusive'
  BY <1>1, <1>2 DEF Exclusive
<1>4. CASE UNCHANGED disk
  <2>1. dest' = dest
    BY <1>4 DEF disk
  <2> QED BY <1>1, <1>2, <1>3, <2>1 DEF Fresh
<1>5. CASE Alive(d)
  <2>1. \A e \in Importers : pc[e] \in {"idle", "done", "dead"}
    BY <1>1, <1>5 DEF DoctorsAlone, Alive
  <2> QED BY <1>1, <1>3, <2>1 DEF Fresh
<1> QED BY <1>3, <1>4, <1>5, DoctorMoves

LEMMA CrashFresh ==
  ASSUME Typed, Exclusive, Fresh, NEW p \in Procs, Crash(p)
  PROVE  Exclusive' /\ Fresh'
<1>1. \A e \in Importers : e \in Procs /\ pc'[e] \in {pc[e], "dead"} /\ Item(e)' = Item(e) /\ New(e)' = New(e)
  BY CrashMoves, Kinds DEF Item, New
<1>2. lock' = lock /\ mem' = mem /\ dest' = dest
  BY CrashMoves DEF disk
<1>3. Exclusive'
  BY <1>1, <1>2, HoldSteps DEF Exclusive
<1>4. Fresh'
  BY <1>1, <1>2 DEF Fresh
<1> QED BY <1>3, <1>4

Live == Exclusive /\ Fresh

LEMMA LiveKept == Typed /\ DoctorsAlone /\ Live /\ [Next]_vars => Live'
<1>1. Live /\ UNCHANGED vars => Live'
  BY DEF Live, Exclusive, Fresh, vars, disk, Item, New
<1> QED BY <1>1, StepIs, ImportFresh, DoctorFresh, CrashFresh DEF Live

LEMMA AlwaysLive == Spec /\ []DoctorsAlone => []Live
<1>1. Init => Live
  BY Kinds DEF Init, Live, Exclusive, Fresh, Hold, CommitSteps, Guarded
<1> QED BY <1>1, LiveKept, AlwaysTyped, PTL DEF Spec

LEMMA CommitStep == Typed /\ Live /\ [Next]_vars => CommitTrue
<1> SUFFICES ASSUME Typed, Live, [Next]_vars, NEW e \in Importers,
                    journal'[e].state = "committed", journal[e].state # "committed"
             PROVE  dest[Item(e)] = [files |-> New(e), prov |-> New(e)]
  BY DEF CommitTrue
<1>1. ASSUME NEW f \in Importers, Import(f) \/ CommitItem(f) \/ Fault(f) PROVE Reuse(e) \/ Committed(e)
  <2>1. CASE Import(f)
    BY <2>1, BeginEffect, FillEffect, RecordResultEffect, RecordJournalEffect, ValidateEffect, AbortEffect,
       NextItemEffect, ProviderErrorEffect, SweepEffect, TerminalEffect DEF Import, Moves
  <2>2. CASE CommitItem(f) \/ Fault(f)
    <3>0. PICK a \in Assets : mem[f].item = {a}
      BY <2>2, AnItem DEF CommitItem, Fault, CommitSteps, Guarded, Unguarded, AcquireLock, AssetBusy, Decide, Reuse,
         Mark, Aside, Place, Engine, WriteProvenance, EngineVerified, DropBackup, Committed, UndoRemove, UndoRestore,
         UndoMark, ReleaseLock
    <3>1. CASE AcquireLock(f) \/ AssetBusy(f) \/ Decide(f) \/ Mark(f) \/ Aside(f) \/ Place(f) \/ Engine(f)
      BY <3>0, <3>1, AcquireLockEffect, AssetBusyEffect, DecideEffect, MarkEffect, AsideEffect, PlaceEffect,
         EngineEffect DEF Moves, disk
    <3>2. CASE WriteProvenance(f) \/ EngineVerified(f) \/ DropBackup(f) \/ UndoRemove(f) \/ UndoRestore(f)
               \/ UndoMark(f) \/ ReleaseLock(f) \/ Fault(f)
      BY <3>0, <3>2, WriteProvenanceEffect, EngineVerifiedEffect, DropBackupEffect, UndoRemoveEffect,
         UndoRestoreEffect, UndoMarkEffect, ReleaseLockEffect, FaultEffect DEF Moves, disk
    <3>3. CASE Reuse(f) \/ Committed(f)
      BY <3>0, <3>3, ReuseEffect, CommittedEffect DEF Moves
    <3> QED BY <2>2, <3>1, <3>2, <3>3 DEF CommitItem
  <2> QED BY <1>1, <2>1, <2>2
<1>2. ASSUME NEW d \in Doctors, Doctor(d) PROVE FALSE
  <2>1. CASE Scan(d) \/ Visit(d) \/ DoctorRemove(d) \/ DoctorRestore(d) \/ DoctorDone(d)
    BY <2>1 DEF Scan, Visit, DoctorRemove, DoctorRestore, DoctorDone, disk
  <2>2. CASE DoctorMark(d)
    <3>1. visit[d].copy \in Journals
      BY DEF Typed, Memories, Visits
    <3>2. [visit[d].copy EXCEPT !.state = "rolled_back"].state = "rolled_back"
      BY <3>1 DEF Journals
    <3> QED BY <2>2, <3>2 DEF DoctorMark, Typed, Disks
  <2> QED BY <1>2, <2>1, <2>2 DEF Doctor
<1>3. ASSUME NEW p \in Procs, Crash(p) PROVE FALSE
  BY <1>3, CrashMoves DEF disk
<1>4. ASSUME UNCHANGED vars PROVE FALSE
  BY <1>4 DEF vars, disk
<1>5. Reuse(e) \/ Committed(e)
  BY <1>1, <1>2, <1>3, <1>4, StepIs
<1>6. pc[e] \in {"reuse", "committed"}
  BY <1>5 DEF Reuse, Committed
<1> QED BY <1>6 DEF Live, Fresh

\* While no doctor works beside a living process, what an import records as
\* committed is live, whatever crashes and fails.
THEOREM CommitsHonest == Spec /\ []DoctorsAlone => CommitsTrue
<1>1. Typed /\ Live /\ [Next]_vars => [CommitTrue]_vars
  BY CommitStep
<1> QED BY <1>1, AlwaysTyped, AlwaysLive, PTL DEF Spec, CommitsTrue

-----------------------------------------------------------------------------
(* What the project had is kept *)

SavedAt(e) ==
  pc[e] \in {"engine", "prov", "verified", "drop", "undo_rm"} /\ Item(e) \in had =>
    \E f \in Importers : backup[f][Item(e)] # Nothing
KeptAt(a) == a \in had => Kept(a)

LEMMA SavesKept ==
  ASSUME Typed, Exclusive, Saved, NeverLost, NEW e \in Importers, Moves(e), SavedAt(e)',
         Remote \/ \E a \in Assets : Touches(e, a) /\ lock[a] \subseteq {e} /\ KeptAt(a)'
  PROVE  Saved' /\ NeverLost'
<1>1. ASSUME NEW f \in Importers \ {e} PROVE SavedAt(f)'
  <2>1. Item(f)' = Item(f) /\ pc'[f] = pc[f] /\ had' = had
    BY OtherItems, Kinds DEF Moves
  <2>2. CASE pc[f] \notin Hold
    BY <2>1, <2>2 DEF SavedAt, Hold, CommitSteps, Guarded
  <2>3. CASE pc[f] \in Hold
    <3>1. PICK b \in Assets : mem[f].item = {b}
      BY <2>3, AnItem, HoldSteps
    <3>2. Item(f) = b /\ lock[b] = {f}
      BY <2>3, <3>1, ItemIs DEF Exclusive
    <3>3. \A g \in Importers : backup'[g][b] = backup[g][b]
      BY <3>2 DEF Remote, Touches, Moves
    <3> QED BY <2>1, <3>2, <3>3 DEF Saved, SavedAt
  <2> QED BY <2>2, <2>3
<1>2. Saved'
  BY <1>1 DEF Saved, SavedAt
<1>3. ASSUME NEW b \in Assets PROVE KeptAt(b)'
  <2>1. CASE \A g \in Importers : dest'[b] = dest[b] /\ backup'[g][b] = backup[g][b]
    <3>1. KeptAt(b) /\ had' = had
      BY DEF NeverLost, KeptAt, Kept, Moves
    <3> QED BY <2>1, <3>1 DEF KeptAt, Kept
  <2> QED BY <2>1 DEF Remote, Touches, Moves
<1>4. NeverLost'
  BY <1>3 DEF NeverLost, KeptAt, Kept, Typed, Memories, Moves
<1> QED BY <1>2, <1>4

LEMMA ImportSaves ==
  ASSUME Unexposed', Typed, Live, Saved, NeverLost, NEW e \in Importers, Import(e) \/ CommitItem(e) \/ Fault(e)
  PROVE  Saved' /\ NeverLost'
<1>0. None \notin Versions /\ New(e) \in Versions /\ [files |-> New(e), prov |-> New(e)] # Nothing
  BY Constants DEF New, Nothing
<1>1. CASE Begin(e)
  <2>1. Moves(e) /\ Remote
    BY <1>1, BeginEffect
  <2>2. pc'[e] \in {"fill", "result", "record", "validate", "next", "abort", "terminal", "done", "lock"}
    BY <1>1, BeginEffect
  <2> QED BY <2>1, <2>2, SavesKept DEF SavedAt, Live
<1>2. CASE Fill(e)
  <2>1. Moves(e) /\ Remote
    BY <1>2, FillEffect
  <2>2. pc'[e] \in {"fill", "result", "record", "validate", "next", "abort", "terminal", "done", "lock"}
    BY <1>2, FillEffect
  <2> QED BY <2>1, <2>2, SavesKept DEF SavedAt, Live
<1>3. CASE RecordResult(e)
  <2>1. Moves(e) /\ Remote
    BY <1>3, RecordResultEffect
  <2>2. pc'[e] \in {"fill", "result", "record", "validate", "next", "abort", "terminal", "done", "lock"}
    BY <1>3, RecordResultEffect
  <2> QED BY <2>1, <2>2, SavesKept DEF SavedAt, Live
<1>4. CASE RecordJournal(e)
  <2>1. Moves(e) /\ Remote
    BY <1>4, RecordJournalEffect
  <2>2. pc'[e] \in {"fill", "result", "record", "validate", "next", "abort", "terminal", "done", "lock"}
    BY <1>4, RecordJournalEffect
  <2> QED BY <2>1, <2>2, SavesKept DEF SavedAt, Live
<1>5. CASE Validate(e)
  <2>1. Moves(e) /\ Remote
    BY <1>5, ValidateEffect
  <2>2. pc'[e] \in {"fill", "result", "record", "validate", "next", "abort", "terminal", "done", "lock"}
    BY <1>5, ValidateEffect
  <2> QED BY <2>1, <2>2, SavesKept DEF SavedAt, Live
<1>6. CASE Abort(e)
  <2>1. Moves(e) /\ Remote
    BY <1>6, AbortEffect
  <2>2. pc'[e] \in {"fill", "result", "record", "validate", "next", "abort", "terminal", "done", "lock"}
    BY <1>6, AbortEffect
  <2> QED BY <2>1, <2>2, SavesKept DEF SavedAt, Live
<1>7. CASE NextItem(e)
  <2>1. Moves(e) /\ Remote
    BY <1>7, NextItemEffect
  <2>2. pc'[e] \in {"fill", "result", "record", "validate", "next", "abort", "terminal", "done", "lock"}
    BY <1>7, NextItemEffect
  <2> QED BY <2>1, <2>2, SavesKept DEF SavedAt, Live
<1>8. CASE ProviderError(e)
  <2>1. Moves(e) /\ Remote
    BY <1>8, ProviderErrorEffect
  <2>2. pc'[e] \in {"fill", "result", "record", "validate", "next", "abort", "terminal", "done", "lock"}
    BY <1>8, ProviderErrorEffect
  <2> QED BY <2>1, <2>2, SavesKept DEF SavedAt, Live
<1>9. CASE Sweep(e)
  <2>1. Moves(e) /\ Remote
    BY <1>9, SweepEffect
  <2>2. pc'[e] \in {"fill", "result", "record", "validate", "next", "abort", "terminal", "done", "lock"}
    BY <1>9, SweepEffect
  <2> QED BY <2>1, <2>2, SavesKept DEF SavedAt, Live
<1>10. CASE Terminal(e)
  <2>1. Moves(e) /\ Remote
    BY <1>10, TerminalEffect
  <2>2. pc'[e] \in {"fill", "result", "record", "validate", "next", "abort", "terminal", "done", "lock"}
    BY <1>10, TerminalEffect
  <2> QED BY <2>1, <2>2, SavesKept DEF SavedAt, Live
<1>11. CASE AcquireLock(e)
  <2>0. PICK a \in Assets : mem[e].item = {a}
    BY <1>11, AnItem DEF AcquireLock, CommitSteps, Guarded, Unguarded
  <2>1. Moves(e) /\ Touches(e, a) /\ mem'[e].item = {a} /\ had' = had
    BY <1>11, <2>0, AcquireLockEffect DEF SameItem, Moves
  <2>2. Item(e) = a /\ Item(e)' = a
    BY <2>0, <2>1, ItemIs DEF Item
  <2>3. lock[a] \subseteq {e}
    BY <1>11, <2>0, <2>2, AcquireLockEffect DEF AcquireLock, Live, Exclusive, Hold, CommitSteps, Guarded, Unguarded
  <2>4. KeptAt(a) /\ SavedAt(e)
    BY DEF NeverLost, KeptAt, Kept, Saved, SavedAt
  <2>6. KeptAt(a)'
    BY <1>11, <2>0, <2>1, <2>2, <2>4, AcquireLockEffect DEF KeptAt, Kept, SavedAt, disk, Moves
  <2>7. SavedAt(e)'
    BY <1>11, <2>0, <2>1, <2>2, <2>4, AcquireLockEffect DEF KeptAt, Kept, SavedAt
  <2> QED BY <2>1, <2>3, <2>6, <2>7, SavesKept DEF Live
<1>12. CASE AssetBusy(e)
  <2>1. Moves(e) /\ Remote
    BY <1>12, AssetBusyEffect
  <2>2. pc'[e] \in {"fill", "result", "record", "validate", "next", "abort", "terminal", "done", "lock"}
    BY <1>12, AssetBusyEffect
  <2> QED BY <2>1, <2>2, SavesKept DEF SavedAt, Live
<1>13. CASE Decide(e)
  <2>0. PICK a \in Assets : mem[e].item = {a}
    BY <1>13, AnItem DEF Decide, CommitSteps, Guarded, Unguarded
  <2>1. Moves(e) /\ Touches(e, a) /\ mem'[e].item = {a} /\ had' = had
    BY <1>13, <2>0, DecideEffect DEF SameItem, Moves
  <2>2. Item(e) = a /\ Item(e)' = a
    BY <2>0, <2>1, ItemIs DEF Item
  <2>3. lock[a] \subseteq {e}
    BY <1>13, <2>0, <2>2, DecideEffect DEF Decide, Live, Exclusive, Hold, CommitSteps, Guarded, Unguarded
  <2>4. KeptAt(a) /\ SavedAt(e)
    BY DEF NeverLost, KeptAt, Kept, Saved, SavedAt
  <2>6. KeptAt(a)'
    BY <1>13, <2>0, <2>1, <2>2, <2>4, DecideEffect DEF KeptAt, Kept, SavedAt, disk, Moves
  <2>7. SavedAt(e)'
    BY <1>13, <2>0, <2>1, <2>2, <2>4, DecideEffect DEF KeptAt, Kept, SavedAt
  <2> QED BY <2>1, <2>3, <2>6, <2>7, SavesKept DEF Live
<1>14. CASE Reuse(e)
  <2>0. PICK a \in Assets : mem[e].item = {a}
    BY <1>14, AnItem DEF Reuse, CommitSteps, Guarded, Unguarded
  <2>1. Moves(e) /\ Touches(e, a) /\ mem'[e].item = {a} /\ had' = had
    BY <1>14, <2>0, ReuseEffect DEF SameItem, Moves
  <2>2. Item(e) = a /\ Item(e)' = a
    BY <2>0, <2>1, ItemIs DEF Item
  <2>3. lock[a] \subseteq {e}
    BY <1>14, <2>0, <2>2, ReuseEffect DEF Reuse, Live, Exclusive, Hold, CommitSteps, Guarded, Unguarded
  <2>4. KeptAt(a) /\ SavedAt(e)
    BY DEF NeverLost, KeptAt, Kept, Saved, SavedAt
  <2>6. KeptAt(a)'
    BY <1>14, <2>0, <2>1, <2>2, <2>4, ReuseEffect DEF KeptAt, Kept, SavedAt, disk, Moves
  <2>7. SavedAt(e)'
    BY <1>14, <2>0, <2>1, <2>2, <2>4, ReuseEffect DEF KeptAt, Kept, SavedAt
  <2> QED BY <2>1, <2>3, <2>6, <2>7, SavesKept DEF Live
<1>15. CASE Mark(e)
  <2>0. PICK a \in Assets : mem[e].item = {a}
    BY <1>15, AnItem DEF Mark, CommitSteps, Guarded, Unguarded
  <2>1. Moves(e) /\ Touches(e, a) /\ mem'[e].item = {a} /\ had' = had
    BY <1>15, <2>0, MarkEffect DEF SameItem, Moves
  <2>2. Item(e) = a /\ Item(e)' = a
    BY <2>0, <2>1, ItemIs DEF Item
  <2>3. lock[a] \subseteq {e}
    BY <1>15, <2>0, <2>2, MarkEffect DEF Mark, Live, Exclusive, Hold, CommitSteps, Guarded, Unguarded
  <2>4. KeptAt(a) /\ SavedAt(e)
    BY DEF NeverLost, KeptAt, Kept, Saved, SavedAt
  <2>6. KeptAt(a)'
    BY <1>15, <2>0, <2>1, <2>2, <2>4, MarkEffect DEF KeptAt, Kept, SavedAt, disk, Moves
  <2>7. SavedAt(e)'
    BY <1>15, <2>0, <2>1, <2>2, <2>4, MarkEffect DEF KeptAt, Kept, SavedAt
  <2> QED BY <2>1, <2>3, <2>6, <2>7, SavesKept DEF Live
<1>16. CASE Aside(e)
  <2>0. PICK a \in Assets : mem[e].item = {a}
    BY <1>16, AnItem DEF Aside, CommitSteps, Guarded, Unguarded
  <2>1. Moves(e) /\ Touches(e, a) /\ mem'[e].item = {a} /\ had' = had
    BY <1>16, <2>0, AsideEffect DEF SameItem, Moves
  <2>2. Item(e) = a /\ Item(e)' = a
    BY <2>0, <2>1, ItemIs DEF Item
  <2>3. lock[a] \subseteq {e}
    BY <1>16, <2>0, <2>2, AsideEffect DEF Aside, Live, Exclusive, Hold, CommitSteps, Guarded, Unguarded
  <2>4. KeptAt(a) /\ SavedAt(e)
    BY DEF NeverLost, KeptAt, Kept, Saved, SavedAt
  <2>6. KeptAt(a)'
    BY <1>16, <2>0, <2>1, <2>2, <2>4, AsideEffect DEF KeptAt, Kept, SavedAt, disk, Moves
  <2>7. SavedAt(e)'
    BY <1>16, <2>0, <2>1, <2>2, <2>4, AsideEffect DEF KeptAt, Kept, SavedAt
  <2> QED BY <2>1, <2>3, <2>6, <2>7, SavesKept DEF Live
<1>17. CASE Place(e)
  <2>0. PICK a \in Assets : mem[e].item = {a}
    BY <1>17, AnItem DEF Place, CommitSteps, Guarded, Unguarded
  <2>1. Moves(e) /\ Touches(e, a) /\ mem'[e].item = {a} /\ had' = had
    BY <1>17, <2>0, PlaceEffect DEF SameItem, Moves
  <2>2. Item(e) = a /\ Item(e)' = a
    BY <2>0, <2>1, ItemIs DEF Item
  <2>3. lock[a] \subseteq {e}
    BY <1>17, <2>0, <2>2, PlaceEffect DEF Place, Live, Exclusive, Hold, CommitSteps, Guarded, Unguarded
  <2>4. KeptAt(a) /\ SavedAt(e)
    BY DEF NeverLost, KeptAt, Kept, Saved, SavedAt
  <2>5. dest[a] = Nothing
    BY <1>17, <2>0, <2>2, PlaceEffect DEF Live, Fresh
  <2>6. KeptAt(a)'
    BY <1>17, <2>0, <2>1, <2>2, <2>4, <2>5, PlaceEffect DEF KeptAt, Kept, SavedAt, disk, Moves
  <2>7. SavedAt(e)'
    BY <1>17, <2>0, <2>1, <2>2, <2>4, <2>5, PlaceEffect DEF KeptAt, Kept, SavedAt
  <2> QED BY <2>1, <2>3, <2>6, <2>7, SavesKept DEF Live
<1>18. CASE Engine(e)
  <2>0. PICK a \in Assets : mem[e].item = {a}
    BY <1>18, AnItem DEF Engine, CommitSteps, Guarded, Unguarded
  <2>1. Moves(e) /\ Touches(e, a) /\ mem'[e].item = {a} /\ had' = had
    BY <1>18, <2>0, EngineEffect DEF SameItem, Moves
  <2>2. Item(e) = a /\ Item(e)' = a
    BY <2>0, <2>1, ItemIs DEF Item
  <2>3. lock[a] \subseteq {e}
    BY <1>18, <2>0, <2>2, EngineEffect DEF Engine, Live, Exclusive, Hold, CommitSteps, Guarded, Unguarded
  <2>4. KeptAt(a) /\ SavedAt(e)
    BY DEF NeverLost, KeptAt, Kept, Saved, SavedAt
  <2>6. KeptAt(a)'
    BY <1>18, <2>0, <2>1, <2>2, <2>4, EngineEffect DEF KeptAt, Kept, SavedAt, disk, Moves
  <2>7. SavedAt(e)'
    BY <1>18, <2>0, <2>1, <2>2, <2>4, EngineEffect DEF KeptAt, Kept, SavedAt, disk
  <2> QED BY <2>1, <2>3, <2>6, <2>7, SavesKept DEF Live
<1>19. CASE WriteProvenance(e)
  <2>0. PICK a \in Assets : mem[e].item = {a}
    BY <1>19, AnItem DEF WriteProvenance, CommitSteps, Guarded, Unguarded
  <2>1. Moves(e) /\ Touches(e, a) /\ mem'[e].item = {a} /\ had' = had
    BY <1>19, <2>0, WriteProvenanceEffect DEF SameItem, Moves
  <2>2. Item(e) = a /\ Item(e)' = a
    BY <2>0, <2>1, ItemIs DEF Item
  <2>3. lock[a] \subseteq {e}
    BY <1>19, <2>0, <2>2, WriteProvenanceEffect DEF WriteProvenance, Live, Exclusive, Hold, CommitSteps, Guarded, Unguarded
  <2>4. KeptAt(a) /\ SavedAt(e)
    BY DEF NeverLost, KeptAt, Kept, Saved, SavedAt
  <2>6. KeptAt(a)'
    BY ZenonT(60), <1>19, <2>0, <2>1, <2>2, <2>4, WriteProvenanceEffect DEF KeptAt, Kept, SavedAt, disk, Moves
  <2>7. SavedAt(e)'
    BY <1>19, <2>0, <2>1, <2>2, <2>4, WriteProvenanceEffect DEF KeptAt, Kept, SavedAt
  <2> QED BY <2>1, <2>3, <2>6, <2>7, SavesKept DEF Live
<1>20. CASE EngineVerified(e)
  <2>0. PICK a \in Assets : mem[e].item = {a}
    BY <1>20, AnItem DEF EngineVerified, CommitSteps, Guarded, Unguarded
  <2>1. Moves(e) /\ Touches(e, a) /\ mem'[e].item = {a} /\ had' = had
    BY <1>20, <2>0, EngineVerifiedEffect DEF SameItem, Moves
  <2>2. Item(e) = a /\ Item(e)' = a
    BY <2>0, <2>1, ItemIs DEF Item
  <2>3. lock[a] \subseteq {e}
    BY <1>20, <2>0, <2>2, EngineVerifiedEffect DEF EngineVerified, Live, Exclusive, Hold, CommitSteps, Guarded, Unguarded
  <2>4. KeptAt(a) /\ SavedAt(e)
    BY DEF NeverLost, KeptAt, Kept, Saved, SavedAt
  <2>6. KeptAt(a)'
    BY <1>20, <2>0, <2>1, <2>2, <2>4, EngineVerifiedEffect DEF KeptAt, Kept, SavedAt, disk, Moves
  <2>7. SavedAt(e)'
    BY <1>20, <2>0, <2>1, <2>2, <2>4, EngineVerifiedEffect DEF KeptAt, Kept, SavedAt
  <2> QED BY <2>1, <2>3, <2>6, <2>7, SavesKept DEF Live
<1>21. CASE DropBackup(e)
  <2>0. PICK a \in Assets : mem[e].item = {a}
    BY <1>21, AnItem DEF DropBackup, CommitSteps, Guarded, Unguarded
  <2>1. Moves(e) /\ Touches(e, a) /\ mem'[e].item = {a} /\ had' = had
    BY <1>21, <2>0, DropBackupEffect DEF SameItem, Moves
  <2>2. Item(e) = a /\ Item(e)' = a
    BY <2>0, <2>1, ItemIs DEF Item
  <2>3. lock[a] \subseteq {e}
    BY <1>21, <2>0, <2>2, DropBackupEffect DEF DropBackup, Live, Exclusive, Hold, CommitSteps, Guarded, Unguarded
  <2>4. KeptAt(a) /\ SavedAt(e)
    BY DEF NeverLost, KeptAt, Kept, Saved, SavedAt
  <2>5. dest[a] # Nothing
    BY <1>21, <1>0, <2>0, <2>2, DropBackupEffect DEF Live, Fresh
  <2>6. KeptAt(a)'
    BY <1>21, <2>0, <2>1, <2>2, <2>4, <2>5, DropBackupEffect DEF KeptAt, Kept, SavedAt, disk, Moves
  <2>7. SavedAt(e)'
    BY <1>21, <2>0, <2>1, <2>2, <2>4, <2>5, DropBackupEffect DEF KeptAt, Kept, SavedAt
  <2> QED BY <2>1, <2>3, <2>6, <2>7, SavesKept DEF Live
<1>22. CASE Committed(e)
  <2>0. PICK a \in Assets : mem[e].item = {a}
    BY <1>22, AnItem DEF Committed, CommitSteps, Guarded, Unguarded
  <2>1. Moves(e) /\ Touches(e, a) /\ mem'[e].item = {a} /\ had' = had
    BY <1>22, <2>0, CommittedEffect DEF SameItem, Moves
  <2>2. Item(e) = a /\ Item(e)' = a
    BY <2>0, <2>1, ItemIs DEF Item
  <2>3. lock[a] \subseteq {e}
    BY <1>22, <2>0, <2>2, CommittedEffect DEF Committed, Live, Exclusive, Hold, CommitSteps, Guarded, Unguarded
  <2>4. KeptAt(a) /\ SavedAt(e)
    BY DEF NeverLost, KeptAt, Kept, Saved, SavedAt
  <2>6. KeptAt(a)'
    BY <1>22, <2>0, <2>1, <2>2, <2>4, CommittedEffect DEF KeptAt, Kept, SavedAt, disk, Moves
  <2>7. SavedAt(e)'
    BY <1>22, <2>0, <2>1, <2>2, <2>4, CommittedEffect DEF KeptAt, Kept, SavedAt
  <2> QED BY <2>1, <2>3, <2>6, <2>7, SavesKept DEF Live
<1>23. CASE UndoRemove(e)
  <2>0. PICK a \in Assets : mem[e].item = {a}
    BY <1>23, AnItem DEF UndoRemove, CommitSteps, Guarded, Unguarded
  <2>1. Moves(e) /\ Touches(e, a) /\ mem'[e].item = {a} /\ had' = had
    BY <1>23, <2>0, UndoRemoveEffect DEF SameItem, Moves
  <2>2. Item(e) = a /\ Item(e)' = a
    BY <2>0, <2>1, ItemIs DEF Item
  <2>3. lock[a] \subseteq {e}
    BY <1>23, <2>0, <2>2, UndoRemoveEffect DEF UndoRemove, Live, Exclusive, Hold, CommitSteps, Guarded, Unguarded
  <2>4. KeptAt(a) /\ SavedAt(e)
    BY DEF NeverLost, KeptAt, Kept, Saved, SavedAt
  <2>6. KeptAt(a)'
    BY <1>23, <2>0, <2>1, <2>2, <2>4, UndoRemoveEffect DEF KeptAt, Kept, SavedAt, disk, Moves
  <2>7. SavedAt(e)'
    BY <1>23, <2>0, <2>1, <2>2, <2>4, UndoRemoveEffect DEF KeptAt, Kept, SavedAt
  <2> QED BY <2>1, <2>3, <2>6, <2>7, SavesKept DEF Live
<1>24. CASE UndoRestore(e)
  <2>0. PICK a \in Assets : mem[e].item = {a}
    BY <1>24, AnItem DEF UndoRestore, CommitSteps, Guarded, Unguarded
  <2>1. Moves(e) /\ Touches(e, a) /\ mem'[e].item = {a} /\ had' = had
    BY <1>24, <2>0, UndoRestoreEffect DEF SameItem, Moves
  <2>2. Item(e) = a /\ Item(e)' = a
    BY <2>0, <2>1, ItemIs DEF Item
  <2>3. lock[a] \subseteq {e}
    BY <1>24, <2>0, <2>2, UndoRestoreEffect DEF UndoRestore, Live, Exclusive, Hold, CommitSteps, Guarded, Unguarded
  <2>4. KeptAt(a) /\ SavedAt(e)
    BY DEF NeverLost, KeptAt, Kept, Saved, SavedAt
  <2>6. KeptAt(a)'
    BY <1>24, <2>0, <2>1, <2>2, <2>4, UndoRestoreEffect DEF KeptAt, Kept, SavedAt, disk, Moves
  <2>7. SavedAt(e)'
    BY <1>24, <2>0, <2>1, <2>2, <2>4, UndoRestoreEffect DEF KeptAt, Kept, SavedAt
  <2> QED BY <2>1, <2>3, <2>6, <2>7, SavesKept DEF Live
<1>25. CASE UndoMark(e)
  <2>0. PICK a \in Assets : mem[e].item = {a}
    BY <1>25, AnItem DEF UndoMark, CommitSteps, Guarded, Unguarded
  <2>1. Moves(e) /\ Touches(e, a) /\ mem'[e].item = {a} /\ had' = had
    BY <1>25, <2>0, UndoMarkEffect DEF SameItem, Moves
  <2>2. Item(e) = a /\ Item(e)' = a
    BY <2>0, <2>1, ItemIs DEF Item
  <2>3. lock[a] \subseteq {e}
    BY <1>25, <2>0, <2>2, UndoMarkEffect DEF UndoMark, Live, Exclusive, Hold, CommitSteps, Guarded, Unguarded
  <2>4. KeptAt(a) /\ SavedAt(e)
    BY DEF NeverLost, KeptAt, Kept, Saved, SavedAt
  <2>6. KeptAt(a)'
    BY <1>25, <2>0, <2>1, <2>2, <2>4, UndoMarkEffect DEF KeptAt, Kept, SavedAt, disk, Moves
  <2>7. SavedAt(e)'
    BY <1>25, <2>0, <2>1, <2>2, <2>4, UndoMarkEffect DEF KeptAt, Kept, SavedAt
  <2> QED BY <2>1, <2>3, <2>6, <2>7, SavesKept DEF Live
<1>26. CASE ReleaseLock(e)
  <2>0. PICK a \in Assets : mem[e].item = {a}
    BY <1>26, AnItem DEF ReleaseLock, CommitSteps, Guarded, Unguarded
  <2>1. Moves(e) /\ Touches(e, a) /\ mem'[e].item = {a} /\ had' = had
    BY <1>26, <2>0, ReleaseLockEffect DEF SameItem, Moves
  <2>2. Item(e) = a /\ Item(e)' = a
    BY <2>0, <2>1, ItemIs DEF Item
  <2>3. lock[a] \subseteq {e}
    BY <1>26, <2>0, <2>2, ReleaseLockEffect DEF ReleaseLock, Live, Exclusive, Hold, CommitSteps, Guarded, Unguarded
  <2>4. KeptAt(a) /\ SavedAt(e)
    BY DEF NeverLost, KeptAt, Kept, Saved, SavedAt
  <2>6. KeptAt(a)'
    BY <1>26, <2>0, <2>1, <2>2, <2>4, ReleaseLockEffect DEF KeptAt, Kept, SavedAt, disk, Moves
  <2>7. SavedAt(e)'
    BY <1>26, <2>0, <2>1, <2>2, <2>4, ReleaseLockEffect DEF KeptAt, Kept, SavedAt
  <2> QED BY <2>1, <2>3, <2>6, <2>7, SavesKept DEF Live
<1>27. CASE Fault(e)
  <2>0. PICK a \in Assets : mem[e].item = {a}
    BY <1>27, AnItem DEF Fault, CommitSteps, Guarded, Unguarded
  <2>1. Moves(e) /\ Touches(e, a) /\ mem'[e].item = {a} /\ had' = had
    BY <1>27, <2>0, FaultEffect DEF SameItem, Moves
  <2>2. Item(e) = a /\ Item(e)' = a
    BY <2>0, <2>1, ItemIs DEF Item
  <2>3. lock[a] \subseteq {e}
    BY <1>27, <2>0, <2>2, FaultEffect DEF Fault, Live, Exclusive, Hold, CommitSteps, Guarded, Unguarded
  <2>4. KeptAt(a) /\ SavedAt(e)
    BY DEF NeverLost, KeptAt, Kept, Saved, SavedAt
  <2>6. KeptAt(a)'
    BY <1>27, <2>0, <2>1, <2>2, <2>4, FaultEffect DEF KeptAt, Kept, SavedAt, disk, Moves
  <2>7. SavedAt(e)'
    BY <1>27, <2>0, <2>1, <2>2, <2>4, FaultEffect DEF KeptAt, Kept, SavedAt, Guarded, Unguarded, disk, Unexposed, Exposing
  <2> QED BY <2>1, <2>3, <2>6, <2>7, SavesKept DEF Live
<1> QED BY <1>1, <1>2, <1>3, <1>4, <1>5, <1>6, <1>7, <1>8, <1>9, <1>10, <1>11, <1>12, <1>13, <1>14, <1>15, <1>16, <1>17, <1>18, <1>19, <1>20, <1>21, <1>22, <1>23, <1>24, <1>25, <1>26, <1>27 DEF Import, CommitItem
-----------------------------------------------------------------------------
(* What a doctor finds *)

\* The part of an import e that commits asset a.
CarefulAt(e, a) ==
  /\ journal[e].state = "committing" =>
       /\ pc[e] \in {"aside", "place", "engine", "prov", "verified", "undo_rm", "undo_restore", "undo_mark", "dead"}
       /\ journal[e].destination = {a} /\ lock[a] = {e}
  /\ lock[a] \subseteq {e} /\ (e \in lock[a] => pc[e] \in Hold)
  /\ backup[e][a] # Nothing => lock[a] = {e}
  /\ pc[e] \in {"decide", "reuse", "mark", "aside", "committed", "undo_mark", "release"} => backup[e][a] = Nothing
  /\ journal[e].state = "committing" /\ pc[e] \notin {"aside", "undo_mark"} /\ a \in had => backup[e][a] # Nothing
  /\ journal[e].state = "committing" /\ a \in had => journal[e].saved

\* A living import has no doctor beside it.
LEMMA NobodyTends ==
  ASSUME DoctorsAlone, NEW e \in Importers, Alive(e), NEW d \in Doctors
  PROVE  ~Alive(d) /\ pc[d] \notin {"visit", "d_rm", "d_restore", "d_mark"}
<1>1. e \in Procs /\ e # d /\ d \in Procs
  BY Kinds DEF Procs
<1> QED BY <1>1 DEF DoctorsAlone, Alive

LEMMA NobodyTendsYet ==
  ASSUME DoctorsAlone', NEW e \in Importers, Alive(e)', NEW d \in Doctors
  PROVE  pc'[d] \notin {"visit", "d_rm", "d_restore", "d_mark"}
<1>1. e \in Procs /\ e # d /\ d \in Procs
  BY Kinds DEF Procs
<1> QED BY <1>1 DEF DoctorsAlone, Alive

\* Everything a step of an import's own asset leaves alone is as it was.
LEMMA CareKept ==
  ASSUME Typed, Careful, NEW e \in Importers, NEW a \in Assets, Moves(e), Touches(e, a),
         mem'[e].item = {a}, lock[a] \subseteq {e}, pc[e] # "dead", pc'[e] # "dead",
         pc[e] \in Hold => mem[e].item = {a}, CarefulAt(e, a)',
         \A d \in Doctors : pc'[d] \notin {"d_rm", "d_restore", "d_mark"}
  PROVE  Careful'
<1>0. \A f \in Importers : f \in Procs
  BY Kinds
<1>1. ASSUME NEW f \in Importers \ {e}, NEW b \in Assets, lock[b] = {f}
      PROVE  dest'[b] = dest[b] /\ lock'[b] = lock[b]
  BY <1>1 DEF Touches
<1>2. \A f \in Importers \ {e} :
        /\ pc'[f] = pc[f] /\ mem'[f] = mem[f] /\ journal'[f] = journal[f] /\ backup'[f] = backup[f]
        /\ Item(f)' = Item(f)
  BY <1>0, OtherItems DEF Moves
<1>3. \A b \in Assets \ {a} : lock'[b] = lock[b] /\ backup'[e][b] = backup[e][b] /\ e \notin lock[b]
  BY <1>0 DEF Touches, Careful, LocksUsed
<1>4. JournalsLocked'
  <2> SUFFICES ASSUME NEW f \in Importers, journal'[f].state = "committing"
               PROVE  /\ pc'[f] \in {"aside", "place", "engine", "prov", "verified", "undo_rm", "undo_restore",
                                     "undo_mark", "dead"}
                      /\ pc'[f] # "dead" => journal'[f].destination = mem'[f].item
                      /\ \A b \in journal'[f].destination : lock'[b] = {f}
    BY DEF JournalsLocked
  <2>1. CASE f = e
    BY <2>1 DEF CarefulAt
  <2>2. CASE f # e
    <3>1. \A b \in journal[f].destination : b \in Assets /\ lock[b] = {f}
      BY <1>2, <2>2 DEF Careful, JournalsLocked, Typed, Disks, Journals
    <3> QED BY <1>1, <1>2, <2>2, <3>1 DEF Careful, JournalsLocked
  <2> QED BY <2>1, <2>2
<1>5. LocksUsed'
  <2> SUFFICES ASSUME NEW b \in Assets, NEW f \in Importers, f \in lock'[b]
               PROVE  lock'[b] = {f} /\ (pc'[f] = "dead" \/ (pc'[f] \in Hold /\ mem'[f].item = {b}))
    BY DEF LocksUsed
  <2>1. CASE b = a
    BY <2>1 DEF CarefulAt
  <2>2. CASE b # a
    BY <1>2, <1>3, <2>2 DEF Careful, LocksUsed
  <2> QED BY <2>1, <2>2
<1>6. BackupsLocked'
  <2> SUFFICES ASSUME NEW f \in Importers, NEW b \in Assets, backup'[f][b] # Nothing PROVE lock'[b] = {f}
    BY DEF BackupsLocked
  <2>1. CASE f = e /\ b = a
    BY <2>1 DEF CarefulAt
  <2>2. CASE f = e /\ b # a
    BY <1>3, <2>2 DEF Careful, BackupsLocked
  <2>3. CASE f # e
    BY <1>1, <1>2, <2>3 DEF Careful, BackupsLocked
  <2> QED BY <2>1, <2>2, <2>3
<1>7. NoBackup'
  <2>1. Item(e)' = a
    BY DEF Item
  <2> QED BY <1>2, <2>1 DEF CarefulAt, Careful, NoBackup
<1>8. Restorable'
  <2> SUFFICES ASSUME NEW f \in Importers, journal'[f].state = "committing", pc'[f] \notin {"aside", "undo_mark"},
                      \A d \in Doctors : pc'[d] = "d_mark" => visit'[d].at # {f},
                      NEW b \in journal'[f].destination \cap had'
               PROVE  backup'[f][b] # Nothing
    BY DEF Restorable
  <2>1. CASE f = e
    BY <2>1 DEF CarefulAt
  <2>2. CASE f # e
    <3>1. \A d \in Doctors : pc[d] = "d_mark" => visit[d].at # {f}
      <4>1. \A d \in Doctors : d \in Procs /\ d # e
        BY Kinds DEF Procs
      <4> QED BY <4>1 DEF Moves
    <3> QED BY SMTT(30), <1>2, <2>2, <3>1 DEF Careful, Restorable, Moves
  <2> QED BY <2>1, <2>2
<1>9. Tended'
  BY DEF Tended
<1>10. Promised'
  BY <1>2 DEF CarefulAt, Careful, Promised, Moves
<1> QED BY <1>4, <1>5, <1>6, <1>7, <1>8, <1>9, <1>10 DEF Careful

\* A step before or after the commits of an import.
LEMMA CareAway ==
  ASSUME Typed, Careful, NEW e \in Importers, Moves(e), Remote, pc[e] \notin Hold \cup {"dead"}, pc'[e] \notin Hold \cup {"dead"},
         journal'[e] = journal[e] \/ journal'[e].state # "committing",
         \A d \in Doctors : pc'[d] \notin {"d_rm", "d_restore", "d_mark"}
  PROVE  Careful'
<1>0. \A f \in Importers : f \in Procs
  BY Kinds
<1>1. \A f \in Importers \ {e} :
        /\ pc'[f] = pc[f] /\ mem'[f] = mem[f] /\ journal'[f] = journal[f] /\ Item(f)' = Item(f)
  BY <1>0, OtherItems DEF Moves
<1>2. lock' = lock /\ backup' = backup /\ had' = had
  BY DEF Remote, Moves
<1>3. journal'[e].state # "committing"
  BY DEF Careful, JournalsLocked, Hold, CommitSteps, Guarded
<1>4. JournalsLocked'
  BY <1>1, <1>2, <1>3 DEF Careful, JournalsLocked
<1>5. LocksUsed'
  BY <1>1, <1>2 DEF Careful, LocksUsed
<1>6. BackupsLocked'
  BY <1>2 DEF Careful, BackupsLocked
<1>7. NoBackup'
  <2>1. pc'[e] \notin {"decide", "reuse", "mark", "aside", "committed", "undo_mark", "release"}
    BY DEF Hold, CommitSteps, Guarded
  <2> QED BY <1>1, <1>2, <2>1 DEF Careful, NoBackup
<1>8. Restorable'
  <2>1. \A d \in Doctors : d \in Procs /\ d # e /\ pc'[d] = pc[d] /\ visit' = visit
    BY Kinds DEF Procs, Moves
  <2> QED BY <1>1, <1>2, <1>3, <2>1 DEF Careful, Restorable
<1>9. Tended'
  BY DEF Tended
<1>10. Promised'
  BY <1>1, <1>2, <1>3 DEF Careful, Promised
<1> QED BY <1>4, <1>5, <1>6, <1>7, <1>8, <1>9, <1>10 DEF Careful

LEMMA ImportCareful ==
  ASSUME Unexposed', Typed, DoctorsAlone, DoctorsAlone', Live, NeverLost, Careful,
         NEW e \in Importers, Import(e) \/ CommitItem(e) \/ Fault(e)
  PROVE  Careful'
<1>0. e \in Procs
  BY Kinds
<1>1. CASE Begin(e)
  <2>1. Moves(e) /\ Remote /\ (journal'[e] = journal[e] \/ journal'[e].state # "committing")
    BY <1>1, BeginEffect
  <2>2. /\ pc[e] \in {"idle", "fill", "result", "record", "validate", "next", "abort", "terminal", "lock"}
        /\ pc'[e] \in {"fill", "result", "record", "validate", "next", "abort", "terminal", "done", "lock"}
        /\ Alive(e)'
    BY <1>1, BeginEffect DEF Alive
  <2>3. \A d \in Doctors : pc'[d] \notin {"d_rm", "d_restore", "d_mark"}
    BY <2>1, <2>2, Kinds, NobodyTends, NobodyTendsYet DEF Moves, Procs
  <2> QED BY <2>1, <2>2, <2>3, CareAway DEF Hold, CommitSteps, Guarded
<1>2. CASE Fill(e)
  <2>1. Moves(e) /\ Remote /\ (journal'[e] = journal[e] \/ journal'[e].state # "committing")
    BY <1>2, FillEffect
  <2>2. /\ pc[e] \in {"idle", "fill", "result", "record", "validate", "next", "abort", "terminal", "lock"}
        /\ pc'[e] \in {"fill", "result", "record", "validate", "next", "abort", "terminal", "done", "lock"}
        /\ Alive(e)
    BY <1>2, FillEffect DEF Alive
  <2>3. \A d \in Doctors : pc'[d] \notin {"d_rm", "d_restore", "d_mark"}
    BY <2>1, <2>2, Kinds, NobodyTends, NobodyTendsYet DEF Moves, Procs
  <2> QED BY <2>1, <2>2, <2>3, CareAway DEF Hold, CommitSteps, Guarded
<1>3. CASE RecordResult(e)
  <2>1. Moves(e) /\ Remote /\ (journal'[e] = journal[e] \/ journal'[e].state # "committing")
    BY <1>3, RecordResultEffect
  <2>2. /\ pc[e] \in {"idle", "fill", "result", "record", "validate", "next", "abort", "terminal", "lock"}
        /\ pc'[e] \in {"fill", "result", "record", "validate", "next", "abort", "terminal", "done", "lock"}
        /\ Alive(e)
    BY <1>3, RecordResultEffect DEF Alive
  <2>3. \A d \in Doctors : pc'[d] \notin {"d_rm", "d_restore", "d_mark"}
    BY <2>1, <2>2, Kinds, NobodyTends, NobodyTendsYet DEF Moves, Procs
  <2> QED BY <2>1, <2>2, <2>3, CareAway DEF Hold, CommitSteps, Guarded
<1>4. CASE RecordJournal(e)
  <2>1. Moves(e) /\ Remote /\ (journal'[e] = journal[e] \/ journal'[e].state # "committing")
    BY <1>4, RecordJournalEffect
  <2>2. /\ pc[e] \in {"idle", "fill", "result", "record", "validate", "next", "abort", "terminal", "lock"}
        /\ pc'[e] \in {"fill", "result", "record", "validate", "next", "abort", "terminal", "done", "lock"}
        /\ Alive(e)
    BY <1>4, RecordJournalEffect DEF Alive
  <2>3. \A d \in Doctors : pc'[d] \notin {"d_rm", "d_restore", "d_mark"}
    BY <2>1, <2>2, Kinds, NobodyTends, NobodyTendsYet DEF Moves, Procs
  <2> QED BY <2>1, <2>2, <2>3, CareAway DEF Hold, CommitSteps, Guarded
<1>5. CASE Validate(e)
  <2>1. Moves(e) /\ Remote /\ (journal'[e] = journal[e] \/ journal'[e].state # "committing")
    BY <1>5, ValidateEffect
  <2>2. /\ pc[e] \in {"idle", "fill", "result", "record", "validate", "next", "abort", "terminal", "lock"}
        /\ pc'[e] \in {"fill", "result", "record", "validate", "next", "abort", "terminal", "done", "lock"}
        /\ Alive(e)
    BY <1>5, ValidateEffect DEF Alive
  <2>3. \A d \in Doctors : pc'[d] \notin {"d_rm", "d_restore", "d_mark"}
    BY <2>1, <2>2, Kinds, NobodyTends, NobodyTendsYet DEF Moves, Procs
  <2> QED BY <2>1, <2>2, <2>3, CareAway DEF Hold, CommitSteps, Guarded
<1>6. CASE Abort(e)
  <2>1. Moves(e) /\ Remote /\ (journal'[e] = journal[e] \/ journal'[e].state # "committing")
    BY <1>6, AbortEffect
  <2>2. /\ pc[e] \in {"idle", "fill", "result", "record", "validate", "next", "abort", "terminal", "lock"}
        /\ pc'[e] \in {"fill", "result", "record", "validate", "next", "abort", "terminal", "done", "lock"}
        /\ Alive(e)
    BY <1>6, AbortEffect DEF Alive
  <2>3. \A d \in Doctors : pc'[d] \notin {"d_rm", "d_restore", "d_mark"}
    BY <2>1, <2>2, Kinds, NobodyTends, NobodyTendsYet DEF Moves, Procs
  <2> QED BY <2>1, <2>2, <2>3, CareAway DEF Hold, CommitSteps, Guarded
<1>7. CASE NextItem(e)
  <2>1. Moves(e) /\ Remote /\ (journal'[e] = journal[e] \/ journal'[e].state # "committing")
    BY <1>7, NextItemEffect
  <2>2. /\ pc[e] \in {"idle", "fill", "result", "record", "validate", "next", "abort", "terminal", "lock"}
        /\ pc'[e] \in {"fill", "result", "record", "validate", "next", "abort", "terminal", "done", "lock"}
        /\ Alive(e)
    BY <1>7, NextItemEffect DEF Alive
  <2>3. \A d \in Doctors : pc'[d] \notin {"d_rm", "d_restore", "d_mark"}
    BY <2>1, <2>2, Kinds, NobodyTends, NobodyTendsYet DEF Moves, Procs
  <2> QED BY <2>1, <2>2, <2>3, CareAway DEF Hold, CommitSteps, Guarded
<1>8. CASE ProviderError(e)
  <2>1. Moves(e) /\ Remote /\ (journal'[e] = journal[e] \/ journal'[e].state # "committing")
    BY <1>8, ProviderErrorEffect
  <2>2. /\ pc[e] \in {"idle", "fill", "result", "record", "validate", "next", "abort", "terminal", "lock"}
        /\ pc'[e] \in {"fill", "result", "record", "validate", "next", "abort", "terminal", "done", "lock"}
        /\ Alive(e)
    BY <1>8, ProviderErrorEffect DEF Alive
  <2>3. \A d \in Doctors : pc'[d] \notin {"d_rm", "d_restore", "d_mark"}
    BY <2>1, <2>2, Kinds, NobodyTends, NobodyTendsYet DEF Moves, Procs
  <2> QED BY <2>1, <2>2, <2>3, CareAway DEF Hold, CommitSteps, Guarded
<1>9. CASE Sweep(e)
  <2>1. Moves(e) /\ Remote /\ (journal'[e] = journal[e] \/ journal'[e].state # "committing")
    BY <1>9, SweepEffect
  <2>2. /\ pc[e] \in {"idle", "fill", "result", "record", "validate", "next", "abort", "terminal", "lock"}
        /\ pc'[e] \in {"fill", "result", "record", "validate", "next", "abort", "terminal", "done", "lock"}
        /\ Alive(e)
    BY <1>9, SweepEffect DEF Alive
  <2>3. \A d \in Doctors : pc'[d] \notin {"d_rm", "d_restore", "d_mark"}
    BY <2>1, <2>2, Kinds, NobodyTends, NobodyTendsYet DEF Moves, Procs
  <2> QED BY <2>1, <2>2, <2>3, CareAway DEF Hold, CommitSteps, Guarded
<1>10. CASE Terminal(e)
  <2>1. Moves(e) /\ Remote /\ (journal'[e] = journal[e] \/ journal'[e].state # "committing")
    BY <1>10, TerminalEffect
  <2>2. /\ pc[e] \in {"idle", "fill", "result", "record", "validate", "next", "abort", "terminal", "lock"}
        /\ pc'[e] \in {"fill", "result", "record", "validate", "next", "abort", "terminal", "done", "lock"}
        /\ Alive(e)
    BY <1>10, TerminalEffect DEF Alive
  <2>3. \A d \in Doctors : pc'[d] \notin {"d_rm", "d_restore", "d_mark"}
    BY <2>1, <2>2, Kinds, NobodyTends, NobodyTendsYet DEF Moves, Procs
  <2> QED BY <2>1, <2>2, <2>3, CareAway DEF Hold, CommitSteps, Guarded
<1>11. CASE AcquireLock(e)
  <2>0. PICK a \in Assets : mem[e].item = {a}
    BY <1>11, AnItem DEF AcquireLock, CommitSteps, Guarded, Unguarded
  <2>1. Moves(e) /\ Touches(e, a) /\ mem'[e].item = {a} /\ had' = had
    BY <1>11, <2>0, AcquireLockEffect DEF SameItem, Moves
  <2>2. Item(e) = a /\ pc[e] \in CommitSteps /\ pc'[e] # "dead"
    BY <1>11, <2>0, AcquireLockEffect, ItemIs DEF CommitSteps, Guarded, Unguarded
  <2>3. pc[e] # "dead" /\ Alive(e)
    BY <2>2 DEF CommitSteps, Guarded, Alive
  <2>4. \A d \in Doctors : pc'[d] \notin {"d_rm", "d_restore", "d_mark"}
    BY <2>1, <2>3, Kinds, NobodyTends DEF Moves, Procs
  <2>5. /\ lock[a] = {}
        /\ journal[e].state = "committing" =>
             /\ pc[e] \in {"aside", "place", "engine", "prov", "verified", "undo_rm", "undo_restore", "undo_mark"}
             /\ journal[e].destination = {a}
    BY <1>11, <2>0, <2>2, <2>3, AcquireLockEffect DEF Live, Exclusive, Hold, Careful, JournalsLocked
  <2>6. /\ pc[e] \in {"decide", "reuse", "mark", "aside", "committed", "undo_mark", "release"} => backup[e][a] = Nothing
        /\ backup[e][a] # Nothing => lock[a] = {e}
        /\ journal[e].state = "committing" /\ pc[e] \notin {"aside", "undo_mark"} /\ a \in had => backup[e][a] # Nothing
        /\ journal[e].state = "committing" /\ a \in had => journal[e].saved
    <3>1. \A d \in Doctors : pc[d] # "d_mark"
      BY <2>3, NobodyTends
    <3> QED BY <2>2, <2>5, <3>1 DEF Careful, NoBackup, BackupsLocked, Restorable, Promised
  <2>8. CarefulAt(e, a)'
    BY <1>11, <2>0, <2>1, <2>5, <2>6, AcquireLockEffect DEF CarefulAt, Hold, CommitSteps, Guarded, disk
  <2>9. lock[a] \subseteq {e} /\ (pc[e] \in Hold => mem[e].item = {a})
    BY <2>0, <2>5
  <2> QED BY <2>1, <2>2, <2>3, <2>4, <2>8, <2>9, CareKept
<1>12. CASE AssetBusy(e)
  <2>1. Moves(e) /\ Remote /\ (journal'[e] = journal[e] \/ journal'[e].state # "committing")
    BY <1>12, AssetBusyEffect
  <2>2. /\ pc[e] \in {"idle", "fill", "result", "record", "validate", "next", "abort", "terminal", "lock"}
        /\ pc'[e] \in {"fill", "result", "record", "validate", "next", "abort", "terminal", "done", "lock"}
        /\ Alive(e)
    BY <1>12, AssetBusyEffect DEF Alive
  <2>3. \A d \in Doctors : pc'[d] \notin {"d_rm", "d_restore", "d_mark"}
    BY <2>1, <2>2, Kinds, NobodyTends, NobodyTendsYet DEF Moves, Procs
  <2> QED BY <2>1, <2>2, <2>3, CareAway DEF Hold, CommitSteps, Guarded
<1>13. CASE Decide(e)
  <2>0. PICK a \in Assets : mem[e].item = {a}
    BY <1>13, AnItem DEF Decide, CommitSteps, Guarded, Unguarded
  <2>1. Moves(e) /\ Touches(e, a) /\ mem'[e].item = {a} /\ had' = had
    BY <1>13, <2>0, DecideEffect DEF SameItem, Moves
  <2>2. Item(e) = a /\ pc[e] \in CommitSteps /\ pc'[e] # "dead"
    BY <1>13, <2>0, DecideEffect, ItemIs DEF CommitSteps, Guarded, Unguarded
  <2>3. pc[e] # "dead" /\ Alive(e)
    BY <2>2 DEF CommitSteps, Guarded, Alive
  <2>4. \A d \in Doctors : pc'[d] \notin {"d_rm", "d_restore", "d_mark"}
    BY <2>1, <2>3, Kinds, NobodyTends DEF Moves, Procs
  <2>5. /\ lock[a] = {e}
        /\ journal[e].state = "committing" =>
             /\ pc[e] \in {"aside", "place", "engine", "prov", "verified", "undo_rm", "undo_restore", "undo_mark"}
             /\ journal[e].destination = {a}
    BY <1>13, <2>0, <2>2, <2>3, DecideEffect DEF Live, Exclusive, Hold, Careful, JournalsLocked
  <2>6. /\ pc[e] \in {"decide", "reuse", "mark", "aside", "committed", "undo_mark", "release"} => backup[e][a] = Nothing
        /\ backup[e][a] # Nothing => lock[a] = {e}
        /\ journal[e].state = "committing" /\ pc[e] \notin {"aside", "undo_mark"} /\ a \in had => backup[e][a] # Nothing
        /\ journal[e].state = "committing" /\ a \in had => journal[e].saved
    <3>1. \A d \in Doctors : pc[d] # "d_mark"
      BY <2>3, NobodyTends
    <3> QED BY <2>2, <2>5, <3>1 DEF Careful, NoBackup, BackupsLocked, Restorable, Promised
  <2>8. CarefulAt(e, a)'
    BY <1>13, <2>0, <2>1, <2>5, <2>6, DecideEffect DEF CarefulAt, Hold, CommitSteps, Guarded, disk
  <2>9. lock[a] \subseteq {e} /\ (pc[e] \in Hold => mem[e].item = {a})
    BY <2>0, <2>5
  <2> QED BY <2>1, <2>2, <2>3, <2>4, <2>8, <2>9, CareKept
<1>14. CASE Reuse(e)
  <2>0. PICK a \in Assets : mem[e].item = {a}
    BY <1>14, AnItem DEF Reuse, CommitSteps, Guarded, Unguarded
  <2>1. Moves(e) /\ Touches(e, a) /\ mem'[e].item = {a} /\ had' = had
    BY <1>14, <2>0, ReuseEffect DEF SameItem, Moves
  <2>2. Item(e) = a /\ pc[e] \in CommitSteps /\ pc'[e] # "dead"
    BY <1>14, <2>0, ReuseEffect, ItemIs DEF CommitSteps, Guarded, Unguarded
  <2>3. pc[e] # "dead" /\ Alive(e)
    BY <2>2 DEF CommitSteps, Guarded, Alive
  <2>4. \A d \in Doctors : pc'[d] \notin {"d_rm", "d_restore", "d_mark"}
    BY <2>1, <2>3, Kinds, NobodyTends DEF Moves, Procs
  <2>5. /\ lock[a] = {e}
        /\ journal[e].state = "committing" =>
             /\ pc[e] \in {"aside", "place", "engine", "prov", "verified", "undo_rm", "undo_restore", "undo_mark"}
             /\ journal[e].destination = {a}
    BY <1>14, <2>0, <2>2, <2>3, ReuseEffect DEF Live, Exclusive, Hold, Careful, JournalsLocked
  <2>6. /\ pc[e] \in {"decide", "reuse", "mark", "aside", "committed", "undo_mark", "release"} => backup[e][a] = Nothing
        /\ backup[e][a] # Nothing => lock[a] = {e}
        /\ journal[e].state = "committing" /\ pc[e] \notin {"aside", "undo_mark"} /\ a \in had => backup[e][a] # Nothing
        /\ journal[e].state = "committing" /\ a \in had => journal[e].saved
    <3>1. \A d \in Doctors : pc[d] # "d_mark"
      BY <2>3, NobodyTends
    <3> QED BY <2>2, <2>5, <3>1 DEF Careful, NoBackup, BackupsLocked, Restorable, Promised
  <2>8. CarefulAt(e, a)'
    BY <1>14, <2>0, <2>1, <2>5, <2>6, ReuseEffect DEF CarefulAt, Hold, CommitSteps, Guarded, disk
  <2>9. lock[a] \subseteq {e} /\ (pc[e] \in Hold => mem[e].item = {a})
    BY <2>0, <2>5
  <2> QED BY <2>1, <2>2, <2>3, <2>4, <2>8, <2>9, CareKept
<1>15. CASE Mark(e)
  <2>0. PICK a \in Assets : mem[e].item = {a}
    BY <1>15, AnItem DEF Mark, CommitSteps, Guarded, Unguarded
  <2>1. Moves(e) /\ Touches(e, a) /\ mem'[e].item = {a} /\ had' = had
    BY <1>15, <2>0, MarkEffect DEF SameItem, Moves
  <2>2. Item(e) = a /\ pc[e] \in CommitSteps /\ pc'[e] # "dead"
    BY <1>15, <2>0, MarkEffect, ItemIs DEF CommitSteps, Guarded, Unguarded
  <2>3. pc[e] # "dead" /\ Alive(e)
    BY <2>2 DEF CommitSteps, Guarded, Alive
  <2>4. \A d \in Doctors : pc'[d] \notin {"d_rm", "d_restore", "d_mark"}
    BY <2>1, <2>3, Kinds, NobodyTends DEF Moves, Procs
  <2>5. /\ lock[a] = {e}
        /\ journal[e].state = "committing" =>
             /\ pc[e] \in {"aside", "place", "engine", "prov", "verified", "undo_rm", "undo_restore", "undo_mark"}
             /\ journal[e].destination = {a}
    BY <1>15, <2>0, <2>2, <2>3, MarkEffect DEF Live, Exclusive, Hold, Careful, JournalsLocked
  <2>6. /\ pc[e] \in {"decide", "reuse", "mark", "aside", "committed", "undo_mark", "release"} => backup[e][a] = Nothing
        /\ backup[e][a] # Nothing => lock[a] = {e}
        /\ journal[e].state = "committing" /\ pc[e] \notin {"aside", "undo_mark"} /\ a \in had => backup[e][a] # Nothing
        /\ journal[e].state = "committing" /\ a \in had => journal[e].saved
    <3>1. \A d \in Doctors : pc[d] # "d_mark"
      BY <2>3, NobodyTends
    <3> QED BY <2>2, <2>5, <3>1 DEF Careful, NoBackup, BackupsLocked, Restorable, Promised
  <2>7. a \in had => dest[a] # Nothing
    <3>1. \A f \in Importers : backup[f][a] # Nothing => f = e
      BY <2>5 DEF Careful, BackupsLocked
    <3> QED BY <1>15, <2>0, <2>6, <3>1, MarkEffect DEF NeverLost, Kept
  <2>8. CarefulAt(e, a)'
    BY <1>15, <2>0, <2>1, <2>5, <2>6, <2>7, MarkEffect DEF CarefulAt, Hold, CommitSteps, Guarded, disk
  <2>9. lock[a] \subseteq {e} /\ (pc[e] \in Hold => mem[e].item = {a})
    BY <2>0, <2>5
  <2> QED BY <2>1, <2>2, <2>3, <2>4, <2>8, <2>9, CareKept
<1>16. CASE Aside(e)
  <2>0. PICK a \in Assets : mem[e].item = {a}
    BY <1>16, AnItem DEF Aside, CommitSteps, Guarded, Unguarded
  <2>1. Moves(e) /\ Touches(e, a) /\ mem'[e].item = {a} /\ had' = had
    BY <1>16, <2>0, AsideEffect DEF SameItem, Moves
  <2>2. Item(e) = a /\ pc[e] \in CommitSteps /\ pc'[e] # "dead"
    BY <1>16, <2>0, AsideEffect, ItemIs DEF CommitSteps, Guarded, Unguarded
  <2>3. pc[e] # "dead" /\ Alive(e)
    BY <2>2 DEF CommitSteps, Guarded, Alive
  <2>4. \A d \in Doctors : pc'[d] \notin {"d_rm", "d_restore", "d_mark"}
    BY <2>1, <2>3, Kinds, NobodyTends DEF Moves, Procs
  <2>5. /\ lock[a] = {e}
        /\ journal[e].state = "committing" =>
             /\ pc[e] \in {"aside", "place", "engine", "prov", "verified", "undo_rm", "undo_restore", "undo_mark"}
             /\ journal[e].destination = {a}
    BY <1>16, <2>0, <2>2, <2>3, AsideEffect DEF Live, Exclusive, Hold, Careful, JournalsLocked
  <2>6. /\ pc[e] \in {"decide", "reuse", "mark", "aside", "committed", "undo_mark", "release"} => backup[e][a] = Nothing
        /\ backup[e][a] # Nothing => lock[a] = {e}
        /\ journal[e].state = "committing" /\ pc[e] \notin {"aside", "undo_mark"} /\ a \in had => backup[e][a] # Nothing
        /\ journal[e].state = "committing" /\ a \in had => journal[e].saved
    <3>1. \A d \in Doctors : pc[d] # "d_mark"
      BY <2>3, NobodyTends
    <3> QED BY <2>2, <2>5, <3>1 DEF Careful, NoBackup, BackupsLocked, Restorable, Promised
  <2>7. a \in had => dest[a] # Nothing
    <3>1. \A f \in Importers : backup[f][a] # Nothing => f = e
      BY <2>5 DEF Careful, BackupsLocked
    <3> QED BY <1>16, <2>0, <2>6, <3>1, AsideEffect DEF NeverLost, Kept
  <2>8. CarefulAt(e, a)'
    BY <1>16, <2>0, <2>1, <2>5, <2>6, <2>7, AsideEffect DEF CarefulAt, Hold, CommitSteps, Guarded, disk
  <2>9. lock[a] \subseteq {e} /\ (pc[e] \in Hold => mem[e].item = {a})
    BY <2>0, <2>5
  <2> QED BY <2>1, <2>2, <2>3, <2>4, <2>8, <2>9, CareKept
<1>17. CASE Place(e)
  <2>0. PICK a \in Assets : mem[e].item = {a}
    BY <1>17, AnItem DEF Place, CommitSteps, Guarded, Unguarded
  <2>1. Moves(e) /\ Touches(e, a) /\ mem'[e].item = {a} /\ had' = had
    BY <1>17, <2>0, PlaceEffect DEF SameItem, Moves
  <2>2. Item(e) = a /\ pc[e] \in CommitSteps /\ pc'[e] # "dead"
    BY <1>17, <2>0, PlaceEffect, ItemIs DEF CommitSteps, Guarded, Unguarded
  <2>3. pc[e] # "dead" /\ Alive(e)
    BY <2>2 DEF CommitSteps, Guarded, Alive
  <2>4. \A d \in Doctors : pc'[d] \notin {"d_rm", "d_restore", "d_mark"}
    BY <2>1, <2>3, Kinds, NobodyTends DEF Moves, Procs
  <2>5. /\ lock[a] = {e}
        /\ journal[e].state = "committing" =>
             /\ pc[e] \in {"aside", "place", "engine", "prov", "verified", "undo_rm", "undo_restore", "undo_mark"}
             /\ journal[e].destination = {a}
    BY <1>17, <2>0, <2>2, <2>3, PlaceEffect DEF Live, Exclusive, Hold, Careful, JournalsLocked
  <2>6. /\ pc[e] \in {"decide", "reuse", "mark", "aside", "committed", "undo_mark", "release"} => backup[e][a] = Nothing
        /\ backup[e][a] # Nothing => lock[a] = {e}
        /\ journal[e].state = "committing" /\ pc[e] \notin {"aside", "undo_mark"} /\ a \in had => backup[e][a] # Nothing
        /\ journal[e].state = "committing" /\ a \in had => journal[e].saved
    <3>1. \A d \in Doctors : pc[d] # "d_mark"
      BY <2>3, NobodyTends
    <3> QED BY <2>2, <2>5, <3>1 DEF Careful, NoBackup, BackupsLocked, Restorable, Promised
  <2>7. dest[a] = Nothing
    BY <1>17, <2>0, <2>2, PlaceEffect DEF Live, Fresh
  <2>8. CarefulAt(e, a)'
    BY <1>17, <2>0, <2>1, <2>5, <2>6, <2>7, PlaceEffect DEF CarefulAt, Hold, CommitSteps, Guarded, disk
  <2>9. lock[a] \subseteq {e} /\ (pc[e] \in Hold => mem[e].item = {a})
    BY <2>0, <2>5
  <2> QED BY <2>1, <2>2, <2>3, <2>4, <2>8, <2>9, CareKept
<1>18. CASE Engine(e)
  <2>0. PICK a \in Assets : mem[e].item = {a}
    BY <1>18, AnItem DEF Engine, CommitSteps, Guarded, Unguarded
  <2>1. Moves(e) /\ Touches(e, a) /\ mem'[e].item = {a} /\ had' = had
    BY <1>18, <2>0, EngineEffect DEF SameItem, Moves
  <2>2. Item(e) = a /\ pc[e] \in CommitSteps /\ pc'[e] # "dead"
    BY <1>18, <2>0, EngineEffect, ItemIs DEF CommitSteps, Guarded, Unguarded
  <2>3. pc[e] # "dead" /\ Alive(e)
    BY <2>2 DEF CommitSteps, Guarded, Alive
  <2>4. \A d \in Doctors : pc'[d] \notin {"d_rm", "d_restore", "d_mark"}
    BY <2>1, <2>3, Kinds, NobodyTends DEF Moves, Procs
  <2>5. /\ lock[a] = {e}
        /\ journal[e].state = "committing" =>
             /\ pc[e] \in {"aside", "place", "engine", "prov", "verified", "undo_rm", "undo_restore", "undo_mark"}
             /\ journal[e].destination = {a}
    BY <1>18, <2>0, <2>2, <2>3, EngineEffect DEF Live, Exclusive, Hold, Careful, JournalsLocked
  <2>6. /\ pc[e] \in {"decide", "reuse", "mark", "aside", "committed", "undo_mark", "release"} => backup[e][a] = Nothing
        /\ backup[e][a] # Nothing => lock[a] = {e}
        /\ journal[e].state = "committing" /\ pc[e] \notin {"aside", "undo_mark"} /\ a \in had => backup[e][a] # Nothing
        /\ journal[e].state = "committing" /\ a \in had => journal[e].saved
    <3>1. \A d \in Doctors : pc[d] # "d_mark"
      BY <2>3, NobodyTends
    <3> QED BY <2>2, <2>5, <3>1 DEF Careful, NoBackup, BackupsLocked, Restorable, Promised
  <2>8. CarefulAt(e, a)'
    BY <1>18, <2>0, <2>1, <2>5, <2>6, EngineEffect DEF CarefulAt, Hold, CommitSteps, Guarded, disk
  <2>9. lock[a] \subseteq {e} /\ (pc[e] \in Hold => mem[e].item = {a})
    BY <2>0, <2>5
  <2> QED BY <2>1, <2>2, <2>3, <2>4, <2>8, <2>9, CareKept
<1>19. CASE WriteProvenance(e)
  <2>0. PICK a \in Assets : mem[e].item = {a}
    BY <1>19, AnItem DEF WriteProvenance, CommitSteps, Guarded, Unguarded
  <2>1. Moves(e) /\ Touches(e, a) /\ mem'[e].item = {a} /\ had' = had
    BY <1>19, <2>0, WriteProvenanceEffect DEF SameItem, Moves
  <2>2. Item(e) = a /\ pc[e] \in CommitSteps /\ pc'[e] # "dead"
    BY <1>19, <2>0, WriteProvenanceEffect, ItemIs DEF CommitSteps, Guarded, Unguarded
  <2>3. pc[e] # "dead" /\ Alive(e)
    BY <2>2 DEF CommitSteps, Guarded, Alive
  <2>4. \A d \in Doctors : pc'[d] \notin {"d_rm", "d_restore", "d_mark"}
    BY <2>1, <2>3, Kinds, NobodyTends DEF Moves, Procs
  <2>5. /\ lock[a] = {e}
        /\ journal[e].state = "committing" =>
             /\ pc[e] \in {"aside", "place", "engine", "prov", "verified", "undo_rm", "undo_restore", "undo_mark"}
             /\ journal[e].destination = {a}
    BY <1>19, <2>0, <2>2, <2>3, WriteProvenanceEffect DEF Live, Exclusive, Hold, Careful, JournalsLocked
  <2>6. /\ pc[e] \in {"decide", "reuse", "mark", "aside", "committed", "undo_mark", "release"} => backup[e][a] = Nothing
        /\ backup[e][a] # Nothing => lock[a] = {e}
        /\ journal[e].state = "committing" /\ pc[e] \notin {"aside", "undo_mark"} /\ a \in had => backup[e][a] # Nothing
        /\ journal[e].state = "committing" /\ a \in had => journal[e].saved
    <3>1. \A d \in Doctors : pc[d] # "d_mark"
      BY <2>3, NobodyTends
    <3> QED BY <2>2, <2>5, <3>1 DEF Careful, NoBackup, BackupsLocked, Restorable, Promised
  <2>8. CarefulAt(e, a)'
    BY <1>19, <2>0, <2>1, <2>5, <2>6, WriteProvenanceEffect DEF CarefulAt, Hold, CommitSteps, Guarded, disk
  <2>9. lock[a] \subseteq {e} /\ (pc[e] \in Hold => mem[e].item = {a})
    BY <2>0, <2>5
  <2> QED BY <2>1, <2>2, <2>3, <2>4, <2>8, <2>9, CareKept
<1>20. CASE EngineVerified(e)
  <2>0. PICK a \in Assets : mem[e].item = {a}
    BY <1>20, AnItem DEF EngineVerified, CommitSteps, Guarded, Unguarded
  <2>1. Moves(e) /\ Touches(e, a) /\ mem'[e].item = {a} /\ had' = had
    BY <1>20, <2>0, EngineVerifiedEffect DEF SameItem, Moves
  <2>2. Item(e) = a /\ pc[e] \in CommitSteps /\ pc'[e] # "dead"
    BY <1>20, <2>0, EngineVerifiedEffect, ItemIs DEF CommitSteps, Guarded, Unguarded
  <2>3. pc[e] # "dead" /\ Alive(e)
    BY <2>2 DEF CommitSteps, Guarded, Alive
  <2>4. \A d \in Doctors : pc'[d] \notin {"d_rm", "d_restore", "d_mark"}
    BY <2>1, <2>3, Kinds, NobodyTends DEF Moves, Procs
  <2>5. /\ lock[a] = {e}
        /\ journal[e].state = "committing" =>
             /\ pc[e] \in {"aside", "place", "engine", "prov", "verified", "undo_rm", "undo_restore", "undo_mark"}
             /\ journal[e].destination = {a}
    BY <1>20, <2>0, <2>2, <2>3, EngineVerifiedEffect DEF Live, Exclusive, Hold, Careful, JournalsLocked
  <2>6. /\ pc[e] \in {"decide", "reuse", "mark", "aside", "committed", "undo_mark", "release"} => backup[e][a] = Nothing
        /\ backup[e][a] # Nothing => lock[a] = {e}
        /\ journal[e].state = "committing" /\ pc[e] \notin {"aside", "undo_mark"} /\ a \in had => backup[e][a] # Nothing
        /\ journal[e].state = "committing" /\ a \in had => journal[e].saved
    <3>1. \A d \in Doctors : pc[d] # "d_mark"
      BY <2>3, NobodyTends
    <3> QED BY <2>2, <2>5, <3>1 DEF Careful, NoBackup, BackupsLocked, Restorable, Promised
  <2>8. CarefulAt(e, a)'
    BY <1>20, <2>0, <2>1, <2>5, <2>6, EngineVerifiedEffect DEF CarefulAt, Hold, CommitSteps, Guarded, disk
  <2>9. lock[a] \subseteq {e} /\ (pc[e] \in Hold => mem[e].item = {a})
    BY <2>0, <2>5
  <2> QED BY <2>1, <2>2, <2>3, <2>4, <2>8, <2>9, CareKept
<1>21. CASE DropBackup(e)
  <2>0. PICK a \in Assets : mem[e].item = {a}
    BY <1>21, AnItem DEF DropBackup, CommitSteps, Guarded, Unguarded
  <2>1. Moves(e) /\ Touches(e, a) /\ mem'[e].item = {a} /\ had' = had
    BY <1>21, <2>0, DropBackupEffect DEF SameItem, Moves
  <2>2. Item(e) = a /\ pc[e] \in CommitSteps /\ pc'[e] # "dead"
    BY <1>21, <2>0, DropBackupEffect, ItemIs DEF CommitSteps, Guarded, Unguarded
  <2>3. pc[e] # "dead" /\ Alive(e)
    BY <2>2 DEF CommitSteps, Guarded, Alive
  <2>4. \A d \in Doctors : pc'[d] \notin {"d_rm", "d_restore", "d_mark"}
    BY <2>1, <2>3, Kinds, NobodyTends DEF Moves, Procs
  <2>5. /\ lock[a] = {e}
        /\ journal[e].state = "committing" =>
             /\ pc[e] \in {"aside", "place", "engine", "prov", "verified", "undo_rm", "undo_restore", "undo_mark"}
             /\ journal[e].destination = {a}
    BY <1>21, <2>0, <2>2, <2>3, DropBackupEffect DEF Live, Exclusive, Hold, Careful, JournalsLocked
  <2>6. /\ pc[e] \in {"decide", "reuse", "mark", "aside", "committed", "undo_mark", "release"} => backup[e][a] = Nothing
        /\ backup[e][a] # Nothing => lock[a] = {e}
        /\ journal[e].state = "committing" /\ pc[e] \notin {"aside", "undo_mark"} /\ a \in had => backup[e][a] # Nothing
        /\ journal[e].state = "committing" /\ a \in had => journal[e].saved
    <3>1. \A d \in Doctors : pc[d] # "d_mark"
      BY <2>3, NobodyTends
    <3> QED BY <2>2, <2>5, <3>1 DEF Careful, NoBackup, BackupsLocked, Restorable, Promised
  <2>8. CarefulAt(e, a)'
    BY <1>21, <2>0, <2>1, <2>5, <2>6, DropBackupEffect DEF CarefulAt, Hold, CommitSteps, Guarded, disk
  <2>9. lock[a] \subseteq {e} /\ (pc[e] \in Hold => mem[e].item = {a})
    BY <2>0, <2>5
  <2> QED BY <2>1, <2>2, <2>3, <2>4, <2>8, <2>9, CareKept
<1>22. CASE Committed(e)
  <2>0. PICK a \in Assets : mem[e].item = {a}
    BY <1>22, AnItem DEF Committed, CommitSteps, Guarded, Unguarded
  <2>1. Moves(e) /\ Touches(e, a) /\ mem'[e].item = {a} /\ had' = had
    BY <1>22, <2>0, CommittedEffect DEF SameItem, Moves
  <2>2. Item(e) = a /\ pc[e] \in CommitSteps /\ pc'[e] # "dead"
    BY <1>22, <2>0, CommittedEffect, ItemIs DEF CommitSteps, Guarded, Unguarded
  <2>3. pc[e] # "dead" /\ Alive(e)
    BY <2>2 DEF CommitSteps, Guarded, Alive
  <2>4. \A d \in Doctors : pc'[d] \notin {"d_rm", "d_restore", "d_mark"}
    BY <2>1, <2>3, Kinds, NobodyTends DEF Moves, Procs
  <2>5. /\ lock[a] = {e}
        /\ journal[e].state = "committing" =>
             /\ pc[e] \in {"aside", "place", "engine", "prov", "verified", "undo_rm", "undo_restore", "undo_mark"}
             /\ journal[e].destination = {a}
    BY <1>22, <2>0, <2>2, <2>3, CommittedEffect DEF Live, Exclusive, Hold, Careful, JournalsLocked
  <2>6. /\ pc[e] \in {"decide", "reuse", "mark", "aside", "committed", "undo_mark", "release"} => backup[e][a] = Nothing
        /\ backup[e][a] # Nothing => lock[a] = {e}
        /\ journal[e].state = "committing" /\ pc[e] \notin {"aside", "undo_mark"} /\ a \in had => backup[e][a] # Nothing
        /\ journal[e].state = "committing" /\ a \in had => journal[e].saved
    <3>1. \A d \in Doctors : pc[d] # "d_mark"
      BY <2>3, NobodyTends
    <3> QED BY <2>2, <2>5, <3>1 DEF Careful, NoBackup, BackupsLocked, Restorable, Promised
  <2>8. CarefulAt(e, a)'
    BY <1>22, <2>0, <2>1, <2>5, <2>6, CommittedEffect DEF CarefulAt, Hold, CommitSteps, Guarded, disk
  <2>9. lock[a] \subseteq {e} /\ (pc[e] \in Hold => mem[e].item = {a})
    BY <2>0, <2>5
  <2> QED BY <2>1, <2>2, <2>3, <2>4, <2>8, <2>9, CareKept
<1>23. CASE UndoRemove(e)
  <2>0. PICK a \in Assets : mem[e].item = {a}
    BY <1>23, AnItem DEF UndoRemove, CommitSteps, Guarded, Unguarded
  <2>1. Moves(e) /\ Touches(e, a) /\ mem'[e].item = {a} /\ had' = had
    BY <1>23, <2>0, UndoRemoveEffect DEF SameItem, Moves
  <2>2. Item(e) = a /\ pc[e] \in CommitSteps /\ pc'[e] # "dead"
    BY <1>23, <2>0, UndoRemoveEffect, ItemIs DEF CommitSteps, Guarded, Unguarded
  <2>3. pc[e] # "dead" /\ Alive(e)
    BY <2>2 DEF CommitSteps, Guarded, Alive
  <2>4. \A d \in Doctors : pc'[d] \notin {"d_rm", "d_restore", "d_mark"}
    BY <2>1, <2>3, Kinds, NobodyTends DEF Moves, Procs
  <2>5. /\ lock[a] = {e}
        /\ journal[e].state = "committing" =>
             /\ pc[e] \in {"aside", "place", "engine", "prov", "verified", "undo_rm", "undo_restore", "undo_mark"}
             /\ journal[e].destination = {a}
    BY <1>23, <2>0, <2>2, <2>3, UndoRemoveEffect DEF Live, Exclusive, Hold, Careful, JournalsLocked
  <2>6. /\ pc[e] \in {"decide", "reuse", "mark", "aside", "committed", "undo_mark", "release"} => backup[e][a] = Nothing
        /\ backup[e][a] # Nothing => lock[a] = {e}
        /\ journal[e].state = "committing" /\ pc[e] \notin {"aside", "undo_mark"} /\ a \in had => backup[e][a] # Nothing
        /\ journal[e].state = "committing" /\ a \in had => journal[e].saved
    <3>1. \A d \in Doctors : pc[d] # "d_mark"
      BY <2>3, NobodyTends
    <3> QED BY <2>2, <2>5, <3>1 DEF Careful, NoBackup, BackupsLocked, Restorable, Promised
  <2>8. CarefulAt(e, a)'
    BY <1>23, <2>0, <2>1, <2>5, <2>6, UndoRemoveEffect DEF CarefulAt, Hold, CommitSteps, Guarded, disk
  <2>9. lock[a] \subseteq {e} /\ (pc[e] \in Hold => mem[e].item = {a})
    BY <2>0, <2>5
  <2> QED BY <2>1, <2>2, <2>3, <2>4, <2>8, <2>9, CareKept
<1>24. CASE UndoRestore(e)
  <2>0. PICK a \in Assets : mem[e].item = {a}
    BY <1>24, AnItem DEF UndoRestore, CommitSteps, Guarded, Unguarded
  <2>1. Moves(e) /\ Touches(e, a) /\ mem'[e].item = {a} /\ had' = had
    BY <1>24, <2>0, UndoRestoreEffect DEF SameItem, Moves
  <2>2. Item(e) = a /\ pc[e] \in CommitSteps /\ pc'[e] # "dead"
    BY <1>24, <2>0, UndoRestoreEffect, ItemIs DEF CommitSteps, Guarded, Unguarded
  <2>3. pc[e] # "dead" /\ Alive(e)
    BY <2>2 DEF CommitSteps, Guarded, Alive
  <2>4. \A d \in Doctors : pc'[d] \notin {"d_rm", "d_restore", "d_mark"}
    BY <2>1, <2>3, Kinds, NobodyTends DEF Moves, Procs
  <2>5. /\ lock[a] = {e}
        /\ journal[e].state = "committing" =>
             /\ pc[e] \in {"aside", "place", "engine", "prov", "verified", "undo_rm", "undo_restore", "undo_mark"}
             /\ journal[e].destination = {a}
    BY <1>24, <2>0, <2>2, <2>3, UndoRestoreEffect DEF Live, Exclusive, Hold, Careful, JournalsLocked
  <2>6. /\ pc[e] \in {"decide", "reuse", "mark", "aside", "committed", "undo_mark", "release"} => backup[e][a] = Nothing
        /\ backup[e][a] # Nothing => lock[a] = {e}
        /\ journal[e].state = "committing" /\ pc[e] \notin {"aside", "undo_mark"} /\ a \in had => backup[e][a] # Nothing
        /\ journal[e].state = "committing" /\ a \in had => journal[e].saved
    <3>1. \A d \in Doctors : pc[d] # "d_mark"
      BY <2>3, NobodyTends
    <3> QED BY <2>2, <2>5, <3>1 DEF Careful, NoBackup, BackupsLocked, Restorable, Promised
  <2>7. dest[a] = Nothing
    BY <1>24, <2>0, <2>2, UndoRestoreEffect DEF Live, Fresh
  <2>8. CarefulAt(e, a)'
    BY <1>24, <2>0, <2>1, <2>5, <2>6, <2>7, UndoRestoreEffect DEF CarefulAt, Hold, CommitSteps, Guarded, disk
  <2>9. lock[a] \subseteq {e} /\ (pc[e] \in Hold => mem[e].item = {a})
    BY <2>0, <2>5
  <2> QED BY <2>1, <2>2, <2>3, <2>4, <2>8, <2>9, CareKept
<1>25. CASE UndoMark(e)
  <2>0. PICK a \in Assets : mem[e].item = {a}
    BY <1>25, AnItem DEF UndoMark, CommitSteps, Guarded, Unguarded
  <2>1. Moves(e) /\ Touches(e, a) /\ mem'[e].item = {a} /\ had' = had
    BY <1>25, <2>0, UndoMarkEffect DEF SameItem, Moves
  <2>2. Item(e) = a /\ pc[e] \in CommitSteps /\ pc'[e] # "dead"
    BY <1>25, <2>0, UndoMarkEffect, ItemIs DEF CommitSteps, Guarded, Unguarded
  <2>3. pc[e] # "dead" /\ Alive(e)
    BY <2>2 DEF CommitSteps, Guarded, Alive
  <2>4. \A d \in Doctors : pc'[d] \notin {"d_rm", "d_restore", "d_mark"}
    BY <2>1, <2>3, Kinds, NobodyTends DEF Moves, Procs
  <2>5. /\ lock[a] = {e}
        /\ journal[e].state = "committing" =>
             /\ pc[e] \in {"aside", "place", "engine", "prov", "verified", "undo_rm", "undo_restore", "undo_mark"}
             /\ journal[e].destination = {a}
    BY <1>25, <2>0, <2>2, <2>3, UndoMarkEffect DEF Live, Exclusive, Hold, Careful, JournalsLocked
  <2>6. /\ pc[e] \in {"decide", "reuse", "mark", "aside", "committed", "undo_mark", "release"} => backup[e][a] = Nothing
        /\ backup[e][a] # Nothing => lock[a] = {e}
        /\ journal[e].state = "committing" /\ pc[e] \notin {"aside", "undo_mark"} /\ a \in had => backup[e][a] # Nothing
        /\ journal[e].state = "committing" /\ a \in had => journal[e].saved
    <3>1. \A d \in Doctors : pc[d] # "d_mark"
      BY <2>3, NobodyTends
    <3> QED BY <2>2, <2>5, <3>1 DEF Careful, NoBackup, BackupsLocked, Restorable, Promised
  <2>8. CarefulAt(e, a)'
    BY <1>25, <2>0, <2>1, <2>5, <2>6, UndoMarkEffect DEF CarefulAt, Hold, CommitSteps, Guarded, disk
  <2>9. lock[a] \subseteq {e} /\ (pc[e] \in Hold => mem[e].item = {a})
    BY <2>0, <2>5
  <2> QED BY <2>1, <2>2, <2>3, <2>4, <2>8, <2>9, CareKept
<1>26. CASE ReleaseLock(e)
  <2>0. PICK a \in Assets : mem[e].item = {a}
    BY <1>26, AnItem DEF ReleaseLock, CommitSteps, Guarded, Unguarded
  <2>1. Moves(e) /\ Touches(e, a) /\ mem'[e].item = {a} /\ had' = had
    BY <1>26, <2>0, ReleaseLockEffect DEF SameItem, Moves
  <2>2. Item(e) = a /\ pc[e] \in CommitSteps /\ pc'[e] # "dead"
    BY <1>26, <2>0, ReleaseLockEffect, ItemIs DEF CommitSteps, Guarded, Unguarded
  <2>3. pc[e] # "dead" /\ Alive(e)
    BY <2>2 DEF CommitSteps, Guarded, Alive
  <2>4. \A d \in Doctors : pc'[d] \notin {"d_rm", "d_restore", "d_mark"}
    BY <2>1, <2>3, Kinds, NobodyTends DEF Moves, Procs
  <2>5. /\ lock[a] = {e}
        /\ journal[e].state = "committing" =>
             /\ pc[e] \in {"aside", "place", "engine", "prov", "verified", "undo_rm", "undo_restore", "undo_mark"}
             /\ journal[e].destination = {a}
    BY <1>26, <2>0, <2>2, <2>3, ReleaseLockEffect DEF Live, Exclusive, Hold, Careful, JournalsLocked
  <2>6. /\ pc[e] \in {"decide", "reuse", "mark", "aside", "committed", "undo_mark", "release"} => backup[e][a] = Nothing
        /\ backup[e][a] # Nothing => lock[a] = {e}
        /\ journal[e].state = "committing" /\ pc[e] \notin {"aside", "undo_mark"} /\ a \in had => backup[e][a] # Nothing
        /\ journal[e].state = "committing" /\ a \in had => journal[e].saved
    <3>1. \A d \in Doctors : pc[d] # "d_mark"
      BY <2>3, NobodyTends
    <3> QED BY <2>2, <2>5, <3>1 DEF Careful, NoBackup, BackupsLocked, Restorable, Promised
  <2>8. CarefulAt(e, a)'
    BY <1>26, <2>0, <2>1, <2>5, <2>6, ReleaseLockEffect DEF CarefulAt, Hold, CommitSteps, Guarded, disk
  <2>9. lock[a] \subseteq {e} /\ (pc[e] \in Hold => mem[e].item = {a})
    BY <2>0, <2>5
  <2> QED BY <2>1, <2>2, <2>3, <2>4, <2>8, <2>9, CareKept
<1>27. CASE Fault(e)
  <2>0. PICK a \in Assets : mem[e].item = {a}
    BY <1>27, AnItem DEF Fault, CommitSteps, Guarded, Unguarded
  <2>1. Moves(e) /\ Touches(e, a) /\ mem'[e].item = {a} /\ had' = had
    BY <1>27, <2>0, FaultEffect DEF SameItem, Moves
  <2>2. Item(e) = a /\ pc[e] \in CommitSteps /\ pc'[e] # "dead"
    BY <1>27, <2>0, FaultEffect, ItemIs DEF CommitSteps, Guarded, Unguarded
  <2>3. pc[e] # "dead" /\ Alive(e)
    BY <2>2 DEF CommitSteps, Guarded, Alive
  <2>4. \A d \in Doctors : pc'[d] \notin {"d_rm", "d_restore", "d_mark"}
    BY <2>1, <2>3, Kinds, NobodyTends DEF Moves, Procs
  <2>5. /\ lock[a] = {e}
        /\ journal[e].state = "committing" =>
             /\ pc[e] \in {"aside", "place", "engine", "prov", "verified", "undo_rm", "undo_restore", "undo_mark"}
             /\ journal[e].destination = {a}
    BY <1>27, <2>0, <2>2, <2>3, FaultEffect DEF Live, Exclusive, Hold, Careful, JournalsLocked, CommitSteps, Guarded, Unguarded
  <2>6. /\ pc[e] \in {"decide", "reuse", "mark", "aside", "committed", "undo_mark", "release"} => backup[e][a] = Nothing
        /\ backup[e][a] # Nothing => lock[a] = {e}
        /\ journal[e].state = "committing" /\ pc[e] \notin {"aside", "undo_mark"} /\ a \in had => backup[e][a] # Nothing
        /\ journal[e].state = "committing" /\ a \in had => journal[e].saved
    <3>1. \A d \in Doctors : pc[d] # "d_mark"
      BY <2>3, NobodyTends
    <3> QED BY <2>2, <2>5, <3>1 DEF Careful, NoBackup, BackupsLocked, Restorable, Promised
  <2>7. pc[e] \in {"engine", "prov", "verified", "drop", "committed", "decide", "reuse", "mark"}
    BY <1>27, <2>0, FaultEffect DEF Unexposed, Exposing, Guarded, Unguarded
  <2>8. CarefulAt(e, a)'
    BY <1>27, <2>0, <2>1, <2>5, <2>6, <2>7, FaultEffect DEF CarefulAt, Hold, CommitSteps, Guarded, disk, Unguarded
  <2>9. lock[a] \subseteq {e} /\ (pc[e] \in Hold => mem[e].item = {a})
    BY <2>0, <2>5
  <2> QED BY <2>1, <2>2, <2>3, <2>4, <2>8, <2>9, CareKept
<1> QED BY <1>1, <1>2, <1>3, <1>4, <1>5, <1>6, <1>7, <1>8, <1>9, <1>10, <1>11, <1>12, <1>13, <1>14, <1>15, <1>16, <1>17, <1>18, <1>19, <1>20, <1>21, <1>22, <1>23, <1>24, <1>25, <1>26, <1>27 DEF Import, CommitItem

LEMMA CrashCareful ==
  ASSUME Unexposed', Typed, DoctorsAlone, Careful, NEW p \in Procs, Crash(p)
  PROVE  Careful'
<1>1. /\ Alive(p) /\ pc[p] \notin {"idle", "done", "dead"} /\ pc'[p] = "dead"
      /\ \A q \in Procs \ {p} : pc'[q] = pc[q]
      /\ lock' = lock /\ journal' = journal /\ backup' = backup /\ dest' = dest
      /\ mem' = mem /\ visit' = visit /\ had' = had
  BY CrashMoves DEF disk, Alive
<1>2. \A e \in Importers : e \in Procs /\ pc'[e] \in {pc[e], "dead"} /\ Item(e)' = Item(e)
  BY <1>1, Kinds DEF Item
<1>3. \A d \in Doctors : d \in Procs /\ pc'[d] \in {pc[d], "dead"}
  BY <1>1 DEF Procs
<1>4. JournalsLocked'
  BY <1>1, <1>2 DEF Careful, JournalsLocked
<1>5. LocksUsed' /\ BackupsLocked'
  BY <1>1, <1>2 DEF Careful, LocksUsed, BackupsLocked
<1>6. NoBackup'
  BY <1>1, <1>2 DEF Careful, NoBackup
<1>7. Restorable'
  <2> SUFFICES ASSUME NEW e \in Importers, journal[e].state = "committing",
                      pc'[e] \notin {"aside", "undo_mark"},
                      \A d \in Doctors : pc'[d] = "d_mark" => visit[d].at # {e},
                      NEW a \in journal[e].destination \cap had
               PROVE  backup[e][a] # Nothing
    BY <1>1 DEF Restorable
  <2>1. CASE p = e \/ (p \in Doctors /\ visit[p].at = {e})
    <3>1. journal[e].saved
      BY DEF Careful, Promised
    <3>2. a \notin Unbacked(e)
      BY <2>1, CrashMoves DEF Unexposed
    <3> QED BY <3>1, <3>2 DEF Unbacked
  <2>2. CASE p # e /\ ~(p \in Doctors /\ visit[p].at = {e})
    <3>1. pc[e] = pc'[e]
      BY <1>1, <2>2, Kinds
    <3>2. \A d \in Doctors : pc[d] = "d_mark" => visit[d].at # {e}
      BY <1>1, <1>3, <2>2
    <3> QED BY <3>1, <3>2 DEF Careful, Restorable
  <2> QED BY <2>1, <2>2
<1>8. Tended'
  <2>1. \A d \in Doctors : pc'[d] \in {"d_rm", "d_restore", "d_mark"} => pc'[d] = pc[d] /\ Alive(d)
    BY <1>3 DEF Alive
  <2>2. \A e \in Importers : pc[e] = "dead" => pc'[e] = "dead"
    BY <1>2
  <2> QED BY <1>1, <2>1, <2>2 DEF Careful, Tended
<1>9. Promised'
  BY <1>1 DEF Careful, Promised
<1> QED BY <1>4, <1>5, <1>6, <1>7, <1>8, <1>9 DEF Careful

\* What a doctor that is at a journal does.
LEMMA TendingIs ==
  ASSUME Typed, DoctorsAlone, Careful, NEW d \in Doctors, pc[d] \in {"d_rm", "d_restore", "d_mark"}
  PROVE  \E e \in Importers, a \in Assets :
           /\ visit[d].at = {e} /\ visit[d].copy = journal[e] /\ journal[e].destination = {a}
           /\ journal[e].state = "committing" /\ pc[e] = "dead" /\ lock[a] = {e}
           /\ Visiting(d) = e /\ Recovered(d) = a
           /\ pc[d] = "d_restore" => dest[a] = Nothing
           /\ pc[d] # "d_mark" /\ a \in had => backup[e][a] # Nothing
           /\ \A c \in Doctors \ {d} : pc[c] \notin {"d_rm", "d_restore", "d_mark"}
<1>1. PICK e \in Importers :
        /\ visit[d].at = {e} /\ visit[d].copy = journal[e] /\ journal[e].state = "committing" /\ pc[e] = "dead"
        /\ pc[d] = "d_restore" => \A a \in journal[e].destination : dest[a] = Nothing
  BY DEF Careful, Tended
<1>2. PICK a \in Assets : journal[e].destination = {a}
  BY <1>1 DEF Typed, OneAsset
<1>3. lock[a] = {e}
  BY <1>1, <1>2 DEF Careful, JournalsLocked
<1>4. Visiting(d) = e /\ Recovered(d) = a
  BY <1>1, <1>2, VisitIs
<1>5. \A c \in Doctors \ {d} : pc[c] \notin {"d_rm", "d_restore", "d_mark"}
  BY DEF DoctorsAlone, Procs, Alive
<1>6. pc[d] # "d_mark" /\ a \in had => backup[e][a] # Nothing
  BY <1>1, <1>2, <1>5 DEF Careful, Restorable
<1> QED BY <1>1, <1>2, <1>3, <1>4, <1>5, <1>6

LEMMA DoctorCareful ==
  ASSUME Typed, DoctorsAlone, Careful, NEW d \in Doctors, Doctor(d)
  PROVE  Careful'
<1>1. /\ \A e \in Importers : e \in Procs /\ e # d /\ pc'[e] = pc[e] /\ Item(e)' = Item(e)
      /\ lock' = lock /\ mem' = mem /\ had' = had
      /\ \A c \in Doctors \ {d} : c \in Procs /\ pc'[c] = pc[c] /\ visit'[c] = visit[c]
  BY DoctorMoves, Kinds DEF Item, Procs
<1>2. LocksUsed'
  BY <1>1 DEF Careful, LocksUsed
<1>3. CASE Scan(d) \/ DoctorDone(d) \/ Visit(d)
  <2>1. dest' = dest /\ backup' = backup /\ journal' = journal
    BY <1>3 DEF Scan, DoctorDone, Visit, disk
  <2>2. JournalsLocked' /\ BackupsLocked' /\ NoBackup'
    BY <1>1, <2>1 DEF Careful, JournalsLocked, BackupsLocked, NoBackup
  <2>3. pc'[d] \in {"visit", "done", "d_rm"} /\ d \in Procs /\ pc[d] \in {"idle", "visit"}
    BY <1>3 DEF Scan, DoctorDone, Visit, Goto, Typed, Memories, Procs
  <2>4. Restorable'
    <3>1. \A e \in Importers :
            (\A c \in Doctors : pc'[c] = "d_mark" => visit'[c].at # {e}) => \A c \in Doctors : pc[c] = "d_mark" => visit[c].at # {e}
      BY <1>1, <2>3
    <3> QED BY <1>1, <2>1, <3>1 DEF Careful, Restorable
  <2>5. Tended'
    <3>1. CASE pc'[d] = "d_rm"
      <4>1. PICK e \in visit[d].todo :
              visit' = [visit EXCEPT ![d] = [todo |-> @.todo \ {e}, at |-> {e}, copy |-> journal[e]]] /\ journal[e].state = "committing"
        BY <1>3, <2>3, <3>1 DEF Scan, DoctorDone, Visit, Goto, Typed, Memories
      <4>2. e \in Importers /\ visit'[d].at = {e} /\ visit'[d].copy = journal[e]
        BY <4>1 DEF Typed, Memories, Visits
      <4>3. pc[d] = "visit"
        BY <1>3, <2>3, <3>1 DEF Scan, DoctorDone, Visit, Goto, Typed, Memories
      <4>4. ~Alive(e) /\ \A c \in Doctors \ {d} : ~Alive(c)
        BY <1>1, <2>3, <4>2, <4>3 DEF DoctorsAlone, Alive
      <4>5. pc[e] = "dead"
        BY <4>1, <4>2, <4>4 DEF Careful, JournalsLocked, Alive
      <4> QED BY <1>1, <2>1, <3>1, <4>1, <4>2, <4>4, <4>5 DEF Tended, Alive
    <3>2. CASE pc'[d] # "d_rm"
      BY <1>1, <2>1, <2>3, <3>2 DEF Careful, Tended
    <3> QED BY <3>1, <3>2
  <2>6. Promised'
    BY <1>1, <2>1 DEF Careful, Promised
  <2> QED BY <1>2, <2>2, <2>4, <2>5, <2>6 DEF Careful
<1>4. CASE DoctorRemove(d) \/ DoctorRestore(d) \/ DoctorMark(d)
  <2>0. pc[d] \in {"d_rm", "d_restore", "d_mark"} /\ visit' = visit
    BY <1>4 DEF DoctorRemove, DoctorRestore, DoctorMark
  <2>1. PICK e \in Importers, a \in Assets :
           /\ visit[d].at = {e} /\ visit[d].copy = journal[e] /\ journal[e].destination = {a}
           /\ journal[e].state = "committing" /\ pc[e] = "dead" /\ lock[a] = {e}
           /\ Visiting(d) = e /\ Recovered(d) = a
           /\ pc[d] = "d_restore" => dest[a] = Nothing
           /\ pc[d] # "d_mark" /\ a \in had => backup[e][a] # Nothing
           /\ \A c \in Doctors \ {d} : pc[c] \notin {"d_rm", "d_restore", "d_mark"}
    BY <2>0, TendingIs
  <2>2. CASE DoctorRemove(d)
    <3>1. dest'[a] = Nothing /\ pc[d] = "d_rm" /\ pc'[d] = "d_restore" /\ backup' = backup /\ journal' = journal
      BY <1>1, <2>1, <2>2 DEF DoctorRemove, Goto, Typed, Disks, Memories, Procs
    <3>2. JournalsLocked' /\ BackupsLocked' /\ NoBackup'
      BY <1>1, <3>1 DEF Careful, JournalsLocked, BackupsLocked, NoBackup
    <3>3. Restorable'
      BY <1>1, <2>0, <2>1, <3>1 DEF Careful, Restorable
    <3>4. Tended'
      BY <1>1, <2>0, <2>1, <3>1 DEF Tended
    <3>5. Promised'
      BY <1>1, <3>1 DEF Careful, Promised
    <3> QED BY <1>2, <3>2, <3>3, <3>4, <3>5 DEF Careful
  <2>3. CASE DoctorRestore(d)
    <3>1. journal' = journal /\ pc[d] = "d_restore" /\ pc'[d] \in {"d_mark", "visit"}
      BY <1>1, <2>3 DEF DoctorRestore, Goto, Typed, Memories, Procs
    <3>2. /\ \A f \in Importers, b \in Assets : backup'[f][b] = backup[f][b] \/ (f = e /\ b = a /\ backup'[f][b] = Nothing)
          /\ pc'[d] = "visit" => backup' = backup
      <4>1. CASE UNCHANGED <<dest, backup>>
        BY <4>1
      <4>2. CASE backup' = [backup EXCEPT ![e][a] = Nothing] /\ Goto(d, "d_mark")
        BY <3>1, <4>2 DEF Typed, Disks, Memories, Goto, Procs
      <4> QED BY <2>1, <2>3, <4>1, <4>2 DEF DoctorRestore
    <3>3. JournalsLocked' /\ BackupsLocked' /\ NoBackup'
      <4>1. JournalsLocked'
        BY <1>1, <3>1 DEF Careful, JournalsLocked
      <4>2. BackupsLocked'
        BY <1>1, <3>2 DEF Careful, BackupsLocked
      <4>3. NoBackup'
        <5> SUFFICES ASSUME NEW f \in Importers,
                            pc[f] \in {"decide", "reuse", "mark", "aside", "committed", "undo_mark", "release"}
                     PROVE  backup'[f][Item(f)] = Nothing
          BY <1>1 DEF NoBackup
        <5>1. f # e /\ pc[f] \in CommitSteps
          BY <2>1 DEF CommitSteps, Guarded
        <5>2. Item(f) \in Assets
          BY <5>1, AnItem, ItemIs
        <5> QED BY <3>2, <5>1, <5>2 DEF Careful, NoBackup
      <4> QED BY <4>1, <4>2, <4>3
    <3>4. Restorable'
      <4> SUFFICES ASSUME NEW f \in Importers, journal[f].state = "committing", pc[f] \notin {"aside", "undo_mark"},
                          \A c \in Doctors : pc'[c] = "d_mark" => visit[c].at # {f},
                          NEW b \in journal[f].destination \cap had
                   PROVE  backup'[f][b] # Nothing
        BY <1>1, <2>0, <3>1 DEF Restorable
      <4>1. backup[f][b] # Nothing /\ b \in Assets
        BY <2>1, <3>1 DEF Careful, Restorable, Typed, Memories
      <4>2. CASE f = e
        BY <2>1, <3>1, <3>2, <4>1, <4>2
      <4>3. CASE f # e
        BY <3>2, <4>1, <4>3
      <4> QED BY <4>2, <4>3
    <3>5. Tended'
      BY <1>1, <2>0, <2>1, <3>1 DEF Tended
    <3>6. Promised'
      BY <1>1, <3>1 DEF Careful, Promised
    <3> QED BY <1>2, <3>3, <3>4, <3>5, <3>6 DEF Careful
  <2>4. CASE DoctorMark(d)
    <3>1. pc[d] = "d_mark" /\ pc'[d] = "visit" /\ backup' = backup /\ dest' = dest
      BY <1>1, <2>4 DEF DoctorMark, Goto, Typed, Memories, Procs
    <3>2. journal'[e].state # "committing" /\ \A f \in Importers \ {e} : journal'[f] = journal[f]
      <4>1. journal[e] \in Journals
        BY DEF Typed, Disks
      <4>2. [journal[e] EXCEPT !.state = "rolled_back"].state = "rolled_back"
        BY <4>1 DEF Journals
      <4> QED BY <2>1, <2>4, <4>2 DEF DoctorMark, Typed, Disks
    <3>3. JournalsLocked' /\ BackupsLocked' /\ NoBackup'
      BY <1>1, <3>1, <3>2 DEF Careful, JournalsLocked, BackupsLocked, NoBackup
    <3>4. Restorable'
      <4> SUFFICES ASSUME NEW f \in Importers \ {e}, journal[f].state = "committing", pc[f] \notin {"aside", "undo_mark"},
                          NEW b \in journal[f].destination \cap had
                   PROVE  backup[f][b] # Nothing
        BY <1>1, <3>1, <3>2 DEF Restorable
      <4> QED BY <2>1 DEF Careful, Restorable
    <3>5. Tended'
      BY <1>1, <2>0, <2>1, <3>1 DEF Tended
    <3>6. Promised'
      BY <1>1, <3>2 DEF Careful, Promised
    <3> QED BY <1>2, <3>3, <3>4, <3>5, <3>6 DEF Careful
  <2> QED BY <1>4, <2>2, <2>3, <2>4
<1> QED BY <1>3, <1>4 DEF Doctor

LEMMA DoctorSaves ==
  ASSUME Typed, DoctorsAlone, Saved, NeverLost, Careful, NEW d \in Doctors, Doctor(d)
  PROVE  Saved' /\ NeverLost'
<1>1. /\ \A e \in Importers : e \in Procs /\ e # d /\ pc'[e] = pc[e] /\ Item(e)' = Item(e)
      /\ had' = had
  BY DoctorMoves, Kinds DEF Item
<1>2. CASE UNCHANGED disk
  <2>1. dest' = dest /\ backup' = backup
    BY <1>2 DEF disk
  <2> QED BY <1>1, <2>1 DEF Saved, NeverLost, Kept
<1>3. CASE Alive(d)
  <2>1. \A e \in Importers : pc[e] \in {"idle", "done", "dead"}
    BY <1>1, <1>3 DEF DoctorsAlone, Alive
  <2>2. Saved'
    BY <1>1, <2>1 DEF Saved
  <2>3. CASE DoctorRemove(d) \/ DoctorRestore(d)
    <3>0. pc[d] \in {"d_rm", "d_restore"} /\ d \in Procs
      BY <2>3 DEF DoctorRemove, DoctorRestore, Procs
    <3>1. PICK e \in Importers, a \in Assets :
             /\ Visiting(d) = e /\ Recovered(d) = a /\ (a \in had => backup[e][a] # Nothing)
      BY <3>0, TendingIs
    <3>2. /\ \A b \in Assets \ {a} : dest'[b] = dest[b] /\ \A f \in Importers : backup'[f][b] = backup[f][b]
          /\ a \in had => dest'[a] # Nothing \/ backup'[e][a] # Nothing
      <4>1. CASE DoctorRemove(d)
        BY <3>1, <4>1 DEF DoctorRemove, Typed, Disks
      <4>2. CASE UNCHANGED <<dest, backup>>
        BY <3>1, <4>2
      <4>3. CASE /\ dest' = [dest EXCEPT ![a] = backup[e][a]] /\ backup' = [backup EXCEPT ![e][a] = Nothing]
        BY <3>1, <4>3 DEF Typed, Disks
      <4> QED BY <2>3, <3>1, <4>1, <4>2, <4>3 DEF DoctorRestore
    <3>3. NeverLost'
      BY <1>1, <3>2 DEF NeverLost, Kept, Typed, Memories
    <3> QED BY <2>2, <3>3
  <2>4. CASE Scan(d) \/ Visit(d) \/ DoctorMark(d) \/ DoctorDone(d)
    <3>1. dest' = dest /\ backup' = backup
      BY <2>4 DEF Scan, Visit, DoctorMark, DoctorDone, disk
    <3> QED BY <1>1, <2>2, <3>1 DEF NeverLost, Kept
  <2> QED BY <2>3, <2>4 DEF Doctor
<1> QED BY <1>2, <1>3, DoctorMoves

LEMMA CrashSaves ==
  ASSUME Typed, Saved, NeverLost, NEW p \in Procs, Crash(p)
  PROVE  Saved' /\ NeverLost'
<1>1. \A e \in Importers : e \in Procs /\ pc'[e] \in {pc[e], "dead"} /\ Item(e)' = Item(e)
  BY CrashMoves, Kinds DEF Item
<1>2. dest' = dest /\ backup' = backup /\ had' = had
  BY CrashMoves DEF disk
<1> QED BY <1>1, <1>2 DEF Saved, NeverLost, Kept

LEMMA StutterKept ==
  ASSUME UNCHANGED vars
  PROVE  /\ Saved /\ NeverLost => Saved' /\ NeverLost'
         /\ Careful => Careful'
<1>1. Saved /\ NeverLost => Saved' /\ NeverLost'
  BY DEF Saved, NeverLost, Kept, Item, vars, disk
<1>2. Careful => Careful'
  <2>1. JournalsLocked /\ LocksUsed /\ BackupsLocked => (JournalsLocked /\ LocksUsed /\ BackupsLocked)'
    BY DEF JournalsLocked, LocksUsed, BackupsLocked, vars, disk
  <2>2. NoBackup /\ Restorable /\ Promised => (NoBackup /\ Restorable /\ Promised)'
    BY DEF NoBackup, Restorable, Promised, Item, vars, disk
  <2>3. Tended => Tended'
    BY DEF Tended, vars, disk
  <2> QED BY <2>1, <2>2, <2>3 DEF Careful
<1> QED BY <1>1, <1>2

KeptInv == Unexposed => Saved /\ NeverLost /\ Careful

LEMMA InitKept == Init => Saved /\ NeverLost /\ Careful
<1> SUFFICES ASSUME Init PROVE Saved /\ NeverLost /\ Careful
  OBVIOUS
<1>1. \A p \in Procs : pc[p] = "idle"
  BY DEF Init
<1>2. \A e \in Importers : journal[e].state = "none"
  BY DEF Init, NoJournal
<1>3. Saved /\ NeverLost
  BY <1>1, Kinds DEF Init, Saved, NeverLost, Kept
<1>4. JournalsLocked /\ LocksUsed /\ BackupsLocked
  BY <1>1, <1>2 DEF Init, JournalsLocked, LocksUsed, BackupsLocked
<1>5. NoBackup /\ Restorable /\ Promised
  BY <1>1, <1>2, Kinds DEF NoBackup, Restorable, Promised
<1>6. Tended
  BY <1>1 DEF Tended, Procs
<1> QED BY <1>3, <1>4, <1>5, <1>6 DEF Careful

\* What is exposed stays so.
LEMMA StaysExposed ==
  ASSUME Typed, [Next]_vars, Unexposed'
  PROVE  Unexposed
<1>1. exposed \subseteq exposed'
  <2>1. ASSUME NEW e \in Importers, Import(e) \/ CommitItem(e) PROVE exposed' = exposed
    BY <2>1
       DEF Import, CommitItem, Begin, Fill, RecordResult, RecordJournal, Validate, Abort, NextItem,
           ProviderError, Sweep, Terminal, AcquireLock, AssetBusy, Decide, Reuse, Mark, Aside, Place,
           Engine, WriteProvenance, EngineVerified, DropBackup, Committed, UndoRemove, UndoRestore,
           UndoMark, ReleaseLock, Keep
  <2>2. ASSUME NEW e \in Importers, Fault(e) PROVE exposed \subseteq exposed'
    BY <2>2 DEF Fault
  <2>3. ASSUME NEW d \in Doctors, Doctor(d) PROVE exposed' = exposed
    BY <2>3 DEF Doctor, Scan, Visit, DoctorRemove, DoctorRestore, DoctorMark, DoctorDone
  <2>4. ASSUME NEW p \in Procs, Crash(p) PROVE exposed \subseteq exposed'
    BY <2>4, CrashMoves
  <2>5. UNCHANGED vars => exposed' = exposed
    BY DEF vars
  <2> QED BY <2>1, <2>2, <2>3, <2>4, <2>5, StepIs
<1> QED BY <1>1 DEF Unexposed

LEMMA KeptStep ==
  ASSUME Typed, DoctorsAlone, DoctorsAlone', Live, KeptInv, [Next]_vars
  PROVE  KeptInv'
<1> SUFFICES ASSUME Unexposed' PROVE Saved' /\ NeverLost' /\ Careful'
  BY DEF KeptInv
<1>1. Unexposed /\ Saved /\ NeverLost /\ Careful
  BY StaysExposed DEF KeptInv
<1>2. Careful'
  BY <1>1, StepIs, ImportCareful, DoctorCareful, CrashCareful, StutterKept
<1>3. Saved' /\ NeverLost'
  BY <1>1, StepIs, ImportSaves, DoctorSaves, CrashSaves, StutterKept
<1> QED BY <1>2, <1>3

LEMMA AlwaysKept == Spec /\ []DoctorsAlone => []KeptInv
<1>1. Init => KeptInv
  BY InitKept DEF KeptInv
<1>2. Typed /\ DoctorsAlone /\ DoctorsAlone' /\ Live /\ KeptInv /\ [Next]_vars => KeptInv'
  BY KeptStep
<1> QED BY <1>1, <1>2, AlwaysTyped, AlwaysLive, PTL DEF Spec

\* While no doctor works beside a living process, and until a process dies between a
\* journal and the move it announces or a rename or the last record of a commit fails,
\* no asset the project had is lost: it, or what replaced it, is live or in a backup.
THEOREM AssetsSafe == Spec /\ []DoctorsAlone => [](exposed = {} => AssetKept /\ NeverLost)
<1>1. KeptInv => (exposed = {} => AssetKept /\ NeverLost)
  BY DEF KeptInv, Unexposed, AssetKept, NeverLost
<1> QED BY <1>1, AlwaysKept, PTL

-----------------------------------------------------------------------------
(* Nothing half imported, nothing left behind *)

InitialWhole == \A c \in Initial : Agree(c)
WholeInv == WholeMoved /\ HalfNamed

HalfAt(a) == Agree(dest[a]) \/ \E e \in Importers : journal[e].state = "committing" /\ a \in journal[e].destination
MovedAt(e, a) ==
  /\ Agree(backup[e][a])
  /\ pc[e] \in {"aside", "undo_mark"} => Agree(dest[a])
  /\ pc[e] \in {"aside", "place", "engine", "prov"} => journal[e].state = "committing"

LEMMA WholesKept ==
  ASSUME Typed, Careful, WholeInv, NEW e \in Importers, NEW a \in Assets, Moves(e), Touches(e, a),
         mem[e].item = {a}, mem'[e].item = {a}, lock[a] \subseteq {e}, pc[e] # "dead", HalfAt(a)', MovedAt(e, a)',
         Exclusive, \A d \in Doctors : pc'[d] # "d_mark"
  PROVE  WholeInv'
<1>1. \A f \in Importers \ {e} :
        pc'[f] = pc[f] /\ journal'[f] = journal[f] /\ backup'[f] = backup[f] /\ Item(f)' = Item(f)
  BY Kinds, OtherItems DEF Moves
<1>2. journal[e].state = "committing" => journal[e].destination = {a}
  BY DEF Careful, JournalsLocked
<1>3. \A b \in Assets \ {a} : dest'[b] = dest[b] /\ backup'[e][b] = backup[e][b]
  BY DEF Touches
<1>4. HalfNamed'
  <2> SUFFICES ASSUME NEW b \in Assets PROVE HalfAt(b)'
    BY DEF HalfNamed, HalfAt
  <2>1. CASE b = a
    BY <2>1
  <2>2. CASE b # a
    BY <1>1, <1>2, <1>3, <2>2 DEF WholeInv, HalfNamed, HalfAt
  <2> QED BY <2>1, <2>2
<1>5. \A f \in Importers, b \in Assets : Agree(backup'[f][b])
  BY <1>1, <1>3 DEF WholeInv, WholeMoved, MovedAt
<1>6. Item(e)' = a
  BY DEF Item
<1>7. ASSUME NEW f \in Importers, pc'[f] \in {"aside", "undo_mark"} PROVE Agree(dest'[Item(f)'])
  <2>1. CASE f = e
    BY <1>6, <1>7, <2>1 DEF MovedAt
  <2>2. CASE f # e
    <3>1. pc[f] \in {"aside", "undo_mark"} /\ pc[f] \in Hold
      BY <1>1, <1>7, <2>2 DEF Hold, CommitSteps, Guarded
    <3>2. PICK b \in Assets : mem[f].item = {b}
      BY <3>1, AnItem, HoldSteps
    <3>3. Item(f) = b /\ lock[b] = {f}
      BY <3>1, <3>2, ItemIs DEF Exclusive
    <3> QED BY <1>1, <1>3, <2>2, <3>1, <3>3 DEF WholeInv, WholeMoved
  <2> QED BY <2>1, <2>2
<1>8. \A f \in Importers : pc'[f] \in {"aside", "place", "engine", "prov"} => journal'[f].state = "committing"
  BY <1>1 DEF WholeInv, WholeMoved, MovedAt
<1> QED BY <1>4, <1>5, <1>7, <1>8 DEF WholeInv, WholeMoved

LEMMA ImportWhole ==
  ASSUME Typed, DoctorsAlone, DoctorsAlone', Live, Careful, WholeInv, NEW e \in Importers, Import(e) \/ CommitItem(e) \/ Fault(e)
  PROVE  WholeInv'
<1>0. e \in Procs /\ Agree(Nothing) /\ Agree([files |-> New(e), prov |-> New(e)])
  BY Kinds DEF Agree, Nothing
<1>1. CASE Begin(e)
  <2>1. Moves(e) /\ Remote /\ (journal'[e] = journal[e] \/ journal'[e].state # "committing")
    BY <1>1, BeginEffect
  <2>2. /\ pc[e] \in {"idle", "fill", "result", "record", "validate", "next", "abort", "terminal", "lock"}
        /\ pc'[e] \in {"fill", "result", "record", "validate", "next", "abort", "terminal", "done", "lock"}
        /\ Alive(e)'
    BY <1>1, BeginEffect DEF Alive
  <2>3. \A d \in Doctors : pc'[d] # "d_mark"
    BY <2>1, <2>2, Kinds, NobodyTends, NobodyTendsYet DEF Moves, Procs
  <2>4. journal[e].state # "committing"
    BY <2>2 DEF Careful, JournalsLocked
  <2>5. \A f \in Importers \ {e} : pc'[f] = pc[f] /\ journal'[f] = journal[f] /\ Item(f)' = Item(f)
    BY <2>1, Kinds, OtherItems DEF Moves
  <2>6. dest' = dest /\ backup' = backup
    BY <2>1 DEF Remote
  <2>7. HalfNamed'
    BY <2>4, <2>5, <2>6 DEF WholeInv, HalfNamed
  <2>8. WholeMoved'
    BY <2>2, <2>3, <2>5, <2>6 DEF WholeInv, WholeMoved
  <2> QED BY <2>7, <2>8 DEF WholeInv
<1>2. CASE Fill(e)
  <2>1. Moves(e) /\ Remote /\ (journal'[e] = journal[e] \/ journal'[e].state # "committing")
    BY <1>2, FillEffect
  <2>2. /\ pc[e] \in {"idle", "fill", "result", "record", "validate", "next", "abort", "terminal", "lock"}
        /\ pc'[e] \in {"fill", "result", "record", "validate", "next", "abort", "terminal", "done", "lock"}
        /\ Alive(e)
    BY <1>2, FillEffect DEF Alive
  <2>3. \A d \in Doctors : pc'[d] # "d_mark"
    BY <2>1, <2>2, Kinds, NobodyTends, NobodyTendsYet DEF Moves, Procs
  <2>4. journal[e].state # "committing"
    BY <2>2 DEF Careful, JournalsLocked
  <2>5. \A f \in Importers \ {e} : pc'[f] = pc[f] /\ journal'[f] = journal[f] /\ Item(f)' = Item(f)
    BY <2>1, Kinds, OtherItems DEF Moves
  <2>6. dest' = dest /\ backup' = backup
    BY <2>1 DEF Remote
  <2>7. HalfNamed'
    BY <2>4, <2>5, <2>6 DEF WholeInv, HalfNamed
  <2>8. WholeMoved'
    BY <2>2, <2>3, <2>5, <2>6 DEF WholeInv, WholeMoved
  <2> QED BY <2>7, <2>8 DEF WholeInv
<1>3. CASE RecordResult(e)
  <2>1. Moves(e) /\ Remote /\ (journal'[e] = journal[e] \/ journal'[e].state # "committing")
    BY <1>3, RecordResultEffect
  <2>2. /\ pc[e] \in {"idle", "fill", "result", "record", "validate", "next", "abort", "terminal", "lock"}
        /\ pc'[e] \in {"fill", "result", "record", "validate", "next", "abort", "terminal", "done", "lock"}
        /\ Alive(e)
    BY <1>3, RecordResultEffect DEF Alive
  <2>3. \A d \in Doctors : pc'[d] # "d_mark"
    BY <2>1, <2>2, Kinds, NobodyTends, NobodyTendsYet DEF Moves, Procs
  <2>4. journal[e].state # "committing"
    BY <2>2 DEF Careful, JournalsLocked
  <2>5. \A f \in Importers \ {e} : pc'[f] = pc[f] /\ journal'[f] = journal[f] /\ Item(f)' = Item(f)
    BY <2>1, Kinds, OtherItems DEF Moves
  <2>6. dest' = dest /\ backup' = backup
    BY <2>1 DEF Remote
  <2>7. HalfNamed'
    BY <2>4, <2>5, <2>6 DEF WholeInv, HalfNamed
  <2>8. WholeMoved'
    BY <2>2, <2>3, <2>5, <2>6 DEF WholeInv, WholeMoved
  <2> QED BY <2>7, <2>8 DEF WholeInv
<1>4. CASE RecordJournal(e)
  <2>1. Moves(e) /\ Remote /\ (journal'[e] = journal[e] \/ journal'[e].state # "committing")
    BY <1>4, RecordJournalEffect
  <2>2. /\ pc[e] \in {"idle", "fill", "result", "record", "validate", "next", "abort", "terminal", "lock"}
        /\ pc'[e] \in {"fill", "result", "record", "validate", "next", "abort", "terminal", "done", "lock"}
        /\ Alive(e)
    BY <1>4, RecordJournalEffect DEF Alive
  <2>3. \A d \in Doctors : pc'[d] # "d_mark"
    BY <2>1, <2>2, Kinds, NobodyTends, NobodyTendsYet DEF Moves, Procs
  <2>4. journal[e].state # "committing"
    BY <2>2 DEF Careful, JournalsLocked
  <2>5. \A f \in Importers \ {e} : pc'[f] = pc[f] /\ journal'[f] = journal[f] /\ Item(f)' = Item(f)
    BY <2>1, Kinds, OtherItems DEF Moves
  <2>6. dest' = dest /\ backup' = backup
    BY <2>1 DEF Remote
  <2>7. HalfNamed'
    BY <2>4, <2>5, <2>6 DEF WholeInv, HalfNamed
  <2>8. WholeMoved'
    BY <2>2, <2>3, <2>5, <2>6 DEF WholeInv, WholeMoved
  <2> QED BY <2>7, <2>8 DEF WholeInv
<1>5. CASE Validate(e)
  <2>1. Moves(e) /\ Remote /\ (journal'[e] = journal[e] \/ journal'[e].state # "committing")
    BY <1>5, ValidateEffect
  <2>2. /\ pc[e] \in {"idle", "fill", "result", "record", "validate", "next", "abort", "terminal", "lock"}
        /\ pc'[e] \in {"fill", "result", "record", "validate", "next", "abort", "terminal", "done", "lock"}
        /\ Alive(e)
    BY <1>5, ValidateEffect DEF Alive
  <2>3. \A d \in Doctors : pc'[d] # "d_mark"
    BY <2>1, <2>2, Kinds, NobodyTends, NobodyTendsYet DEF Moves, Procs
  <2>4. journal[e].state # "committing"
    BY <2>2 DEF Careful, JournalsLocked
  <2>5. \A f \in Importers \ {e} : pc'[f] = pc[f] /\ journal'[f] = journal[f] /\ Item(f)' = Item(f)
    BY <2>1, Kinds, OtherItems DEF Moves
  <2>6. dest' = dest /\ backup' = backup
    BY <2>1 DEF Remote
  <2>7. HalfNamed'
    BY <2>4, <2>5, <2>6 DEF WholeInv, HalfNamed
  <2>8. WholeMoved'
    BY <2>2, <2>3, <2>5, <2>6 DEF WholeInv, WholeMoved
  <2> QED BY <2>7, <2>8 DEF WholeInv
<1>6. CASE Abort(e)
  <2>1. Moves(e) /\ Remote /\ (journal'[e] = journal[e] \/ journal'[e].state # "committing")
    BY <1>6, AbortEffect
  <2>2. /\ pc[e] \in {"idle", "fill", "result", "record", "validate", "next", "abort", "terminal", "lock"}
        /\ pc'[e] \in {"fill", "result", "record", "validate", "next", "abort", "terminal", "done", "lock"}
        /\ Alive(e)
    BY <1>6, AbortEffect DEF Alive
  <2>3. \A d \in Doctors : pc'[d] # "d_mark"
    BY <2>1, <2>2, Kinds, NobodyTends, NobodyTendsYet DEF Moves, Procs
  <2>4. journal[e].state # "committing"
    BY <2>2 DEF Careful, JournalsLocked
  <2>5. \A f \in Importers \ {e} : pc'[f] = pc[f] /\ journal'[f] = journal[f] /\ Item(f)' = Item(f)
    BY <2>1, Kinds, OtherItems DEF Moves
  <2>6. dest' = dest /\ backup' = backup
    BY <2>1 DEF Remote
  <2>7. HalfNamed'
    BY <2>4, <2>5, <2>6 DEF WholeInv, HalfNamed
  <2>8. WholeMoved'
    BY <2>2, <2>3, <2>5, <2>6 DEF WholeInv, WholeMoved
  <2> QED BY <2>7, <2>8 DEF WholeInv
<1>7. CASE NextItem(e)
  <2>1. Moves(e) /\ Remote /\ (journal'[e] = journal[e] \/ journal'[e].state # "committing")
    BY <1>7, NextItemEffect
  <2>2. /\ pc[e] \in {"idle", "fill", "result", "record", "validate", "next", "abort", "terminal", "lock"}
        /\ pc'[e] \in {"fill", "result", "record", "validate", "next", "abort", "terminal", "done", "lock"}
        /\ Alive(e)
    BY <1>7, NextItemEffect DEF Alive
  <2>3. \A d \in Doctors : pc'[d] # "d_mark"
    BY <2>1, <2>2, Kinds, NobodyTends, NobodyTendsYet DEF Moves, Procs
  <2>4. journal[e].state # "committing"
    BY <2>2 DEF Careful, JournalsLocked
  <2>5. \A f \in Importers \ {e} : pc'[f] = pc[f] /\ journal'[f] = journal[f] /\ Item(f)' = Item(f)
    BY <2>1, Kinds, OtherItems DEF Moves
  <2>6. dest' = dest /\ backup' = backup
    BY <2>1 DEF Remote
  <2>7. HalfNamed'
    BY <2>4, <2>5, <2>6 DEF WholeInv, HalfNamed
  <2>8. WholeMoved'
    BY <2>2, <2>3, <2>5, <2>6 DEF WholeInv, WholeMoved
  <2> QED BY <2>7, <2>8 DEF WholeInv
<1>8. CASE ProviderError(e)
  <2>1. Moves(e) /\ Remote /\ (journal'[e] = journal[e] \/ journal'[e].state # "committing")
    BY <1>8, ProviderErrorEffect
  <2>2. /\ pc[e] \in {"idle", "fill", "result", "record", "validate", "next", "abort", "terminal", "lock"}
        /\ pc'[e] \in {"fill", "result", "record", "validate", "next", "abort", "terminal", "done", "lock"}
        /\ Alive(e)
    BY <1>8, ProviderErrorEffect DEF Alive
  <2>3. \A d \in Doctors : pc'[d] # "d_mark"
    BY <2>1, <2>2, Kinds, NobodyTends, NobodyTendsYet DEF Moves, Procs
  <2>4. journal[e].state # "committing"
    BY <2>2 DEF Careful, JournalsLocked
  <2>5. \A f \in Importers \ {e} : pc'[f] = pc[f] /\ journal'[f] = journal[f] /\ Item(f)' = Item(f)
    BY <2>1, Kinds, OtherItems DEF Moves
  <2>6. dest' = dest /\ backup' = backup
    BY <2>1 DEF Remote
  <2>7. HalfNamed'
    BY <2>4, <2>5, <2>6 DEF WholeInv, HalfNamed
  <2>8. WholeMoved'
    BY <2>2, <2>3, <2>5, <2>6 DEF WholeInv, WholeMoved
  <2> QED BY <2>7, <2>8 DEF WholeInv
<1>9. CASE Sweep(e)
  <2>1. Moves(e) /\ Remote /\ (journal'[e] = journal[e] \/ journal'[e].state # "committing")
    BY <1>9, SweepEffect
  <2>2. /\ pc[e] \in {"idle", "fill", "result", "record", "validate", "next", "abort", "terminal", "lock"}
        /\ pc'[e] \in {"fill", "result", "record", "validate", "next", "abort", "terminal", "done", "lock"}
        /\ Alive(e)
    BY <1>9, SweepEffect DEF Alive
  <2>3. \A d \in Doctors : pc'[d] # "d_mark"
    BY <2>1, <2>2, Kinds, NobodyTends, NobodyTendsYet DEF Moves, Procs
  <2>4. journal[e].state # "committing"
    BY <2>2 DEF Careful, JournalsLocked
  <2>5. \A f \in Importers \ {e} : pc'[f] = pc[f] /\ journal'[f] = journal[f] /\ Item(f)' = Item(f)
    BY <2>1, Kinds, OtherItems DEF Moves
  <2>6. dest' = dest /\ backup' = backup
    BY <2>1 DEF Remote
  <2>7. HalfNamed'
    BY <2>4, <2>5, <2>6 DEF WholeInv, HalfNamed
  <2>8. WholeMoved'
    BY <2>2, <2>3, <2>5, <2>6 DEF WholeInv, WholeMoved
  <2> QED BY <2>7, <2>8 DEF WholeInv
<1>10. CASE Terminal(e)
  <2>1. Moves(e) /\ Remote /\ (journal'[e] = journal[e] \/ journal'[e].state # "committing")
    BY <1>10, TerminalEffect
  <2>2. /\ pc[e] \in {"idle", "fill", "result", "record", "validate", "next", "abort", "terminal", "lock"}
        /\ pc'[e] \in {"fill", "result", "record", "validate", "next", "abort", "terminal", "done", "lock"}
        /\ Alive(e)
    BY <1>10, TerminalEffect DEF Alive
  <2>3. \A d \in Doctors : pc'[d] # "d_mark"
    BY <2>1, <2>2, Kinds, NobodyTends, NobodyTendsYet DEF Moves, Procs
  <2>4. journal[e].state # "committing"
    BY <2>2 DEF Careful, JournalsLocked
  <2>5. \A f \in Importers \ {e} : pc'[f] = pc[f] /\ journal'[f] = journal[f] /\ Item(f)' = Item(f)
    BY <2>1, Kinds, OtherItems DEF Moves
  <2>6. dest' = dest /\ backup' = backup
    BY <2>1 DEF Remote
  <2>7. HalfNamed'
    BY <2>4, <2>5, <2>6 DEF WholeInv, HalfNamed
  <2>8. WholeMoved'
    BY <2>2, <2>3, <2>5, <2>6 DEF WholeInv, WholeMoved
  <2> QED BY <2>7, <2>8 DEF WholeInv
<1>11. CASE AcquireLock(e)
  <2>0. PICK a \in Assets : mem[e].item = {a}
    BY <1>11, AnItem DEF AcquireLock, CommitSteps, Guarded, Unguarded
  <2>1. Moves(e) /\ Touches(e, a) /\ mem'[e].item = {a}
    BY <1>11, <2>0, AcquireLockEffect DEF SameItem
  <2>2. Item(e) = a /\ pc[e] \in CommitSteps
    BY <1>11, <2>0, AcquireLockEffect, ItemIs DEF CommitSteps, Guarded, Unguarded
  <2>3. pc[e] # "dead" /\ Alive(e)
    BY <2>2 DEF CommitSteps, Guarded, Alive
  <2>4. \A d \in Doctors : pc'[d] # "d_mark"
    BY <2>1, <2>3, Kinds, NobodyTends DEF Moves, Procs
  <2>5. /\ lock[a] \subseteq {e}
        /\ journal[e].state = "committing" =>
             /\ pc[e] \in {"aside", "place", "engine", "prov", "verified", "undo_rm", "undo_restore", "undo_mark"}
             /\ journal[e].destination = {a}
    BY <1>11, <2>0, <2>2, <2>3, AcquireLockEffect DEF Live, Exclusive, Hold, Careful, JournalsLocked
  <2>6. (lock[a] = {} \/ lock[a] = {e}) /\ (journal[e].state # "committing" => Agree(dest[a]))
    <3>1. \A f \in Importers : journal[f].state = "committing" /\ a \in journal[f].destination => f = e
      BY <2>5 DEF Careful, JournalsLocked
    <3> QED BY <2>5, <3>1 DEF WholeInv, HalfNamed
  <2>7. MovedAt(e, a) /\ HalfAt(a)
    BY <2>2 DEF WholeInv, WholeMoved, HalfNamed, MovedAt, HalfAt
  <2>8. FreshAt(e) /\ Item(e) = a
    BY <2>2 DEF Live, Fresh, FreshAt
  <2>9. MovedAt(e, a)'
    BY <1>11, <1>0, <2>0, <2>2, <2>5, <2>6, <2>7, <2>8, AcquireLockEffect DEF MovedAt, FreshAt, disk
  <2>10. HalfAt(a)'
    <3>1. Agree(dest'[a]) \/ (journal'[e].state = "committing" /\ journal'[e].destination = {a})
      BY <1>11, <1>0, <2>0, <2>2, <2>5, <2>6, <2>7, <2>8, AcquireLockEffect DEF MovedAt, FreshAt, disk
    <3> QED BY <3>1 DEF HalfAt
  <2> QED BY <2>0, <2>1, <2>3, <2>4, <2>5, <2>9, <2>10, WholesKept DEF Live
<1>12. CASE AssetBusy(e)
  <2>1. Moves(e) /\ Remote /\ (journal'[e] = journal[e] \/ journal'[e].state # "committing")
    BY <1>12, AssetBusyEffect
  <2>2. /\ pc[e] \in {"idle", "fill", "result", "record", "validate", "next", "abort", "terminal", "lock"}
        /\ pc'[e] \in {"fill", "result", "record", "validate", "next", "abort", "terminal", "done", "lock"}
        /\ Alive(e)
    BY <1>12, AssetBusyEffect DEF Alive
  <2>3. \A d \in Doctors : pc'[d] # "d_mark"
    BY <2>1, <2>2, Kinds, NobodyTends, NobodyTendsYet DEF Moves, Procs
  <2>4. journal[e].state # "committing"
    BY <2>2 DEF Careful, JournalsLocked
  <2>5. \A f \in Importers \ {e} : pc'[f] = pc[f] /\ journal'[f] = journal[f] /\ Item(f)' = Item(f)
    BY <2>1, Kinds, OtherItems DEF Moves
  <2>6. dest' = dest /\ backup' = backup
    BY <2>1 DEF Remote
  <2>7. HalfNamed'
    BY <2>4, <2>5, <2>6 DEF WholeInv, HalfNamed
  <2>8. WholeMoved'
    BY <2>2, <2>3, <2>5, <2>6 DEF WholeInv, WholeMoved
  <2> QED BY <2>7, <2>8 DEF WholeInv
<1>13. CASE Decide(e)
  <2>0. PICK a \in Assets : mem[e].item = {a}
    BY <1>13, AnItem DEF Decide, CommitSteps, Guarded, Unguarded
  <2>1. Moves(e) /\ Touches(e, a) /\ mem'[e].item = {a}
    BY <1>13, <2>0, DecideEffect DEF SameItem
  <2>2. Item(e) = a /\ pc[e] \in CommitSteps
    BY <1>13, <2>0, DecideEffect, ItemIs DEF CommitSteps, Guarded, Unguarded
  <2>3. pc[e] # "dead" /\ Alive(e)
    BY <2>2 DEF CommitSteps, Guarded, Alive
  <2>4. \A d \in Doctors : pc'[d] # "d_mark"
    BY <2>1, <2>3, Kinds, NobodyTends DEF Moves, Procs
  <2>5. /\ lock[a] \subseteq {e}
        /\ journal[e].state = "committing" =>
             /\ pc[e] \in {"aside", "place", "engine", "prov", "verified", "undo_rm", "undo_restore", "undo_mark"}
             /\ journal[e].destination = {a}
    BY <1>13, <2>0, <2>2, <2>3, DecideEffect DEF Live, Exclusive, Hold, Careful, JournalsLocked
  <2>6. (lock[a] = {} \/ lock[a] = {e}) /\ (journal[e].state # "committing" => Agree(dest[a]))
    <3>1. \A f \in Importers : journal[f].state = "committing" /\ a \in journal[f].destination => f = e
      BY <2>5 DEF Careful, JournalsLocked
    <3> QED BY <2>5, <3>1 DEF WholeInv, HalfNamed
  <2>7. MovedAt(e, a) /\ HalfAt(a)
    BY <2>2 DEF WholeInv, WholeMoved, HalfNamed, MovedAt, HalfAt
  <2>8. FreshAt(e) /\ Item(e) = a
    BY <2>2 DEF Live, Fresh, FreshAt
  <2>9. MovedAt(e, a)'
    BY <1>13, <1>0, <2>0, <2>2, <2>5, <2>6, <2>7, <2>8, DecideEffect DEF MovedAt, FreshAt, disk
  <2>10. HalfAt(a)'
    <3>1. Agree(dest'[a]) \/ (journal'[e].state = "committing" /\ journal'[e].destination = {a})
      BY <1>13, <1>0, <2>0, <2>2, <2>5, <2>6, <2>7, <2>8, DecideEffect DEF MovedAt, FreshAt, disk
    <3> QED BY <3>1 DEF HalfAt
  <2> QED BY <2>0, <2>1, <2>3, <2>4, <2>5, <2>9, <2>10, WholesKept DEF Live
<1>14. CASE Reuse(e)
  <2>0. PICK a \in Assets : mem[e].item = {a}
    BY <1>14, AnItem DEF Reuse, CommitSteps, Guarded, Unguarded
  <2>1. Moves(e) /\ Touches(e, a) /\ mem'[e].item = {a}
    BY <1>14, <2>0, ReuseEffect DEF SameItem
  <2>2. Item(e) = a /\ pc[e] \in CommitSteps
    BY <1>14, <2>0, ReuseEffect, ItemIs DEF CommitSteps, Guarded, Unguarded
  <2>3. pc[e] # "dead" /\ Alive(e)
    BY <2>2 DEF CommitSteps, Guarded, Alive
  <2>4. \A d \in Doctors : pc'[d] # "d_mark"
    BY <2>1, <2>3, Kinds, NobodyTends DEF Moves, Procs
  <2>5. /\ lock[a] \subseteq {e}
        /\ journal[e].state = "committing" =>
             /\ pc[e] \in {"aside", "place", "engine", "prov", "verified", "undo_rm", "undo_restore", "undo_mark"}
             /\ journal[e].destination = {a}
    BY <1>14, <2>0, <2>2, <2>3, ReuseEffect DEF Live, Exclusive, Hold, Careful, JournalsLocked
  <2>6. (lock[a] = {} \/ lock[a] = {e}) /\ (journal[e].state # "committing" => Agree(dest[a]))
    <3>1. \A f \in Importers : journal[f].state = "committing" /\ a \in journal[f].destination => f = e
      BY <2>5 DEF Careful, JournalsLocked
    <3> QED BY <2>5, <3>1 DEF WholeInv, HalfNamed
  <2>7. MovedAt(e, a) /\ HalfAt(a)
    BY <2>2 DEF WholeInv, WholeMoved, HalfNamed, MovedAt, HalfAt
  <2>8. FreshAt(e) /\ Item(e) = a
    BY <2>2 DEF Live, Fresh, FreshAt
  <2>9. MovedAt(e, a)'
    BY <1>14, <1>0, <2>0, <2>2, <2>5, <2>6, <2>7, <2>8, ReuseEffect DEF MovedAt, FreshAt, disk
  <2>10. HalfAt(a)'
    <3>1. Agree(dest'[a]) \/ (journal'[e].state = "committing" /\ journal'[e].destination = {a})
      BY <1>14, <1>0, <2>0, <2>2, <2>5, <2>6, <2>7, <2>8, ReuseEffect DEF MovedAt, FreshAt, disk
    <3> QED BY <3>1 DEF HalfAt
  <2> QED BY <2>0, <2>1, <2>3, <2>4, <2>5, <2>9, <2>10, WholesKept DEF Live
<1>15. CASE Mark(e)
  <2>0. PICK a \in Assets : mem[e].item = {a}
    BY <1>15, AnItem DEF Mark, CommitSteps, Guarded, Unguarded
  <2>1. Moves(e) /\ Touches(e, a) /\ mem'[e].item = {a}
    BY <1>15, <2>0, MarkEffect DEF SameItem
  <2>2. Item(e) = a /\ pc[e] \in CommitSteps
    BY <1>15, <2>0, MarkEffect, ItemIs DEF CommitSteps, Guarded, Unguarded
  <2>3. pc[e] # "dead" /\ Alive(e)
    BY <2>2 DEF CommitSteps, Guarded, Alive
  <2>4. \A d \in Doctors : pc'[d] # "d_mark"
    BY <2>1, <2>3, Kinds, NobodyTends DEF Moves, Procs
  <2>5. /\ lock[a] \subseteq {e}
        /\ journal[e].state = "committing" =>
             /\ pc[e] \in {"aside", "place", "engine", "prov", "verified", "undo_rm", "undo_restore", "undo_mark"}
             /\ journal[e].destination = {a}
    BY <1>15, <2>0, <2>2, <2>3, MarkEffect DEF Live, Exclusive, Hold, Careful, JournalsLocked
  <2>6. (lock[a] = {} \/ lock[a] = {e}) /\ (journal[e].state # "committing" => Agree(dest[a]))
    <3>1. \A f \in Importers : journal[f].state = "committing" /\ a \in journal[f].destination => f = e
      BY <2>5 DEF Careful, JournalsLocked
    <3> QED BY <2>5, <3>1 DEF WholeInv, HalfNamed
  <2>7. MovedAt(e, a) /\ HalfAt(a)
    BY <2>2 DEF WholeInv, WholeMoved, HalfNamed, MovedAt, HalfAt
  <2>8. FreshAt(e) /\ Item(e) = a
    BY <2>2 DEF Live, Fresh, FreshAt
  <2>9. MovedAt(e, a)'
    BY <1>15, <1>0, <2>0, <2>2, <2>5, <2>6, <2>7, <2>8, MarkEffect DEF MovedAt, FreshAt, disk
  <2>10. HalfAt(a)'
    <3>1. Agree(dest'[a]) \/ (journal'[e].state = "committing" /\ journal'[e].destination = {a})
      BY <1>15, <1>0, <2>0, <2>2, <2>5, <2>6, <2>7, <2>8, MarkEffect DEF MovedAt, FreshAt, disk
    <3> QED BY <3>1 DEF HalfAt
  <2> QED BY <2>0, <2>1, <2>3, <2>4, <2>5, <2>9, <2>10, WholesKept DEF Live
<1>16. CASE Aside(e)
  <2>0. PICK a \in Assets : mem[e].item = {a}
    BY <1>16, AnItem DEF Aside, CommitSteps, Guarded, Unguarded
  <2>1. Moves(e) /\ Touches(e, a) /\ mem'[e].item = {a}
    BY <1>16, <2>0, AsideEffect DEF SameItem
  <2>2. Item(e) = a /\ pc[e] \in CommitSteps
    BY <1>16, <2>0, AsideEffect, ItemIs DEF CommitSteps, Guarded, Unguarded
  <2>3. pc[e] # "dead" /\ Alive(e)
    BY <2>2 DEF CommitSteps, Guarded, Alive
  <2>4. \A d \in Doctors : pc'[d] # "d_mark"
    BY <2>1, <2>3, Kinds, NobodyTends DEF Moves, Procs
  <2>5. /\ lock[a] \subseteq {e}
        /\ journal[e].state = "committing" =>
             /\ pc[e] \in {"aside", "place", "engine", "prov", "verified", "undo_rm", "undo_restore", "undo_mark"}
             /\ journal[e].destination = {a}
    BY <1>16, <2>0, <2>2, <2>3, AsideEffect DEF Live, Exclusive, Hold, Careful, JournalsLocked
  <2>6. (lock[a] = {} \/ lock[a] = {e}) /\ (journal[e].state # "committing" => Agree(dest[a]))
    <3>1. \A f \in Importers : journal[f].state = "committing" /\ a \in journal[f].destination => f = e
      BY <2>5 DEF Careful, JournalsLocked
    <3> QED BY <2>5, <3>1 DEF WholeInv, HalfNamed
  <2>7. MovedAt(e, a) /\ HalfAt(a)
    BY <2>2 DEF WholeInv, WholeMoved, HalfNamed, MovedAt, HalfAt
  <2>8. FreshAt(e) /\ Item(e) = a
    BY <2>2 DEF Live, Fresh, FreshAt
  <2>9. MovedAt(e, a)'
    BY <1>16, <1>0, <2>0, <2>2, <2>5, <2>6, <2>7, <2>8, AsideEffect DEF MovedAt, FreshAt, disk
  <2>10. HalfAt(a)'
    <3>1. Agree(dest'[a]) \/ (journal'[e].state = "committing" /\ journal'[e].destination = {a})
      BY <1>16, <1>0, <2>0, <2>2, <2>5, <2>6, <2>7, <2>8, AsideEffect DEF MovedAt, FreshAt, disk
    <3> QED BY <3>1 DEF HalfAt
  <2> QED BY <2>0, <2>1, <2>3, <2>4, <2>5, <2>9, <2>10, WholesKept DEF Live
<1>17. CASE Place(e)
  <2>0. PICK a \in Assets : mem[e].item = {a}
    BY <1>17, AnItem DEF Place, CommitSteps, Guarded, Unguarded
  <2>1. Moves(e) /\ Touches(e, a) /\ mem'[e].item = {a}
    BY <1>17, <2>0, PlaceEffect DEF SameItem
  <2>2. Item(e) = a /\ pc[e] \in CommitSteps
    BY <1>17, <2>0, PlaceEffect, ItemIs DEF CommitSteps, Guarded, Unguarded
  <2>3. pc[e] # "dead" /\ Alive(e)
    BY <2>2 DEF CommitSteps, Guarded, Alive
  <2>4. \A d \in Doctors : pc'[d] # "d_mark"
    BY <2>1, <2>3, Kinds, NobodyTends DEF Moves, Procs
  <2>5. /\ lock[a] \subseteq {e}
        /\ journal[e].state = "committing" =>
             /\ pc[e] \in {"aside", "place", "engine", "prov", "verified", "undo_rm", "undo_restore", "undo_mark"}
             /\ journal[e].destination = {a}
    BY <1>17, <2>0, <2>2, <2>3, PlaceEffect DEF Live, Exclusive, Hold, Careful, JournalsLocked
  <2>6. (lock[a] = {} \/ lock[a] = {e}) /\ (journal[e].state # "committing" => Agree(dest[a]))
    <3>1. \A f \in Importers : journal[f].state = "committing" /\ a \in journal[f].destination => f = e
      BY <2>5 DEF Careful, JournalsLocked
    <3> QED BY <2>5, <3>1 DEF WholeInv, HalfNamed
  <2>7. MovedAt(e, a) /\ HalfAt(a)
    BY <2>2 DEF WholeInv, WholeMoved, HalfNamed, MovedAt, HalfAt
  <2>8. FreshAt(e) /\ Item(e) = a
    BY <2>2 DEF Live, Fresh, FreshAt
  <2>9. MovedAt(e, a)'
    BY <1>17, <1>0, <2>0, <2>2, <2>5, <2>6, <2>7, <2>8, PlaceEffect DEF MovedAt, FreshAt, disk
  <2>10. HalfAt(a)'
    <3>1. Agree(dest'[a]) \/ (journal'[e].state = "committing" /\ journal'[e].destination = {a})
      BY <1>17, <1>0, <2>0, <2>2, <2>5, <2>6, <2>7, <2>8, PlaceEffect DEF MovedAt, FreshAt, disk
    <3> QED BY <3>1 DEF HalfAt
  <2> QED BY <2>0, <2>1, <2>3, <2>4, <2>5, <2>9, <2>10, WholesKept DEF Live
<1>18. CASE Engine(e)
  <2>0. PICK a \in Assets : mem[e].item = {a}
    BY <1>18, AnItem DEF Engine, CommitSteps, Guarded, Unguarded
  <2>1. Moves(e) /\ Touches(e, a) /\ mem'[e].item = {a}
    BY <1>18, <2>0, EngineEffect DEF SameItem
  <2>2. Item(e) = a /\ pc[e] \in CommitSteps
    BY <1>18, <2>0, EngineEffect, ItemIs DEF CommitSteps, Guarded, Unguarded
  <2>3. pc[e] # "dead" /\ Alive(e)
    BY <2>2 DEF CommitSteps, Guarded, Alive
  <2>4. \A d \in Doctors : pc'[d] # "d_mark"
    BY <2>1, <2>3, Kinds, NobodyTends DEF Moves, Procs
  <2>5. /\ lock[a] \subseteq {e}
        /\ journal[e].state = "committing" =>
             /\ pc[e] \in {"aside", "place", "engine", "prov", "verified", "undo_rm", "undo_restore", "undo_mark"}
             /\ journal[e].destination = {a}
    BY <1>18, <2>0, <2>2, <2>3, EngineEffect DEF Live, Exclusive, Hold, Careful, JournalsLocked
  <2>6. (lock[a] = {} \/ lock[a] = {e}) /\ (journal[e].state # "committing" => Agree(dest[a]))
    <3>1. \A f \in Importers : journal[f].state = "committing" /\ a \in journal[f].destination => f = e
      BY <2>5 DEF Careful, JournalsLocked
    <3> QED BY <2>5, <3>1 DEF WholeInv, HalfNamed
  <2>7. MovedAt(e, a) /\ HalfAt(a)
    BY <2>2 DEF WholeInv, WholeMoved, HalfNamed, MovedAt, HalfAt
  <2>8. FreshAt(e) /\ Item(e) = a
    BY <2>2 DEF Live, Fresh, FreshAt
  <2>9. MovedAt(e, a)'
    BY <1>18, <1>0, <2>0, <2>2, <2>5, <2>6, <2>7, <2>8, EngineEffect DEF MovedAt, FreshAt, disk
  <2>10. HalfAt(a)'
    <3>1. Agree(dest'[a]) \/ (journal'[e].state = "committing" /\ journal'[e].destination = {a})
      BY <1>18, <1>0, <2>0, <2>2, <2>5, <2>6, <2>7, <2>8, EngineEffect DEF MovedAt, FreshAt, disk
    <3> QED BY <3>1 DEF HalfAt
  <2> QED BY <2>0, <2>1, <2>3, <2>4, <2>5, <2>9, <2>10, WholesKept DEF Live
<1>19. CASE WriteProvenance(e)
  <2>0. PICK a \in Assets : mem[e].item = {a}
    BY <1>19, AnItem DEF WriteProvenance, CommitSteps, Guarded, Unguarded
  <2>1. Moves(e) /\ Touches(e, a) /\ mem'[e].item = {a}
    BY <1>19, <2>0, WriteProvenanceEffect DEF SameItem
  <2>2. Item(e) = a /\ pc[e] \in CommitSteps
    BY <1>19, <2>0, WriteProvenanceEffect, ItemIs DEF CommitSteps, Guarded, Unguarded
  <2>3. pc[e] # "dead" /\ Alive(e)
    BY <2>2 DEF CommitSteps, Guarded, Alive
  <2>4. \A d \in Doctors : pc'[d] # "d_mark"
    BY <2>1, <2>3, Kinds, NobodyTends DEF Moves, Procs
  <2>5. /\ lock[a] \subseteq {e}
        /\ journal[e].state = "committing" =>
             /\ pc[e] \in {"aside", "place", "engine", "prov", "verified", "undo_rm", "undo_restore", "undo_mark"}
             /\ journal[e].destination = {a}
    BY <1>19, <2>0, <2>2, <2>3, WriteProvenanceEffect DEF Live, Exclusive, Hold, Careful, JournalsLocked
  <2>6. (lock[a] = {} \/ lock[a] = {e}) /\ (journal[e].state # "committing" => Agree(dest[a]))
    <3>1. \A f \in Importers : journal[f].state = "committing" /\ a \in journal[f].destination => f = e
      BY <2>5 DEF Careful, JournalsLocked
    <3> QED BY <2>5, <3>1 DEF WholeInv, HalfNamed
  <2>7. MovedAt(e, a) /\ HalfAt(a)
    BY <2>2 DEF WholeInv, WholeMoved, HalfNamed, MovedAt, HalfAt
  <2>8. FreshAt(e) /\ Item(e) = a
    BY <2>2 DEF Live, Fresh, FreshAt
  <2>9. MovedAt(e, a)'
    BY <1>19, <1>0, <2>0, <2>2, <2>5, <2>6, <2>7, <2>8, WriteProvenanceEffect DEF MovedAt, FreshAt, disk
  <2>10. HalfAt(a)'
    <3>1. Agree(dest'[a]) \/ (journal'[e].state = "committing" /\ journal'[e].destination = {a})
      BY <1>19, <1>0, <2>0, <2>2, <2>5, <2>6, <2>7, <2>8, WriteProvenanceEffect DEF MovedAt, FreshAt, disk
    <3> QED BY <3>1 DEF HalfAt
  <2> QED BY <2>0, <2>1, <2>3, <2>4, <2>5, <2>9, <2>10, WholesKept DEF Live
<1>20. CASE EngineVerified(e)
  <2>0. PICK a \in Assets : mem[e].item = {a}
    BY <1>20, AnItem DEF EngineVerified, CommitSteps, Guarded, Unguarded
  <2>1. Moves(e) /\ Touches(e, a) /\ mem'[e].item = {a}
    BY <1>20, <2>0, EngineVerifiedEffect DEF SameItem
  <2>2. Item(e) = a /\ pc[e] \in CommitSteps
    BY <1>20, <2>0, EngineVerifiedEffect, ItemIs DEF CommitSteps, Guarded, Unguarded
  <2>3. pc[e] # "dead" /\ Alive(e)
    BY <2>2 DEF CommitSteps, Guarded, Alive
  <2>4. \A d \in Doctors : pc'[d] # "d_mark"
    BY <2>1, <2>3, Kinds, NobodyTends DEF Moves, Procs
  <2>5. /\ lock[a] \subseteq {e}
        /\ journal[e].state = "committing" =>
             /\ pc[e] \in {"aside", "place", "engine", "prov", "verified", "undo_rm", "undo_restore", "undo_mark"}
             /\ journal[e].destination = {a}
    BY <1>20, <2>0, <2>2, <2>3, EngineVerifiedEffect DEF Live, Exclusive, Hold, Careful, JournalsLocked
  <2>6. (lock[a] = {} \/ lock[a] = {e}) /\ (journal[e].state # "committing" => Agree(dest[a]))
    <3>1. \A f \in Importers : journal[f].state = "committing" /\ a \in journal[f].destination => f = e
      BY <2>5 DEF Careful, JournalsLocked
    <3> QED BY <2>5, <3>1 DEF WholeInv, HalfNamed
  <2>7. MovedAt(e, a) /\ HalfAt(a)
    BY <2>2 DEF WholeInv, WholeMoved, HalfNamed, MovedAt, HalfAt
  <2>8. FreshAt(e) /\ Item(e) = a
    BY <2>2 DEF Live, Fresh, FreshAt
  <2>9. MovedAt(e, a)'
    BY <1>20, <1>0, <2>0, <2>2, <2>5, <2>6, <2>7, <2>8, EngineVerifiedEffect DEF MovedAt, FreshAt, disk
  <2>10. HalfAt(a)'
    <3>1. Agree(dest'[a]) \/ (journal'[e].state = "committing" /\ journal'[e].destination = {a})
      BY <1>20, <1>0, <2>0, <2>2, <2>5, <2>6, <2>7, <2>8, EngineVerifiedEffect DEF MovedAt, FreshAt, disk
    <3> QED BY <3>1 DEF HalfAt
  <2> QED BY <2>0, <2>1, <2>3, <2>4, <2>5, <2>9, <2>10, WholesKept DEF Live
<1>21. CASE DropBackup(e)
  <2>0. PICK a \in Assets : mem[e].item = {a}
    BY <1>21, AnItem DEF DropBackup, CommitSteps, Guarded, Unguarded
  <2>1. Moves(e) /\ Touches(e, a) /\ mem'[e].item = {a}
    BY <1>21, <2>0, DropBackupEffect DEF SameItem
  <2>2. Item(e) = a /\ pc[e] \in CommitSteps
    BY <1>21, <2>0, DropBackupEffect, ItemIs DEF CommitSteps, Guarded, Unguarded
  <2>3. pc[e] # "dead" /\ Alive(e)
    BY <2>2 DEF CommitSteps, Guarded, Alive
  <2>4. \A d \in Doctors : pc'[d] # "d_mark"
    BY <2>1, <2>3, Kinds, NobodyTends DEF Moves, Procs
  <2>5. /\ lock[a] \subseteq {e}
        /\ journal[e].state = "committing" =>
             /\ pc[e] \in {"aside", "place", "engine", "prov", "verified", "undo_rm", "undo_restore", "undo_mark"}
             /\ journal[e].destination = {a}
    BY <1>21, <2>0, <2>2, <2>3, DropBackupEffect DEF Live, Exclusive, Hold, Careful, JournalsLocked
  <2>6. (lock[a] = {} \/ lock[a] = {e}) /\ (journal[e].state # "committing" => Agree(dest[a]))
    <3>1. \A f \in Importers : journal[f].state = "committing" /\ a \in journal[f].destination => f = e
      BY <2>5 DEF Careful, JournalsLocked
    <3> QED BY <2>5, <3>1 DEF WholeInv, HalfNamed
  <2>7. MovedAt(e, a) /\ HalfAt(a)
    BY <2>2 DEF WholeInv, WholeMoved, HalfNamed, MovedAt, HalfAt
  <2>8. FreshAt(e) /\ Item(e) = a
    BY <2>2 DEF Live, Fresh, FreshAt
  <2>9. MovedAt(e, a)'
    BY <1>21, <1>0, <2>0, <2>2, <2>5, <2>6, <2>7, <2>8, DropBackupEffect DEF MovedAt, FreshAt, disk
  <2>10. HalfAt(a)'
    <3>1. Agree(dest'[a]) \/ (journal'[e].state = "committing" /\ journal'[e].destination = {a})
      BY <1>21, <1>0, <2>0, <2>2, <2>5, <2>6, <2>7, <2>8, DropBackupEffect DEF MovedAt, FreshAt, disk
    <3> QED BY <3>1 DEF HalfAt
  <2> QED BY <2>0, <2>1, <2>3, <2>4, <2>5, <2>9, <2>10, WholesKept DEF Live
<1>22. CASE Committed(e)
  <2>0. PICK a \in Assets : mem[e].item = {a}
    BY <1>22, AnItem DEF Committed, CommitSteps, Guarded, Unguarded
  <2>1. Moves(e) /\ Touches(e, a) /\ mem'[e].item = {a}
    BY <1>22, <2>0, CommittedEffect DEF SameItem
  <2>2. Item(e) = a /\ pc[e] \in CommitSteps
    BY <1>22, <2>0, CommittedEffect, ItemIs DEF CommitSteps, Guarded, Unguarded
  <2>3. pc[e] # "dead" /\ Alive(e)
    BY <2>2 DEF CommitSteps, Guarded, Alive
  <2>4. \A d \in Doctors : pc'[d] # "d_mark"
    BY <2>1, <2>3, Kinds, NobodyTends DEF Moves, Procs
  <2>5. /\ lock[a] \subseteq {e}
        /\ journal[e].state = "committing" =>
             /\ pc[e] \in {"aside", "place", "engine", "prov", "verified", "undo_rm", "undo_restore", "undo_mark"}
             /\ journal[e].destination = {a}
    BY <1>22, <2>0, <2>2, <2>3, CommittedEffect DEF Live, Exclusive, Hold, Careful, JournalsLocked
  <2>6. (lock[a] = {} \/ lock[a] = {e}) /\ (journal[e].state # "committing" => Agree(dest[a]))
    <3>1. \A f \in Importers : journal[f].state = "committing" /\ a \in journal[f].destination => f = e
      BY <2>5 DEF Careful, JournalsLocked
    <3> QED BY <2>5, <3>1 DEF WholeInv, HalfNamed
  <2>7. MovedAt(e, a) /\ HalfAt(a)
    BY <2>2 DEF WholeInv, WholeMoved, HalfNamed, MovedAt, HalfAt
  <2>8. FreshAt(e) /\ Item(e) = a
    BY <2>2 DEF Live, Fresh, FreshAt
  <2>9. MovedAt(e, a)'
    BY <1>22, <1>0, <2>0, <2>2, <2>5, <2>6, <2>7, <2>8, CommittedEffect DEF MovedAt, FreshAt, disk
  <2>10. HalfAt(a)'
    <3>1. Agree(dest'[a]) \/ (journal'[e].state = "committing" /\ journal'[e].destination = {a})
      BY <1>22, <1>0, <2>0, <2>2, <2>5, <2>6, <2>7, <2>8, CommittedEffect DEF MovedAt, FreshAt, disk
    <3> QED BY <3>1 DEF HalfAt
  <2> QED BY <2>0, <2>1, <2>3, <2>4, <2>5, <2>9, <2>10, WholesKept DEF Live
<1>23. CASE UndoRemove(e)
  <2>0. PICK a \in Assets : mem[e].item = {a}
    BY <1>23, AnItem DEF UndoRemove, CommitSteps, Guarded, Unguarded
  <2>1. Moves(e) /\ Touches(e, a) /\ mem'[e].item = {a}
    BY <1>23, <2>0, UndoRemoveEffect DEF SameItem
  <2>2. Item(e) = a /\ pc[e] \in CommitSteps
    BY <1>23, <2>0, UndoRemoveEffect, ItemIs DEF CommitSteps, Guarded, Unguarded
  <2>3. pc[e] # "dead" /\ Alive(e)
    BY <2>2 DEF CommitSteps, Guarded, Alive
  <2>4. \A d \in Doctors : pc'[d] # "d_mark"
    BY <2>1, <2>3, Kinds, NobodyTends DEF Moves, Procs
  <2>5. /\ lock[a] \subseteq {e}
        /\ journal[e].state = "committing" =>
             /\ pc[e] \in {"aside", "place", "engine", "prov", "verified", "undo_rm", "undo_restore", "undo_mark"}
             /\ journal[e].destination = {a}
    BY <1>23, <2>0, <2>2, <2>3, UndoRemoveEffect DEF Live, Exclusive, Hold, Careful, JournalsLocked
  <2>6. (lock[a] = {} \/ lock[a] = {e}) /\ (journal[e].state # "committing" => Agree(dest[a]))
    <3>1. \A f \in Importers : journal[f].state = "committing" /\ a \in journal[f].destination => f = e
      BY <2>5 DEF Careful, JournalsLocked
    <3> QED BY <2>5, <3>1 DEF WholeInv, HalfNamed
  <2>7. MovedAt(e, a) /\ HalfAt(a)
    BY <2>2 DEF WholeInv, WholeMoved, HalfNamed, MovedAt, HalfAt
  <2>8. FreshAt(e) /\ Item(e) = a
    BY <2>2 DEF Live, Fresh, FreshAt
  <2>9. MovedAt(e, a)'
    BY <1>23, <1>0, <2>0, <2>2, <2>5, <2>6, <2>7, <2>8, UndoRemoveEffect DEF MovedAt, FreshAt, disk
  <2>10. HalfAt(a)'
    <3>1. Agree(dest'[a]) \/ (journal'[e].state = "committing" /\ journal'[e].destination = {a})
      BY <1>23, <1>0, <2>0, <2>2, <2>5, <2>6, <2>7, <2>8, UndoRemoveEffect DEF MovedAt, FreshAt, disk
    <3> QED BY <3>1 DEF HalfAt
  <2> QED BY <2>0, <2>1, <2>3, <2>4, <2>5, <2>9, <2>10, WholesKept DEF Live
<1>24. CASE UndoRestore(e)
  <2>0. PICK a \in Assets : mem[e].item = {a}
    BY <1>24, AnItem DEF UndoRestore, CommitSteps, Guarded, Unguarded
  <2>1. Moves(e) /\ Touches(e, a) /\ mem'[e].item = {a}
    BY <1>24, <2>0, UndoRestoreEffect DEF SameItem
  <2>2. Item(e) = a /\ pc[e] \in CommitSteps
    BY <1>24, <2>0, UndoRestoreEffect, ItemIs DEF CommitSteps, Guarded, Unguarded
  <2>3. pc[e] # "dead" /\ Alive(e)
    BY <2>2 DEF CommitSteps, Guarded, Alive
  <2>4. \A d \in Doctors : pc'[d] # "d_mark"
    BY <2>1, <2>3, Kinds, NobodyTends DEF Moves, Procs
  <2>5. /\ lock[a] \subseteq {e}
        /\ journal[e].state = "committing" =>
             /\ pc[e] \in {"aside", "place", "engine", "prov", "verified", "undo_rm", "undo_restore", "undo_mark"}
             /\ journal[e].destination = {a}
    BY <1>24, <2>0, <2>2, <2>3, UndoRestoreEffect DEF Live, Exclusive, Hold, Careful, JournalsLocked
  <2>6. (lock[a] = {} \/ lock[a] = {e}) /\ (journal[e].state # "committing" => Agree(dest[a]))
    <3>1. \A f \in Importers : journal[f].state = "committing" /\ a \in journal[f].destination => f = e
      BY <2>5 DEF Careful, JournalsLocked
    <3> QED BY <2>5, <3>1 DEF WholeInv, HalfNamed
  <2>7. MovedAt(e, a) /\ HalfAt(a)
    BY <2>2 DEF WholeInv, WholeMoved, HalfNamed, MovedAt, HalfAt
  <2>8. FreshAt(e) /\ Item(e) = a
    BY <2>2 DEF Live, Fresh, FreshAt
  <2>9. MovedAt(e, a)'
    BY <1>24, <1>0, <2>0, <2>2, <2>5, <2>6, <2>7, <2>8, UndoRestoreEffect DEF MovedAt, FreshAt, disk
  <2>10. HalfAt(a)'
    <3>1. Agree(dest'[a]) \/ (journal'[e].state = "committing" /\ journal'[e].destination = {a})
      BY <1>24, <1>0, <2>0, <2>2, <2>5, <2>6, <2>7, <2>8, UndoRestoreEffect DEF MovedAt, FreshAt, disk
    <3> QED BY <3>1 DEF HalfAt
  <2> QED BY <2>0, <2>1, <2>3, <2>4, <2>5, <2>9, <2>10, WholesKept DEF Live
<1>25. CASE UndoMark(e)
  <2>0. PICK a \in Assets : mem[e].item = {a}
    BY <1>25, AnItem DEF UndoMark, CommitSteps, Guarded, Unguarded
  <2>1. Moves(e) /\ Touches(e, a) /\ mem'[e].item = {a}
    BY <1>25, <2>0, UndoMarkEffect DEF SameItem
  <2>2. Item(e) = a /\ pc[e] \in CommitSteps
    BY <1>25, <2>0, UndoMarkEffect, ItemIs DEF CommitSteps, Guarded, Unguarded
  <2>3. pc[e] # "dead" /\ Alive(e)
    BY <2>2 DEF CommitSteps, Guarded, Alive
  <2>4. \A d \in Doctors : pc'[d] # "d_mark"
    BY <2>1, <2>3, Kinds, NobodyTends DEF Moves, Procs
  <2>5. /\ lock[a] \subseteq {e}
        /\ journal[e].state = "committing" =>
             /\ pc[e] \in {"aside", "place", "engine", "prov", "verified", "undo_rm", "undo_restore", "undo_mark"}
             /\ journal[e].destination = {a}
    BY <1>25, <2>0, <2>2, <2>3, UndoMarkEffect DEF Live, Exclusive, Hold, Careful, JournalsLocked
  <2>6. (lock[a] = {} \/ lock[a] = {e}) /\ (journal[e].state # "committing" => Agree(dest[a]))
    <3>1. \A f \in Importers : journal[f].state = "committing" /\ a \in journal[f].destination => f = e
      BY <2>5 DEF Careful, JournalsLocked
    <3> QED BY <2>5, <3>1 DEF WholeInv, HalfNamed
  <2>7. MovedAt(e, a) /\ HalfAt(a)
    BY <2>2 DEF WholeInv, WholeMoved, HalfNamed, MovedAt, HalfAt
  <2>8. FreshAt(e) /\ Item(e) = a
    BY <2>2 DEF Live, Fresh, FreshAt
  <2>9. MovedAt(e, a)'
    BY <1>25, <1>0, <2>0, <2>2, <2>5, <2>6, <2>7, <2>8, UndoMarkEffect DEF MovedAt, FreshAt, disk
  <2>10. HalfAt(a)'
    <3>1. Agree(dest'[a]) \/ (journal'[e].state = "committing" /\ journal'[e].destination = {a})
      BY <1>25, <1>0, <2>0, <2>2, <2>5, <2>6, <2>7, <2>8, UndoMarkEffect DEF MovedAt, FreshAt, disk
    <3> QED BY <3>1 DEF HalfAt
  <2> QED BY <2>0, <2>1, <2>3, <2>4, <2>5, <2>9, <2>10, WholesKept DEF Live
<1>26. CASE ReleaseLock(e)
  <2>0. PICK a \in Assets : mem[e].item = {a}
    BY <1>26, AnItem DEF ReleaseLock, CommitSteps, Guarded, Unguarded
  <2>1. Moves(e) /\ Touches(e, a) /\ mem'[e].item = {a}
    BY <1>26, <2>0, ReleaseLockEffect DEF SameItem
  <2>2. Item(e) = a /\ pc[e] \in CommitSteps
    BY <1>26, <2>0, ReleaseLockEffect, ItemIs DEF CommitSteps, Guarded, Unguarded
  <2>3. pc[e] # "dead" /\ Alive(e)
    BY <2>2 DEF CommitSteps, Guarded, Alive
  <2>4. \A d \in Doctors : pc'[d] # "d_mark"
    BY <2>1, <2>3, Kinds, NobodyTends DEF Moves, Procs
  <2>5. /\ lock[a] \subseteq {e}
        /\ journal[e].state = "committing" =>
             /\ pc[e] \in {"aside", "place", "engine", "prov", "verified", "undo_rm", "undo_restore", "undo_mark"}
             /\ journal[e].destination = {a}
    BY <1>26, <2>0, <2>2, <2>3, ReleaseLockEffect DEF Live, Exclusive, Hold, Careful, JournalsLocked
  <2>6. (lock[a] = {} \/ lock[a] = {e}) /\ (journal[e].state # "committing" => Agree(dest[a]))
    <3>1. \A f \in Importers : journal[f].state = "committing" /\ a \in journal[f].destination => f = e
      BY <2>5 DEF Careful, JournalsLocked
    <3> QED BY <2>5, <3>1 DEF WholeInv, HalfNamed
  <2>7. MovedAt(e, a) /\ HalfAt(a)
    BY <2>2 DEF WholeInv, WholeMoved, HalfNamed, MovedAt, HalfAt
  <2>8. FreshAt(e) /\ Item(e) = a
    BY <2>2 DEF Live, Fresh, FreshAt
  <2>9. MovedAt(e, a)'
    BY <1>26, <1>0, <2>0, <2>2, <2>5, <2>6, <2>7, <2>8, ReleaseLockEffect DEF MovedAt, FreshAt, disk
  <2>10. HalfAt(a)'
    <3>1. Agree(dest'[a]) \/ (journal'[e].state = "committing" /\ journal'[e].destination = {a})
      BY <1>26, <1>0, <2>0, <2>2, <2>5, <2>6, <2>7, <2>8, ReleaseLockEffect DEF MovedAt, FreshAt, disk
    <3> QED BY <3>1 DEF HalfAt
  <2> QED BY <2>0, <2>1, <2>3, <2>4, <2>5, <2>9, <2>10, WholesKept DEF Live
<1>27. CASE Fault(e)
  <2>0. PICK a \in Assets : mem[e].item = {a}
    BY <1>27, AnItem DEF Fault, CommitSteps, Guarded, Unguarded
  <2>1. Moves(e) /\ Touches(e, a) /\ mem'[e].item = {a}
    BY <1>27, <2>0, FaultEffect DEF SameItem
  <2>2. Item(e) = a /\ pc[e] \in CommitSteps
    BY <1>27, <2>0, FaultEffect, ItemIs DEF CommitSteps, Guarded, Unguarded
  <2>3. pc[e] # "dead" /\ Alive(e)
    BY <2>2 DEF CommitSteps, Guarded, Alive
  <2>4. \A d \in Doctors : pc'[d] # "d_mark"
    BY <2>1, <2>3, Kinds, NobodyTends DEF Moves, Procs
  <2>5. /\ lock[a] \subseteq {e}
        /\ journal[e].state = "committing" =>
             /\ pc[e] \in {"aside", "place", "engine", "prov", "verified", "undo_rm", "undo_restore", "undo_mark"}
             /\ journal[e].destination = {a}
    BY <1>27, <2>0, <2>2, <2>3, FaultEffect DEF Live, Exclusive, Hold, Careful, JournalsLocked, CommitSteps, Guarded, Unguarded
  <2>6. (lock[a] = {} \/ lock[a] = {e}) /\ (journal[e].state # "committing" => Agree(dest[a]))
    <3>1. \A f \in Importers : journal[f].state = "committing" /\ a \in journal[f].destination => f = e
      BY <2>5 DEF Careful, JournalsLocked
    <3> QED BY <2>5, <3>1 DEF WholeInv, HalfNamed
  <2>7. MovedAt(e, a) /\ HalfAt(a)
    BY <2>2 DEF WholeInv, WholeMoved, HalfNamed, MovedAt, HalfAt
  <2>8. FreshAt(e) /\ Item(e) = a
    BY <2>2 DEF Live, Fresh, FreshAt
  <2>9. MovedAt(e, a)'
    BY <1>27, <1>0, <2>0, <2>2, <2>5, <2>6, <2>7, <2>8, FaultEffect DEF MovedAt, FreshAt, disk, Guarded, Unguarded
  <2>10. HalfAt(a)'
    <3>1. Agree(dest'[a]) \/ (journal'[e].state = "committing" /\ journal'[e].destination = {a})
      BY <1>27, <1>0, <2>0, <2>2, <2>5, <2>6, <2>7, <2>8, FaultEffect DEF MovedAt, FreshAt, disk, Guarded, Unguarded
    <3> QED BY <3>1 DEF HalfAt
  <2> QED BY <2>0, <2>1, <2>3, <2>4, <2>5, <2>9, <2>10, WholesKept DEF Live
<1> QED BY <1>1, <1>2, <1>3, <1>4, <1>5, <1>6, <1>7, <1>8, <1>9, <1>10, <1>11, <1>12, <1>13, <1>14, <1>15, <1>16, <1>17, <1>18, <1>19, <1>20, <1>21, <1>22, <1>23, <1>24, <1>25, <1>26, <1>27 DEF Import, CommitItem

LEMMA DoctorWhole ==
  ASSUME Typed, DoctorsAlone, DoctorsAlone', Careful, WholeInv, NEW d \in Doctors, Doctor(d)
  PROVE  WholeInv'
<1>0. /\ Agree(Nothing) /\ d \in Procs
      /\ \A e \in Importers : e \in Procs /\ e # d /\ pc'[e] = pc[e] /\ Item(e)' = Item(e)
      /\ \A p \in Procs \ {d} : pc'[p] = pc[p]
      /\ \A c \in Doctors \ {d} : visit'[c] = visit[c]
  BY DoctorMoves, Kinds DEF Agree, Nothing, Item, Procs
<1>1. Alive(d) \/ Alive(d)'
  BY <1>0 DEF Doctor, Scan, Visit, DoctorRemove, DoctorRestore, DoctorMark, DoctorDone, Alive, Goto, Typed, Memories
<1>2. \A p \in Procs \ {d} : pc'[p] \in {"idle", "done", "dead"}
  BY <1>0, <1>1 DEF DoctorsAlone, Alive
<1>3. ASSUME \A e \in Importers, a \in Assets : Agree(backup'[e][a]),
             \A a \in Assets : pc'[d] = "d_mark" /\ a \in visit'[d].copy.destination => Agree(dest'[a])
      PROVE  WholeMoved'
  <2>1. \A e \in Importers : pc'[e] \notin {"aside", "place", "engine", "prov", "undo_mark"}
    BY <1>0, <1>2
  <2>2. \A c \in Doctors, a \in Assets : pc'[c] = "d_mark" /\ a \in visit'[c].copy.destination => Agree(dest'[a])
    BY <1>2, <1>3 DEF Procs
  <2> QED BY <1>3, <2>1, <2>2 DEF WholeMoved
<1>4. CASE Scan(d) \/ Visit(d) \/ DoctorDone(d)
  <2>1. UNCHANGED disk /\ pc'[d] # "d_mark"
    BY <1>0, <1>4 DEF Scan, Visit, DoctorDone, Goto, Typed, Memories
  <2>2. WholeMoved'
    BY <1>3, <2>1 DEF disk, WholeInv, WholeMoved
  <2>3. HalfNamed'
    BY <2>1 DEF disk, WholeInv, HalfNamed
  <2> QED BY <2>2, <2>3 DEF WholeInv
<1>5. CASE DoctorRemove(d)
  <2>1. \A b \in Assets : dest'[b] = dest[b] \/ dest'[b] = Nothing
    BY <1>5 DEF DoctorRemove, Typed, Disks
  <2>2. backup' = backup /\ journal' = journal /\ pc'[d] # "d_mark"
    BY <1>0, <1>5 DEF DoctorRemove, Goto, Typed, Memories
  <2>3. WholeMoved'
    BY <1>3, <2>2 DEF WholeInv, WholeMoved
  <2>4. HalfNamed'
    BY <1>0, <2>1, <2>2 DEF WholeInv, HalfNamed, Agree
  <2> QED BY <2>3, <2>4 DEF WholeInv
<1>6. CASE DoctorRestore(d)
  <2>0. pc[d] = "d_restore"
    BY <1>6 DEF DoctorRestore
  <2>1. PICK e \in Importers, a \in Assets :
          /\ visit[d].copy = journal[e] /\ journal[e].destination = {a}
          /\ Visiting(d) = e /\ Recovered(d) = a /\ dest[a] = Nothing
    BY <2>0, TendingIs
  <2>2. journal' = journal /\ visit' = visit
    BY <1>6 DEF DoctorRestore
  <2>3. \/ UNCHANGED <<dest, backup>>
        \/ dest' = [dest EXCEPT ![a] = backup[e][a]] /\ backup' = [backup EXCEPT ![e][a] = Nothing]
    BY <1>6, <2>1 DEF DoctorRestore
  <2>4. \A f \in Importers, b \in Assets : backup'[f][b] = backup[f][b] \/ backup'[f][b] = Nothing
    BY <2>3 DEF Typed, Disks
  <2>5. \A f \in Importers, b \in Assets : Agree(backup'[f][b])
    BY <1>0, <2>4 DEF WholeInv, WholeMoved, Agree
  <2>6. Agree(dest'[a]) /\ \A b \in Assets \ {a} : dest'[b] = dest[b]
    BY <1>0, <2>1, <2>3 DEF WholeInv, WholeMoved, Agree, Typed, Disks
  <2>7. WholeMoved'
    BY <1>3, <2>1, <2>2, <2>5, <2>6
  <2>8. HalfNamed'
    BY <2>2, <2>6 DEF WholeInv, HalfNamed
  <2> QED BY <2>7, <2>8 DEF WholeInv
<1>7. CASE DoctorMark(d)
  <2>0. pc[d] = "d_mark"
    BY <1>7 DEF DoctorMark
  <2>1. PICK e \in Importers, a \in Assets :
          /\ visit[d].copy = journal[e] /\ journal[e].destination = {a} /\ Visiting(d) = e
    BY <2>0, TendingIs
  <2>2. dest' = dest /\ backup' = backup /\ pc'[d] # "d_mark"
    BY <1>0, <1>7 DEF DoctorMark, Goto, Typed, Memories
  <2>3. \A f \in Importers \ {e} : journal'[f] = journal[f]
    BY <1>7, <2>1 DEF DoctorMark, Typed, Disks
  <2>4. Agree(dest[a])
    BY <2>0, <2>1 DEF WholeInv, WholeMoved
  <2>5. WholeMoved'
    BY <1>3, <2>2 DEF WholeInv, WholeMoved
  <2>6. HalfNamed'
    BY <2>1, <2>2, <2>3, <2>4 DEF WholeInv, HalfNamed
  <2> QED BY <2>5, <2>6 DEF WholeInv
<1> QED BY <1>4, <1>5, <1>6, <1>7 DEF Doctor

LEMMA CrashWhole ==
  ASSUME Typed, WholeInv, NEW p \in Procs, Crash(p)
  PROVE  WholeInv'
<1>1. \A q \in Procs : pc'[q] \in {pc[q], "dead"}
  BY CrashMoves
<1>2. UNCHANGED <<dest, backup, journal, mem, visit>>
  BY CrashMoves DEF disk
<1>3. WholeMoved'
  BY <1>1, <1>2, Kinds DEF WholeInv, WholeMoved, Item, Procs
<1>4. HalfNamed'
  BY <1>2 DEF WholeInv, HalfNamed
<1> QED BY <1>3, <1>4 DEF WholeInv

LEMMA StutterWhole == WholeInv /\ UNCHANGED vars => WholeInv'
BY DEF WholeInv, WholeMoved, HalfNamed, Item, vars, disk

LEMMA InitWhole == InitialWhole /\ Init => WholeInv
<1> SUFFICES ASSUME InitialWhole, Init PROVE WholeInv
  OBVIOUS
<1>1. \A p \in Procs : pc[p] = "idle"
  BY DEF Init
<1>2. \A a \in Assets : Agree(dest[a])
  BY DEF Init, InitialWhole
<1>3. \A e \in Importers, a \in Assets : Agree(backup[e][a])
  BY DEF Init, Agree, Nothing
<1>4. WholeMoved
  BY <1>1, <1>3, Kinds DEF WholeMoved, Procs
<1> QED BY <1>2, <1>4 DEF WholeInv, HalfNamed

-----------------------------------------------------------------------------
(* An import that is over *)

Over == {"complete", "failed", "aborted"}
OverAt(e) ==
  /\ pc[e] = "terminal" => ~quarantine[e] /\ ~received[e]
  /\ journal[e].state \in Over =>
       /\ pc[e] \in {"abort", "done", "dead"}
       /\ ~quarantine[e] /\ ~received[e]
       /\ \A a \in Assets : e \notin lock[a]

LEMMA OversKept ==
  ASSUME Typed, OverTrue, NEW e \in Importers, Moves(e), OverAt(e)',
         \A a \in Assets : lock'[a] \subseteq lock[a] \cup {e}
  PROVE  OverTrue'
<1>1. ASSUME NEW f \in Importers \ {e} PROVE OverAt(f)'
  <2>1. /\ pc'[f] = pc[f] /\ journal'[f] = journal[f]
        /\ quarantine'[f] = quarantine[f] /\ received'[f] = received[f]
    BY Kinds DEF Moves
  <2>2. \A a \in Assets : f \notin lock[a] => f \notin lock'[a]
    OBVIOUS
  <2> QED BY <2>1, <2>2 DEF OverTrue, OverAt, Over
<1> QED BY <1>1 DEF OverTrue, OverAt, Over

LEMMA ImportOver ==
  ASSUME Typed, Careful, OverTrue, NEW e \in Importers, Import(e) \/ CommitItem(e) \/ Fault(e)
  PROVE  OverTrue'
<1>0. e \in Procs /\ OverAt(e) /\ (pc[e] \notin Hold \cup {"dead"} => \A a \in Assets : e \notin lock[a])
  BY Kinds DEF Careful, LocksUsed, OverTrue, OverAt, Over
<1>1. CASE Begin(e)
  <2>1. Moves(e) /\ \A a \in Assets : lock'[a] \subseteq lock[a] \cup {e}
    BY <1>1, BeginEffect DEF Remote
  <2>2. pc[e] \notin {"abort", "done", "dead"} /\ (journal'[e] = journal[e] \/ journal'[e].state \notin Over)
    BY <1>1, BeginEffect DEF Over, disk
  <2>3. pc'[e] = "terminal" => ~quarantine'[e] /\ ~received'[e]
    BY <1>1, BeginEffect
  <2>4. OverAt(e)'
    BY <1>0, <2>2, <2>3 DEF OverAt
  <2> QED BY <2>1, <2>4, OversKept
<1>2. CASE Fill(e)
  <2>1. Moves(e) /\ \A a \in Assets : lock'[a] \subseteq lock[a] \cup {e}
    BY <1>2, FillEffect DEF Remote
  <2>2. pc[e] \notin {"abort", "done", "dead"} /\ (journal'[e] = journal[e] \/ journal'[e].state \notin Over)
    BY <1>2, FillEffect DEF Over, disk
  <2>3. pc'[e] = "terminal" => ~quarantine'[e] /\ ~received'[e]
    BY <1>2, FillEffect
  <2>4. OverAt(e)'
    BY <1>0, <2>2, <2>3 DEF OverAt
  <2> QED BY <2>1, <2>4, OversKept
<1>3. CASE RecordResult(e)
  <2>1. Moves(e) /\ \A a \in Assets : lock'[a] \subseteq lock[a] \cup {e}
    BY <1>3, RecordResultEffect DEF Remote
  <2>2. pc[e] \notin {"abort", "done", "dead"} /\ (journal'[e] = journal[e] \/ journal'[e].state \notin Over)
    BY <1>3, RecordResultEffect DEF Over, disk
  <2>3. pc'[e] = "terminal" => ~quarantine'[e] /\ ~received'[e]
    BY <1>3, RecordResultEffect
  <2>4. OverAt(e)'
    BY <1>0, <2>2, <2>3 DEF OverAt
  <2> QED BY <2>1, <2>4, OversKept
<1>4. CASE RecordJournal(e)
  <2>1. Moves(e) /\ \A a \in Assets : lock'[a] \subseteq lock[a] \cup {e}
    BY <1>4, RecordJournalEffect DEF Remote
  <2>2. pc[e] \notin {"abort", "done", "dead"} /\ (journal'[e] = journal[e] \/ journal'[e].state \notin Over)
    BY <1>4, RecordJournalEffect DEF Over, disk
  <2>3. pc'[e] = "terminal" => ~quarantine'[e] /\ ~received'[e]
    BY <1>4, RecordJournalEffect
  <2>4. OverAt(e)'
    BY <1>0, <2>2, <2>3 DEF OverAt
  <2> QED BY <2>1, <2>4, OversKept
<1>5. CASE Validate(e)
  <2>1. Moves(e) /\ \A a \in Assets : lock'[a] \subseteq lock[a] \cup {e}
    BY <1>5, ValidateEffect DEF Remote
  <2>2. pc[e] \notin Hold \cup {"dead"} /\ lock' = lock
    BY <1>5, ValidateEffect DEF Hold, CommitSteps, Guarded, Remote
  <2>3. OverAt(e)'
    BY <1>5, <1>0, <2>2, ValidateEffect DEF OverAt, Over
  <2> QED BY <2>1, <2>3, OversKept
<1>6. CASE Abort(e)
  <2>1. Moves(e) /\ \A a \in Assets : lock'[a] \subseteq lock[a] \cup {e}
    BY <1>6, AbortEffect DEF Remote
  <2>2. pc[e] \notin Hold \cup {"dead"} /\ lock' = lock
    BY <1>6, AbortEffect DEF Hold, CommitSteps, Guarded, Remote
  <2>3. OverAt(e)'
    BY <1>6, <1>0, <2>2, AbortEffect DEF OverAt, Over
  <2> QED BY <2>1, <2>3, OversKept
<1>7. CASE NextItem(e)
  <2>1. Moves(e) /\ \A a \in Assets : lock'[a] \subseteq lock[a] \cup {e}
    BY <1>7, NextItemEffect DEF Remote
  <2>2. pc[e] \notin {"abort", "done", "dead"} /\ (journal'[e] = journal[e] \/ journal'[e].state \notin Over)
    BY <1>7, NextItemEffect DEF Over, disk
  <2>3. pc'[e] = "terminal" => ~quarantine'[e] /\ ~received'[e]
    BY <1>7, NextItemEffect
  <2>4. OverAt(e)'
    BY <1>0, <2>2, <2>3 DEF OverAt
  <2> QED BY <2>1, <2>4, OversKept
<1>8. CASE ProviderError(e)
  <2>1. Moves(e) /\ \A a \in Assets : lock'[a] \subseteq lock[a] \cup {e}
    BY <1>8, ProviderErrorEffect DEF Remote
  <2>2. pc[e] \notin {"abort", "done", "dead"} /\ (journal'[e] = journal[e] \/ journal'[e].state \notin Over)
    BY <1>8, ProviderErrorEffect DEF Over, disk
  <2>3. pc'[e] = "terminal" => ~quarantine'[e] /\ ~received'[e]
    BY <1>8, ProviderErrorEffect
  <2>4. OverAt(e)'
    BY <1>0, <2>2, <2>3 DEF OverAt
  <2> QED BY <2>1, <2>4, OversKept
<1>9. CASE Sweep(e)
  <2>1. Moves(e) /\ \A a \in Assets : lock'[a] \subseteq lock[a] \cup {e}
    BY <1>9, SweepEffect DEF Remote
  <2>2. pc[e] \notin {"abort", "done", "dead"} /\ (journal'[e] = journal[e] \/ journal'[e].state \notin Over)
    BY <1>9, SweepEffect DEF Over, disk
  <2>3. pc'[e] = "terminal" => ~quarantine'[e] /\ ~received'[e]
    BY <1>9, SweepEffect
  <2>4. OverAt(e)'
    BY <1>0, <2>2, <2>3 DEF OverAt
  <2> QED BY <2>1, <2>4, OversKept
<1>10. CASE Terminal(e)
  <2>1. Moves(e) /\ \A a \in Assets : lock'[a] \subseteq lock[a] \cup {e}
    BY <1>10, TerminalEffect DEF Remote
  <2>2. pc[e] \notin Hold \cup {"dead"} /\ lock' = lock
    BY <1>10, TerminalEffect DEF Hold, CommitSteps, Guarded, Remote
  <2>3. OverAt(e)'
    BY <1>10, <1>0, <2>2, TerminalEffect DEF OverAt, Over
  <2> QED BY <2>1, <2>3, OversKept
<1>11. CASE AcquireLock(e)
  <2>0. PICK a \in Assets : mem[e].item = {a}
    BY <1>11, AnItem DEF AcquireLock, CommitSteps, Guarded, Unguarded
  <2>1. Moves(e) /\ \A b \in Assets : lock'[b] \subseteq lock[b] \cup {e}
    BY <1>11, <2>0, AcquireLockEffect DEF Touches, disk
  <2>2. pc[e] \notin {"abort", "done", "dead"} /\ (journal'[e] = journal[e] \/ journal'[e].state \notin Over)
    BY <1>11, <2>0, AcquireLockEffect DEF Over, disk
  <2>3. pc'[e] = "terminal" => ~quarantine'[e] /\ ~received'[e]
    BY <1>11, <2>0, AcquireLockEffect
  <2>4. OverAt(e)'
    BY <1>0, <2>2, <2>3 DEF OverAt
  <2> QED BY <2>1, <2>4, OversKept
<1>12. CASE AssetBusy(e)
  <2>1. Moves(e) /\ \A a \in Assets : lock'[a] \subseteq lock[a] \cup {e}
    BY <1>12, AssetBusyEffect DEF Remote
  <2>2. pc[e] \notin {"abort", "done", "dead"} /\ (journal'[e] = journal[e] \/ journal'[e].state \notin Over)
    BY <1>12, AssetBusyEffect DEF Over, disk
  <2>3. pc'[e] = "terminal" => ~quarantine'[e] /\ ~received'[e]
    BY <1>12, AssetBusyEffect
  <2>4. OverAt(e)'
    BY <1>0, <2>2, <2>3 DEF OverAt
  <2> QED BY <2>1, <2>4, OversKept
<1>13. CASE Decide(e)
  <2>0. PICK a \in Assets : mem[e].item = {a}
    BY <1>13, AnItem DEF Decide, CommitSteps, Guarded, Unguarded
  <2>1. Moves(e) /\ \A b \in Assets : lock'[b] \subseteq lock[b] \cup {e}
    BY <1>13, <2>0, DecideEffect DEF Touches, disk
  <2>2. pc[e] \notin {"abort", "done", "dead"} /\ (journal'[e] = journal[e] \/ journal'[e].state \notin Over)
    BY <1>13, <2>0, DecideEffect DEF Over, disk
  <2>3. pc'[e] = "terminal" => ~quarantine'[e] /\ ~received'[e]
    BY <1>13, <2>0, DecideEffect
  <2>4. OverAt(e)'
    BY <1>0, <2>2, <2>3 DEF OverAt
  <2> QED BY <2>1, <2>4, OversKept
<1>14. CASE Reuse(e)
  <2>0. PICK a \in Assets : mem[e].item = {a}
    BY <1>14, AnItem DEF Reuse, CommitSteps, Guarded, Unguarded
  <2>1. Moves(e) /\ \A b \in Assets : lock'[b] \subseteq lock[b] \cup {e}
    BY <1>14, <2>0, ReuseEffect DEF Touches, disk
  <2>2. pc[e] \notin {"abort", "done", "dead"} /\ (journal'[e] = journal[e] \/ journal'[e].state \notin Over)
    BY <1>14, <2>0, ReuseEffect DEF Over, disk
  <2>3. pc'[e] = "terminal" => ~quarantine'[e] /\ ~received'[e]
    BY <1>14, <2>0, ReuseEffect
  <2>4. OverAt(e)'
    BY <1>0, <2>2, <2>3 DEF OverAt
  <2> QED BY <2>1, <2>4, OversKept
<1>15. CASE Mark(e)
  <2>0. PICK a \in Assets : mem[e].item = {a}
    BY <1>15, AnItem DEF Mark, CommitSteps, Guarded, Unguarded
  <2>1. Moves(e) /\ \A b \in Assets : lock'[b] \subseteq lock[b] \cup {e}
    BY <1>15, <2>0, MarkEffect DEF Touches, disk
  <2>2. pc[e] \notin {"abort", "done", "dead"} /\ (journal'[e] = journal[e] \/ journal'[e].state \notin Over)
    BY <1>15, <2>0, MarkEffect DEF Over, disk
  <2>3. pc'[e] = "terminal" => ~quarantine'[e] /\ ~received'[e]
    BY <1>15, <2>0, MarkEffect
  <2>4. OverAt(e)'
    BY <1>0, <2>2, <2>3 DEF OverAt
  <2> QED BY <2>1, <2>4, OversKept
<1>16. CASE Aside(e)
  <2>0. PICK a \in Assets : mem[e].item = {a}
    BY <1>16, AnItem DEF Aside, CommitSteps, Guarded, Unguarded
  <2>1. Moves(e) /\ \A b \in Assets : lock'[b] \subseteq lock[b] \cup {e}
    BY <1>16, <2>0, AsideEffect DEF Touches, disk
  <2>2. pc[e] \notin {"abort", "done", "dead"} /\ (journal'[e] = journal[e] \/ journal'[e].state \notin Over)
    BY <1>16, <2>0, AsideEffect DEF Over, disk
  <2>3. pc'[e] = "terminal" => ~quarantine'[e] /\ ~received'[e]
    BY <1>16, <2>0, AsideEffect
  <2>4. OverAt(e)'
    BY <1>0, <2>2, <2>3 DEF OverAt
  <2> QED BY <2>1, <2>4, OversKept
<1>17. CASE Place(e)
  <2>0. PICK a \in Assets : mem[e].item = {a}
    BY <1>17, AnItem DEF Place, CommitSteps, Guarded, Unguarded
  <2>1. Moves(e) /\ \A b \in Assets : lock'[b] \subseteq lock[b] \cup {e}
    BY <1>17, <2>0, PlaceEffect DEF Touches, disk
  <2>2. pc[e] \notin {"abort", "done", "dead"} /\ (journal'[e] = journal[e] \/ journal'[e].state \notin Over)
    BY <1>17, <2>0, PlaceEffect DEF Over, disk
  <2>3. pc'[e] = "terminal" => ~quarantine'[e] /\ ~received'[e]
    BY <1>17, <2>0, PlaceEffect
  <2>4. OverAt(e)'
    BY <1>0, <2>2, <2>3 DEF OverAt
  <2> QED BY <2>1, <2>4, OversKept
<1>18. CASE Engine(e)
  <2>0. PICK a \in Assets : mem[e].item = {a}
    BY <1>18, AnItem DEF Engine, CommitSteps, Guarded, Unguarded
  <2>1. Moves(e) /\ \A b \in Assets : lock'[b] \subseteq lock[b] \cup {e}
    BY <1>18, <2>0, EngineEffect DEF Touches, disk
  <2>2. pc[e] \notin {"abort", "done", "dead"} /\ (journal'[e] = journal[e] \/ journal'[e].state \notin Over)
    BY <1>18, <2>0, EngineEffect DEF Over, disk
  <2>3. pc'[e] = "terminal" => ~quarantine'[e] /\ ~received'[e]
    BY <1>18, <2>0, EngineEffect
  <2>4. OverAt(e)'
    BY <1>0, <2>2, <2>3 DEF OverAt
  <2> QED BY <2>1, <2>4, OversKept
<1>19. CASE WriteProvenance(e)
  <2>0. PICK a \in Assets : mem[e].item = {a}
    BY <1>19, AnItem DEF WriteProvenance, CommitSteps, Guarded, Unguarded
  <2>1. Moves(e) /\ \A b \in Assets : lock'[b] \subseteq lock[b] \cup {e}
    BY <1>19, <2>0, WriteProvenanceEffect DEF Touches, disk
  <2>2. pc[e] \notin {"abort", "done", "dead"} /\ (journal'[e] = journal[e] \/ journal'[e].state \notin Over)
    BY <1>19, <2>0, WriteProvenanceEffect DEF Over, disk
  <2>3. pc'[e] = "terminal" => ~quarantine'[e] /\ ~received'[e]
    BY <1>19, <2>0, WriteProvenanceEffect
  <2>4. OverAt(e)'
    BY <1>0, <2>2, <2>3 DEF OverAt
  <2> QED BY <2>1, <2>4, OversKept
<1>20. CASE EngineVerified(e)
  <2>0. PICK a \in Assets : mem[e].item = {a}
    BY <1>20, AnItem DEF EngineVerified, CommitSteps, Guarded, Unguarded
  <2>1. Moves(e) /\ \A b \in Assets : lock'[b] \subseteq lock[b] \cup {e}
    BY <1>20, <2>0, EngineVerifiedEffect DEF Touches, disk
  <2>2. pc[e] \notin {"abort", "done", "dead"} /\ (journal'[e] = journal[e] \/ journal'[e].state \notin Over)
    BY <1>20, <2>0, EngineVerifiedEffect DEF Over, disk
  <2>3. pc'[e] = "terminal" => ~quarantine'[e] /\ ~received'[e]
    BY <1>20, <2>0, EngineVerifiedEffect
  <2>4. OverAt(e)'
    BY <1>0, <2>2, <2>3 DEF OverAt
  <2> QED BY <2>1, <2>4, OversKept
<1>21. CASE DropBackup(e)
  <2>0. PICK a \in Assets : mem[e].item = {a}
    BY <1>21, AnItem DEF DropBackup, CommitSteps, Guarded, Unguarded
  <2>1. Moves(e) /\ \A b \in Assets : lock'[b] \subseteq lock[b] \cup {e}
    BY <1>21, <2>0, DropBackupEffect DEF Touches, disk
  <2>2. pc[e] \notin {"abort", "done", "dead"} /\ (journal'[e] = journal[e] \/ journal'[e].state \notin Over)
    BY <1>21, <2>0, DropBackupEffect DEF Over, disk
  <2>3. pc'[e] = "terminal" => ~quarantine'[e] /\ ~received'[e]
    BY <1>21, <2>0, DropBackupEffect
  <2>4. OverAt(e)'
    BY <1>0, <2>2, <2>3 DEF OverAt
  <2> QED BY <2>1, <2>4, OversKept
<1>22. CASE Committed(e)
  <2>0. PICK a \in Assets : mem[e].item = {a}
    BY <1>22, AnItem DEF Committed, CommitSteps, Guarded, Unguarded
  <2>1. Moves(e) /\ \A b \in Assets : lock'[b] \subseteq lock[b] \cup {e}
    BY <1>22, <2>0, CommittedEffect DEF Touches, disk
  <2>2. pc[e] \notin {"abort", "done", "dead"} /\ (journal'[e] = journal[e] \/ journal'[e].state \notin Over)
    BY <1>22, <2>0, CommittedEffect DEF Over, disk
  <2>3. pc'[e] = "terminal" => ~quarantine'[e] /\ ~received'[e]
    BY <1>22, <2>0, CommittedEffect
  <2>4. OverAt(e)'
    BY <1>0, <2>2, <2>3 DEF OverAt
  <2> QED BY <2>1, <2>4, OversKept
<1>23. CASE UndoRemove(e)
  <2>0. PICK a \in Assets : mem[e].item = {a}
    BY <1>23, AnItem DEF UndoRemove, CommitSteps, Guarded, Unguarded
  <2>1. Moves(e) /\ \A b \in Assets : lock'[b] \subseteq lock[b] \cup {e}
    BY <1>23, <2>0, UndoRemoveEffect DEF Touches, disk
  <2>2. pc[e] \notin {"abort", "done", "dead"} /\ (journal'[e] = journal[e] \/ journal'[e].state \notin Over)
    BY <1>23, <2>0, UndoRemoveEffect DEF Over, disk
  <2>3. pc'[e] = "terminal" => ~quarantine'[e] /\ ~received'[e]
    BY <1>23, <2>0, UndoRemoveEffect
  <2>4. OverAt(e)'
    BY <1>0, <2>2, <2>3 DEF OverAt
  <2> QED BY <2>1, <2>4, OversKept
<1>24. CASE UndoRestore(e)
  <2>0. PICK a \in Assets : mem[e].item = {a}
    BY <1>24, AnItem DEF UndoRestore, CommitSteps, Guarded, Unguarded
  <2>1. Moves(e) /\ \A b \in Assets : lock'[b] \subseteq lock[b] \cup {e}
    BY <1>24, <2>0, UndoRestoreEffect DEF Touches, disk
  <2>2. pc[e] \notin {"abort", "done", "dead"} /\ (journal'[e] = journal[e] \/ journal'[e].state \notin Over)
    BY <1>24, <2>0, UndoRestoreEffect DEF Over, disk
  <2>3. pc'[e] = "terminal" => ~quarantine'[e] /\ ~received'[e]
    BY <1>24, <2>0, UndoRestoreEffect
  <2>4. OverAt(e)'
    BY <1>0, <2>2, <2>3 DEF OverAt
  <2> QED BY <2>1, <2>4, OversKept
<1>25. CASE UndoMark(e)
  <2>0. PICK a \in Assets : mem[e].item = {a}
    BY <1>25, AnItem DEF UndoMark, CommitSteps, Guarded, Unguarded
  <2>1. Moves(e) /\ \A b \in Assets : lock'[b] \subseteq lock[b] \cup {e}
    BY <1>25, <2>0, UndoMarkEffect DEF Touches, disk
  <2>2. pc[e] \notin {"abort", "done", "dead"} /\ (journal'[e] = journal[e] \/ journal'[e].state \notin Over)
    BY <1>25, <2>0, UndoMarkEffect DEF Over, disk
  <2>3. pc'[e] = "terminal" => ~quarantine'[e] /\ ~received'[e]
    BY <1>25, <2>0, UndoMarkEffect
  <2>4. OverAt(e)'
    BY <1>0, <2>2, <2>3 DEF OverAt
  <2> QED BY <2>1, <2>4, OversKept
<1>26. CASE ReleaseLock(e)
  <2>0. PICK a \in Assets : mem[e].item = {a}
    BY <1>26, AnItem DEF ReleaseLock, CommitSteps, Guarded, Unguarded
  <2>1. Moves(e) /\ \A b \in Assets : lock'[b] \subseteq lock[b] \cup {e}
    BY <1>26, <2>0, ReleaseLockEffect DEF Touches, disk
  <2>2. pc[e] \notin {"abort", "done", "dead"} /\ (journal'[e] = journal[e] \/ journal'[e].state \notin Over)
    BY <1>26, <2>0, ReleaseLockEffect DEF Over, disk
  <2>3. pc'[e] = "terminal" => ~quarantine'[e] /\ ~received'[e]
    BY <1>26, <2>0, ReleaseLockEffect
  <2>4. OverAt(e)'
    BY <1>0, <2>2, <2>3 DEF OverAt
  <2> QED BY <2>1, <2>4, OversKept
<1>27. CASE Fault(e)
  <2>0. PICK a \in Assets : mem[e].item = {a}
    BY <1>27, AnItem DEF Fault, CommitSteps, Guarded, Unguarded
  <2>1. Moves(e) /\ \A b \in Assets : lock'[b] \subseteq lock[b] \cup {e}
    BY <1>27, <2>0, FaultEffect DEF Touches, disk
  <2>2. pc[e] \notin {"abort", "done", "dead"} /\ (journal'[e] = journal[e] \/ journal'[e].state \notin Over)
    BY <1>27, <2>0, FaultEffect DEF Over, disk, Guarded, Unguarded
  <2>3. pc'[e] = "terminal" => ~quarantine'[e] /\ ~received'[e]
    BY <1>27, <2>0, FaultEffect
  <2>4. OverAt(e)'
    BY <1>0, <2>2, <2>3 DEF OverAt
  <2> QED BY <2>1, <2>4, OversKept
<1> QED BY <1>1, <1>2, <1>3, <1>4, <1>5, <1>6, <1>7, <1>8, <1>9, <1>10, <1>11, <1>12, <1>13, <1>14, <1>15, <1>16, <1>17, <1>18, <1>19, <1>20, <1>21, <1>22, <1>23, <1>24, <1>25, <1>26, <1>27 DEF Import, CommitItem

LEMMA DoctorOver ==
  ASSUME Typed, DoctorsAlone, Careful, OverTrue, NEW d \in Doctors, Doctor(d)
  PROVE  OverTrue'
<1>1. /\ \A e \in Importers : pc'[e] = pc[e]
      /\ UNCHANGED <<lock, quarantine, received>>
  BY DoctorMoves, Kinds
<1>2. \A e \in Importers : journal'[e] = journal[e] \/ journal'[e].state = "rolled_back"
  <2>1. CASE DoctorMark(d)
    <3>1. PICK e \in Importers : Visiting(d) = e /\ visit[d].copy = journal[e]
      BY <2>1, TendingIs DEF DoctorMark
    <3>2. [journal[e] EXCEPT !.state = "rolled_back"].state = "rolled_back"
      BY JournalUpdates DEF Typed, Disks, States
    <3> QED BY <2>1, <3>1, <3>2 DEF DoctorMark, Typed, Disks
  <2>2. CASE Scan(d) \/ Visit(d) \/ DoctorRemove(d) \/ DoctorRestore(d) \/ DoctorDone(d)
    BY <2>2 DEF Scan, Visit, DoctorRemove, DoctorRestore, DoctorDone, disk
  <2> QED BY <2>1, <2>2 DEF Doctor
<1> QED BY <1>1, <1>2 DEF OverTrue

LEMMA CrashOver ==
  ASSUME Typed, OverTrue, NEW p \in Procs, Crash(p)
  PROVE  OverTrue'
<1>1. \A e \in Importers : pc'[e] \in {pc[e], "dead"}
  BY CrashMoves, Kinds
<1>2. UNCHANGED <<journal, quarantine, received, lock>>
  BY CrashMoves DEF disk
<1> QED BY <1>1, <1>2 DEF OverTrue

LEMMA InitOver == Init => OverTrue
BY Kinds DEF Init, OverTrue, NoJournal

-----------------------------------------------------------------------------

EndsInv == WholeInv /\ OverTrue

LEMMA EndsStep ==
  ASSUME Typed, DoctorsAlone, DoctorsAlone', Live, Careful, EndsInv, [Next]_vars
  PROVE  EndsInv'
<1>1. WholeInv'
  BY StepIs, ImportWhole, DoctorWhole, CrashWhole, StutterWhole DEF EndsInv
<1>2. UNCHANGED vars /\ OverTrue => OverTrue'
  BY DEF OverTrue, vars, disk
<1>3. OverTrue'
  BY <1>2, StepIs, ImportOver, DoctorOver, CrashOver DEF EndsInv
<1> QED BY <1>1, <1>3 DEF EndsInv

LEMMA EndsImply ==
  ASSUME Typed, Careful, EndsInv
  PROVE  NoHalfImport /\ NothingLeft
<1>1. NoHalfImport
  BY DEF EndsInv, WholeInv, HalfNamed, Agree, Careful, JournalsLocked, NoHalfImport
<1>2. NothingLeft
  <2>1. \A e \in Importers, a \in Assets : e \notin lock[a] => backup[e][a] = Nothing
    BY DEF Careful, BackupsLocked
  <2> QED BY <2>1 DEF EndsInv, OverTrue, NothingLeft
<1> QED BY <1>1, <1>2

EndsKept == Unexposed => EndsInv

\* Where every destination starts whole, until a death or a failure exposes an asset, and
\* while no doctor works beside a living process: a half-placed asset always has a journal
\* and a lock that name its import, and an import that is over has left no download, no
\* provider result and no stranded backup (transaction.ts).
THEOREM NothingHalfDone ==
  InitialWhole /\ Spec /\ []DoctorsAlone => [](exposed = {} => NoHalfImport /\ NothingLeft)
<1> SUFFICES ASSUME InitialWhole
             PROVE  Spec /\ []DoctorsAlone => [](exposed = {} => NoHalfImport /\ NothingLeft)
  OBVIOUS
<1>1. Init => EndsKept
  BY InitWhole, InitOver DEF EndsInv, EndsKept
<1>2. Typed /\ DoctorsAlone /\ DoctorsAlone' /\ Live /\ KeptInv /\ EndsKept /\ [Next]_vars => EndsKept'
  BY EndsStep, StaysExposed DEF KeptInv, EndsKept
<1>3. Typed /\ KeptInv /\ EndsKept => (exposed = {} => NoHalfImport /\ NothingLeft)
  BY EndsImply DEF KeptInv, EndsKept, Unexposed
<1> QED BY <1>1, <1>2, <1>3, AlwaysKept, AlwaysTyped, AlwaysLive, PTL DEF Spec

-----------------------------------------------------------------------------
(* One process at a time *)

OneAlive == \A p, q \in Procs : Alive(p) /\ Alive(q) => p = q

LEMMA StartsAlone ==
  ASSUME MaxActive <= 1, OneAlive, MayStart
  PROVE  \A p \in Procs : ~Alive(p)
<1> SUFFICES ASSUME NEW p \in Procs, Alive(p) PROVE FALSE
  OBVIOUS
<1>1. {q \in Procs : Alive(q)} = {p}
  BY DEF OneAlive
<1>2. Cardinality({p}) = 1
  BY FS_Singleton
<1>3. MaxActive \in Nat
  BY Constants
<1> HIDE DEF OneAlive
<1> QED BY <1>1, <1>2, <1>3 DEF MayStart

LEMMA ImportLives ==
  ASSUME Typed, NEW e \in Importers, Import(e) \/ CommitItem(e) \/ Fault(e)
  PROVE  Moves(e) /\ (Alive(e) \/ MayStart)
<1>1. CASE Import(e)
  <2>1. Alive(e) \/ MayStart
    BY <1>1
       DEF Import, Begin, Fill, RecordResult, RecordJournal, Validate, Abort, NextItem, ProviderError,
           Sweep, Terminal, Alive
  <2>2. Moves(e)
    BY <1>1, BeginEffect, FillEffect, RecordResultEffect, RecordJournalEffect, ValidateEffect,
       AbortEffect, NextItemEffect, ProviderErrorEffect, SweepEffect, TerminalEffect DEF Import
  <2> QED BY <2>1, <2>2
<1>2. CASE CommitItem(e)
  <2>1. Alive(e)
    BY <1>2
       DEF CommitItem, AcquireLock, AssetBusy, Decide, Reuse, Mark, Aside, Place, Engine,
           WriteProvenance, EngineVerified, DropBackup, Committed, UndoRemove, UndoRestore, UndoMark,
           ReleaseLock, Alive
  <2>2. PICK a \in Assets : mem[e].item = {a}
    BY <1>2, AnItem
       DEF CommitItem, AcquireLock, AssetBusy, Decide, Reuse, Mark, Aside, Place, Engine,
           WriteProvenance, EngineVerified, DropBackup, Committed, UndoRemove, UndoRestore, UndoMark,
           ReleaseLock, CommitSteps, Guarded
  <2>3. Moves(e)
    <3>1. CASE AcquireLock(e)
      BY <2>2, <3>1, AcquireLockEffect
    <3>2. CASE AssetBusy(e)
      BY <2>2, <3>2, AssetBusyEffect
    <3>3. CASE Decide(e)
      BY <2>2, <3>3, DecideEffect
    <3>4. CASE Reuse(e)
      BY <2>2, <3>4, ReuseEffect
    <3>5. CASE Mark(e)
      BY <2>2, <3>5, MarkEffect
    <3>6. CASE Aside(e)
      BY <2>2, <3>6, AsideEffect
    <3>7. CASE Place(e)
      BY <2>2, <3>7, PlaceEffect
    <3>8. CASE Engine(e)
      BY <2>2, <3>8, EngineEffect
    <3>9. CASE WriteProvenance(e)
      BY <2>2, <3>9, WriteProvenanceEffect
    <3>10. CASE EngineVerified(e)
      BY <2>2, <3>10, EngineVerifiedEffect
    <3>11. CASE DropBackup(e)
      BY <2>2, <3>11, DropBackupEffect
    <3>12. CASE Committed(e)
      BY <2>2, <3>12, CommittedEffect
    <3>13. CASE UndoRemove(e)
      BY <2>2, <3>13, UndoRemoveEffect
    <3>14. CASE UndoRestore(e)
      BY <2>2, <3>14, UndoRestoreEffect
    <3>15. CASE UndoMark(e)
      BY <2>2, <3>15, UndoMarkEffect
    <3>16. CASE ReleaseLock(e)
      BY <2>2, <3>16, ReleaseLockEffect
    <3> QED BY <1>2, <3>1, <3>2, <3>3, <3>4, <3>5, <3>6, <3>7, <3>8, <3>9, <3>10, <3>11, <3>12, <3>13, <3>14, <3>15, <3>16 DEF CommitItem
  <2> QED BY <2>1, <2>3
<1>3. CASE Fault(e)
  <2>1. pc[e] \in CommitSteps /\ Alive(e)
    BY <1>3 DEF Fault, CommitSteps, Guarded, Unguarded, Alive
  <2>2. PICK a \in Assets : mem[e].item = {a}
    BY <2>1, AnItem
  <2> QED BY <1>3, <2>1, <2>2, FaultEffect
<1> QED BY <1>1, <1>2, <1>3

\* Who is alive after a step was so before it, or has just started.
LEMMA AliveBefore ==
  ASSUME Typed, [Next]_vars
  PROVE  \/ \A p \in Procs : Alive(p)' => Alive(p)
         \/ MayStart /\ \E s \in Procs : \A p \in Procs \ {s} : Alive(p)' => Alive(p)
<1>1. CASE \E e \in Importers : Import(e) \/ CommitItem(e) \/ Fault(e)
  <2>1. PICK e \in Importers : Moves(e) /\ (Alive(e) \/ MayStart)
    BY <1>1, ImportLives
  <2>2. e \in Procs /\ \A p \in Procs \ {e} : Alive(p)' => Alive(p)
    BY <2>1, Kinds DEF Moves, Alive
  <2> QED BY <2>1, <2>2
<1>2. CASE \E d \in Doctors : Doctor(d)
  <2>1. PICK d \in Doctors : Doctor(d)
    BY <1>2
  <2>2. Alive(d) \/ MayStart
    BY <2>1 DEF Doctor, Scan, Visit, DoctorRemove, DoctorRestore, DoctorMark, DoctorDone, Alive
  <2>3. d \in Procs /\ \A p \in Procs \ {d} : Alive(p)' => Alive(p)
    BY <2>1, DoctorMoves DEF Procs, Alive
  <2> QED BY <2>2, <2>3
<1>3. CASE \E p \in Procs : Crash(p)
  BY <1>3, CrashMoves DEF Alive
<1>4. CASE UNCHANGED vars
  BY <1>4 DEF vars, Alive
<1> QED BY <1>1, <1>2, <1>3, <1>4, StepIs

LEMMA AlwaysAlone == MaxActive <= 1 /\ Spec => []DoctorsAlone
<1>1. Init => OneAlive
  BY DEF Init, OneAlive, Alive
<1>2. MaxActive <= 1 /\ Typed /\ OneAlive /\ [Next]_vars => OneAlive'
  BY AliveBefore, StartsAlone DEF OneAlive
<1>3. OneAlive => DoctorsAlone
  BY DEF OneAlive, DoctorsAlone, Procs
<1>4. MaxActive <= 1 => (MaxActive <= 1)'
  OBVIOUS
<1> QED BY <1>1, <1>2, <1>3, <1>4, AlwaysTyped, PTL DEF Spec

\* In the behaviours that the run checks, two imports at once and recoveries one after the other:
\* where imports and doctors follow each other from whole destinations, and until an asset is
\* exposed, a free asset is never half imported and an import that is over has left nothing
\* behind (transaction.ts:340-560).
THEOREM SetsAreRight ==
  ASSUME InitialWhole, MaxActive <= 1
  PROVE  SumSpec => []SetRight
<1>1. SumInit /\ part = "recovery" => Init
  BY DEF SumInit
<1>2. [SumNext]_<<part, vars>> /\ part = "recovery" => [Next]_vars
  BY DEF SumNext, vars
<1>3. [SumNext]_<<part, vars>> /\ part = "recovery" => (part = "recovery")'
  BY DEF SumNext
<1>4. [SumNext]_<<part, vars>> /\ ~(part = "recovery") => (~(part = "recovery"))'
  BY DEF SumNext
<1>5. SumSpec /\ part = "recovery" => Spec
  BY <1>1, <1>2, <1>3, PTL DEF SumSpec, Spec
<1>6. SumSpec /\ ~(part = "recovery") => [](~(part = "recovery"))
  BY <1>4, PTL DEF SumSpec
<1>7. Spec => [](exposed = {} => NoHalfImport /\ NothingLeft)
  <2>1. Spec => []DoctorsAlone
    BY AlwaysAlone
  <2>2. Spec /\ []DoctorsAlone => [](exposed = {} => NoHalfImport /\ NothingLeft)
    BY NothingHalfDone
  <2> QED BY <2>1, <2>2, PTL
<1>8. ~(part = "recovery") => SetRight
  BY DEF SetRight
<1>9. (exposed = {} => NoHalfImport /\ NothingLeft) => SetRight
  BY DEF SetRight
<1> QED BY <1>5, <1>6, <1>7, <1>8, <1>9, PTL
=============================================================================

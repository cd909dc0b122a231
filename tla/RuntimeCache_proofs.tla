------------------------- MODULE RuntimeCache_proofs -------------------------
(***************************************************************************)
(* Proofs about RuntimeCache: where no two calls remove the same stale     *)
(* lock, and installs last less than a lock stays young, one call at a     *)
(* time installs, however calls come between each other's steps, and what  *)
(* is marked ready is whole.                                               *)
(***************************************************************************)
EXTENDS RuntimeCache, FiniteSetTheorems, TLAPS

USE Constants DEF Steps, Inside, Parts, dir

\* One call at a time is about to remove a lock, and that is still the stale one.
Looks ==
  /\ \A c, d \in Calls : c # d => ~(pc[c] = "reclaim" /\ pc[d] = "reclaim")
  /\ \A c \in Calls : pc[c] = "reclaim" => aged

\* The lock is the installing call's, and only a dead call's lock grows old.
Locks ==
  /\ \A c \in Calls : pc[c] \in Inside => lock = c
  /\ aged => lock # None /\ pc[lock] = "dead"

LockInv == TypeOK /\ Looks /\ Locks

\* What the call that installs has made of the root so far; a marker is only over
\* a whole tree.
Made ==
  /\ marker # None => \A p \in Parts : tree[p] = marker
  /\ \A c \in Calls :
       /\ pc[c] \in {"clear2", "extract", "extract2", "mark"} => marker = None
       /\ pc[c] = "extract2" => tree["command"] = Wants[c]
       /\ pc[c] = "mark" => \A p \in Parts : tree[p] = Wants[c]
       /\ pc[c] = "reread" => marker = Wants[c]

\* Nobody goes on to install the runtime that is there.
Wanted ==
  \A c \in Calls :
    pc[c] \in Window \cup {"download", "place", "clear", "undo"} => Installed # Wants[c]

IInv == LockInv /\ Made /\ Wanted

-----------------------------------------------------------------------------
(* Types *)

LEMMA TypeInit == Init => TypeOK
<1> SUFFICES ASSUME Init PROVE TypeOK
  OBVIOUS
<1>1. tree \in [Parts -> Shas \cup {None}] /\ crashes \in 0 .. MaxCrashes
  BY DEF Init
<1>2. lock \in Calls \cup {None} /\ marker \in Shas \cup {None}
  BY DEF Init
<1> QED BY <1>1, <1>2 DEF Init, TypeOK

LEMMA TypeStep ==
  ASSUME TypeOK, [Next]_vars
  PROVE  TypeOK'
<1> USE DEF TypeOK, Goto, Answer, Silent, Installed
<1>1. CASE \E c \in Calls : Begin(c) \/ Work(c)
  <2> SUFFICES ASSUME NEW c \in Calls, Begin(c) \/ Work(c) PROVE TypeOK'
    BY <1>1
  <2>1. CASE Begin(c)
    BY <2>1 DEF Begin
  <2>2. CASE Check(c)
    BY <2>2 DEF Check
  <2>3. CASE Open(c)
    BY <2>3 DEF Open, Created
  <2>4. CASE Stat(c)
    BY <2>4 DEF Stat
  <2>5. CASE Reclaim(c)
    BY <2>5 DEF Reclaim
  <2>6. CASE Reopen(c)
    <3>1. lock' \in Calls \cup {None} /\ aged' \in BOOLEAN
      BY <2>6 DEF Reopen, Created
    <3>2. pc' \in [Calls -> Steps] /\ pc'[c] \in {"download", "busy"}
      BY <2>6 DEF Reopen, Created
    <3>3. UNCHANGED <<dir, result, used, crashes>>
      BY <2>6 DEF Reopen
    <3> QED BY <2>6, <3>1, <3>2, <3>3 DEF Reopen, Created
  <2>7. CASE Busy(c)
    BY <2>7 DEF Busy
  <2>8. CASE Download(c)
    BY <2>8 DEF Download
  <2>9. CASE Place(c)
    BY <2>9 DEF Place
  <2>10. CASE Clear(c)
    BY <2>10 DEF Clear
  <2>11. CASE Clear2(c)
    BY <2>11 DEF Clear2, DropTree
  <2>12. CASE Extract(c)
    BY <2>12 DEF Extract
  <2>13. CASE Extract2(c)
    <3>1. tree' \in [Parts -> Shas \cup {None}]
      BY <2>13 DEF Extract2
    <3>2. pc' \in [Calls -> Steps] /\ pc'[c] \in {"mark", "undo"} /\ archive' \subseteq Calls
      BY <2>13 DEF Extract2
    <3> QED BY <2>13, <3>1, <3>2 DEF Extract2
  <2>14. CASE Mark(c)
    BY <2>14 DEF Mark
  <2>15. CASE Reread(c)
    BY <2>15 DEF Reread
  <2>16. CASE Undo(c)
    BY <2>16 DEF Undo
  <2>17. CASE Release(c)
    BY <2>17 DEF Release
  <2> QED
    BY <2>1, <2>2, <2>3, <2>4, <2>5, <2>6, <2>7, <2>8, <2>9, <2>10, <2>11, <2>12, <2>13, <2>14,
       <2>15, <2>16, <2>17 DEF Work
<1>2. CASE \E c \in Calls : Crash(c)
  BY <1>2 DEF Crash
<1>3. CASE Age
  BY <1>3 DEF Age
<1>4. CASE UNCHANGED vars
  BY <1>4 DEF vars
<1> QED BY <1>1, <1>2, <1>3, <1>4 DEF Next

\* Every step keeps the types of the cache (cache.ts, manager.ts).
THEOREM TypeCorrect == Spec => []TypeOK
<1> QED BY TypeInit, TypeStep, PTL DEF Spec

-----------------------------------------------------------------------------
(* The lock *)

\* No stale lock is removed twice, and none is whose owner lives.
Orderly == ~Contested /\ ~SlowOwners

LEMMA LockStep ==
  ASSUME LockInv, [Next]_vars, Orderly
  PROVE  LockInv'
<1>0. TypeOK /\ TypeOK'
  BY TypeStep DEF LockInv
<1> USE DEF Goto, Answer, Silent, Orderly
<1>1. CASE \E c \in Calls : Begin(c) \/ Work(c)
  <2> SUFFICES ASSUME NEW c \in Calls, Begin(c) \/ Work(c) PROVE LockInv'
    BY <1>1
  <2>1. \A d \in Calls \ {c} : pc'[d] = pc[d]
    BY <1>0 DEF TypeOK, Begin, Work, Check, Open, Created, Stat, Reclaim, Reopen, Busy, Download, Place,
                Clear, Clear2, Extract, Extract2, Mark, Reread, Undo, Release
  \* Who leaves the lock alone and does not come to hold it.
  <2>2. ASSUME UNCHANGED <<lock, aged>>, pc[c] # "dead",
               pc'[c] \in Inside => pc[c] \in Inside,
               pc'[c] = "reclaim" => aged /\ \A d \in Calls : pc[d] # "reclaim"
        PROVE  LockInv'
    <3>1. Looks'
      BY <2>1, <2>2 DEF LockInv, Looks
    <3>2. aged => lock \in Calls /\ lock # c
      BY <1>0, <2>2 DEF LockInv, Locks, TypeOK
    <3>3. Locks'
      BY <2>1, <2>2, <3>2 DEF LockInv, Locks
    <3> QED BY <1>0, <3>1, <3>3 DEF LockInv
  \* Who takes it, when there is none.
  <2>3. ASSUME Created(c, "download") PROVE LockInv'
    <3>1. /\ lock = None /\ lock' = c /\ ~aged' /\ pc'[c] = "download"
      BY <1>0, <2>3 DEF Created, TypeOK
    <3>2. \A d \in Calls : pc[d] \notin Inside /\ pc[d] # "reclaim"
      BY <3>1 DEF LockInv, Locks, Looks
    <3>3. Looks' /\ Locks'
      BY <2>1, <3>1, <3>2 DEF Looks, Locks
    <3> QED BY <1>0, <3>3 DEF LockInv
  <2>4. CASE Begin(c)
    BY <1>0, <2>2, <2>4 DEF Begin, TypeOK
  <2>5. CASE Check(c)
    BY <1>0, <2>2, <2>5 DEF Check, TypeOK
  <2>6. CASE Open(c)
    BY <1>0, <2>2, <2>3, <2>6 DEF Open, TypeOK
  <2>7. CASE Stat(c)
    BY <1>0, <2>2, <2>7 DEF Stat, TypeOK, Recovers
  <2>8. CASE Reclaim(c)
    <3>1. lock' = None /\ ~aged' /\ pc[c] = "reclaim" /\ pc'[c] = "reopen"
      BY <1>0, <2>8 DEF Reclaim, TypeOK
    <3>2. aged /\ pc[lock] = "dead" /\ lock # None
      BY <3>1 DEF LockInv, Looks, Locks
    <3>3. \A d \in Calls : pc[d] \notin Inside
      BY <3>2 DEF LockInv, Locks
    <3>4. \A d \in Calls \ {c} : pc[d] # "reclaim"
      BY <3>1 DEF LockInv, Looks
    <3>5. Looks' /\ Locks'
      BY <2>1, <3>1, <3>3, <3>4 DEF Looks, Locks
    <3> QED BY <1>0, <3>5 DEF LockInv
  <2>9. CASE Reopen(c)
    BY <1>0, <2>2, <2>3, <2>9 DEF Reopen, TypeOK
  <2>10. CASE Busy(c)
    BY <1>0, <2>2, <2>10 DEF Busy, TypeOK
  <2>11. CASE Download(c) \/ Place(c) \/ Clear(c) \/ Clear2(c) \/ Extract(c)
    BY <1>0, <2>2, <2>11 DEF Download, Place, Clear, Clear2, Extract, TypeOK
  <2>12. CASE Extract2(c) \/ Mark(c) \/ Reread(c) \/ Undo(c)
    BY <1>0, <2>2, <2>12 DEF Extract2, Mark, Reread, Undo, TypeOK
  <2>13. CASE Release(c)
    <3>1. lock' = None /\ ~aged' /\ pc[c] = "release" /\ pc'[c] = "done"
      BY <1>0, <2>13 DEF Release, TypeOK
    <3>2. ~aged /\ \A d \in Calls \ {c} : pc[d] \notin Inside
      BY <3>1 DEF LockInv, Locks
    <3>3. \A d \in Calls : pc[d] # "reclaim"
      BY <3>2 DEF LockInv, Looks
    <3>4. Looks' /\ Locks'
      BY <2>1, <3>1, <3>2, <3>3 DEF Looks, Locks
    <3> QED BY <1>0, <3>4 DEF LockInv
  <2> QED
    BY <2>4, <2>5, <2>6, <2>7, <2>8, <2>9, <2>10, <2>11, <2>12, <2>13 DEF Work
<1>2. CASE \E c \in Calls : Crash(c)
  BY <1>0, <1>2 DEF Crash, TypeOK, LockInv, Looks, Locks
<1>3. CASE Age
  BY <1>0, <1>3 DEF Age, LockInv, Looks, Locks
<1>4. CASE UNCHANGED vars
  BY <1>0, <1>4 DEF vars, LockInv, Looks, Locks
<1> QED BY <1>1, <1>2, <1>3, <1>4 DEF Next

LEMMA LockInit == Init => LockInv
  BY TypeInit DEF Init, LockInv, Looks, Locks

\* One call at a time installs, whoever creates, finds, ages out, removes and creates
\* again the lock file between the steps of others (cache.ts, acquireRuntimeLock).
THEOREM InstallsInTurn ==
  ASSUME Orderly
  PROVE  Spec => []OneInstaller
<1>1. LockInv /\ [Next]_vars => LockInv'
  BY LockStep
<1>2. LockInv => OneInstaller
  <2> SUFFICES ASSUME LockInv PROVE OneInstaller
    OBVIOUS
  <2> DEFINE S == {c \in Calls : pc[c] \in Inside}
  <2>1. \A c, d \in S : c = d
    BY DEF LockInv, Locks
  <2>2. CASE S = {}
    BY <2>2, FS_EmptySet DEF OneInstaller
  <2>3. CASE S # {}
    <3>1. PICK c \in S : TRUE
      BY <2>3
    <3>2. S = {c}
      BY <2>1, <3>1
    <3>3. Cardinality(S) = 1
      BY <3>2, FS_Singleton
    <3> QED BY <3>3 DEF OneInstaller
  <2> QED BY <2>2, <2>3
<1> QED BY LockInit, <1>1, <1>2, PTL DEF Spec

-----------------------------------------------------------------------------
(* The root *)

LEMMA RootInit == Init => IInv
  BY LockInit DEF Init, IInv, Made, Wanted, Window

\* A call that leaves the root alone, and whose next step promises nothing new.
LEMMA RootKept ==
  ASSUME IInv, NEW c \in Calls,
         \A d \in Calls \ {c} : pc'[d] = pc[d],
         UNCHANGED <<marker, tree>>,
         pc'[c] \notin {"clear2", "extract", "extract2", "mark", "reread"},
         pc'[c] \in Window \cup {"download", "place", "clear", "undo"} => Installed # Wants[c]
  PROVE  Made' /\ Wanted'
  BY DEF IInv, Made, Wanted, Installed

\* The call that installs changes the root alone.
LEMMA RootChanged ==
  ASSUME IInv, NEW c \in Calls, pc[c] \in Inside,
         \A d \in Calls \ {c} : pc'[d] = pc[d],
         marker' = None \/ \A d \in Calls \ {c} : pc[d] \in Window => Wants[d] # marker',
         marker' # None => \A p \in Parts : tree'[p] = marker',
         pc'[c] \in {"clear2", "extract", "extract2", "mark"} => marker' = None,
         pc'[c] = "extract2" => tree'["command"] = Wants[c],
         pc'[c] = "mark" => \A p \in Parts : tree'[p] = Wants[c],
         pc'[c] = "reread" => marker' = Wants[c],
         pc'[c] \notin Window,
         pc'[c] \in {"download", "place", "clear", "undo"} => marker' = None
  PROVE  Made' /\ Wanted'
<1>1. \A d \in Calls \ {c} : pc[d] \notin Inside
  BY DEF IInv, LockInv, Locks
<1>2. Made'
  BY <1>1 DEF Made
<1>3. Wanted'
  BY <1>1 DEF Wanted, Installed
<1> QED BY <1>2, <1>3

LEMMA RootStep ==
  ASSUME IInv, [Next]_vars, Orderly, ~Repeats, MarkerFirst
  PROVE  IInv'
<1>0. LockInv' /\ TypeOK
  BY LockStep DEF IInv, LockInv
<1> SUFFICES Made' /\ Wanted'
  BY <1>0 DEF IInv
<1> USE DEF Goto, Answer, Silent
<1>1. CASE \E c \in Calls : Begin(c) \/ Work(c)
  <2> SUFFICES ASSUME NEW c \in Calls, Begin(c) \/ Work(c) PROVE Made' /\ Wanted'
    BY <1>1
  <2>1. \A d \in Calls \ {c} : pc'[d] = pc[d]
    BY <1>0 DEF TypeOK, Begin, Work, Check, Open, Created, Stat, Reclaim, Reopen, Busy, Download, Place,
                Clear, Clear2, Extract, Extract2, Mark, Reread, Undo, Release
  <2>2. CASE Begin(c)
    BY <1>0, <2>1, <2>2, RootKept DEF Begin, TypeOK, Window
  <2>3. CASE Check(c)
    BY <1>0, <2>1, <2>3, RootKept DEF Check, TypeOK, Window
  <2>4. CASE Open(c) \/ Stat(c) \/ Reclaim(c) \/ Reopen(c)
    <3>1. Installed # Wants[c]
      BY <2>4 DEF Open, Stat, Reclaim, Reopen, IInv, Wanted, Window
    <3> QED
      BY <1>0, <2>1, <2>4, <3>1, RootKept DEF Open, Stat, Reclaim, Reopen, Created, TypeOK, Window
  <2>5. CASE Busy(c) \/ Release(c)
    BY <1>0, <2>1, <2>5, RootKept DEF Busy, Release, TypeOK, Window
  <2>6. CASE Download(c) \/ Place(c)
    <3>1. Installed # Wants[c]
      BY <2>6 DEF Download, Place, IInv, Wanted, Window
    <3> QED BY <1>0, <2>1, <2>6, <3>1, RootKept DEF Download, Place, TypeOK, Window
  <2>7. CASE Clear(c)
    <3>1. CASE pc'[c] = "undo"
      <4>1. UNCHANGED dir /\ Installed # Wants[c]
        BY <1>0, <2>7, <3>1 DEF Clear, IInv, Wanted, TypeOK
      <4> QED BY <2>1, <3>1, <4>1, RootKept DEF Window
    <3>2. CASE pc'[c] = "clear2"
      <4>1. pc[c] \in Inside /\ marker' = None
        BY <1>0, <2>7, <3>2 DEF Clear, TypeOK
      <4> QED BY <2>1, <3>2, <4>1, RootChanged DEF Window
    <3> QED BY <1>0, <2>7, <3>1, <3>2 DEF Clear, TypeOK
  <2>8. CASE Clear2(c)
    <3>1. pc[c] \in Inside /\ marker' = None /\ pc'[c] = "extract"
      BY <1>0, <2>8 DEF Clear2, TypeOK
    <3> QED BY <2>1, <3>1, RootChanged DEF Window
  <2>9. CASE Extract(c)
    <3>1. /\ pc[c] \in Inside /\ marker' = None /\ pc'[c] \in {"extract2", "undo"}
          /\ pc'[c] = "extract2" => tree'["command"] = Wants[c]
      BY <1>0, <2>9 DEF Extract, TypeOK, IInv, Made
    <3> QED BY <2>1, <3>1, RootChanged DEF Window
  <2>10. CASE Extract2(c)
    <3>1. /\ pc[c] \in Inside /\ marker' = None /\ pc'[c] \in {"mark", "undo"}
          /\ pc'[c] = "mark" => \A p \in Parts : tree'[p] = Wants[c]
      BY <1>0, <2>10 DEF Extract2, TypeOK, IInv, Made
    <3> QED BY <2>1, <3>1, RootChanged DEF Window
  <2>11. CASE Mark(c)
    <3>1. pc[c] \in Inside /\ UNCHANGED tree /\ \A p \in Parts : tree[p] = Wants[c]
      BY <2>11 DEF Mark, IInv, Made
    <3>2. marker' = Wants[c] /\ pc'[c] = "reread"
      BY <1>0, <2>11, <3>1 DEF Mark, TypeOK
    <3>3. \A d \in Calls \ {c} : pc[d] \in Window => Wants[d] # marker'
      BY <2>11, <3>2 DEF Mark
    <3> QED BY <2>1, <3>1, <3>2, <3>3, RootChanged DEF Window
  <2>12. CASE Reread(c)
    <3>1. pc[c] = "reread" /\ UNCHANGED <<marker, tree>> /\ pc'[c] \in {"release", "undo"}
          /\ (pc'[c] = "undo" => Installed = None)
      BY <1>0, <2>12 DEF Reread, TypeOK
    <3> QED BY <2>1, <3>1, RootKept DEF Window
  <2>13. CASE Undo(c)
    <3>1. pc[c] \in Inside /\ marker' = None /\ pc'[c] = "release"
      BY <1>0, <2>13 DEF Undo, TypeOK
    <3> QED BY <2>1, <3>1, RootChanged DEF Window
  <2> QED
    BY <2>2, <2>3, <2>4, <2>5, <2>6, <2>7, <2>8, <2>9, <2>10, <2>11, <2>12, <2>13 DEF Work
<1>2. CASE \E c \in Calls : Crash(c)
  <2> SUFFICES ASSUME NEW c \in Calls, Crash(c) PROVE Made' /\ Wanted'
    BY <1>2
  <2> QED BY <1>0, RootKept DEF Crash, TypeOK, Window
<1>3. CASE UNCHANGED <<marker, tree, pc>>
  BY <1>3 DEF IInv, Made, Wanted, Installed
<1> QED BY <1>1, <1>2, <1>3 DEF Next, vars, Age

\* What is marked ready is one archive, and whole, at every moment and after every
\* crash (cache.ts, readInstalledRuntime), as one call at a time installs.
THEOREM ReadyIsWhole ==
  ASSUME Orderly, ~Repeats, MarkerFirst
  PROVE  Spec => []RuntimesWhole
<1>1. IInv /\ [Next]_vars => IInv'
  BY RootStep
<1>2. IInv => WholeWhenReady
  BY DEF IInv, Made, WholeWhenReady, Installed
<1>3. OneInstaller /\ WholeWhenReady => RuntimesWhole
  BY DEF RuntimesWhole
<1> QED BY RootInit, <1>1, <1>2, <1>3, InstallsInTurn, PTL DEF Spec

LEMMA AnswerStep ==
  ASSUME IInv, IInv', [Next]_vars, Orderly
  PROVE  AnswersStand
<1> USE DEF Goto, Answer, Silent
<1>0. TypeOK /\ TypeOK'
  BY DEF IInv, LockInv
<1>1. AnswerTrue
  <2> SUFFICES ASSUME NEW c \in Calls, result'[c] \in Shas, result[c] \notin Shas
               PROVE  result'[c] = Wants[c] \/ pc[c] = "busy"
    BY DEF AnswerTrue
  <2>1. ASSUME NEW d \in Calls, Begin(d) \/ Work(d) PROVE result'[c] = Wants[c] \/ pc[c] = "busy"
    <3>1. CASE Check(d)
      BY <1>0, <3>1 DEF Check, TypeOK
    <3>2. CASE Busy(d)
      BY <1>0, <3>2 DEF Busy, TypeOK
    <3>3. CASE Reread(d)
      BY <1>0, <3>3 DEF Reread, TypeOK, IInv, Made, Installed
    <3>4. CASE Undo(d)
      BY <1>0, <3>4 DEF Undo, TypeOK
    <3>5. CASE UNCHANGED result
      BY <3>5
    <3> QED
      BY <2>1, <3>1, <3>2, <3>3, <3>4, <3>5
      DEF Begin, Work, Open, Stat, Reclaim, Reopen, Download, Place, Clear, Clear2, Extract, Extract2,
          Mark, Release
  <2>2. CASE UNCHANGED result
    BY <2>2
  <2> QED BY <2>1, <2>2 DEF Next, vars, Crash, Age
<1>2. StaysInstalled
  <2> SUFFICES ASSUME NEW c \in Calls, Installed = Wants[c], pc'[c] # pc[c]
               PROVE  Installed' = Wants[c]
    BY DEF StaysInstalled
  <2>1. CASE UNCHANGED <<marker, tree>>
    BY <2>1 DEF Installed
  <2>2. ASSUME NEW d \in Calls, Begin(d) \/ Work(d) PROVE Installed' = Wants[c]
    <3>1. d = c
      BY <1>0, <2>2 DEF TypeOK, Begin, Work, Check, Open, Created, Stat, Reclaim, Reopen, Busy, Download,
                        Place, Clear, Clear2, Extract, Extract2, Mark, Reread, Undo, Release
    <3>2. pc[c] \notin {"clear", "clear2", "extract", "extract2", "mark", "undo"}
      BY DEF IInv, Made, Wanted, Installed
    <3> QED
      BY <2>1, <2>2, <3>1, <3>2
      DEF Begin, Work, Check, Open, Created, Stat, Reclaim, Reopen, Busy, Download,
          Place, Clear, Clear2, Extract, Extract2, Mark, Reread, Undo, Release
  <2> QED BY <2>1, <2>2 DEF Next, vars, Crash, Age
<1>3. BusyTrue
  <2> SUFFICES ASSUME NEW c \in Calls, pc[c] = "stat", pc'[c] = "busy"
               PROVE  lock = None \/ ~aged
    BY DEF BusyTrue
  <2>2. ASSUME NEW d \in Calls, Begin(d) \/ Work(d) PROVE lock = None \/ ~aged
    <3>1. d = c
      BY <1>0, <2>2 DEF TypeOK, Begin, Work, Check, Open, Created, Stat, Reclaim, Reopen, Busy, Download,
                        Place, Clear, Clear2, Extract, Extract2, Mark, Reread, Undo, Release
    <3>2. Stat(c)
      BY <2>2, <3>1
      DEF Begin, Work, Check, Open, Reclaim, Reopen, Busy, Download,
          Place, Clear, Clear2, Extract, Extract2, Mark, Reread, Undo, Release
    <3> QED BY <1>0, <3>2 DEF Stat, TypeOK
  <2>3. ~ UNCHANGED pc
    OBVIOUS
  <2>4. ~ \E d \in Calls : Crash(d)
    BY <1>0 DEF Crash, TypeOK
  <2> QED BY <2>2, <2>3, <2>4 DEF Next, vars, Age
<1> QED BY <1>1, <1>2, <1>3 DEF AnswersStand

\* A step answers with the runtime that was asked for, takes no runtime away from a
\* call that wants it, and refuses a call only while another installs or has just ended,
\* or while a dead one's lock is young (manager.ts, ensureRuntime; cache.ts).
THEOREM AnswersHonest ==
  ASSUME Orderly, ~Repeats, MarkerFirst
  PROVE  Spec => [][AnswersStand]_vars
<1>1. IInv /\ [Next]_vars => IInv'
  BY RootStep
<1>2. IInv /\ IInv' /\ [Next]_vars => [AnswersStand]_vars
  BY AnswerStep
<1> QED BY RootInit, <1>1, <1>2, PTL DEF Spec
=============================================================================

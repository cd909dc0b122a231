--------------------------- MODULE RunLock_proofs ---------------------------
(***************************************************************************)
(* Proofs about the two parts of MCLifecycle.                              *)
(*                                                                         *)
(* RunLock: whatever starts, launchers, inits and stops run side by side,  *)
(* where no recovery meets one of three steps it would spoil and crashes   *)
(* leave neither a claim nor an orphaned launcher, run.lock is a lease of  *)
(* the checkout (module Lease), a runtime that is up was projected from    *)
(* the present configuration, and a stop that runs alone recovers any      *)
(* lock.                                                                   *)
(*                                                                         *)
(* StopAuthority: the commands end only what is this checkout's; where     *)
(* starts and commands take turns an `ok` leaves nothing behind; and for   *)
(* one start every answer and every refusal is right.                      *)
(***************************************************************************)
EXTENDS MCLifecycle, FiniteSetTheorems, TLAPS

\* No recovery meets a hand-off or another recovery half-way, no start dies before
\* its launcher has the lock, and nobody between the claim of a record and its end.
Careful == ~Races /\ ~Orphans /\ CrashSteps \cap {"check", "detach"} = {}

-----------------------------------------------------------------------------
(* The inductive invariant *)

Ended(p) == pc[p] \in {"done", "failed", "dead"}

\* The steps of a process that has the guard.
Guarding == {"exists", "publish", "project", "spawn", "ready", "handback", "unguard", "probe", "peek",
             "read", "inspect", "claim", "check", "detach"}
GivingUp == {"release", "unlink", "rmdir"}
Over == {"done", "failed", "dead"}
Waiting == {"idle", "guard"}
Recovering == {"peek", "read", "claim", "check", "detach"}
Acquiring == {"exists", "publish"}
Adopting == {"adopt", "write", "swap"}

\* What a process of each kind does.
StartSteps == Waiting \cup Acquiring \cup GivingUp \cup Over \cup {"project", "spawn", "ready", "handback", "unguard"}
LaunchSteps == {"idle"} \cup Acquiring \cup Adopting \cup GivingUp \cup Over \cup {"begin", "boot", "serve"}
InitSteps == {"idle"} \cup Recovering \cup Acquiring \cup GivingUp \cup Over \cup {"config"}
StopSteps == Waiting \cup Recovering \cup Acquiring \cup GivingUp \cup Over \cup {"probe", "inspect", "unguard", "remove"}

\* A process is at a step of its kind, and has the guard where its kind needs it.
InPlace(p) ==
  /\ p \in Starts => pc[p] \in StartSteps /\ (pc[p] \in Guarding \cup GivingUp => guard = {p})
  /\ p \in Stops => /\ pc[p] \in StopSteps
                    /\ pc[p] \in Guarding => guard = {p}
                    /\ pc[p] \in {"remove", "release", "unlink", "rmdir"} => p \notin guard
  /\ p \in Inits => pc[p] \in InitSteps
  /\ p \in Launchers => /\ pc[p] \in LaunchSteps
                        /\ pc[p] \in Acquiring => Parent[p] = p
                        /\ pc[p] \in Adopting => Parent[p] # p
  /\ pc[p] \in Waiting => p \notin guard

Control == \A p \in Procs : InPlace(p)

\* The records of run.lock, wherever they are.
Held == {r \in Records : r \in run.owner \/ \E q \in Procs : r \in run.claims[q]}

\* Whose record is in the lock, and who works under it.
OwnSteps(p) ==
  IF p \in Starts THEN {"project", "spawn", "ready", "handback", "release", "unlink"}
                  ELSE {"begin", "boot", "serve", "config", "unguard", "remove", "release", "unlink"}
Working == {"project", "spawn", "begin", "boot", "serve", "config", "remove", "release"}
Before == Waiting \cup Recovering \cup Acquiring \cup Adopting \cup {"probe", "inspect"}

OwnersWork == \A p \in owns : pc[p] \in OwnSteps(p) /\ Record(p) \in Held
WorkersOwn == \A p \in Procs : pc[p] \in Working \/ (pc[p] = "unlink" /\ p \notin Starts) => p \in owns
ParentsReady ==
  \A l \in Launchers : pc[l] \in Adopting => pc[Parent[l]] = "ready" /\ Parent[l] \in owns
HandedBack ==
  \A p \in Starts : \A l \in Launchers : pc[p] = "handback" /\ Parent[l] = p => l \notin owns

\* One record, and in a claim only while its owner decides about it.
OneRecord ==
  /\ \A r, s \in Held : r = s
  /\ run.owner # {} => \A q \in Procs : run.claims[q] = {}
  /\ \A p, q \in Procs : run.claims[p] # {} /\ run.claims[q] # {} => p = q
ClaimsDecided == \A q \in Procs : run.claims[q] # {} => pc[q] \in {"check", "detach"}
Written == \A r \in Held : r.pid \in Procs => pc[r.pid] \notin Before

\* What makes it safe to take a lock away.
Detaching ==
  \A q \in Procs : pc[q] = "detach" =>
    owns = {} /\ (run.claims[q] # {} \/ (q \in Stops /\ seen[q] = {} /\ Held = {}))
Inspecting ==
  \A q \in Procs : pc[q] = "inspect" =>
    run.owner = {} /\ seen[q] = {} /\ \A r \in Procs : ~PuttingBack(r)
SeenDead ==
  \A q \in Procs : pc[q] \in {"claim", "check"} =>
    seen[q] # {} /\ \A r \in seen[q] : r.pid \in Procs => Ended(r.pid)
Unlinking == \A q \in Procs : pc[q] = "unlink" => Held # {} /\ owns \subseteq {q}

\* Nobody takes away the lock that a start gives back, or that a launcher adopts.
Harmless(q) ==
  /\ pc[q] # "detach"
  /\ pc[q] = "claim" => seen[q] # Held
  /\ pc[q] = "check" => run.claims[q] # seen[q]
GivingBack ==
  \A p \in Starts : pc[p] = "unlink" =>
    (\E r \in Held : r.token = p) /\ \A q \in Procs : Harmless(q)
Handing == \A l \in Launchers : Swapping(l) => run.owner = {Record(Parent[l])}

Holding ==
  /\ OwnersWork /\ WorkersOwn /\ ParentsReady /\ HandedBack
  /\ OneRecord /\ ClaimsDecided /\ Written
  /\ Detaching /\ Inspecting /\ SeenDead /\ Unlinking /\ GivingBack /\ Handing

LockType == [exists : BOOLEAN, owner : SUBSET Records, claims : [Procs -> SUBSET Records],
             other : SUBSET (Launchers \cup {Ghost})]

-----------------------------------------------------------------------------
(* Kinds, records, directories *)

\* The four kinds are disjoint, and a token is a process.
LEMMA Kinds ==
  ASSUME NEW p \in Procs
  PROVE  /\ p \in Starts => p \notin Launchers /\ p \notin Inits /\ p \notin Stops
         /\ p \in Launchers => p \notin Starts /\ p \notin Inits /\ p \notin Stops
         /\ p \in Inits => p \notin Starts /\ p \notin Launchers /\ p \notin Stops
         /\ p \in Stops => p \notin Starts /\ p \notin Launchers /\ p \notin Inits
         /\ p # Ghost
BY Constants DEF Procs

LEMMA ParentKind ==
  ASSUME NEW l \in Launchers
  PROVE  /\ Parent[l] \in Procs /\ (Parent[l] = l \/ Parent[l] \in Starts)
         /\ \A m \in Launchers : Parent[l] = Parent[m] => l = m
BY Constants DEF Procs

LEMMA RecordTyped ==
  ASSUME NEW p \in Procs
  PROVE  /\ Token(p) \in Procs /\ Record(p) \in Records
         /\ Record(p).token = Token(p) /\ Record(p).pid = p
<1>1. Token(p) \in Procs
  BY Constants DEF Token, Procs
<1> QED BY <1>1 DEF Record, Records

LEMMA RecordsDiffer ==
  ASSUME NEW p \in Procs, NEW q \in Procs, Record(p) = Record(q)
  PROVE  p = q
BY RecordTyped

LEMMA LegacyTyped == Legacy \in Records /\ Legacy.pid = Ghost /\ Legacy.token = Ghost
BY DEF Legacy, Records

\* A directory that is made anew.
LEMMA DirectoryTyped ==
  ASSUME NEW there \in BOOLEAN, NEW owner \in SUBSET Records, NEW other \in SUBSET (Launchers \cup {Ghost})
  PROVE  LET d == Directory(there, owner, other)
         IN  /\ d \in LockType
             /\ d.exists = there /\ d.owner = owner /\ d.other = other
             /\ \A q \in Procs : d.claims[q] = {}
             /\ Solid(d) <=> owner # {} \/ other # {}
BY DEF Directory, NoClaims, LockType, Solid

LEMMA MissingTyped ==
  /\ Missing \in LockType /\ ~Missing.exists /\ Missing.owner = {} /\ Missing.other = {}
  /\ \A q \in Procs : Missing.claims[q] = {}
  /\ ~Solid(Missing)
<1>1. {} \in SUBSET Records /\ {} \in SUBSET (Launchers \cup {Ghost})
  OBVIOUS
<1> QED BY <1>1, DirectoryTyped DEF Missing

LEMMA EmptyTyped ==
  /\ Empty \in LockType /\ Empty.exists /\ Empty.owner = {} /\ Empty.other = {}
  /\ \A q \in Procs : Empty.claims[q] = {}
  /\ ~Solid(Empty)
<1>1. {} \in SUBSET Records /\ {} \in SUBSET (Launchers \cup {Ghost})
  OBVIOUS
<1> QED BY <1>1, DirectoryTyped DEF Empty

LEMMA PublishedTyped ==
  ASSUME NEW p \in Procs
  PROVE  LET d == Directory(TRUE, {Record(p)}, {})
         IN  /\ d \in LockType /\ d.exists /\ d.owner = {Record(p)} /\ d.other = {}
             /\ \A q \in Procs : d.claims[q] = {}
<1>1. {Record(p)} \in SUBSET Records
  BY RecordTyped
<1> QED BY <1>1 DEF Directory, NoClaims, LockType

\* The changes to a directory that stays.
LEMMA ClaimedTyped ==
  ASSUME NEW d \in LockType, NEW p \in Procs, NEW e, e = [d EXCEPT !.owner = {}, !.claims[p] = d.owner]
  PROVE  /\ e \in LockType /\ e.exists = d.exists /\ e.owner = {} /\ e.other = d.other
         /\ e.claims[p] = d.owner /\ \A q \in Procs \ {p} : e.claims[q] = d.claims[q]
BY DEF LockType

LEMMA PutBackTyped ==
  ASSUME NEW d \in LockType, NEW p \in Procs, NEW e, e = [d EXCEPT !.owner = d.claims[p], !.claims[p] = {}]
  PROVE  /\ e \in LockType /\ e.exists = d.exists /\ e.owner = d.claims[p] /\ e.other = d.other
         /\ e.claims[p] = {} /\ \A q \in Procs \ {p} : e.claims[q] = d.claims[q]
BY DEF LockType

LEMMA WrittenTyped ==
  ASSUME NEW d \in LockType, NEW l \in Launchers, NEW e, e = [d EXCEPT !.other = @ \cup {l}]
  PROVE  /\ e \in LockType /\ e.exists = d.exists /\ e.owner = d.owner /\ e.other = d.other \cup {l}
         /\ \A q \in Procs : e.claims[q] = d.claims[q]
BY DEF LockType

LEMMA SwappedTyped ==
  ASSUME NEW d \in LockType, NEW l \in Launchers,
         NEW e, e = [d EXCEPT !.owner = {Record(l)}, !.other = @ \ {l}]
  PROVE  /\ e \in LockType /\ e.exists = d.exists /\ e.owner = {Record(l)}
         /\ \A q \in Procs : e.claims[q] = d.claims[q]
<1>1. l \in Procs /\ {Record(l)} \in SUBSET Records
  BY RecordTyped DEF Procs
<1> QED BY <1>1 DEF LockType

LEMMA SolidIs ==
  ASSUME NEW d \in LockType, ~Solid(d)
  PROVE  d.owner = {} /\ d.other = {} /\ \A q \in Procs : d.claims[q] = {}
BY DEF Solid

-----------------------------------------------------------------------------
(* The steps *)

\* A step is an action of a process of the kind that has it.
LEMMA StepIs ==
  ASSUME [Next]_vars
  PROVE  \/ UNCHANGED vars
         \/ \E p \in Procs : Begin(p)
         \/ \E p \in Starts \cup Stops : TakeGuard(p)
         \/ \E p \in Starts \cup Stops : GuardBusy(p)
         \/ \E p \in Stops : Probe(p)
         \/ \E p \in Starts \cup Stops : Unguard(p)
         \/ \E p \in Procs : Exists(p)
         \/ \E p \in Procs : Publish(p)
         \/ \E p \in Inits \cup Stops : Peek(p)
         \/ \E p \in Inits \cup Stops : ReadOwner(p)
         \/ \E p \in Inits \cup Stops : Inspect(p)
         \/ \E p \in Inits \cup Stops : Claim(p)
         \/ \E p \in Inits \cup Stops : Check(p)
         \/ \E p \in Inits \cup Stops : Detach(p)
         \/ \E p \in Starts : Project(p)
         \/ \E p \in Starts : Spawn(p)
         \/ \E p \in Starts : Ready(p)
         \/ \E p \in Starts : HandBack(p)
         \/ \E p \in Launchers : Adopt(p)
         \/ \E p \in Launchers : WriteRecord(p)
         \/ \E p \in Launchers : Swap(p)
         \/ \E p \in Launchers : WriteState(p)
         \/ \E p \in Launchers : Abandon(p)
         \/ \E p \in Launchers : Serve(p)
         \/ \E p \in Launchers : Shutdown(p)
         \/ \E p \in Launchers : Retain(p)
         \/ \E p \in Inits : Configure(p)
         \/ \E p \in Stops : RemoveState(p)
         \/ \E p \in Procs : Release(p)
         \/ \E p \in Procs : Unlink(p)
         \/ \E p \in Procs : Rmdir(p)
         \/ \E p \in Procs : Crash(p)
BY DEF Next, Acquire, Recover, GiveUp, Start, Launch, Stop, Finished

Typed ==
  /\ run \in LockType /\ (~run.exists => ~Solid(run))
  /\ guard \subseteq Starts \cup Stops /\ \A p, q \in guard : p = q
  /\ pc \in [Procs -> Steps]
  /\ seen \in [Procs -> SUBSET Records]
  /\ owns \subseteq Procs
  /\ state \subseteq Launchers /\ \A l, m \in state : l = m
  /\ config \subseteq Inits /\ \A i, j \in config : i = j
  /\ used \in [Procs -> SUBSET Inits]
  /\ company \subseteq Stops
  /\ crashes \in 0 .. MaxCrashes

LEMMA TypedIs == TypeOK <=> Typed
BY DEF TypeOK, Typed, LockType

\* The lock directory has its type, whatever is done to it.
LEMMA LockTyped ==
  ASSUME Typed, [Next]_vars
  PROVE  run' \in LockType /\ (~run'.exists => ~Solid(run'))
<1> USE DEF Typed
<1>1. CASE UNCHANGED run
  BY <1>1
<1>2. ASSUME NEW p \in Procs, Publish(p), run' # run PROVE run' \in LockType /\ run'.exists
  BY <1>2, PublishedTyped DEF Publish
<1>3. ASSUME NEW p \in Procs, Claim(p), run' # run PROVE run' \in LockType /\ run'.exists
  <2>1. Solid(run)
    BY <1>3 DEF Claim, Solid
  <2>2. run' = [run EXCEPT !.owner = {}, !.claims[p] = run.owner]
    BY <1>3 DEF Claim
  <2>3. run \in LockType /\ run.exists
    BY <2>1
  <2>4. run' \in LockType /\ run'.exists = run.exists
    BY <2>2, <2>3, ClaimedTyped
  <2> QED BY <2>3, <2>4
<1>4. ASSUME NEW p \in Procs, Check(p), run' # run PROVE run' \in LockType /\ run'.exists
  <2>1. Solid(run)
    BY <1>4 DEF Check, Solid
  <2>2. run' = [run EXCEPT !.owner = run.claims[p], !.claims[p] = {}]
    BY <1>4 DEF Check
  <2>3. run \in LockType /\ run.exists
    BY <2>1
  <2>4. run' \in LockType /\ run'.exists = run.exists
    BY <2>2, <2>3, PutBackTyped
  <2> QED BY <2>3, <2>4
<1>5. ASSUME NEW p \in Procs, Detach(p), run' # run PROVE run' = Missing
  BY <1>5 DEF Detach
<1>6. ASSUME NEW l \in Launchers, WriteRecord(l), run' # run PROVE run' \in LockType /\ run'.exists
  <2>1. run.exists /\ run' = [run EXCEPT !.other = @ \cup {l}]
    BY <1>6 DEF WriteRecord
  <2> QED BY <2>1, WrittenTyped
<1>7. ASSUME NEW l \in Launchers, Swap(l), run' # run PROVE run' \in LockType /\ run'.exists
  <2>1. Solid(run)
    BY <1>7 DEF Swap, Solid
  <2>2. run' = [run EXCEPT !.owner = {Record(l)}, !.other = @ \ {l}]
    BY <1>7 DEF Swap
  <2> QED BY <2>1, <2>2, SwappedTyped
<1>8. ASSUME NEW p \in Procs, Unlink(p) PROVE run' \in {Empty, Missing}
  BY <1>8 DEF Unlink
<1>9. ASSUME NEW p \in Procs, Rmdir(p) PROVE run' \in {run, Missing}
  BY <1>9 DEF Rmdir
<1>10. ASSUME run' # run
      PROVE  \/ \E p \in Procs : Publish(p) \/ Claim(p) \/ Check(p) \/ Detach(p) \/ Unlink(p) \/ Rmdir(p)
             \/ \E l \in Launchers : WriteRecord(l) \/ Swap(l)
  BY <1>10, StepIs DEF vars, Procs, Begin, TakeGuard, GuardBusy, Probe, Unguard, Exists, Peek, ReadOwner, Inspect, Project, Spawn, Ready, HandBack, Adopt, WriteState, Abandon, Serve, Shutdown, Retain, Configure, RemoveState, Release, Crash
<1> QED BY <1>1, <1>2, <1>3, <1>4, <1>5, <1>6, <1>7, <1>8, <1>9, <1>10, MissingTyped, EmptyTyped

LEMMA TypeKept ==
  ASSUME Typed, [Next]_vars
  PROVE  Typed'
<1> USE DEF Typed
<1>0. run' \in LockType /\ (~run'.exists => ~Solid(run'))
  BY LockTyped
<1>1. Starts \cup Launchers \cup Inits \cup Stops = Procs
  BY DEF Procs
<1>2. CASE UNCHANGED vars
  BY <1>2 DEF vars
<1>3. ASSUME NEW p \in Procs, Begin(p) PROVE Typed'
  BY <1>3, <1>0, <1>1, Constants DEF Begin, Goto, Leave, Steps, files
<1>4. ASSUME NEW p \in Starts \cup Stops, TakeGuard(p) PROVE Typed'
  BY <1>4, <1>0, <1>1, Constants DEF TakeGuard, Goto, Leave, Steps, files
<1>5. ASSUME NEW p \in Starts \cup Stops, GuardBusy(p) PROVE Typed'
  BY <1>5, <1>0, <1>1, Constants DEF GuardBusy, Goto, Leave, Steps, files
<1>6. ASSUME NEW p \in Stops, Probe(p) PROVE Typed'
  BY <1>6, <1>0, <1>1, Constants DEF Probe, Goto, Leave, Steps, files
<1>7. ASSUME NEW p \in Starts \cup Stops, Unguard(p) PROVE Typed'
  BY <1>7, <1>0, <1>1, Constants DEF Unguard, Goto, Leave, Steps, files
<1>8. ASSUME NEW p \in Procs, Exists(p) PROVE Typed'
  BY <1>8, <1>0, <1>1, Constants DEF Exists, Goto, Leave, Steps, files
<1>9. ASSUME NEW p \in Procs, Publish(p) PROVE Typed'
  <2>1. pc' \in [Procs -> Steps]
    <3>1. p \in Starts \/ p \in Launchers \/ p \in Inits \/ p \in Stops
      BY DEF Procs
    <3> QED BY <1>9, <3>1, Kinds DEF Publish, Goto, Leave, Steps
  <2> QED BY <1>9, <2>1, <1>0, <1>1 DEF Publish, files
<1>10. ASSUME NEW p \in Inits \cup Stops, Peek(p) PROVE Typed'
  BY <1>10, <1>0, <1>1, Constants DEF Peek, Goto, Leave, Steps, files
<1>11. ASSUME NEW p \in Inits \cup Stops, ReadOwner(p) PROVE Typed'
  BY <1>11, <1>0, <1>1, Constants DEF ReadOwner, Goto, Leave, Steps, files, LockType
<1>12. ASSUME NEW p \in Inits \cup Stops, Inspect(p) PROVE Typed'
  BY <1>12, <1>0, <1>1, Constants DEF Inspect, Goto, Leave, Steps, files
<1>13. ASSUME NEW p \in Inits \cup Stops, Claim(p) PROVE Typed'
  BY <1>13, <1>0, <1>1, Constants DEF Claim, Goto, Leave, Steps, files
<1>14. ASSUME NEW p \in Inits \cup Stops, Check(p) PROVE Typed'
  BY <1>14, <1>0, <1>1, Constants DEF Check, Goto, Leave, Steps, files
<1>15. ASSUME NEW p \in Inits \cup Stops, Detach(p) PROVE Typed'
  BY <1>15, <1>0, <1>1, Constants DEF Detach, Goto, Leave, Steps, files
<1>16. ASSUME NEW p \in Starts, Project(p) PROVE Typed'
  BY <1>16, <1>0, <1>1, Constants DEF Project, Goto, Leave, Steps, files
<1>17. ASSUME NEW p \in Starts, Spawn(p) PROVE Typed'
  BY <1>17, <1>0, <1>1, Constants DEF Spawn, Goto, Leave, Steps, files
<1>18. ASSUME NEW p \in Starts, Ready(p) PROVE Typed'
  BY <1>18, <1>0, <1>1, Constants DEF Ready, Goto, Leave, Steps, files
<1>19. ASSUME NEW p \in Starts, HandBack(p) PROVE Typed'
  BY <1>19, <1>0, <1>1, Constants DEF HandBack, Goto, Leave, Steps, files
<1>20. ASSUME NEW p \in Launchers, Adopt(p) PROVE Typed'
  BY <1>20, <1>0, <1>1, Constants DEF Adopt, Goto, Leave, Steps, files
<1>21. ASSUME NEW p \in Launchers, WriteRecord(p) PROVE Typed'
  BY <1>21, <1>0, <1>1, Constants DEF WriteRecord, Goto, Leave, Steps, files
<1>22. ASSUME NEW p \in Launchers, Swap(p) PROVE Typed'
  BY <1>22, <1>0, <1>1, Constants DEF Swap, Goto, Leave, Steps, files
<1>23. ASSUME NEW p \in Launchers, WriteState(p) PROVE Typed'
  BY <1>23, <1>0, <1>1, Constants DEF WriteState, Goto, Leave, Steps, files
<1>24. ASSUME NEW p \in Launchers, Abandon(p) PROVE Typed'
  BY <1>24, <1>0, <1>1, Constants DEF Abandon, Goto, Leave, Steps, files
<1>25. ASSUME NEW p \in Launchers, Serve(p) PROVE Typed'
  BY <1>25, <1>0, <1>1, Constants DEF Serve, Goto, Leave, Steps, files
<1>26. ASSUME NEW p \in Launchers, Shutdown(p) PROVE Typed'
  BY <1>26, <1>0, <1>1, Constants DEF Shutdown, Goto, Leave, Steps, files
<1>27. ASSUME NEW p \in Launchers, Retain(p) PROVE Typed'
  BY <1>27, <1>0, <1>1, Constants DEF Retain, Goto, Leave, Steps, files
<1>28. ASSUME NEW p \in Inits, Configure(p) PROVE Typed'
  BY <1>28, <1>0, <1>1, Constants DEF Configure, Goto, Leave, Steps, files
<1>29. ASSUME NEW p \in Stops, RemoveState(p) PROVE Typed'
  BY <1>29, <1>0, <1>1, Constants DEF RemoveState, Goto, Leave, Steps, files
<1>30. ASSUME NEW p \in Procs, Release(p) PROVE Typed'
  BY <1>30, <1>0, <1>1, Constants DEF Release, Goto, Leave, Steps, files
<1>31. ASSUME NEW p \in Procs, Unlink(p) PROVE Typed'
  BY <1>31, <1>0, <1>1, Constants DEF Unlink, Goto, Leave, Steps, files
<1>32. ASSUME NEW p \in Procs, Rmdir(p) PROVE Typed'
  BY <1>32, <1>0, <1>1, Constants DEF Rmdir, Goto, Leave, Steps, files
<1>33. ASSUME NEW p \in Procs, Crash(p) PROVE Typed'
  BY <1>33, <1>0, <1>1, Constants DEF Crash, Goto, Leave, Steps, files
<1> QED BY <1>2, <1>3, <1>4, <1>5, <1>6, <1>7, <1>8, <1>9, <1>10, <1>11, <1>12, <1>13, <1>14, <1>15, <1>16, <1>17, <1>18, <1>19, <1>20, <1>21, <1>22, <1>23, <1>24, <1>25, <1>26, <1>27, <1>28, <1>29, <1>30, <1>31, <1>32, <1>33, StepIs

LEMMA TypeInit == Init => Typed
<1> SUFFICES ASSUME Init PROVE Typed
  OBVIOUS
<1>1. PICK there \in BOOLEAN, owner \in SUBSET {Legacy}, other \in SUBSET {Ghost} :
        run = Directory(there, owner, other) /\ (Solid(run) => there)
  BY Constants DEF Init
<1>2. owner \in SUBSET Records /\ other \in SUBSET (Launchers \cup {Ghost})
  BY LegacyTyped
<1>3. run \in LockType /\ (~run.exists => ~Solid(run))
  BY <1>1, <1>2, DirectoryTyped
<1>4. pc \in [Procs -> Steps] /\ seen \in [Procs -> SUBSET Records] /\ used \in [Procs -> SUBSET Inits]
  BY DEF Init, Steps
<1> QED BY <1>3, <1>4, Constants DEF Init, Typed

\* The types of the lock, of the guard and of what the commands know.
THEOREM TypeCorrect == Spec => []TypeOK
<1>1. Init => Typed
  BY TypeInit
<1>2. Typed /\ [Next]_vars => Typed'
  BY TypeKept
<1>3. Spec => []Typed
  BY <1>1, <1>2, PTL DEF Spec
<1> QED BY <1>3, TypedIs, PTL

-----------------------------------------------------------------------------
(* Steps and the guard *)

\* Nobody else moves.
Moves(p) == \A q \in Procs \ {p} : pc'[q] = pc[q]

LEMMA ControlMove ==
  ASSUME Typed, Typed', Control, NEW p \in Procs, Moves(p), guard' = guard, Alive(p), InPlace(p)'
  PROVE  Control'
<1>1. ASSUME NEW q \in Procs PROVE InPlace(q)'
  <2>1. CASE q = p
    BY <2>1
  <2>2. CASE q # p
    BY <2>2 DEF Control, InPlace, Moves
  <2> QED BY <2>1, <2>2
<1> QED BY <1>1 DEF Control

LEMMA ControlKept ==
  ASSUME Typed, Typed', Control, OwnersWork, [Next]_vars
  PROVE  Control'
<1> USE DEF Guarding, GivingUp, Over, Waiting, Recovering, Acquiring, Adopting, StartSteps, LaunchSteps, InitSteps, StopSteps
<1>1. CASE UNCHANGED vars
  BY <1>1 DEF vars, Control, InPlace
<1>2. ASSUME NEW p \in Procs, Begin(p) PROVE Control'
  <2> p \in Procs
    BY DEF Procs
  <2>1. Moves(p) /\ guard' = guard /\ InPlace(p)
    BY <1>2 DEF Moves, Begin, Goto, Typed, Control
  <2>2. InPlace(p)'
    BY <1>2, <2>1, Kinds DEF Begin, Goto, Typed, InPlace
  <2>3. ASSUME NEW q \in Procs, q # p PROVE InPlace(q)'
    BY <2>1, <2>3 DEF Moves, InPlace, Control
  <2> QED BY <2>2, <2>3 DEF Control
<1>3. ASSUME NEW p \in Starts \cup Stops, TakeGuard(p) PROVE Control'
  <2> p \in Procs
    BY DEF Procs
  <2>1. Moves(p) /\ InPlace(p)
    BY <1>3 DEF Moves, TakeGuard, Goto, Typed, Control
  <2>2. InPlace(p)'
    BY <1>3, <2>1, Kinds DEF TakeGuard, Goto, Typed, InPlace, OwnersWork, OwnSteps
  <2>3. ASSUME NEW q \in Procs, q # p PROVE InPlace(q)'
    <3>1. InPlace(q)
      BY DEF Control
    <3> QED BY <1>3, <2>1, <2>3, <3>1, Kinds DEF Moves, InPlace, TakeGuard, Alive, Typed
  <2> QED BY <2>2, <2>3 DEF Control
<1>4. ASSUME NEW p \in Starts \cup Stops, GuardBusy(p) PROVE Control'
  <2> p \in Procs
    BY DEF Procs
  <2>1. Moves(p) /\ guard' = guard /\ Alive(p) /\ InPlace(p)
    BY <1>4 DEF Moves, GuardBusy, Goto, Leave, Typed, Alive, Control
  <2>2. InPlace(p)'
    BY <1>4, <2>1, Kinds DEF GuardBusy, Goto, Leave, Typed, InPlace
  <2> QED BY <2>1, <2>2, ControlMove
<1>5. ASSUME NEW p \in Stops, Probe(p) PROVE Control'
  <2> p \in Procs
    BY DEF Procs
  <2>1. Moves(p) /\ guard' = guard /\ Alive(p) /\ InPlace(p)
    BY <1>5 DEF Moves, Probe, Goto, Leave, Typed, Alive, Control
  <2>2. InPlace(p)'
    BY <1>5, <2>1, Kinds DEF Probe, Goto, Leave, Typed, InPlace
  <2> QED BY <2>1, <2>2, ControlMove
<1>6. ASSUME NEW p \in Starts \cup Stops, Unguard(p) PROVE Control'
  <2> p \in Procs
    BY DEF Procs
  <2>1. Moves(p) /\ InPlace(p)
    BY <1>6 DEF Moves, Unguard, Goto, Typed, Control
  <2>2. InPlace(p)'
    BY <1>6, <2>1, Kinds DEF Unguard, Goto, Typed, InPlace, OwnersWork, OwnSteps
  <2>3. ASSUME NEW q \in Procs, q # p PROVE InPlace(q)'
    <3>1. InPlace(q)
      BY DEF Control
    <3> QED BY <1>6, <2>1, <2>3, <3>1, Kinds DEF Moves, InPlace, Unguard, Alive, Typed
  <2> QED BY <2>2, <2>3 DEF Control
<1>7. ASSUME NEW p \in Procs, Exists(p) PROVE Control'
  <2> p \in Procs
    BY DEF Procs
  <2>1. Moves(p) /\ guard' = guard /\ Alive(p) /\ InPlace(p)
    BY <1>7 DEF Moves, Exists, Goto, Leave, Typed, Alive, Control
  <2>2. InPlace(p)'
    BY <1>7, <2>1, Kinds DEF Exists, Goto, Leave, Typed, InPlace
  <2> QED BY <2>1, <2>2, ControlMove
<1>8. ASSUME NEW p \in Procs, Publish(p) PROVE Control'
  <2> p \in Procs
    BY DEF Procs
  <2>1. Moves(p) /\ guard' = guard /\ Alive(p) /\ InPlace(p)
    BY <1>8 DEF Moves, Publish, Goto, Leave, Typed, Alive, Control
  <2>2. InPlace(p)'
    <3>0. pc[p] = "publish"
      BY <1>8 DEF Publish
    <3>1. CASE p \in Starts
      <4>1. pc'[p] \in {"project", "unguard"} /\ guard = {p} /\ guard' = guard
        BY ZenonT(60), <1>8, <2>1, <3>0, <3>1, Kinds DEF Publish, Goto, Leave, Typed, InPlace
      <4> QED BY <3>1, <4>1, Kinds DEF InPlace
    <3>2. CASE p \in Launchers
      BY ZenonT(60), <1>8, <2>1, <3>2, Kinds DEF Publish, Goto, Leave, Typed, InPlace
    <3>3. CASE p \in Inits
      BY ZenonT(60), <1>8, <2>1, <3>3, Kinds DEF Publish, Goto, Leave, Typed, InPlace
    <3>4. CASE p \in Stops
      <4>1. pc'[p] = "unguard" /\ guard = {p} /\ guard' = guard
        BY ZenonT(60), <1>8, <2>1, <3>0, <3>4, Kinds DEF Publish, Goto, Leave, Typed, InPlace
      <4> QED BY <3>4, <4>1, Kinds DEF InPlace
    <3> QED BY <3>1, <3>2, <3>3, <3>4 DEF Procs
  <2> QED BY <2>1, <2>2, ControlMove
<1>9. ASSUME NEW p \in Inits \cup Stops, Peek(p) PROVE Control'
  <2> p \in Procs
    BY DEF Procs
  <2>1. Moves(p) /\ guard' = guard /\ Alive(p) /\ InPlace(p)
    BY <1>9 DEF Moves, Peek, Goto, Leave, Typed, Alive, Control
  <2>2. InPlace(p)'
    BY <1>9, <2>1, Kinds DEF Peek, Goto, Leave, Typed, InPlace
  <2> QED BY <2>1, <2>2, ControlMove
<1>10. ASSUME NEW p \in Inits \cup Stops, ReadOwner(p) PROVE Control'
  <2> p \in Procs
    BY DEF Procs
  <2>1. Moves(p) /\ guard' = guard /\ Alive(p) /\ InPlace(p)
    BY <1>10 DEF Moves, ReadOwner, Goto, Leave, Typed, Alive, Control
  <2>2. InPlace(p)'
    BY <1>10, <2>1, Kinds DEF ReadOwner, Goto, Leave, Typed, InPlace
  <2> QED BY <2>1, <2>2, ControlMove
<1>11. ASSUME NEW p \in Inits \cup Stops, Inspect(p) PROVE Control'
  <2> p \in Procs
    BY DEF Procs
  <2>1. Moves(p) /\ guard' = guard /\ Alive(p) /\ InPlace(p)
    BY <1>11 DEF Moves, Inspect, Goto, Leave, Typed, Alive, Control
  <2>2. InPlace(p)'
    BY <1>11, <2>1, Kinds DEF Inspect, Goto, Leave, Typed, InPlace
  <2> QED BY <2>1, <2>2, ControlMove
<1>12. ASSUME NEW p \in Inits \cup Stops, Claim(p) PROVE Control'
  <2> p \in Procs
    BY DEF Procs
  <2>1. Moves(p) /\ guard' = guard /\ Alive(p) /\ InPlace(p)
    BY <1>12 DEF Moves, Claim, Goto, Leave, Typed, Alive, Control
  <2>2. InPlace(p)'
    BY <1>12, <2>1, Kinds DEF Claim, Goto, Leave, Typed, InPlace
  <2> QED BY <2>1, <2>2, ControlMove
<1>13. ASSUME NEW p \in Inits \cup Stops, Check(p) PROVE Control'
  <2> p \in Procs
    BY DEF Procs
  <2>1. Moves(p) /\ guard' = guard /\ Alive(p) /\ InPlace(p)
    BY <1>13 DEF Moves, Check, Goto, Leave, Typed, Alive, Control
  <2>2. InPlace(p)'
    BY <1>13, <2>1, Kinds DEF Check, Goto, Leave, Typed, InPlace
  <2> QED BY <2>1, <2>2, ControlMove
<1>14. ASSUME NEW p \in Inits \cup Stops, Detach(p) PROVE Control'
  <2> p \in Procs
    BY DEF Procs
  <2>1. Moves(p) /\ guard' = guard /\ Alive(p) /\ InPlace(p)
    BY <1>14 DEF Moves, Detach, Goto, Leave, Typed, Alive, Control
  <2>2. InPlace(p)'
    BY <1>14, <2>1, Kinds DEF Detach, Goto, Leave, Typed, InPlace
  <2> QED BY <2>1, <2>2, ControlMove
<1>15. ASSUME NEW p \in Starts, Project(p) PROVE Control'
  <2> p \in Procs
    BY DEF Procs
  <2>1. Moves(p) /\ guard' = guard /\ Alive(p) /\ InPlace(p)
    BY <1>15 DEF Moves, Project, Goto, Leave, Typed, Alive, Control
  <2>2. InPlace(p)'
    BY <1>15, <2>1, Kinds DEF Project, Goto, Leave, Typed, InPlace
  <2> QED BY <2>1, <2>2, ControlMove
<1>16. ASSUME NEW p \in Starts, Spawn(p) PROVE Control'
  <2> p \in Procs
    BY DEF Procs
  <2>1. InPlace(p)
    BY DEF Control
  <2>2. CASE Goto(p, "release")
    <3>1. Moves(p) /\ guard' = guard /\ Alive(p)
      BY <1>16, <2>2 DEF Moves, Spawn, Goto, Typed, Alive
    <3>2. InPlace(p)'
      BY <1>16, <2>1, <2>2, Kinds DEF Spawn, Goto, Typed, InPlace
    <3> QED BY <3>1, <3>2, ControlMove
  <2>3. ASSUME NEW l \in Launchers, Parent[l] = p, pc[l] = "idle", pc' = [pc EXCEPT ![p] = "ready", ![l] = "adopt"]
        PROVE  Control'
    <3>1. l \in Procs /\ l # p /\ Parent[l] # l
      BY <2>3, Kinds DEF Procs
    <3>2. /\ pc'[p] = "ready" /\ pc'[l] = "adopt" /\ guard' = guard
          /\ \A q \in Procs \ {p, l} : pc'[q] = pc[q]
      BY <1>16, <2>3, <3>1 DEF Spawn, Typed
    <3>3. InPlace(p)'
      BY <1>16, <2>1, <3>2, Kinds DEF Spawn, InPlace
    <3>4. InPlace(l) /\ l \notin Starts \cup Inits \cup Stops
      BY <3>1, Kinds DEF Control
    <3>5. InPlace(l)'
      BY <2>3, <3>1, <3>2, <3>4, Kinds DEF InPlace, Typed
    <3>6. ASSUME NEW q \in Procs, q # p, q # l PROVE InPlace(q)'
      BY <3>2, <3>6 DEF InPlace, Control
    <3> QED BY <3>3, <3>5, <3>6 DEF Control
  <2> QED BY <1>16, <2>2, <2>3 DEF Spawn
<1>17. ASSUME NEW p \in Starts, Ready(p) PROVE Control'
  <2> p \in Procs
    BY DEF Procs
  <2>1. InPlace(p)
    BY DEF Control
  <2>2. PICK l \in Launchers :
          /\ Parent[l] = p
          /\ \/ pc[l] = "serve" /\ Goto(p, "unguard")
             \/ pc' = [pc EXCEPT ![p] = "handback", ![l] = IF Alive(l) THEN "dead" ELSE @]
    BY <1>17 DEF Ready
  <2>3. l \in Procs /\ l # p /\ InPlace(l) /\ l \notin Starts \cup Inits \cup Stops
    BY Kinds DEF Procs, Control
  <2>4. /\ \A q \in Procs \ {p, l} : pc'[q] = pc[q]
        /\ pc'[p] \in {"unguard", "handback"} /\ pc'[l] \in {pc[l], "dead"} /\ guard' = guard
    BY <1>17, <2>2, <2>3 DEF Ready, Goto, Typed
  <2>5. InPlace(p)'
    BY <1>17, <2>1, <2>4, Kinds DEF Ready, InPlace
  <2>6. InPlace(l)'
    BY <2>3, <2>4 DEF InPlace, Typed
  <2>7. ASSUME NEW q \in Procs, q # p, q # l PROVE InPlace(q)'
    BY <2>4, <2>7 DEF InPlace, Control
  <2> QED BY <2>5, <2>6, <2>7 DEF Control
<1>18. ASSUME NEW p \in Starts, HandBack(p) PROVE Control'
  <2> p \in Procs
    BY DEF Procs
  <2>1. Moves(p) /\ guard' = guard /\ Alive(p) /\ InPlace(p)
    BY <1>18 DEF Moves, HandBack, Goto, Leave, Typed, Alive, Control
  <2>2. InPlace(p)'
    BY <1>18, <2>1, Kinds DEF HandBack, Goto, Leave, Typed, InPlace
  <2> QED BY <2>1, <2>2, ControlMove
<1>19. ASSUME NEW p \in Launchers, Adopt(p) PROVE Control'
  <2> p \in Procs
    BY DEF Procs
  <2>1. Moves(p) /\ guard' = guard /\ Alive(p) /\ InPlace(p)
    BY <1>19 DEF Moves, Adopt, Goto, Leave, Typed, Alive, Control
  <2>2. InPlace(p)'
    BY <1>19, <2>1, Kinds DEF Adopt, Goto, Leave, Typed, InPlace
  <2> QED BY <2>1, <2>2, ControlMove
<1>20. ASSUME NEW p \in Launchers, WriteRecord(p) PROVE Control'
  <2> p \in Procs
    BY DEF Procs
  <2>1. Moves(p) /\ guard' = guard /\ Alive(p) /\ InPlace(p)
    BY <1>20 DEF Moves, WriteRecord, Goto, Leave, Typed, Alive, Control
  <2>2. InPlace(p)'
    BY <1>20, <2>1, Kinds DEF WriteRecord, Goto, Leave, Typed, InPlace
  <2> QED BY <2>1, <2>2, ControlMove
<1>21. ASSUME NEW p \in Launchers, Swap(p) PROVE Control'
  <2> p \in Procs
    BY DEF Procs
  <2>1. Moves(p) /\ guard' = guard /\ Alive(p) /\ InPlace(p)
    BY <1>21 DEF Moves, Swap, Goto, Leave, Typed, Alive, Control
  <2>2. InPlace(p)'
    BY <1>21, <2>1, Kinds DEF Swap, Goto, Leave, Typed, InPlace
  <2> QED BY <2>1, <2>2, ControlMove
<1>22. ASSUME NEW p \in Launchers, WriteState(p) PROVE Control'
  <2> p \in Procs
    BY DEF Procs
  <2>1. Moves(p) /\ guard' = guard /\ Alive(p) /\ InPlace(p)
    BY <1>22 DEF Moves, WriteState, Goto, Leave, Typed, Alive, Control
  <2>2. InPlace(p)'
    BY <1>22, <2>1, Kinds DEF WriteState, Goto, Leave, Typed, InPlace
  <2> QED BY <2>1, <2>2, ControlMove
<1>23. ASSUME NEW p \in Launchers, Abandon(p) PROVE Control'
  <2> p \in Procs
    BY DEF Procs
  <2>1. Moves(p) /\ guard' = guard /\ Alive(p) /\ InPlace(p)
    BY <1>23 DEF Moves, Abandon, Goto, Leave, Typed, Alive, Control
  <2>2. InPlace(p)'
    BY <1>23, <2>1, Kinds DEF Abandon, Goto, Leave, Typed, InPlace
  <2> QED BY <2>1, <2>2, ControlMove
<1>24. ASSUME NEW p \in Launchers, Serve(p) PROVE Control'
  <2> p \in Procs
    BY DEF Procs
  <2>1. Moves(p) /\ guard' = guard /\ Alive(p) /\ InPlace(p)
    BY <1>24 DEF Moves, Serve, Goto, Leave, Typed, Alive, Control
  <2>2. InPlace(p)'
    BY <1>24, <2>1, Kinds DEF Serve, Goto, Leave, Typed, InPlace
  <2> QED BY <2>1, <2>2, ControlMove
<1>25. ASSUME NEW p \in Launchers, Shutdown(p) PROVE Control'
  <2> p \in Procs
    BY DEF Procs
  <2>1. Moves(p) /\ guard' = guard /\ Alive(p) /\ InPlace(p)
    BY <1>25 DEF Moves, Shutdown, Goto, Leave, Typed, Alive, Control
  <2>2. InPlace(p)'
    BY <1>25, <2>1, Kinds DEF Shutdown, Goto, Leave, Typed, InPlace
  <2> QED BY <2>1, <2>2, ControlMove
<1>26. ASSUME NEW p \in Launchers, Retain(p) PROVE Control'
  <2> p \in Procs
    BY DEF Procs
  <2>1. Moves(p) /\ guard' = guard /\ Alive(p) /\ InPlace(p)
    BY <1>26 DEF Moves, Retain, Goto, Leave, Typed, Alive, Control
  <2>2. InPlace(p)'
    BY <1>26, <2>1, Kinds DEF Retain, Goto, Leave, Typed, InPlace
  <2> QED BY <2>1, <2>2, ControlMove
<1>27. ASSUME NEW p \in Inits, Configure(p) PROVE Control'
  <2> p \in Procs
    BY DEF Procs
  <2>1. Moves(p) /\ guard' = guard /\ Alive(p) /\ InPlace(p)
    BY <1>27 DEF Moves, Configure, Goto, Leave, Typed, Alive, Control
  <2>2. InPlace(p)'
    BY <1>27, <2>1, Kinds DEF Configure, Goto, Leave, Typed, InPlace
  <2> QED BY <2>1, <2>2, ControlMove
<1>28. ASSUME NEW p \in Stops, RemoveState(p) PROVE Control'
  <2> p \in Procs
    BY DEF Procs
  <2>1. Moves(p) /\ guard' = guard /\ Alive(p) /\ InPlace(p)
    BY <1>28 DEF Moves, RemoveState, Goto, Leave, Typed, Alive, Control
  <2>2. InPlace(p)'
    BY <1>28, <2>1, Kinds DEF RemoveState, Goto, Leave, Typed, InPlace
  <2> QED BY <2>1, <2>2, ControlMove
<1>29. ASSUME NEW p \in Procs, Release(p) PROVE Control'
  <2> p \in Procs
    BY DEF Procs
  <2>1. Moves(p) /\ guard' = guard /\ Alive(p) /\ InPlace(p)
    BY <1>29 DEF Moves, Release, Goto, Leave, Typed, Alive, Control
  <2>2. InPlace(p)'
    BY <1>29, <2>1, Kinds DEF Release, Goto, Leave, Typed, InPlace
  <2> QED BY <2>1, <2>2, ControlMove
<1>30. ASSUME NEW p \in Procs, Unlink(p) PROVE Control'
  <2> p \in Procs
    BY DEF Procs
  <2>1. Moves(p) /\ guard' = guard /\ Alive(p) /\ InPlace(p)
    BY <1>30 DEF Moves, Unlink, Goto, Leave, Typed, Alive, Control
  <2>2. InPlace(p)'
    BY <1>30, <2>1, Kinds DEF Unlink, Goto, Leave, Typed, InPlace
  <2> QED BY <2>1, <2>2, ControlMove
<1>31. ASSUME NEW p \in Procs, Rmdir(p) PROVE Control'
  <2> p \in Procs
    BY DEF Procs
  <2>1. Moves(p) /\ guard' = guard /\ Alive(p) /\ InPlace(p)
    BY <1>31 DEF Moves, Rmdir, Goto, Leave, Typed, Alive, Control
  <2>2. InPlace(p)'
    BY <1>31, <2>1, Kinds DEF Rmdir, Goto, Leave, Typed, InPlace
  <2> QED BY <2>1, <2>2, ControlMove
<1>32. ASSUME NEW p \in Procs, Crash(p) PROVE Control'
  <2> p \in Procs
    BY DEF Procs
  <2>1. Moves(p) /\ guard' = guard /\ Alive(p) /\ InPlace(p)
    BY <1>32 DEF Moves, Crash, Goto, Leave, Typed, Alive, Control
  <2>2. InPlace(p)'
    BY <1>32, <2>1, Kinds DEF Crash, Goto, Leave, Typed, InPlace
  <2> QED BY <2>1, <2>2, ControlMove
<1> QED BY <1>1, <1>2, <1>3, <1>4, <1>5, <1>6, <1>7, <1>8, <1>9, <1>10, <1>11, <1>12, <1>13, <1>14, <1>15, <1>16, <1>17, <1>18, <1>19, <1>20, <1>21, <1>22, <1>23, <1>24, <1>25, <1>26, <1>27, <1>28, <1>29, <1>30, <1>31, <1>32, StepIs

-----------------------------------------------------------------------------
(* Who is kept apart *)

\* Only one start or stop has the guard.
LEMMA GuardAlone ==
  ASSUME Control, NEW s \in Starts \cup Stops, guard = {s}, NEW p \in Procs, p # s
  PROVE  /\ p \in Starts => pc[p] \notin Guarding \cup GivingUp
         /\ p \in Stops => pc[p] \notin Guarding
BY DEF Control, InPlace

LEMMA Guarded ==
  ASSUME Control, NEW s \in Starts \cup Stops, pc[s] \in Guarding \/ (s \in Starts /\ pc[s] \in GivingUp)
  PROVE  guard = {s}
<1>1. InPlace(s)
  BY DEF Control, Procs
<1> QED BY <1>1 DEF InPlace

\* Only an init or a stop recovers a lock, only a stop inspects one.
LEMMA RecoverersAre ==
  ASSUME Control, NEW q \in Procs
  PROVE  /\ pc[q] \in {"claim", "check", "detach"} => q \in Inits \/ q \in Stops
         /\ pc[q] = "inspect" => q \in Stops
<1>1. InPlace(q)
  BY DEF Control
<1> QED BY <1>1 DEF Procs, InPlace, StartSteps, LaunchSteps, InitSteps, Waiting, Acquiring, GivingUp, Over,
              Adopting, Recovering

\* A launcher that adopts was spawned by a start that waits, with the guard, and
\* is the owner: nobody takes the lock away.
LEMMA AdoptingAlone ==
  ASSUME Typed, Control, Holding, NEW l \in Launchers, pc[l] \in Adopting
  PROVE  /\ Parent[l] \in Starts /\ Parent[l] \in owns /\ pc[Parent[l]] = "ready"
         /\ \A q \in Procs : pc[q] \notin {"inspect", "detach"}
<1>1. Parent[l] \in owns /\ pc[Parent[l]] = "ready"
  BY DEF Holding, ParentsReady
<1>2. l \in Procs /\ InPlace(l)
  BY DEF Procs, Control
<1>3. Parent[l] \in Starts /\ Parent[l] \in Procs
  BY <1>2, ParentKind DEF InPlace
<1>4. guard = {Parent[l]}
  BY <1>1, <1>3, Guarded DEF Guarding
<1>5. ASSUME NEW q \in Procs PROVE pc[q] # "inspect"
  <2>1. q \in Stops => pc[q] \notin Guarding
    BY <1>3, <1>4, GuardAlone, Kinds
  <2> QED BY <2>1, RecoverersAre DEF Guarding
<1>6. ASSUME NEW q \in Procs PROVE pc[q] # "detach"
  BY <1>1 DEF Holding, Detaching
<1> QED BY <1>1, <1>3, <1>5, <1>6

LEMMA OneOwner ==
  ASSUME Typed, Holding, NEW p \in owns, NEW q \in owns
  PROVE  p = q
BY RecordsDiffer DEF Typed, Holding, OwnersWork, OneRecord

\* Nobody owns a lock without a record.
LEMMA NoRecordNoOwner ==
  ASSUME Typed, Holding, ~Solid(run)
  PROVE  Held = {} /\ owns = {}
<1>1. run.owner = {} /\ \A q \in Procs : run.claims[q] = {}
  BY SolidIs DEF Typed
<1> QED BY <1>1 DEF Held, Holding, OwnersWork

\* While a process is about to take the lock away nobody else is, and nobody
\* gives one up.
LEMMA DetachAlone ==
  ASSUME Typed, Control, Holding, NEW q \in Procs, pc[q] = "detach", NEW p \in Procs, p # q
  PROVE  /\ pc[p] \notin {"unlink", "detach"}
         /\ run.claims[q] = {} => run.claims[p] = {}
<1>1. owns = {} /\ (run.claims[q] # {} \/ (q \in Stops /\ Held = {}))
  BY DEF Holding, Detaching
<1>2. pc[p] # "unlink"
  BY <1>1 DEF Holding, WorkersOwn, GivingBack, Harmless
<1>3. \A o \in Procs : run.claims[o] # {} => Held # {}
  BY DEF Typed, LockType, Held
<1>4. ASSUME pc[p] = "detach" PROVE FALSE
  <2>1. run.claims[p] # {} \/ (p \in Stops /\ Held = {})
    BY <1>4 DEF Holding, Detaching
  <2>2. CASE run.claims[p] # {} /\ run.claims[q] # {}
    BY <2>2 DEF Holding, OneRecord
  <2>3. CASE p \in Stops /\ q \in Stops
    BY <1>4, <2>3, GuardAlone, Guarded DEF Guarding
  <2> QED BY <1>1, <1>3, <2>1, <2>2, <2>3
<1> QED BY <1>1, <1>2, <1>3, <1>4

-----------------------------------------------------------------------------
(* A step of p that leaves the records where they are *)

Undisturbed(p) ==
  /\ Moves(p) /\ ~Ended(p)
  /\ run'.owner = run.owner /\ \A q \in Procs : run'.claims[q] = run.claims[q]
  /\ \A q \in Procs \ {p} : seen'[q] = seen[q]
  /\ owns' \in {owns, owns \ {p}}

Suits(p) ==
  /\ p \in owns' => pc'[p] \in OwnSteps(p)
  /\ pc'[p] \in Working \/ (pc'[p] = "unlink" /\ p \notin Starts) => p \in owns'
  /\ p \in Launchers /\ pc'[p] \in Adopting => pc[p] \in Adopting
  /\ pc[p] = "ready" => \A l \in Launchers : Parent[l] = p => pc[l] \notin Adopting
  /\ pc'[p] # "handback"
  /\ run.claims[p] # {} => pc'[p] \in {"check", "detach"}
  /\ pc'[p] \in Before => pc[p] \in Before

Warranted(p) ==
  /\ pc'[p] = "detach" =>
       owns' = {} /\ (run.claims[p] # {} \/ (p \in Stops /\ seen'[p] = {} /\ Held = {}))
  /\ pc'[p] = "inspect" => run.owner = {} /\ seen'[p] = {} /\ \A r \in Procs : ~PuttingBack(r)
  /\ pc'[p] \in {"claim", "check"} =>
       seen'[p] # {} /\ \A r \in seen'[p] : r.pid \in Procs => Ended(r.pid)
  /\ pc'[p] = "unlink" => Held # {} /\ owns' \subseteq {p}
  /\ pc'[p] = "check" => run.claims[p] = {}
  /\ pc'[p] = "unlink" /\ p \in Starts =>
       (\E r \in Held : r.token = p) /\ \A q \in Procs \ {p} : Harmless(q)
  /\ pc'[p] = "detach" => \A s \in Starts : pc[s] # "unlink"
  /\ pc'[p] = "claim" => \A s \in Starts : pc[s] # "unlink"
  /\ pc'[p] \in {"write", "swap"} => run.owner = {Record(Parent[p])}

LEMMA HoldingMove ==
  ASSUME Typed, Typed', Control, Holding, NEW p \in Procs, Undisturbed(p), Suits(p), Warranted(p)
  PROVE  Holding'
<1>1. Held' = Held
  BY DEF Held, Undisturbed
<1>2. \A q \in Procs \ {p} : pc'[q] = pc[q]
  BY DEF Undisturbed, Moves
<1>3. owns' \subseteq owns /\ \A q \in Procs \ {p} : q \in owns => q \in owns'
  BY DEF Undisturbed
<1>4. OwnersWork'
  BY <1>1, <1>2, <1>3 DEF Holding, OwnersWork, Suits, OwnSteps, Typed
<1>5. WorkersOwn'
  BY <1>2, <1>3 DEF Holding, WorkersOwn, Suits
<1>6. ParentsReady'
  <2> SUFFICES ASSUME NEW l \in Launchers, pc'[l] \in Adopting
               PROVE  pc'[Parent[l]] = "ready" /\ Parent[l] \in owns'
    BY DEF ParentsReady
  <2>1. pc[l] \in Adopting /\ l \in Procs
    BY <1>2 DEF Suits, Procs
  <2>2. pc[Parent[l]] = "ready" /\ Parent[l] \in owns
    BY <2>1 DEF Holding, ParentsReady
  <2>3. Parent[l] # p
    BY <2>1, <2>2 DEF Suits
  <2> QED BY <2>2, <2>3, <1>2, <1>3, ParentKind
<1>7. HandedBack'
  BY <1>2, <1>3 DEF Holding, HandedBack, Suits, Procs
<1>8. OneRecord'
  BY <1>1 DEF Holding, OneRecord, Undisturbed
<1>9. ClaimsDecided'
  BY <1>2 DEF Holding, ClaimsDecided, Suits, Undisturbed
<1>10. Written'
  BY <1>1, <1>2 DEF Holding, Written, Suits
<1>11. Detaching'
  <2> SUFFICES ASSUME NEW q \in Procs, pc'[q] = "detach"
               PROVE  owns' = {} /\ (run'.claims[q] # {} \/ (q \in Stops /\ seen'[q] = {} /\ Held' = {}))
    BY DEF Detaching
  <2>1. CASE q = p
    BY <1>1, <2>1 DEF Warranted, Undisturbed
  <2>2. CASE q # p
    BY <1>1, <1>2, <1>3, <2>2 DEF Holding, Detaching, Undisturbed
  <2> QED BY <2>1, <2>2
<1>12. Inspecting'
  <2>1. \A r \in Procs : PuttingBack(r)' => PuttingBack(r)
    BY <1>2 DEF PuttingBack, Undisturbed, Warranted
  <2> QED BY <1>2, <2>1 DEF Holding, Inspecting, Warranted, Undisturbed
<1>13. SeenDead'
  <2>1. \A q \in Procs : Ended(q) => Ended(q)'
    BY <1>2 DEF Undisturbed, Ended
  <2>2. ASSUME NEW q \in Procs, pc'[q] \in {"claim", "check"}
        PROVE  seen'[q] # {} /\ \A r \in seen'[q] : r.pid \in Procs => Ended(r.pid)
    BY <1>2, <2>2 DEF Holding, SeenDead, Warranted, Undisturbed
  <2> QED BY <2>1, <2>2 DEF SeenDead
<1>14. Unlinking'
  BY <1>1, <1>2, <1>3 DEF Holding, Unlinking, Warranted
<1>15. GivingBack'
  <2> SUFFICES ASSUME NEW s \in Starts, pc'[s] = "unlink"
               PROVE  (\E r \in Held' : r.token = s) /\ \A q \in Procs : Harmless(q)'
    BY DEF GivingBack
  <2>1. CASE s = p
    <3>1. (\E r \in Held : r.token = p) /\ \A q \in Procs \ {p} : Harmless(q)
      BY <2>1 DEF Warranted
    <3>2. \A q \in Procs \ {p} : Harmless(q)'
      BY <1>1, <1>2, <3>1 DEF Harmless, Undisturbed
    <3>3. Harmless(p)'
      BY <2>1 DEF Harmless
    <3> QED BY <1>1, <2>1, <3>1, <3>2, <3>3
  <2>2. CASE s # p
    <3>1. pc[s] = "unlink" /\ s \in Procs
      BY <1>2, <2>2 DEF Procs
    <3>2. (\E r \in Held : r.token = s) /\ \A q \in Procs : Harmless(q)
      BY <3>1 DEF Holding, GivingBack
    <3>3. \A q \in Procs \ {p} : Harmless(q)'
      BY <1>1, <1>2, <3>2 DEF Harmless, Undisturbed
    <3>4. pc'[p] = "check" => run'.claims[p] # seen'[p]
      BY DEF Warranted, Undisturbed
    <3>5. Harmless(p)'
      BY <3>1, <3>4 DEF Harmless, Warranted
    <3> QED BY <1>1, <3>2, <3>3, <3>5
  <2> QED BY <2>1, <2>2
<1>16. Handing'
  BY <1>2 DEF Holding, Handing, Swapping, Warranted, Undisturbed, Procs
<1> QED BY <1>4, <1>5, <1>6, <1>7, <1>8, <1>9, <1>10, <1>11, <1>12, <1>13, <1>14, <1>15, <1>16 DEF Holding

-----------------------------------------------------------------------------
(* Every step keeps the records *)

LEMMA HoldingKept ==
  ASSUME Careful, Typed, Typed', Control, Holding, [Next]_vars
  PROVE  Holding'
<1> USE DEF Guarding, GivingUp, Over, Waiting, Recovering, Acquiring, Adopting, StartSteps, LaunchSteps, InitSteps, StopSteps, OwnSteps, Working, Before
<1>1. CASE UNCHANGED vars
  BY <1>1 DEF vars, Holding, OwnersWork, WorkersOwn, ParentsReady, HandedBack, OneRecord, ClaimsDecided, Written,
              Detaching, Inspecting, SeenDead, Unlinking, Held, Ended, GivingBack, Harmless, Handing, PuttingBack, Swapping
<1>2. ASSUME NEW p \in Procs, Begin(p) PROVE Holding'
  <2> p \in Procs
    BY DEF Procs
  <2>1. InPlace(p) /\ Undisturbed(p)
    BY <1>2 DEF Undisturbed, Moves, Begin, Goto, Typed, Ended, Control
  <2>4. pc[p] = "idle" /\ pc'[p] \in {"guard", "peek", "exists"} /\ owns' = owns
    BY <1>2, Kinds DEF Begin, Goto, Typed, Procs
  <2>2. Suits(p)
    BY <2>4 DEF Suits, Holding, OwnersWork, ClaimsDecided
  <2>3. Warranted(p)
    BY <2>4 DEF Warranted
  <2> QED BY <2>1, <2>2, <2>3, HoldingMove
<1>3. ASSUME NEW p \in Starts \cup Stops, TakeGuard(p) PROVE Holding'
  <2> p \in Procs
    BY DEF Procs
  <2>1. InPlace(p) /\ Undisturbed(p)
    BY <1>3 DEF Undisturbed, Moves, TakeGuard, Goto, Leave, Typed, Ended, Control
  <2>2. Suits(p)
    BY <1>3, <2>1, Kinds DEF Suits, TakeGuard, Goto, Leave, Typed, InPlace, Holding, OwnersWork, WorkersOwn, ClaimsDecided
  <2>3. Warranted(p)
    BY <1>3 DEF Warranted, TakeGuard, Goto, Leave, Typed
  <2> QED BY <2>1, <2>2, <2>3, HoldingMove
<1>4. ASSUME NEW p \in Starts \cup Stops, GuardBusy(p) PROVE Holding'
  <2> p \in Procs
    BY DEF Procs
  <2>1. InPlace(p) /\ Undisturbed(p)
    BY <1>4 DEF Undisturbed, Moves, GuardBusy, Goto, Leave, Typed, Ended, Control
  <2>2. Suits(p)
    BY <1>4, <2>1, Kinds DEF Suits, GuardBusy, Goto, Leave, Typed, InPlace, Holding, OwnersWork, WorkersOwn, ClaimsDecided
  <2>3. Warranted(p)
    BY <1>4 DEF Warranted, GuardBusy, Goto, Leave, Typed
  <2> QED BY <2>1, <2>2, <2>3, HoldingMove
<1>5. ASSUME NEW p \in Stops, Probe(p) PROVE Holding'
  <2> p \in Procs
    BY DEF Procs
  <2>1. InPlace(p) /\ Undisturbed(p)
    BY <1>5 DEF Undisturbed, Moves, Probe, Goto, Leave, Typed, Ended, Control
  <2>2. Suits(p)
    BY <1>5, <2>1, Kinds DEF Suits, Probe, Goto, Leave, Typed, InPlace, Holding, OwnersWork, WorkersOwn, ClaimsDecided
  <2>3. Warranted(p)
    BY <1>5 DEF Warranted, Probe, Goto, Leave, Typed
  <2> QED BY <2>1, <2>2, <2>3, HoldingMove
<1>6. ASSUME NEW p \in Starts \cup Stops, Unguard(p) PROVE Holding'
  <2> p \in Procs
    BY DEF Procs
  <2>1. InPlace(p) /\ Undisturbed(p)
    BY <1>6 DEF Undisturbed, Moves, Unguard, Goto, Leave, Typed, Ended, Control
  <2>2. Suits(p)
    BY <1>6, <2>1, Kinds DEF Suits, Unguard, Goto, Leave, Typed, InPlace, Holding, OwnersWork, WorkersOwn, ClaimsDecided
  <2>3. Warranted(p)
    BY <1>6 DEF Warranted, Unguard, Goto, Leave, Typed
  <2> QED BY <2>1, <2>2, <2>3, HoldingMove
<1>7. ASSUME NEW p \in Procs, Exists(p) PROVE Holding'
  <2> p \in Procs
    BY DEF Procs
  <2>1. InPlace(p) /\ Undisturbed(p)
    BY <1>7 DEF Undisturbed, Moves, Exists, Goto, Leave, Typed, Ended, Control
  <2>2. Suits(p)
    BY <1>7, <2>1, Kinds DEF Suits, Exists, Goto, Leave, Typed, InPlace, Holding, OwnersWork, WorkersOwn, ClaimsDecided
  <2>3. Warranted(p)
    BY <1>7 DEF Warranted, Exists, Goto, Leave, Typed
  <2> QED BY <2>1, <2>2, <2>3, HoldingMove
<1>8. ASSUME NEW p \in Procs, Publish(p) PROVE Holding'
  <2> p \in Procs
    BY DEF Procs
  <2>0. InPlace(p) /\ pc[p] = "publish" /\ p \notin owns
    BY <1>8 DEF Control, Publish, Holding, OwnersWork
  <2>1. CASE Solid(run)
    <3>1. Undisturbed(p)
      BY <1>8, <2>1 DEF Undisturbed, Moves, Publish, Goto, Leave, Typed, Ended
    <3>2. pc'[p] \in {"failed", "unguard"} /\ owns' = owns
      BY <1>8, <2>1 DEF Publish, Goto, Leave, Typed
    <3>3. Suits(p)
      BY <2>0, <3>2 DEF Suits, Holding, ClaimsDecided
    <3>4. Warranted(p)
      BY <3>2 DEF Warranted
    <3> QED BY <3>1, <3>3, <3>4, HoldingMove
  <2>2. CASE ~Solid(run)
    <3>1. Held = {} /\ owns = {}
      BY <2>2, NoRecordNoOwner
    <3>2. run' = Directory(TRUE, {Record(p)}, {}) /\ owns' = {p} /\ Moves(p) /\ seen' = seen
      BY <1>8, <2>2, <3>1 DEF Publish, Goto, Moves, Typed
    <3>3. pc'[p] \in OwnSteps(p) \ {"ready", "handback", "release", "unlink"}
      BY <1>8, <2>2, Kinds DEF Publish, Goto, Typed, Procs
    <3>4. run'.owner = {Record(p)} /\ \A q \in Procs : run'.claims[q] = {}
      BY <3>2, PublishedTyped
    <3>5. Held' = {Record(p)} /\ Record(p) \in Records /\ Record(p).pid = p
      BY <3>4, RecordTyped DEF Held
    <3>6. ASSUME NEW q \in Procs, q # p
          PROVE  /\ pc'[q] = pc[q]
                 /\ pc[q] \notin Working \cup Adopting \cup {"unlink", "detach", "inspect"}
      <4>1. pc'[q] = pc[q]
        BY <3>2, <3>6 DEF Moves
      <4>2. pc[q] \notin Working
        BY <3>1 DEF Holding, WorkersOwn
      <4>3. pc[q] # "unlink"
        BY <3>1 DEF Holding, Unlinking
      <4>4. q \in Stops => ~Malformed(q)
        BY <1>8, <2>2 DEF Publish, Careful
      <4>5. pc[q] \notin {"detach", "inspect"}
        <5>1. pc[q] = "detach" => q \in Stops /\ seen[q] = {}
          BY <2>2, SolidIs DEF Typed, Holding, Detaching
        <5> QED BY <4>4, <5>1, RecoverersAre DEF Malformed
      <4>6. pc[q] \notin Adopting
        <5>1. CASE q \in Launchers
          BY <3>1, <5>1 DEF Holding, ParentsReady
        <5>2. CASE q \notin Launchers
          <6>1. InPlace(q)
            BY DEF Control
          <6> QED BY <5>2, <6>1 DEF InPlace, Procs
        <5> QED BY <5>1, <5>2
      <4> QED BY <4>1, <4>2, <4>3, <4>5, <4>6
    <3>7. OwnersWork' /\ WorkersOwn'
      BY <3>2, <3>3, <3>5, <3>6 DEF OwnersWork, WorkersOwn
    <3>8. ParentsReady'
      BY <3>3, <3>6 DEF ParentsReady, Procs
    <3>9. HandedBack'
      <4> SUFFICES ASSUME NEW s \in Starts, NEW l \in Launchers, pc'[s] = "handback", Parent[l] = s PROVE l # p
        BY <3>2 DEF HandedBack
      <4>1. ASSUME l = p PROVE FALSE
        BY <2>0, <4>1, Kinds DEF InPlace, Procs
      <4> QED BY <4>1
    <3>10. OneRecord' /\ ClaimsDecided'
      BY <3>4, <3>5 DEF OneRecord, ClaimsDecided
    <3>11. Written'
      BY <3>3, <3>5 DEF Written
    <3>12. Detaching' /\ Inspecting' /\ Unlinking' /\ GivingBack' /\ Handing'
      BY <3>3, <3>6 DEF Detaching, Inspecting, Unlinking, GivingBack, Handing, Swapping, Procs
    <3>13. SeenDead'
      <4>1. \A q \in Procs : Ended(q) => Ended(q)'
        BY <2>0, <3>6 DEF Ended
      <4>2. ASSUME NEW q \in Procs, pc'[q] \in {"claim", "check"}
            PROVE  seen[q] # {} /\ \A r \in seen[q] : r.pid \in Procs => Ended(r.pid)
        BY <3>3, <3>6, <4>2 DEF Holding, SeenDead
      <4> QED BY <3>2, <4>1, <4>2 DEF SeenDead
    <3> QED BY <3>7, <3>8, <3>9, <3>10, <3>11, <3>12, <3>13 DEF Holding
  <2> QED BY <2>1, <2>2
<1>9. ASSUME NEW p \in Inits \cup Stops, Peek(p) PROVE Holding'
  <2> p \in Procs
    BY DEF Procs
  <2>1. InPlace(p) /\ Undisturbed(p)
    BY <1>9 DEF Undisturbed, Moves, Peek, Goto, Leave, Typed, Ended, Control
  <2>2. Suits(p)
    BY <1>9, <2>1, Kinds DEF Suits, Peek, Goto, Leave, Typed, InPlace, Holding, OwnersWork, WorkersOwn, ClaimsDecided
  <2>3. Warranted(p)
    BY <1>9 DEF Warranted, Peek, Goto, Leave, Typed
  <2> QED BY <2>1, <2>2, <2>3, HoldingMove
<1>10. ASSUME NEW p \in Inits \cup Stops, ReadOwner(p) PROVE Holding'
  <2> p \in Procs
    BY DEF Procs
  <2>1. InPlace(p) /\ Undisturbed(p)
    BY <1>10 DEF Undisturbed, Moves, ReadOwner, Goto, Leave, Typed, Ended, Control
  <2>2. Suits(p)
    BY <1>10, <2>1, Kinds DEF Suits, ReadOwner, Goto, Leave, Typed, InPlace, Holding, OwnersWork, WorkersOwn, ClaimsDecided
  <2>4. \A r \in run.owner : r \in Held
    BY DEF Typed, LockType, Held
  <2>5. ~Live(run.owner) => \A r \in run.owner : r.pid \in Procs => Ended(r.pid)
    BY <2>4 DEF Live, Alive, Ended, Holding, Written
  <2>6. pc'[p] \in {"claim", "inspect", "unguard", "failed"} /\ seen'[p] = run.owner
        /\ (pc'[p] = "claim" => run.owner # {} /\ ~Live(run.owner) /\ \A s \in Starts : ~GivesBack(s))
        /\ (pc'[p] = "inspect" => run.owner = {} /\ \A r \in Procs : ~PuttingBack(r))
    BY <1>10 DEF ReadOwner, Goto, Leave, Typed, Careful
  <2>7. ASSUME pc'[p] = "claim", NEW s \in Starts, pc[s] = "unlink" PROVE FALSE
    <3>1. PICK r \in Held : r.token = s
      BY <2>7 DEF Holding, GivingBack
    <3>2. r \in run.owner
      BY <2>6, <2>7 DEF Held, Holding, OneRecord
    <3> QED BY <2>6, <2>7, <3>1, <3>2 DEF GivesBack
  <2>3. Warranted(p)
    BY <2>5, <2>6, <2>7 DEF Warranted
  <2> QED BY <2>1, <2>2, <2>3, HoldingMove
<1>11. ASSUME NEW p \in Inits \cup Stops, Inspect(p) PROVE Holding'
  <2> p \in Procs
    BY DEF Procs
  <2>1. InPlace(p) /\ Undisturbed(p)
    BY <1>11 DEF Undisturbed, Moves, Inspect, Goto, Leave, Typed, Ended, Control
  <2>2. Suits(p)
    BY <1>11, <2>1, Kinds DEF Suits, Inspect, Goto, Leave, Typed, InPlace, Holding, OwnersWork, WorkersOwn, ClaimsDecided
  <2>4. run.owner = {} /\ p \in Stops /\ seen[p] = {} /\ seen' = seen
    BY <1>11, <2>1, Kinds DEF Inspect, Holding, Inspecting, InPlace
  <2>5. pc'[p] = "detach" => Held = {}
    BY <1>11, <2>4 DEF Inspect, Goto, Leave, Typed, Held
  <2>6. pc'[p] = "detach" => owns' = {}
    BY <1>11, <2>5 DEF Inspect, Holding, OwnersWork
  <2>7. pc'[p] = "detach" => \A s \in Starts : pc[s] # "unlink"
    BY <2>5 DEF Holding, GivingBack
  <2>8. pc'[p] \in {"detach", "failed", "unguard"}
    BY <1>11 DEF Inspect, Goto, Leave, Typed
  <2>3. Warranted(p)
    BY <2>4, <2>5, <2>6, <2>7, <2>8 DEF Warranted
  <2> QED BY <2>1, <2>2, <2>3, HoldingMove
<1>12. ASSUME NEW p \in Inits \cup Stops, Claim(p) PROVE Holding'
  <2> p \in Procs
    BY DEF Procs
  <2>0. pc[p] = "claim" /\ p \notin owns /\ Moves(p) /\ run.claims[p] = {}
    BY <1>12 DEF Claim, Holding, OwnersWork, ClaimsDecided, Moves, Goto, Leave, Typed
  <2>1. CASE UNCHANGED run
    <3>1. Undisturbed(p)
      BY <1>12, <2>0, <2>1 DEF Undisturbed, Claim, Ended
    <3>2. pc'[p] \in {"failed", "unguard", "check"} /\ owns' = owns /\ seen' = seen
      BY <1>12 DEF Claim, Goto, Leave, Typed
    <3>3. Suits(p)
      BY <2>0, <3>2 DEF Suits, Holding, ClaimsDecided
    <3>4. Warranted(p)
      BY <2>0, <3>2 DEF Warranted, Holding, SeenDead
    <3> QED BY <3>1, <3>3, <3>4, HoldingMove
  <2>2. CASE run' # run
    <3>1. /\ run.owner # {} /\ pc'[p] = "check" /\ owns' = owns /\ seen' = seen
          /\ run' = [run EXCEPT !.owner = {}, !.claims[p] = run.owner]
      BY <1>12, <2>2 DEF Claim, Goto, Typed
    <3>2. run \in LockType /\ \A q \in Procs : run.claims[q] = {}
      BY <3>1 DEF Typed, Holding, OneRecord
    <3>3. run'.owner = {} /\ run'.claims[p] = run.owner /\ \A q \in Procs \ {p} : run'.claims[q] = {}
      <4>1. run' = [run EXCEPT !.owner = {}, !.claims[p] = run.owner]
        BY <3>1
      <4>2. run'.owner = {} /\ run'.claims[p] = run.owner /\ \A q \in Procs \ {p} : run'.claims[q] = run.claims[q]
        <5>1. run \in LockType
          BY <3>2
        <5>2. run'.owner = {}
          BY <4>1, <5>1 DEF LockType
        <5>3. run'.claims[p] = run.owner
          BY <4>1, <5>1 DEF LockType
        <5>4. \A q \in Procs \ {p} : run'.claims[q] = run.claims[q]
          BY <4>1, <5>1 DEF LockType
        <5> QED BY <5>2, <5>3, <5>4
      <4> QED BY <3>2, <4>2
    <3>4. Held' = Held
      BY <3>2, <3>3 DEF Held
    <3>5. \A q \in Procs \ {p} : pc'[q] = pc[q]
      BY <2>0 DEF Moves
    <3>6. OwnersWork' /\ WorkersOwn'
      BY <2>0, <3>1, <3>4, <3>5 DEF Holding, OwnersWork, WorkersOwn, Typed
    <3>7. ParentsReady' /\ HandedBack'
      <4>1. \A l \in Launchers : pc'[l] \in Adopting => pc[l] \in Adopting
        BY <3>1, <3>5 DEF Procs
      <4>2. \A s \in Procs : pc'[s] = "handback" => pc[s] = "handback"
        BY <3>1, <3>5
      <4>3. \A s \in Procs : pc[s] = "ready" => pc'[s] = "ready"
        BY <2>0, <3>5
      <4> QED BY <3>1, <4>1, <4>2, <4>3, ParentKind DEF ParentsReady, Holding, HandedBack, Procs
    <3>8. OneRecord' /\ ClaimsDecided'
      BY <3>1, <3>3, <3>4 DEF Holding, OneRecord, ClaimsDecided
    <3>9. Written'
      BY <2>0, <3>1, <3>4, <3>5 DEF Holding, Written
    <3>10. Detaching'
      <4>1. \A q \in Procs \ {p} : pc[q] # "detach"
        <5>1. ASSUME NEW q \in Procs \ {p}, pc[q] = "detach" PROVE FALSE
          <6>1. Held = {}
            BY <3>2, <5>1 DEF Holding, Detaching
          <6>2. \A r \in run.owner : r \in Held
            BY <3>2 DEF Held, LockType
          <6> QED BY <3>1, <6>1, <6>2
        <5> QED BY <5>1
      <4> QED BY <3>1, <3>5, <4>1 DEF Detaching
    <3>11. Inspecting'
      BY <3>1, <3>5 DEF Holding, Inspecting
    <3>12. SeenDead'
      <4>1. \A q \in Procs : Ended(q) => Ended(q)'
        BY <2>0, <3>5 DEF Ended
      <4>2. ASSUME NEW q \in Procs, pc'[q] \in {"claim", "check"}
            PROVE  seen[q] # {} /\ \A r \in seen[q] : r.pid \in Procs => Ended(r.pid)
        BY <2>0, <3>5, <4>2 DEF Holding, SeenDead
      <4> QED BY <3>1, <4>1, <4>2 DEF SeenDead
    <3>13. Unlinking'
      BY <3>1, <3>4, <3>5 DEF Holding, Unlinking
    <3>14. GivingBack'
      <4> SUFFICES ASSUME NEW s \in Starts, pc'[s] = "unlink"
                   PROVE  (\E r \in Held' : r.token = s) /\ \A q \in Procs : Harmless(q)'
        BY DEF GivingBack
      <4>1. pc[s] = "unlink"
        BY <3>1, <3>5 DEF Procs
      <4>2. (\E r \in Held : r.token = s) /\ \A q \in Procs : Harmless(q)
        BY <4>1 DEF Holding, GivingBack
      <4>3. \A q \in Procs \ {p} : Harmless(q)'
        BY <3>1, <3>2, <3>3, <3>4, <3>5, <4>2 DEF Harmless
      <4>4. Held = run.owner
        BY <3>2 DEF Held, LockType
      <4>5. Harmless(p)'
        BY <2>0, <3>1, <3>3, <4>2, <4>4 DEF Harmless
      <4> QED BY <3>4, <4>2, <4>3, <4>5
    <3>15. Handing'
      <4>1. \A l \in Launchers : ~Swapping(l)
        BY <1>12, <3>1 DEF Claim, Careful
      <4> QED BY <3>1, <3>5, <4>1 DEF Handing, Swapping, Procs
    <3> QED BY <3>6, <3>7, <3>8, <3>9, <3>10, <3>11, <3>12, <3>13, <3>14, <3>15 DEF Holding
  <2> QED BY <2>1, <2>2
<1>13. ASSUME NEW p \in Inits \cup Stops, Check(p) PROVE Holding'
  <2> p \in Procs
    BY DEF Procs
  <2>0. pc[p] = "check" /\ p \notin owns /\ Moves(p) /\ owns' = owns /\ seen' = seen /\ run \in LockType
    BY <1>13 DEF Check, Holding, OwnersWork, Moves, Goto, Leave, Typed
  <2>1. CASE run.claims[p] = seen[p]
    <3>1. Undisturbed(p)
      BY <1>13, <2>0, <2>1 DEF Undisturbed, Check, Ended
    <3>2. pc'[p] = "detach"
      BY <1>13, <2>1 DEF Check, Goto, Typed
    <3>3. Suits(p)
      BY <2>0, <3>2 DEF Suits, Holding, ClaimsDecided
    <3>4. PICK r \in seen[p] : r.pid \in Procs => Ended(r.pid)
      BY <2>0 DEF Holding, SeenDead
    <3>5. r \in Held
      BY <2>0, <2>1 DEF Held, LockType
    <3>6. ASSUME NEW o \in owns PROVE FALSE
      <4>1. o \in Procs /\ Record(o) = r
        BY <3>5 DEF Typed, Holding, OwnersWork, OneRecord
      <4>2. Ended(o)
        BY <3>4, <4>1, RecordTyped
      <4> QED BY <4>2 DEF Ended, Holding, OwnersWork
    <3>7. run.claims[p] # {} /\ \A s \in Starts : pc[s] # "unlink"
      BY <2>0, <2>1, <3>4 DEF Holding, GivingBack, Harmless
    <3>8. Warranted(p)
      BY <3>2, <3>6, <3>7, <2>0 DEF Warranted
    <3> QED BY <3>1, <3>3, <3>8, HoldingMove
  <2>2. CASE run.claims[p] # seen[p] /\ run.claims[p] = {}
    <3>1. Undisturbed(p)
      BY <1>13, <2>0, <2>2 DEF Undisturbed, Check, Ended
    <3>2. pc'[p] \in {"failed", "unguard"}
      BY <1>13, <2>2 DEF Check, Leave, Goto, Typed
    <3>3. Suits(p)
      BY <2>0, <2>2, <3>2 DEF Suits
    <3>4. Warranted(p)
      BY <3>2 DEF Warranted
    <3> QED BY <3>1, <3>3, <3>4, HoldingMove
  <2>3. CASE run.claims[p] # seen[p] /\ run.claims[p] # {}
    <3>1. run.owner = {} /\ \A q \in Procs \ {p} : run.claims[q] = {}
      BY <2>3 DEF Holding, OneRecord
    <3>2. pc'[p] \in {"failed", "unguard"} /\ run' = [run EXCEPT !.owner = run.claims[p], !.claims[p] = {}]
      BY <1>13, <2>3, <3>1 DEF Check, Leave, Goto, Typed
    <3>3. run'.owner = run.claims[p] /\ \A q \in Procs : run'.claims[q] = {}
      <4>1. run' = [run EXCEPT !.owner = run.claims[p], !.claims[p] = {}]
        BY <3>2
      <4>2. run'.owner = run.claims[p] /\ run'.claims[p] = {} /\ \A q \in Procs \ {p} : run'.claims[q] = run.claims[q]
        <5>1. run \in LockType
          BY <2>0
        <5>2. run'.owner = run.claims[p]
          BY <4>1, <5>1 DEF LockType
        <5>3. run'.claims[p] = {}
          BY <4>1, <5>1 DEF LockType
        <5>4. \A q \in Procs \ {p} : run'.claims[q] = run.claims[q]
          BY <4>1, <5>1 DEF LockType
        <5> QED BY <5>2, <5>3, <5>4
      <4> QED BY <3>1, <4>2
    <3>4. Held' = Held
      BY <3>1, <3>3 DEF Held
    <3>5. \A q \in Procs \ {p} : pc'[q] = pc[q]
      BY <2>0 DEF Moves
    <3>6. OwnersWork' /\ WorkersOwn'
      BY <2>0, <3>2, <3>4, <3>5 DEF Holding, OwnersWork, WorkersOwn, Typed
    <3>7. ParentsReady' /\ HandedBack'
      <4>1. \A l \in Launchers : pc'[l] \in Adopting => pc[l] \in Adopting
        BY <3>2, <3>5 DEF Procs
      <4>2. \A s \in Procs : pc'[s] = "handback" => pc[s] = "handback"
        BY <3>2, <3>5
      <4>3. \A s \in Procs : pc[s] = "ready" => pc'[s] = "ready"
        BY <2>0, <3>5
      <4> QED BY <2>0, <4>1, <4>2, <4>3, ParentKind DEF ParentsReady, Holding, HandedBack, Procs
    <3>8. OneRecord' /\ ClaimsDecided'
      BY <3>3, <3>4 DEF Holding, OneRecord, ClaimsDecided
    <3>9. Written'
      BY <2>0, <3>2, <3>4, <3>5 DEF Holding, Written
    <3>10. Detaching' /\ Inspecting'
      <4>1. ASSUME NEW q \in Procs \ {p} PROVE pc[q] # "detach"
        <5>1. ASSUME pc[q] = "detach" PROVE FALSE
          <6>1. run.claims[p] = {}
            BY <3>1, <5>1, DetachAlone
          <6> QED BY <2>3, <6>1
        <5> QED BY <5>1
      <4>2. ASSUME NEW q \in Procs \ {p} PROVE pc[q] # "inspect"
        BY <2>0, <2>3 DEF Holding, Inspecting, PuttingBack
      <4> QED BY <3>2, <3>5, <4>1, <4>2 DEF Detaching, Inspecting
    <3>12. SeenDead'
      <4>1. \A q \in Procs : Ended(q) => Ended(q)'
        BY <2>0, <3>5 DEF Ended
      <4>2. ASSUME NEW q \in Procs, pc'[q] \in {"claim", "check"}
            PROVE  seen[q] # {} /\ \A r \in seen[q] : r.pid \in Procs => Ended(r.pid)
        BY <3>2, <3>5, <4>2 DEF Holding, SeenDead
      <4> QED BY <2>0, <4>1, <4>2 DEF SeenDead
    <3>13. Unlinking'
      BY <2>0, <3>2, <3>4, <3>5 DEF Holding, Unlinking
    <3>14. GivingBack'
      <4> SUFFICES ASSUME NEW s \in Starts, pc'[s] = "unlink"
                   PROVE  (\E r \in Held' : r.token = s) /\ \A q \in Procs : Harmless(q)'
        BY DEF GivingBack
      <4>1. pc[s] = "unlink"
        BY <3>2, <3>5 DEF Procs
      <4>2. (\E r \in Held : r.token = s) /\ \A q \in Procs : Harmless(q)
        BY <4>1 DEF Holding, GivingBack
      <4>3. \A q \in Procs \ {p} : Harmless(q)'
        BY <2>0, <3>1, <3>3, <3>4, <3>5, <4>2 DEF Harmless
      <4>4. Harmless(p)'
        BY <3>2 DEF Harmless
      <4> QED BY <3>4, <4>2, <4>3, <4>4
    <3>15. Handing'
      <4>1. \A l \in Launchers : ~Swapping(l)
        BY <3>1 DEF Holding, Handing
      <4> QED BY <3>2, <3>5, <4>1 DEF Handing, Swapping, Procs
    <3> QED BY <3>6, <3>7, <3>8, <3>9, <3>10, <3>12, <3>13, <3>14, <3>15 DEF Holding
  <2> QED BY <2>1, <2>2, <2>3
<1>14. ASSUME NEW p \in Inits \cup Stops, Detach(p) PROVE Holding'
  <2> p \in Procs
    BY DEF Procs
  <2>0. pc[p] = "detach" /\ owns = {} /\ Moves(p) /\ owns' = owns /\ seen' = seen /\ run \in LockType
    BY <1>14 DEF Detach, Holding, Detaching, Moves, Goto, Leave, Typed
  <2>1. CASE ~run.exists
    <3>1. Undisturbed(p)
      BY <1>14, <2>0, <2>1 DEF Undisturbed, Detach, Ended
    <3>2. pc'[p] \in {"failed", "unguard"} /\ run.claims[p] = {}
      BY <1>14, <2>1, SolidIs DEF Detach, Leave, Goto, Typed
    <3>3. Suits(p)
      BY <2>0, <3>2 DEF Suits
    <3>4. Warranted(p)
      BY <3>2 DEF Warranted
    <3> QED BY <3>1, <3>3, <3>4, HoldingMove
  <2>2. CASE run.exists
    <3>1. run' = Missing /\ pc'[p] = "exists"
      BY <1>14, <2>2 DEF Detach, Goto, Typed
    <3>2. run'.owner = {} /\ \A q \in Procs : run'.claims[q] = {}
      BY <3>1, MissingTyped
    <3>3. Held' = {}
      BY <3>2 DEF Held
    <3>4. ASSUME NEW q \in Procs \ {p}
          PROVE pc'[q] = pc[q] /\ pc[q] \notin {"unlink", "detach"}
      BY <2>0, DetachAlone DEF Moves
    <3>5. \A q \in Procs : pc'[q] \notin Working \cup {"unlink", "detach"}
      BY <2>0, <3>1, <3>4 DEF Holding, WorkersOwn
    <3>6. OwnersWork' /\ WorkersOwn' /\ HandedBack' /\ Unlinking' /\ Detaching' /\ GivingBack'
      BY <2>0, <3>5 DEF OwnersWork, WorkersOwn, HandedBack, Unlinking, Detaching, GivingBack, Procs
    <3>9. Inspecting'
      BY <2>0, <3>1, <3>2, <3>4 DEF Holding, Inspecting, PuttingBack
    <3>10. Handing'
      <4>1. \A l \in Launchers : pc'[l] \notin Adopting
        BY <2>0, <3>1, <3>4, AdoptingAlone DEF Procs
      <4> QED BY <4>1 DEF Handing, Swapping
    <3>7. ParentsReady'
      <4>1. \A l \in Launchers : pc'[l] \notin Adopting
        BY <2>0, <3>1, <3>4, AdoptingAlone DEF Procs
      <4> QED BY <4>1 DEF ParentsReady
    <3>8. OneRecord' /\ ClaimsDecided' /\ Written'
      BY <3>2, <3>3 DEF OneRecord, ClaimsDecided, Written
    <3>12. SeenDead'
      <4>1. \A q \in Procs : Ended(q) => Ended(q)'
        BY <2>0, <3>4 DEF Ended
      <4>2. ASSUME NEW q \in Procs, pc'[q] \in {"claim", "check"}
            PROVE  seen[q] # {} /\ \A r \in seen[q] : r.pid \in Procs => Ended(r.pid)
        BY <3>1, <3>4, <4>2 DEF Holding, SeenDead
      <4> QED BY <2>0, <4>1, <4>2 DEF SeenDead
    <3> QED BY <3>6, <3>7, <3>8, <3>9, <3>10, <3>12 DEF Holding
  <2> QED BY <2>1, <2>2
<1>15. ASSUME NEW p \in Starts, Project(p) PROVE Holding'
  <2> p \in Procs
    BY DEF Procs
  <2>1. InPlace(p) /\ Undisturbed(p)
    BY <1>15 DEF Undisturbed, Moves, Project, Goto, Leave, Typed, Ended, Control
  <2>2. Suits(p)
    BY <1>15, <2>1, Kinds DEF Suits, Project, Goto, Leave, Typed, InPlace, Holding, OwnersWork, WorkersOwn, ClaimsDecided
  <2>3. Warranted(p)
    BY <1>15 DEF Warranted, Project, Goto, Leave, Typed
  <2> QED BY <2>1, <2>2, <2>3, HoldingMove
<1>16. ASSUME NEW p \in Starts, Spawn(p) PROVE Holding'
  <2> p \in Procs
    BY DEF Procs
  <2>0. pc[p] = "spawn" /\ p \in owns /\ run' = run /\ owns' = owns /\ seen' = seen
    BY <1>16 DEF Spawn, Holding, WorkersOwn
  <2>1. CASE Goto(p, "release")
    <3>1. Undisturbed(p)
      BY <2>0, <2>1 DEF Undisturbed, Moves, Goto, Typed, Ended
    <3>2. pc'[p] = "release"
      BY <2>1 DEF Goto, Typed
    <3>3. Suits(p)
      BY <2>0, <3>2 DEF Suits, Holding, ClaimsDecided
    <3>4. Warranted(p)
      BY <3>2 DEF Warranted
    <3> QED BY <3>1, <3>3, <3>4, HoldingMove
  <2>2. ASSUME NEW l \in Launchers, Parent[l] = p, pc[l] = "idle", pc' = [pc EXCEPT ![p] = "ready", ![l] = "adopt"]
        PROVE  Holding'
    <3>1. l \in Procs /\ l # p /\ l \notin owns
      BY <2>0, <2>2 DEF Procs, Holding, OwnersWork
    <3>2. /\ pc'[p] = "ready" /\ pc'[l] = "adopt"
          /\ \A q \in Procs \ {p, l} : pc'[q] = pc[q]
      BY <2>2, <3>1 DEF Typed
    <3>3. Held' = Held
      BY <2>0 DEF Held
    <3>4. OwnersWork' /\ WorkersOwn'
      BY <2>0, <3>1, <3>2, <3>3 DEF Holding, OwnersWork, WorkersOwn, Typed
    <3>5. ParentsReady'
      <4> SUFFICES ASSUME NEW m \in Launchers, pc'[m] \in Adopting
                   PROVE  pc'[Parent[m]] = "ready" /\ Parent[m] \in owns
        BY <2>0 DEF ParentsReady
      <4>1. CASE m = l
        BY <2>0, <2>2, <3>2, <4>1
      <4>2. CASE m # l
        <5>1. m # p /\ m \in Procs
          BY <3>2 DEF Procs
        <5>2. pc[m] \in Adopting
          BY <3>2, <4>2, <5>1
        <5>3. pc[Parent[m]] = "ready" /\ Parent[m] \in owns
          BY <5>2 DEF Holding, ParentsReady
        <5> QED BY <2>0, <2>2, <3>2, <5>3 DEF Typed
      <4> QED BY <4>1, <4>2
    <3>6. HandedBack'
      BY <2>0, <3>2 DEF Holding, HandedBack, Procs
    <3>7. OneRecord'
      BY <2>0, <3>3 DEF Holding, OneRecord
    <3>8. ClaimsDecided'
      BY <2>0, <2>2, <3>2 DEF Holding, ClaimsDecided
    <3>9. Written'
      BY <2>0, <2>2, <3>2, <3>3 DEF Holding, Written
    <3>10. Detaching' /\ Inspecting' /\ Unlinking'
      BY <2>0, <3>2, <3>3 DEF Holding, Detaching, Inspecting, Unlinking, PuttingBack
    <3>12. GivingBack' /\ Handing'
      BY <2>0, <3>1, <3>2, <3>3 DEF Holding, GivingBack, Harmless, Handing, Swapping, Procs
    <3>11. SeenDead'
      <4>1. \A q \in Procs : Ended(q) => Ended(q)'
        BY <2>0, <2>2, <3>2 DEF Ended
      <4>2. ASSUME NEW q \in Procs, pc'[q] \in {"claim", "check"}
            PROVE  seen[q] # {} /\ \A r \in seen[q] : r.pid \in Procs => Ended(r.pid)
        BY <3>2, <4>2 DEF Holding, SeenDead
      <4> QED BY <2>0, <4>1, <4>2 DEF SeenDead
    <3> QED BY <3>4, <3>5, <3>6, <3>7, <3>8, <3>9, <3>10, <3>11, <3>12 DEF Holding
  <2> QED BY <1>16, <2>1, <2>2 DEF Spawn
<1>17. ASSUME NEW p \in Starts, Ready(p) PROVE Holding'
  <2> p \in Procs
    BY DEF Procs
  <2>0. pc[p] = "ready" /\ run' = run /\ seen' = seen
    BY <1>17 DEF Ready
  <2>1. PICK l \in Launchers :
          /\ Parent[l] = p
          /\ \/ pc[l] = "serve" /\ Goto(p, "unguard") /\ UNCHANGED owns
             \/ /\ pc' = [pc EXCEPT ![p] = "handback", ![l] = IF Alive(l) THEN "dead" ELSE @]
                /\ owns' = owns \ {l}
    BY <1>17 DEF Ready
  <2>2. l \in Procs /\ l # p /\ \A m \in Launchers : Parent[m] = p => m = l
    BY <2>1, Kinds, ParentKind DEF Procs
  <2>3. CASE pc[l] = "serve" /\ Goto(p, "unguard") /\ UNCHANGED owns
    <3>1. Undisturbed(p)
      BY <2>0, <2>3 DEF Undisturbed, Moves, Goto, Typed, Ended
    <3>2. pc'[p] = "unguard"
      BY <2>3 DEF Goto, Typed
    <3>3. l \in owns
      BY <2>2, <2>3 DEF Holding, WorkersOwn
    <3>4. p \notin owns'
      BY <2>2, <2>3, <3>3, OneOwner
    <3>5. Suits(p)
      BY <2>0, <2>2, <2>3, <3>2, <3>4 DEF Suits, Holding, ClaimsDecided
    <3>6. Warranted(p)
      BY <3>2 DEF Warranted
    <3> QED BY <3>1, <3>5, <3>6, HoldingMove
  <2>4. CASE /\ pc' = [pc EXCEPT ![p] = "handback", ![l] = IF Alive(l) THEN "dead" ELSE @]
             /\ owns' = owns \ {l}
    <3>1. /\ pc'[p] = "handback" /\ pc'[l] \in {"idle", "done", "failed", "dead"} /\ (pc'[l] = "idle" => pc[l] = "idle")
          /\ \A q \in Procs \ {p, l} : pc'[q] = pc[q]
      BY <2>2, <2>4 DEF Typed, Alive
    <3>2. Held' = Held
      BY <2>0 DEF Held
    <3>3. InPlace(l) /\ l \notin Inits \cup Stops \cup Starts
      BY <2>2, Kinds DEF Control
    <3>4. OwnersWork' /\ WorkersOwn'
      BY <2>0, <2>4, <3>1, <3>2 DEF Holding, OwnersWork, WorkersOwn, Typed
    <3>5. ParentsReady'
      <4> SUFFICES ASSUME NEW m \in Launchers, pc'[m] \in Adopting
                   PROVE  pc'[Parent[m]] = "ready" /\ Parent[m] \in owns'
        BY DEF ParentsReady
      <4>1. m # l /\ m # p /\ m \in Procs
        BY <3>1 DEF Procs
      <4>2. pc[m] \in Adopting
        BY <3>1, <4>1
      <4>3. pc[Parent[m]] = "ready" /\ Parent[m] \in owns /\ Parent[m] # p
        BY <2>2, <4>1, <4>2 DEF Holding, ParentsReady
      <4>4. Parent[m] # l
        BY <3>3, <4>3 DEF InPlace
      <4> QED BY <2>4, <3>1, <4>3, <4>4, ParentKind
    <3>6. HandedBack'
      <4> SUFFICES ASSUME NEW s \in Starts, NEW m \in Launchers, pc'[s] = "handback", Parent[m] = s
                   PROVE  m \notin owns'
        BY DEF HandedBack
      <4>1. CASE s = p
        BY <2>2, <2>4, <4>1
      <4>2. CASE s # p
        BY <2>4, <3>1, <3>3, <4>2 DEF Holding, HandedBack, Procs
      <4> QED BY <4>1, <4>2
    <3>7. OneRecord'
      BY <2>0, <3>2 DEF Holding, OneRecord
    <3>8. ClaimsDecided'
      BY <2>0, <3>1, <3>3 DEF Holding, ClaimsDecided, InPlace
    <3>9. Written'
      BY <2>0, <3>1, <3>2 DEF Holding, Written
    <3>10. Detaching' /\ Inspecting' /\ Unlinking'
      BY <2>0, <2>4, <3>1, <3>2 DEF Holding, Detaching, Inspecting, Unlinking, PuttingBack
    <3>12. GivingBack' /\ Handing'
      BY <2>0, <3>1, <3>2 DEF Holding, GivingBack, Harmless, Handing, Swapping, Procs
    <3>11. SeenDead'
      <4>1. \A q \in Procs : Ended(q) => Ended(q)'
        BY <2>0, <2>4, <2>2, <3>1 DEF Ended, Alive, Typed
      <4>2. ASSUME NEW q \in Procs, pc'[q] \in {"claim", "check"}
            PROVE  seen[q] # {} /\ \A r \in seen[q] : r.pid \in Procs => Ended(r.pid)
        BY <3>1, <4>2 DEF Holding, SeenDead
      <4> QED BY <2>0, <4>1, <4>2 DEF SeenDead
    <3> QED BY <3>4, <3>5, <3>6, <3>7, <3>8, <3>9, <3>10, <3>11, <3>12 DEF Holding
  <2> QED BY <2>1, <2>3, <2>4
<1>18. ASSUME NEW p \in Starts, HandBack(p) PROVE Holding'
  <2> p \in Procs
    BY DEF Procs
  <2>1. InPlace(p) /\ Undisturbed(p)
    BY <1>18 DEF Undisturbed, Moves, HandBack, Goto, Leave, Typed, Ended, Control
  <2>2. Suits(p)
    BY <1>18, <2>1, Kinds DEF Suits, HandBack, Goto, Leave, Typed, InPlace, Holding, OwnersWork, WorkersOwn, ClaimsDecided
  <2>4. ASSUME NEW r \in run.owner, r.token = p
        PROVE  r \in Held /\ owns \subseteq {p}
    <3>1. r \in Held
      BY DEF Held, Typed, LockType
    <3>2. ASSUME NEW o \in owns PROVE o = p
      <4>1. o \in Procs /\ Record(o) = r
        BY <3>1 DEF Typed, Holding, OwnersWork, OneRecord
      <4>2. Token(o) = p
        BY <2>4, <4>1, RecordTyped
      <4>3. ~(o \in Launchers /\ Parent[o] = p)
        BY <1>18 DEF HandBack, Holding, HandedBack
      <4> QED BY <4>2, <4>3 DEF Token
    <3> QED BY <3>1, <3>2
  <2>5. pc'[p] \in {"unlink", "unguard"} /\ (pc'[p] = "unlink" => owns' = owns /\ \E r \in run.owner : r.token = p)
    BY <1>18 DEF HandBack, Goto, Typed
  <2>6. ASSUME NEW q \in Procs, pc'[p] = "unlink" PROVE Harmless(q)
    <3>1. run.owner # {} /\ \A o \in Procs : run.claims[o] = {}
      BY <2>5, <2>6 DEF Holding, OneRecord
    <3>2. Held = run.owner
      BY <3>1 DEF Held, Typed, LockType
    <3>3. ~Claiming(q)
      BY <1>18 DEF HandBack, Careful
    <3> QED BY <3>1, <3>2, <3>3 DEF Harmless, Claiming, Holding, Detaching, SeenDead
  <2>3. Warranted(p)
    BY <2>4, <2>5, <2>6 DEF Warranted
  <2> QED BY <2>1, <2>2, <2>3, HoldingMove
<1>19. ASSUME NEW p \in Launchers, Adopt(p) PROVE Holding'
  <2> p \in Procs
    BY DEF Procs
  <2>1. InPlace(p) /\ Undisturbed(p)
    BY <1>19 DEF Undisturbed, Moves, Adopt, Goto, Leave, Typed, Ended, Control
  <2>2. Suits(p)
    BY <1>19, <2>1, Kinds DEF Suits, Adopt, Goto, Leave, Typed, InPlace, Holding, OwnersWork, WorkersOwn, ClaimsDecided
  <2>3. Warranted(p)
    BY <1>19 DEF Warranted, Adopt, Goto, Leave, Typed
  <2> QED BY <2>1, <2>2, <2>3, HoldingMove
<1>20. ASSUME NEW p \in Launchers, WriteRecord(p) PROVE Holding'
  <2> p \in Procs
    BY DEF Procs
  <2>0. /\ run'.owner = run.owner /\ \A q \in Procs : run'.claims[q] = run.claims[q]
    <3>1. run \in LockType
      BY DEF Typed
    <3>2. CASE run' = [run EXCEPT !.other = @ \cup {p}]
      BY <3>1, <3>2, WrittenTyped
    <3> QED BY <1>20, <3>2 DEF WriteRecord
  <2>1. InPlace(p) /\ Undisturbed(p)
    BY <1>20, <2>0 DEF Undisturbed, Moves, WriteRecord, Goto, Leave, Typed, Ended, Control
  <2>2. Suits(p)
    BY <1>20, <2>1, Kinds DEF Suits, WriteRecord, Goto, Leave, Typed, InPlace, Holding, OwnersWork, WorkersOwn, ClaimsDecided
  <2>3. Warranted(p)
    BY <1>20 DEF Warranted, WriteRecord, Goto, Leave, Typed, Holding, Handing, Swapping
  <2> QED BY <2>1, <2>2, <2>3, HoldingMove
<1>21. ASSUME NEW p \in Launchers, Swap(p) PROVE Holding'
  <2> p \in Procs
    BY DEF Procs
  <2>0. pc[p] = "swap" /\ p \notin owns /\ Moves(p) /\ seen' = seen /\ run \in LockType
    BY <1>21 DEF Swap, Holding, OwnersWork, Moves, Goto, Typed
  <2>1. CASE p \notin run.other
    <3>1. Undisturbed(p)
      BY <1>21, <2>0, <2>1 DEF Undisturbed, Swap, Ended
    <3>2. pc'[p] = "failed" /\ owns' = owns
      BY <1>21, <2>1 DEF Swap, Goto, Typed
    <3>3. Suits(p)
      BY <2>0, <3>2 DEF Suits, Holding, ClaimsDecided
    <3>4. Warranted(p)
      BY <3>2 DEF Warranted
    <3> QED BY <3>1, <3>3, <3>4, HoldingMove
  <2>2. CASE p \in run.other
    <3> DEFINE s == Parent[p]
    <3>1. /\ s \in Starts /\ s \in owns /\ pc[s] = "ready"
          /\ \A q \in Procs : pc[q] \notin {"inspect", "detach"}
          /\ \A q \in Procs : run.claims[q] = {}
      BY <2>0, AdoptingAlone DEF Holding, Handing, Swapping, OneRecord
    <3>2. pc'[p] = "begin" /\ owns' = (owns \ {s}) \cup {p} /\ run' = [run EXCEPT !.owner = {Record(p)}, !.other = @ \ {p}]
      BY <1>21, <2>2 DEF Swap, Goto, Typed
    <3>3. owns = {s} /\ owns' = {p} /\ s # p
      BY <3>1, <3>2, OneOwner, Kinds
    <3>4. run'.owner = {Record(p)} /\ \A q \in Procs : run'.claims[q] = {}
      <4>1. run' = [run EXCEPT !.owner = {Record(p)}, !.other = @ \ {p}]
        BY <3>2
      <4>2. run'.owner = {Record(p)} /\ \A q \in Procs : run'.claims[q] = run.claims[q]
        <5>1. run \in LockType
          BY <2>0
        <5>2. run'.owner = {Record(p)}
          BY <4>1, <5>1 DEF LockType
        <5>3. \A q \in Procs : run'.claims[q] = run.claims[q]
          BY <4>1, <5>1 DEF LockType
        <5> QED BY <5>2, <5>3
      <4> QED BY <3>1, <4>2
    <3>5. Held' = {Record(p)} /\ Record(p) \in Records /\ Record(p).pid = p
      BY <3>4, RecordTyped DEF Held
    <3>6. ASSUME NEW q \in Procs \ {p}
          PROVE  /\ pc'[q] = pc[q]
                 /\ pc[q] \notin Working \cup {"unlink", "inspect", "detach"}
      BY <2>0, <3>1, <3>3 DEF Moves, Holding, WorkersOwn, Unlinking
    <3>7. p \notin Starts
      BY Kinds
    <3>8. OwnersWork' /\ WorkersOwn'
      BY <3>2, <3>3, <3>5, <3>6, <3>7 DEF OwnersWork, WorkersOwn
    <3>9. ParentsReady'
      <4>1. ASSUME NEW m \in Launchers, pc'[m] \in Adopting PROVE FALSE
        <5>1. m # p /\ m \in Procs
          BY <3>2, <4>1 DEF Procs
        <5>2. pc[m] \in Adopting
          BY <3>6, <4>1, <5>1
        <5>3. Parent[m] = s
          BY <3>3, <5>2 DEF Holding, ParentsReady
        <5> QED BY <5>1, <5>3, ParentKind
      <4> QED BY <4>1 DEF ParentsReady
    <3>10. HandedBack'
      <4> SUFFICES ASSUME NEW t \in Starts, NEW l \in Launchers, pc'[t] = "handback", Parent[l] = t
                   PROVE  l # p
        BY <3>3 DEF HandedBack
      <4>1. t # s
        BY <3>1, <3>3, <3>6 DEF Procs
      <4> QED BY <4>1
    <3>11. OneRecord' /\ ClaimsDecided' /\ Written'
      BY <3>2, <3>4, <3>5 DEF OneRecord, ClaimsDecided, Written
    <3>12. Detaching' /\ Inspecting' /\ Unlinking' /\ GivingBack'
      BY <3>2, <3>6 DEF Detaching, Inspecting, Unlinking, GivingBack, Procs
    <3>13. SeenDead'
      <4>1. \A q \in Procs : Ended(q) => Ended(q)'
        BY <2>0, <3>6 DEF Ended
      <4>2. ASSUME NEW q \in Procs, pc'[q] \in {"claim", "check"}
            PROVE  seen[q] # {} /\ \A r \in seen[q] : r.pid \in Procs => Ended(r.pid)
        BY <3>2, <3>6, <4>2 DEF Holding, SeenDead
      <4> QED BY <2>0, <4>1, <4>2 DEF SeenDead
    <3>14. Handing'
      <4>1. \A m \in Launchers : pc'[m] \notin Adopting
        <5>1. ASSUME NEW m \in Launchers, pc'[m] \in Adopting PROVE FALSE
          <6>1. m # p /\ m \in Procs /\ pc[m] \in Adopting
            BY <3>2, <3>6, <5>1 DEF Procs
          <6>2. Parent[m] = s
            BY <3>3, <6>1 DEF Holding, ParentsReady
          <6> QED BY <6>1, <6>2, ParentKind
        <5> QED BY <5>1
      <4> QED BY <4>1 DEF Handing, Swapping
    <3> QED BY <3>8, <3>9, <3>10, <3>11, <3>12, <3>13, <3>14 DEF Holding
  <2> QED BY <2>1, <2>2
<1>22. ASSUME NEW p \in Launchers, WriteState(p) PROVE Holding'
  <2> p \in Procs
    BY DEF Procs
  <2>1. InPlace(p) /\ Undisturbed(p)
    BY <1>22 DEF Undisturbed, Moves, WriteState, Goto, Leave, Typed, Ended, Control
  <2>2. Suits(p)
    BY <1>22, <2>1, Kinds DEF Suits, WriteState, Goto, Leave, Typed, InPlace, Holding, OwnersWork, WorkersOwn, ClaimsDecided
  <2>3. Warranted(p)
    BY <1>22 DEF Warranted, WriteState, Goto, Leave, Typed
  <2> QED BY <2>1, <2>2, <2>3, HoldingMove
<1>23. ASSUME NEW p \in Launchers, Abandon(p) PROVE Holding'
  <2> p \in Procs
    BY DEF Procs
  <2>1. InPlace(p) /\ Undisturbed(p)
    BY <1>23 DEF Undisturbed, Moves, Abandon, Goto, Leave, Typed, Ended, Control
  <2>2. Suits(p)
    BY <1>23, <2>1, Kinds DEF Suits, Abandon, Goto, Leave, Typed, InPlace, Holding, OwnersWork, WorkersOwn, ClaimsDecided
  <2>3. Warranted(p)
    BY <1>23 DEF Warranted, Abandon, Goto, Leave, Typed
  <2> QED BY <2>1, <2>2, <2>3, HoldingMove
<1>24. ASSUME NEW p \in Launchers, Serve(p) PROVE Holding'
  <2> p \in Procs
    BY DEF Procs
  <2>1. InPlace(p) /\ Undisturbed(p)
    BY <1>24 DEF Undisturbed, Moves, Serve, Goto, Leave, Typed, Ended, Control
  <2>2. Suits(p)
    BY <1>24, <2>1, Kinds DEF Suits, Serve, Goto, Leave, Typed, InPlace, Holding, OwnersWork, WorkersOwn, ClaimsDecided
  <2>3. Warranted(p)
    BY <1>24 DEF Warranted, Serve, Goto, Leave, Typed
  <2> QED BY <2>1, <2>2, <2>3, HoldingMove
<1>25. ASSUME NEW p \in Launchers, Shutdown(p) PROVE Holding'
  <2> p \in Procs
    BY DEF Procs
  <2>1. InPlace(p) /\ Undisturbed(p)
    BY <1>25 DEF Undisturbed, Moves, Shutdown, Goto, Leave, Typed, Ended, Control
  <2>2. Suits(p)
    BY <1>25, <2>1, Kinds DEF Suits, Shutdown, Goto, Leave, Typed, InPlace, Holding, OwnersWork, WorkersOwn, ClaimsDecided
  <2>3. Warranted(p)
    BY <1>25 DEF Warranted, Shutdown, Goto, Leave, Typed
  <2> QED BY <2>1, <2>2, <2>3, HoldingMove
<1>26. ASSUME NEW p \in Launchers, Retain(p) PROVE Holding'
  <2> p \in Procs
    BY DEF Procs
  <2>1. InPlace(p) /\ Undisturbed(p)
    BY <1>26 DEF Undisturbed, Moves, Retain, Goto, Leave, Typed, Ended, Control
  <2>2. Suits(p)
    BY <1>26, <2>1, Kinds DEF Suits, Retain, Goto, Leave, Typed, InPlace, Holding, OwnersWork, WorkersOwn, ClaimsDecided
  <2>3. Warranted(p)
    BY <1>26 DEF Warranted, Retain, Goto, Leave, Typed
  <2> QED BY <2>1, <2>2, <2>3, HoldingMove
<1>27. ASSUME NEW p \in Inits, Configure(p) PROVE Holding'
  <2> p \in Procs
    BY DEF Procs
  <2>1. InPlace(p) /\ Undisturbed(p)
    BY <1>27 DEF Undisturbed, Moves, Configure, Goto, Leave, Typed, Ended, Control
  <2>2. Suits(p)
    BY <1>27, <2>1, Kinds DEF Suits, Configure, Goto, Leave, Typed, InPlace, Holding, OwnersWork, WorkersOwn, ClaimsDecided
  <2>3. Warranted(p)
    BY <1>27 DEF Warranted, Configure, Goto, Leave, Typed
  <2> QED BY <2>1, <2>2, <2>3, HoldingMove
<1>28. ASSUME NEW p \in Stops, RemoveState(p) PROVE Holding'
  <2> p \in Procs
    BY DEF Procs
  <2>1. InPlace(p) /\ Undisturbed(p)
    BY <1>28 DEF Undisturbed, Moves, RemoveState, Goto, Leave, Typed, Ended, Control
  <2>2. Suits(p)
    BY <1>28, <2>1, Kinds DEF Suits, RemoveState, Goto, Leave, Typed, InPlace, Holding, OwnersWork, WorkersOwn, ClaimsDecided
  <2>3. Warranted(p)
    BY <1>28 DEF Warranted, RemoveState, Goto, Leave, Typed
  <2> QED BY <2>1, <2>2, <2>3, HoldingMove
<1>29. ASSUME NEW p \in Procs, Release(p) PROVE Holding'
  <2> p \in Procs
    BY DEF Procs
  <2>1. InPlace(p) /\ Undisturbed(p)
    BY <1>29 DEF Undisturbed, Moves, Release, Goto, Leave, Typed, Ended, Control
  <2>2. Suits(p)
    BY <1>29, <2>1, Kinds DEF Suits, Release, Goto, Leave, Typed, InPlace, Holding, OwnersWork, WorkersOwn, ClaimsDecided
  <2>4. p \in owns
    BY <1>29 DEF Release, Holding, WorkersOwn
  <2>5. Held # {} /\ owns \subseteq {p}
    BY <2>4, OneOwner DEF Holding, OwnersWork
  <2>6. ASSUME p \in Starts, pc'[p] = "unlink"
        PROVE  (\E r \in Held : r.token = p) /\ \A q \in Procs : Harmless(q)
    <3>1. run.owner = {Record(p)} /\ pc[p] = "release"
      BY <1>29, <2>6 DEF Release, Leave, Goto, Typed
    <3>2. \A o \in Procs : run.claims[o] = {}
      BY <3>1 DEF Holding, OneRecord
    <3>3. Held = {Record(p)} /\ Record(p).token = p /\ Record(p).pid = p
      BY <2>6, <3>1, <3>2, RecordTyped, Kinds DEF Held, Record, Token
    <3>4. ASSUME NEW q \in Procs PROVE Harmless(q)
      <4>1. ~Ended(p)
        BY <3>1 DEF Ended
      <4> QED BY <2>4, <3>2, <3>3, <4>1 DEF Harmless, Holding, Detaching, SeenDead
    <3> QED BY <3>3, <3>4
  <2>7. pc'[p] \in {"unlink", "unguard", "done"}
    BY <1>29 DEF Release, Leave, Goto, Typed
  <2>3. Warranted(p)
    BY <1>29, <2>5, <2>6, <2>7 DEF Release, Warranted
  <2> QED BY <2>1, <2>2, <2>3, HoldingMove
<1>30. ASSUME NEW p \in Procs, Unlink(p) PROVE Holding'
  <2> p \in Procs
    BY DEF Procs
  <2>0. pc[p] = "unlink" /\ owns' = {} /\ Moves(p) /\ seen' = seen /\ pc'[p] = "rmdir" /\ run' \in {Empty, Missing}
    BY <1>30 DEF Unlink, Holding, Unlinking, Moves, Goto, Typed
  <2>1. run'.owner = {} /\ \A q \in Procs : run'.claims[q] = {}
    BY <2>0, EmptyTyped, MissingTyped
  <2>2. Held' = {}
    BY <2>1 DEF Held
  <2>3. Held # {} /\ owns \subseteq {p}
    BY <2>0 DEF Holding, Unlinking
  <2>4. ASSUME NEW q \in Procs \ {p} PROVE pc'[q] = pc[q] /\ pc[q] \notin Working \cup {"unlink", "detach"}
    <3>1. pc'[q] = pc[q]
      BY <2>0 DEF Moves
    <3>2. pc[q] \notin Working
      BY <2>3 DEF Holding, WorkersOwn
    <3>3. pc[q] # "detach"
      BY <2>0, DetachAlone
    <3>4. ASSUME pc[q] = "unlink" PROVE FALSE
      <4>1. p \in Starts /\ q \in Starts
        BY <2>0, <2>3, <3>4 DEF Holding, WorkersOwn, Unlinking
      <4> QED BY <2>0, <3>4, <4>1, GuardAlone, Guarded
    <3> QED BY <3>1, <3>2, <3>3, <3>4
  <2>5. OwnersWork' /\ WorkersOwn' /\ HandedBack' /\ Unlinking' /\ Detaching' /\ GivingBack'
    BY <2>0, <2>1, <2>4 DEF OwnersWork, WorkersOwn, HandedBack, Unlinking, Detaching, GivingBack, Procs
  <2>9. Inspecting'
    BY <2>0, <2>1, <2>4 DEF Holding, Inspecting, PuttingBack
  <2>10. Handing'
    <3>1. ASSUME NEW l \in Launchers, pc[l] \in Adopting PROVE FALSE
      BY <2>0, <2>3, <3>1 DEF Holding, ParentsReady
    <3> QED BY <2>0, <2>4, <3>1 DEF Handing, Swapping, Procs
  <2>6. ParentsReady'
    <3>1. ASSUME NEW l \in Launchers, pc[l] \in Adopting PROVE FALSE
      BY <2>0, <2>3, <3>1 DEF Holding, ParentsReady
    <3> QED BY <2>0, <2>4, <3>1 DEF ParentsReady, Procs
  <2>7. OneRecord' /\ ClaimsDecided' /\ Written'
    BY <2>1, <2>2 DEF OneRecord, ClaimsDecided, Written
  <2>8. SeenDead'
    <3>1. \A q \in Procs : Ended(q) => Ended(q)'
      BY <2>0, <2>4 DEF Ended
    <3>2. ASSUME NEW q \in Procs, pc'[q] \in {"claim", "check"}
          PROVE  seen[q] # {} /\ \A r \in seen[q] : r.pid \in Procs => Ended(r.pid)
      BY <2>0, <2>4, <3>2 DEF Holding, SeenDead
    <3> QED BY <2>0, <3>1, <3>2 DEF SeenDead
  <2> QED BY <2>5, <2>6, <2>7, <2>8, <2>9, <2>10 DEF Holding
<1>31. ASSUME NEW p \in Procs, Rmdir(p) PROVE Holding'
  <2> p \in Procs
    BY DEF Procs
  <2>0. /\ run'.owner = run.owner /\ \A q \in Procs : run'.claims[q] = run.claims[q]
    <3>1. CASE ~Solid(run)
      BY <1>31, <3>1, SolidIs, MissingTyped DEF Rmdir, Typed
    <3> QED BY <1>31, <3>1 DEF Rmdir
  <2>1. InPlace(p) /\ Undisturbed(p)
    BY <1>31, <2>0 DEF Undisturbed, Moves, Rmdir, Goto, Leave, Typed, Ended, Control
  <2>2. Suits(p)
    BY <1>31, <2>1, Kinds DEF Suits, Rmdir, Goto, Leave, Typed, InPlace, Holding, OwnersWork, WorkersOwn, ClaimsDecided
  <2>3. Warranted(p)
    BY <1>31 DEF Warranted, Rmdir, Goto, Leave, Typed
  <2> QED BY <2>1, <2>2, <2>3, HoldingMove
<1>32. ASSUME NEW p \in Procs, Crash(p) PROVE Holding'
  <2> p \in Procs
    BY DEF Procs
  <2>1. InPlace(p) /\ Undisturbed(p)
    BY <1>32 DEF Undisturbed, Moves, Crash, Goto, Typed, Ended, Control, Alive
  <2>4. pc'[p] = "dead" /\ p \notin owns' /\ pc[p] \notin {"check", "detach"}
    BY <1>32 DEF Crash, Goto, Typed, Careful
  <2>5. \A l \in Launchers : Parent[l] = p => pc[l] \notin Adopting
    BY <1>32 DEF Crash, Careful
  <2>2. Suits(p)
    BY <2>4, <2>5 DEF Suits, Holding, ClaimsDecided
  <2>3. Warranted(p)
    BY <2>4 DEF Warranted
  <2> QED BY <2>1, <2>2, <2>3, HoldingMove
<1> QED BY <1>1, <1>2, <1>3, <1>4, <1>5, <1>6, <1>7, <1>8, <1>9, <1>10, <1>11, <1>12, <1>13, <1>14, <1>15, <1>16, <1>17, <1>18, <1>19, <1>20, <1>21, <1>22, <1>23, <1>24, <1>25, <1>26, <1>27, <1>28, <1>29, <1>30, <1>31, <1>32, StepIs

-----------------------------------------------------------------------------
(* The lock is a lease *)

LockInv == Typed /\ Control /\ Holding

LEMMA LockInit == Init => LockInv
<1> SUFFICES ASSUME Init PROVE LockInv
  OBVIOUS
<1>1. PICK there \in BOOLEAN, owner \in SUBSET {Legacy}, other \in SUBSET {Ghost} :
        run = Directory(there, owner, other)
  BY Constants DEF Init
<1>2. owner \in SUBSET Records /\ other \in SUBSET (Launchers \cup {Ghost})
  BY LegacyTyped
<1>3. run.owner = owner /\ \A q \in Procs : run.claims[q] = {}
  BY <1>1 DEF Directory, NoClaims
<1>4. /\ \A p \in Procs : pc[p] = "idle"
      /\ guard = {} /\ owns = {}
  BY DEF Init
<1>5. \A r \in Held : r = Legacy
  BY <1>3 DEF Held
<1>6. Control
  BY <1>4 DEF Control, InPlace, Guarding, GivingUp, Waiting, Acquiring, Adopting,
              StartSteps, LaunchSteps, InitSteps, StopSteps
<1>7. OwnersWork /\ WorkersOwn /\ HandedBack
  BY <1>4 DEF OwnersWork, WorkersOwn, HandedBack, Working, Procs
<1>8. ParentsReady
  BY <1>4 DEF ParentsReady, Adopting, Procs
<1>9. OneRecord /\ ClaimsDecided
  BY <1>3, <1>5 DEF OneRecord, ClaimsDecided
<1>10. Written
  BY <1>5, LegacyTyped, Constants DEF Written
<1>11. Detaching /\ Inspecting /\ SeenDead /\ Unlinking /\ GivingBack /\ Handing
  BY <1>4 DEF Detaching, Inspecting, SeenDead, Unlinking, GivingBack, Handing, Swapping, Procs
<1> QED BY <1>6, <1>7, <1>8, <1>9, <1>10, <1>11, TypeInit DEF LockInv, Holding

LEMMA LockStep == ASSUME Careful, LockInv, [Next]_vars PROVE LockInv'
<1>1. Typed'
  BY TypeKept DEF LockInv
<1> QED BY <1>1, ControlKept, HoldingKept DEF LockInv, Holding

LEMMA LockHolds == Careful /\ Spec => []LockInv
<1> SUFFICES ASSUME Careful PROVE Spec => []LockInv
  OBVIOUS
<1>1. LockInv /\ [Next]_vars => LockInv'
  BY LockStep
<1> QED BY <1>1, LockInit, PTL DEF Spec

\* The record of a transaction under way is in run.lock or in a claim that is
\* put back, so nobody takes it for a dead owner's (startlock.ts:213), with inits
\* beside starts and stops.
THEOREM OwnersRecorded == Careful /\ Spec => []OwnerKept
<1> SUFFICES ASSUME Careful PROVE Spec => []OwnerKept
  OBVIOUS
<1>1. LockInv => OwnerKept
  <2> SUFFICES ASSUME LockInv, NEW p \in owns
               PROVE  \E r \in run.owner \cup UNION {run.claims[q] : q \in Procs} : r.token = Token(p)
    BY DEF OwnerKept
  <2>1. p \in Procs /\ Record(p) \in Held
    BY DEF LockInv, Typed, Holding, OwnersWork
  <2>2. Record(p) \in run.owner \cup UNION {run.claims[q] : q \in Procs}
    BY <2>1 DEF Held
  <2> QED BY <2>1, <2>2, RecordTyped
<1> QED BY <1>1, LockHolds, PTL

\* A transaction begins when there is none, ends, or goes on as the launcher's.
LEMMA OwnsStep ==
  ASSUME LockInv, LockInv', [Next]_vars
  PROVE  \/ owns' = owns
         \/ owns = {} /\ \E p \in Procs : owns' = {p}
         \/ \E p \in Procs : owns = {p} /\ owns' = {}
         \/ \E l \in Launchers : owns = {Parent[l]} /\ owns' = {l} /\ Token(l) = Token(Parent[l])
<1>1. \A p, q \in owns : p = q
  BY OneOwner DEF LockInv
<1>2. owns \subseteq Procs
  BY DEF LockInv, Typed
<1>3. ASSUME NEW p, owns' = owns \ {p}
      PROVE  owns' = owns \/ \E q \in Procs : owns = {q} /\ owns' = {}
  BY <1>1, <1>2, <1>3
<1>4. ASSUME NEW p \in Procs, Publish(p), owns' # owns
      PROVE  owns = {} /\ owns' = {p}
  <2>1. ~Solid(run) /\ owns' = owns \cup {p}
    BY <1>4 DEF Publish
  <2> QED BY <2>1, NoRecordNoOwner DEF LockInv
<1>5. ASSUME NEW l \in Launchers, Swap(l), owns' # owns
      PROVE  owns = {Parent[l]} /\ owns' = {l} /\ Token(l) = Token(Parent[l])
  <2>1. owns' = (owns \ {Parent[l]}) \cup {l} /\ pc[l] = "swap"
    BY <1>5 DEF Swap
  <2>2. Parent[l] \in owns /\ l \in Procs /\ InPlace(l)
    BY <2>1 DEF LockInv, Holding, ParentsReady, Adopting, Procs, Control
  <2>3. owns = {Parent[l]}
    BY <1>1, <2>2
  <2>4. Parent[l] \in Starts
    BY <2>1, <2>2, ParentKind DEF InPlace, Adopting
  <2>5. Token(l) = Token(Parent[l])
    BY <2>2, <2>4, Kinds, ParentKind DEF Token
  <2> QED BY <2>1, <2>3, <2>5
<1>6. \/ owns' = owns
      \/ \E p \in Procs : owns' = owns \ {p}
      \/ \E p \in Procs : Publish(p)
      \/ \E l \in Launchers : Swap(l)
  BY StepIs DEF vars, Procs, files, Begin, TakeGuard, GuardBusy, Probe, Unguard, Exists, Peek, ReadOwner, Inspect, Claim, Check, Detach, Project, Spawn, Ready, HandBack, Adopt, WriteRecord, WriteState, Abandon, Serve, Shutdown, Retain, Configure, RemoveState, Release, Unlink, Rmdir, Crash
<1> QED BY <1>3, <1>4, <1>5, <1>6

Tokens == [k \in {"run.lock"} |-> {Token(p) : p \in owns}]

\* run.lock behaves as a lease of the checkout: one transaction has it at a time,
\* whoever recovers, hands over, rolls back or dies.
THEOREM Refinement == Careful /\ Spec => RunLease
<1> SUFFICES ASSUME Careful PROVE Spec => RunLease
  OBVIOUS
<1>1. Init => L!Init
  BY DEF Init, L!Init
<1>2. LockInv /\ LockInv' /\ [Next]_vars => [L!Next]_Tokens
  <2> SUFFICES ASSUME LockInv, LockInv', [Next]_vars PROVE [L!Next]_Tokens
    OBVIOUS
  <2>0. \A p \in Procs : Token(p) \in Starts \cup Launchers \cup Inits \cup Stops
    BY RecordTyped DEF Procs
  <2>1. CASE owns' = owns
    BY <2>1 DEF Tokens
  <2>2. ASSUME owns = {}, NEW p \in Procs, owns' = {p} PROVE L!Next
    <3>1. L!Acquire(Token(p), "run.lock")
      BY <2>2 DEF L!Acquire, Token
    <3> QED BY <2>0, <3>1 DEF L!Next
  <2>3. ASSUME NEW p \in Procs, owns = {p}, owns' = {} PROVE L!Next
    <3>1. L!Release(Token(p), "run.lock")
      BY <2>3 DEF L!Release, Token
    <3> QED BY <2>0, <3>1 DEF L!Next
  <2>4. ASSUME NEW l \in Launchers, owns = {Parent[l]}, owns' = {l}, Token(l) = Token(Parent[l])
        PROVE  Tokens' = Tokens
    BY <2>4 DEF Tokens, Token
  <2> QED BY <2>1, <2>2, <2>3, <2>4, OwnsStep
<1> QED BY <1>1, <1>2, LockHolds, PTL DEF Spec, RunLease, L!Spec, Tokens

-----------------------------------------------------------------------------
(* A stop that runs alone *)

\* Nobody changes the lock between two steps of a stop that runs alone.
Sole(c) ==
  /\ pc[c] # "failed"
  /\ Alive(c) => \A q \in Procs \ {c} : ~Alive(q)
  /\ pc[c] \in {"read", "inspect", "claim", "check", "detach"} => run.exists
  /\ pc[c] \in {"exists", "publish"} => ~run.exists
  /\ pc[c] = "unguard" => c \in owns
  /\ pc[c] = "claim" => run.owner = seen[c]
  /\ pc[c] = "check" => run.claims[c] = seen[c]

Alone == \A c \in Stops \ company : Sole(c)

\* Beside another process's step it is over, or has not begun.
LEMMA SoleOther ==
  ASSUME NEW p \in Procs, NEW c \in Stops, Sole(c), c # p, pc'[c] = pc[c], Alive(p) \/ ~Alive(c)
  PROVE  Sole(c)'
<1>1. ~Alive(c)
  BY DEF Sole
<1> QED BY <1>1 DEF Sole, Alive

\* Its own step finds what the one before it has left.
LEMMA SoleSelf ==
  ASSUME NEW c \in Stops, Sole(c), Alive(c), Moves(c)
  PROVE  \A q \in Procs \ {c} : ~Alive(q) /\ ~Alive(q)'
BY DEF Sole, Moves, Alive

LEMMA AloneKept ==
  ASSUME LockInv, LockInv', Alone, [Next]_vars
  PROVE  Alone'
<1> USE DEF LockInv
<1>1. CASE UNCHANGED vars
  BY <1>1 DEF vars, Alone, Sole, Alive
<1>2. ASSUME NEW p \in Procs, Begin(p) PROVE Alone'
  <2> SUFFICES ASSUME NEW c \in Stops \ company' PROVE Sole(c)'
    BY DEF Alone
  <2>0. p \in Procs /\ c \in Procs /\ c \in Stops \ company /\ Sole(c) /\ Moves(p)
    BY <1>2 DEF Procs, Alone, Begin, Moves, Goto, Leave, Typed
  <2>1. CASE c # p
    <3>1. Alive(p) \/ ~Alive(c)
      BY <1>2, <2>0, <2>1 DEF Begin, Alive
    <3> QED BY <2>0, <2>1, <3>1, SoleOther DEF Moves
  <2>2. CASE c = p
    <3>1. pc'[c] = "guard" /\ pc[c] = "idle"
      BY <1>2, <2>2, <2>0, Kinds DEF Begin, Goto, Typed
    <3>2. \A q \in Procs \ {c} : ~Alive(q) /\ ~Alive(q)'
      BY <1>2, <2>0, <2>2 DEF Begin, Others, Moves, Alive
    <3> QED BY <3>1, <3>2 DEF Sole
  <2> QED BY <2>1, <2>2
<1>3. ASSUME NEW p \in Starts \cup Stops, TakeGuard(p) PROVE Alone'
  <2> SUFFICES ASSUME NEW c \in Stops \ company' PROVE Sole(c)'
    BY DEF Alone
  <2>0. p \in Procs /\ c \in Procs /\ c \in Stops \ company /\ Sole(c) /\ Moves(p)
    BY <1>3 DEF Procs, Alone, TakeGuard, Moves, Goto, Leave, Typed
  <2>1. CASE c # p
    <3>1. Alive(p) \/ ~Alive(c)
      BY <1>3, <2>0, <2>1 DEF TakeGuard, Alive
    <3> QED BY <2>0, <2>1, <3>1, SoleOther DEF Moves
  <2>2. CASE c = p
    <3>1. \A q \in Procs \ {c} : ~Alive(q) /\ ~Alive(q)'
      BY <1>3, <2>0, <2>2, SoleSelf DEF TakeGuard, Alive
    <3>3. pc'[c] = "probe"
      BY <1>3, <2>2, <2>0, Kinds DEF TakeGuard, Goto, Typed
    <3> QED BY <3>1, <3>3 DEF Sole
  <2> QED BY <2>1, <2>2
<1>4. ASSUME NEW p \in Starts \cup Stops, GuardBusy(p) PROVE Alone'
  <2> SUFFICES ASSUME NEW c \in Stops \ company' PROVE Sole(c)'
    BY DEF Alone
  <2>0. p \in Procs /\ c \in Procs /\ c \in Stops \ company /\ Sole(c) /\ Moves(p)
    BY <1>4 DEF Procs, Alone, GuardBusy, Moves, Goto, Leave, Typed
  <2>1. CASE c # p
    <3>1. Alive(p) \/ ~Alive(c)
      BY <1>4, <2>0, <2>1 DEF GuardBusy, Alive
    <3> QED BY <2>0, <2>1, <3>1, SoleOther DEF Moves
  <2>2. CASE c = p
    <3>1. \A q \in Procs \ {c} : ~Alive(q) /\ ~Alive(q)'
      BY <1>4, <2>0, <2>2, SoleSelf DEF GuardBusy, Alive
    <3>3. PICK q \in guard : Alive(q)
      BY <1>4 DEF GuardBusy
    <3>4. q # c /\ q \in Procs
      BY <1>4, <2>2, <3>3 DEF GuardBusy, Control, InPlace, Waiting, Typed, Procs
    <3> QED BY <3>1, <3>3, <3>4
  <2> QED BY <2>1, <2>2
<1>5. ASSUME NEW p \in Stops, Probe(p) PROVE Alone'
  <2> SUFFICES ASSUME NEW c \in Stops \ company' PROVE Sole(c)'
    BY DEF Alone
  <2>0. p \in Procs /\ c \in Procs /\ c \in Stops \ company /\ Sole(c) /\ Moves(p)
    BY <1>5 DEF Procs, Alone, Probe, Moves, Goto, Leave, Typed
  <2>1. CASE c # p
    <3>1. Alive(p) \/ ~Alive(c)
      BY <1>5, <2>0, <2>1 DEF Probe, Alive
    <3> QED BY <2>0, <2>1, <3>1, SoleOther DEF Moves
  <2>2. CASE c = p
    <3>1. \A q \in Procs \ {c} : ~Alive(q) /\ ~Alive(q)'
      BY <1>5, <2>0, <2>2, SoleSelf DEF Probe, Alive
    <3>3. pc'[c] = "peek"
      BY <1>5, <2>2, <2>0, <3>1, Kinds DEF Probe, Goto, Typed, Procs, Alive
    <3> QED BY <3>1, <3>3 DEF Sole
  <2> QED BY <2>1, <2>2
<1>6. ASSUME NEW p \in Starts \cup Stops, Unguard(p) PROVE Alone'
  <2> SUFFICES ASSUME NEW c \in Stops \ company' PROVE Sole(c)'
    BY DEF Alone
  <2>0. p \in Procs /\ c \in Procs /\ c \in Stops \ company /\ Sole(c) /\ Moves(p)
    BY <1>6 DEF Procs, Alone, Unguard, Moves, Goto, Leave, Typed
  <2>1. CASE c # p
    <3>1. Alive(p) \/ ~Alive(c)
      BY <1>6, <2>0, <2>1 DEF Unguard, Alive
    <3> QED BY <2>0, <2>1, <3>1, SoleOther DEF Moves
  <2>2. CASE c = p
    <3>1. \A q \in Procs \ {c} : ~Alive(q) /\ ~Alive(q)'
      BY <1>6, <2>0, <2>2, SoleSelf DEF Unguard, Alive
    <3>3. pc'[c] = "remove"
      BY <1>6, <2>2, <2>0 DEF Unguard, Goto, Typed, Sole
    <3> QED BY <3>1, <3>3 DEF Sole
  <2> QED BY <2>1, <2>2
<1>7. ASSUME NEW p \in Procs, Exists(p) PROVE Alone'
  <2> SUFFICES ASSUME NEW c \in Stops \ company' PROVE Sole(c)'
    BY DEF Alone
  <2>0. p \in Procs /\ c \in Procs /\ c \in Stops \ company /\ Sole(c) /\ Moves(p)
    BY <1>7 DEF Procs, Alone, Exists, Moves, Goto, Leave, Typed
  <2>1. CASE c # p
    <3>1. Alive(p) \/ ~Alive(c)
      BY <1>7, <2>0, <2>1 DEF Exists, Alive
    <3> QED BY <2>0, <2>1, <3>1, SoleOther DEF Moves
  <2>2. CASE c = p
    <3>1. \A q \in Procs \ {c} : ~Alive(q) /\ ~Alive(q)'
      BY <1>7, <2>0, <2>2, SoleSelf DEF Exists, Alive
    <3>3. pc'[c] = "publish" /\ ~run'.exists
      BY <1>7, <2>2, <2>0 DEF Exists, Goto, Typed, Sole
    <3> QED BY <3>1, <3>3 DEF Sole
  <2> QED BY <2>1, <2>2
<1>8. ASSUME NEW p \in Procs, Publish(p) PROVE Alone'
  <2> SUFFICES ASSUME NEW c \in Stops \ company' PROVE Sole(c)'
    BY DEF Alone
  <2>0. p \in Procs /\ c \in Procs /\ c \in Stops \ company /\ Sole(c) /\ Moves(p)
    BY <1>8 DEF Procs, Alone, Publish, Moves, Goto, Leave, Typed
  <2>1. CASE c # p
    <3>1. Alive(p) \/ ~Alive(c)
      BY <1>8, <2>0, <2>1 DEF Publish, Alive
    <3> QED BY <2>0, <2>1, <3>1, SoleOther DEF Moves
  <2>2. CASE c = p
    <3>1. \A q \in Procs \ {c} : ~Alive(q) /\ ~Alive(q)'
      BY <1>8, <2>0, <2>2, SoleSelf DEF Publish, Alive
    <3>3. pc'[c] = "unguard" /\ c \in owns'
      BY <1>8, <2>2, <2>0, Kinds DEF Publish, Goto, Typed, Sole
    <3> QED BY <3>1, <3>3 DEF Sole
  <2> QED BY <2>1, <2>2
<1>9. ASSUME NEW p \in Inits \cup Stops, Peek(p) PROVE Alone'
  <2> SUFFICES ASSUME NEW c \in Stops \ company' PROVE Sole(c)'
    BY DEF Alone
  <2>0. p \in Procs /\ c \in Procs /\ c \in Stops \ company /\ Sole(c) /\ Moves(p)
    BY <1>9 DEF Procs, Alone, Peek, Moves, Goto, Leave, Typed
  <2>1. CASE c # p
    <3>1. Alive(p) \/ ~Alive(c)
      BY <1>9, <2>0, <2>1 DEF Peek, Alive
    <3> QED BY <2>0, <2>1, <3>1, SoleOther DEF Moves
  <2>2. CASE c = p
    <3>1. \A q \in Procs \ {c} : ~Alive(q) /\ ~Alive(q)'
      BY <1>9, <2>0, <2>2, SoleSelf DEF Peek, Alive
    <3>3. pc'[c] = (IF run.exists THEN "read" ELSE "exists") /\ run' = run
      BY <1>9, <2>2, <2>0 DEF Peek, Goto, Typed
    <3> QED BY <3>1, <3>3 DEF Sole
  <2> QED BY <2>1, <2>2
<1>10. ASSUME NEW p \in Inits \cup Stops, ReadOwner(p) PROVE Alone'
  <2> SUFFICES ASSUME NEW c \in Stops \ company' PROVE Sole(c)'
    BY DEF Alone
  <2>0. p \in Procs /\ c \in Procs /\ c \in Stops \ company /\ Sole(c) /\ Moves(p)
    BY <1>10 DEF Procs, Alone, ReadOwner, Moves, Goto, Leave, Typed
  <2>1. CASE c # p
    <3>1. Alive(p) \/ ~Alive(c)
      BY <1>10, <2>0, <2>1 DEF ReadOwner, Alive
    <3> QED BY <2>0, <2>1, <3>1, SoleOther DEF Moves
  <2>2. CASE c = p
    <3>1. \A q \in Procs \ {c} : ~Alive(q) /\ ~Alive(q)'
      BY <1>10, <2>0, <2>2, SoleSelf DEF ReadOwner, Alive
    <3>3. ASSUME NEW r \in run.owner, r.pid \in Procs, Alive(r.pid) PROVE FALSE
      <4>1. r.pid = c
        BY <3>1, <3>3
      <4>2. r \in Held
        BY DEF Held, Typed, LockType
      <4> QED BY <1>10, <2>0, <2>2, <4>1, <4>2 DEF ReadOwner, Holding, Written, Before, Recovering
    <3>4. ~Live(run.owner)
      BY <3>3 DEF Live
    <3>5. run' = run /\ run.exists /\ seen'[c] = run.owner /\ pc'[c] \in {"claim", "inspect"}
      BY <1>10, <2>2, <2>0, <3>4, Kinds DEF ReadOwner, Goto, Typed, Sole
    <3> QED BY <3>1, <3>5 DEF Sole
  <2> QED BY <2>1, <2>2
<1>11. ASSUME NEW p \in Inits \cup Stops, Inspect(p) PROVE Alone'
  <2> SUFFICES ASSUME NEW c \in Stops \ company' PROVE Sole(c)'
    BY DEF Alone
  <2>0. p \in Procs /\ c \in Procs /\ c \in Stops \ company /\ Sole(c) /\ Moves(p)
    BY <1>11 DEF Procs, Alone, Inspect, Moves, Goto, Leave, Typed
  <2>1. CASE c # p
    <3>1. Alive(p) \/ ~Alive(c)
      BY <1>11, <2>0, <2>1 DEF Inspect, Alive
    <3> QED BY <2>0, <2>1, <3>1, SoleOther DEF Moves
  <2>2. CASE c = p
    <3>1. \A q \in Procs \ {c} : ~Alive(q) /\ ~Alive(q)'
      BY <1>11, <2>0, <2>2, SoleSelf DEF Inspect, Alive
    <3>3. \A q \in Procs : run.claims[q] = {}
      <4>1. ASSUME NEW q \in Procs, run.claims[q] # {} PROVE FALSE
        <5>1. pc[q] \in {"check", "detach"}
          BY <4>1 DEF Holding, ClaimsDecided
        <5> QED BY <1>11, <2>2, <3>1, <5>1 DEF Inspect, Alive
      <4> QED BY <4>1
    <3>4. pc'[c] = "detach" /\ run' = run /\ run.exists
      BY <1>11, <2>2, <2>0, <3>3 DEF Inspect, Goto, Typed, Sole
    <3> QED BY <3>1, <3>4 DEF Sole
  <2> QED BY <2>1, <2>2
<1>12. ASSUME NEW p \in Inits \cup Stops, Claim(p) PROVE Alone'
  <2> SUFFICES ASSUME NEW c \in Stops \ company' PROVE Sole(c)'
    BY DEF Alone
  <2>0. p \in Procs /\ c \in Procs /\ c \in Stops \ company /\ Sole(c) /\ Moves(p)
    BY <1>12 DEF Procs, Alone, Claim, Moves, Goto, Leave, Typed
  <2>1. CASE c # p
    <3>1. Alive(p) \/ ~Alive(c)
      BY <1>12, <2>0, <2>1 DEF Claim, Alive
    <3> QED BY <2>0, <2>1, <3>1, SoleOther DEF Moves
  <2>2. CASE c = p
    <3>1. \A q \in Procs \ {c} : ~Alive(q) /\ ~Alive(q)'
      BY <1>12, <2>0, <2>2, SoleSelf DEF Claim, Alive
    <3>3. run.owner = seen[c] /\ run.owner # {} /\ run.exists /\ run \in LockType
      BY <1>12, <2>0, <2>2 DEF Claim, Sole, Holding, SeenDead, Typed
    <3>4. pc'[c] = "check" /\ seen' = seen /\ run' = [run EXCEPT !.owner = {}, !.claims[c] = run.owner]
      BY <1>12, <2>2, <2>0, <3>3 DEF Claim, Goto, Typed
    <3>5. run'.exists /\ run'.claims[c] = run.owner
      BY <2>0, <3>3, <3>4 DEF LockType
    <3> QED BY <3>1, <3>3, <3>4, <3>5 DEF Sole
  <2> QED BY <2>1, <2>2
<1>13. ASSUME NEW p \in Inits \cup Stops, Check(p) PROVE Alone'
  <2> SUFFICES ASSUME NEW c \in Stops \ company' PROVE Sole(c)'
    BY DEF Alone
  <2>0. p \in Procs /\ c \in Procs /\ c \in Stops \ company /\ Sole(c) /\ Moves(p)
    BY <1>13 DEF Procs, Alone, Check, Moves, Goto, Leave, Typed
  <2>1. CASE c # p
    <3>1. Alive(p) \/ ~Alive(c)
      BY <1>13, <2>0, <2>1 DEF Check, Alive
    <3> QED BY <2>0, <2>1, <3>1, SoleOther DEF Moves
  <2>2. CASE c = p
    <3>1. \A q \in Procs \ {c} : ~Alive(q) /\ ~Alive(q)'
      BY <1>13, <2>0, <2>2, SoleSelf DEF Check, Alive
    <3>3. pc'[c] = "detach" /\ run' = run /\ run.exists
      BY <1>13, <2>2, <2>0 DEF Check, Goto, Typed, Sole
    <3> QED BY <3>1, <3>3 DEF Sole
  <2> QED BY <2>1, <2>2
<1>14. ASSUME NEW p \in Inits \cup Stops, Detach(p) PROVE Alone'
  <2> SUFFICES ASSUME NEW c \in Stops \ company' PROVE Sole(c)'
    BY DEF Alone
  <2>0. p \in Procs /\ c \in Procs /\ c \in Stops \ company /\ Sole(c) /\ Moves(p)
    BY <1>14 DEF Procs, Alone, Detach, Moves, Goto, Leave, Typed
  <2>1. CASE c # p
    <3>1. Alive(p) \/ ~Alive(c)
      BY <1>14, <2>0, <2>1 DEF Detach, Alive
    <3> QED BY <2>0, <2>1, <3>1, SoleOther DEF Moves
  <2>2. CASE c = p
    <3>1. \A q \in Procs \ {c} : ~Alive(q) /\ ~Alive(q)'
      BY <1>14, <2>0, <2>2, SoleSelf DEF Detach, Alive
    <3>3. pc'[c] = "exists" /\ run' = Missing
      BY <1>14, <2>2, <2>0 DEF Detach, Goto, Typed, Sole
    <3> QED BY <3>1, <3>3, MissingTyped DEF Sole
  <2> QED BY <2>1, <2>2
<1>15. ASSUME NEW p \in Starts, Project(p) PROVE Alone'
  <2> SUFFICES ASSUME NEW c \in Stops \ company' PROVE Sole(c)'
    BY DEF Alone
  <2>0. p \in Procs /\ c \in Procs /\ c \in Stops \ company /\ Sole(c) /\ Moves(p)
    BY <1>15 DEF Procs, Alone, Project, Moves, Goto, Leave, Typed
  <2>1. CASE c # p
    <3>1. Alive(p) \/ ~Alive(c)
      BY <1>15, <2>0, <2>1 DEF Project, Alive
    <3> QED BY <2>0, <2>1, <3>1, SoleOther DEF Moves
  <2>2. c # p
    BY <2>0, Kinds
  <2> QED BY <2>1, <2>2
<1>16. ASSUME NEW p \in Starts, Spawn(p) PROVE Alone'
  <2> SUFFICES ASSUME NEW c \in Stops \ company' PROVE Sole(c)'
    BY DEF Alone
  <2>0. p \in Procs /\ c \in Procs /\ c \in Stops \ company /\ Sole(c)
    BY <1>16 DEF Procs, Alone, Spawn
  <2>1. c # p /\ pc'[c] = pc[c] /\ Alive(p)
    BY <1>16, <2>0, Kinds DEF Spawn, Alive, Typed, Goto
  <2> QED BY <2>0, <2>1, SoleOther
<1>17. ASSUME NEW p \in Starts, Ready(p) PROVE Alone'
  <2> SUFFICES ASSUME NEW c \in Stops \ company' PROVE Sole(c)'
    BY DEF Alone
  <2>0. p \in Procs /\ c \in Procs /\ c \in Stops \ company /\ Sole(c)
    BY <1>17 DEF Procs, Alone, Ready
  <2>1. c # p /\ pc'[c] = pc[c] /\ Alive(p)
    BY <1>17, <2>0, Kinds DEF Ready, Alive, Typed, Goto
  <2> QED BY <2>0, <2>1, SoleOther
<1>18. ASSUME NEW p \in Starts, HandBack(p) PROVE Alone'
  <2> SUFFICES ASSUME NEW c \in Stops \ company' PROVE Sole(c)'
    BY DEF Alone
  <2>0. p \in Procs /\ c \in Procs /\ c \in Stops \ company /\ Sole(c) /\ Moves(p)
    BY <1>18 DEF Procs, Alone, HandBack, Moves, Goto, Leave, Typed
  <2>1. CASE c # p
    <3>1. Alive(p) \/ ~Alive(c)
      BY <1>18, <2>0, <2>1 DEF HandBack, Alive
    <3> QED BY <2>0, <2>1, <3>1, SoleOther DEF Moves
  <2>2. c # p
    BY <2>0, Kinds
  <2> QED BY <2>1, <2>2
<1>19. ASSUME NEW p \in Launchers, Adopt(p) PROVE Alone'
  <2> SUFFICES ASSUME NEW c \in Stops \ company' PROVE Sole(c)'
    BY DEF Alone
  <2>0. p \in Procs /\ c \in Procs /\ c \in Stops \ company /\ Sole(c) /\ Moves(p)
    BY <1>19 DEF Procs, Alone, Adopt, Moves, Goto, Leave, Typed
  <2>1. CASE c # p
    <3>1. Alive(p) \/ ~Alive(c)
      BY <1>19, <2>0, <2>1 DEF Adopt, Alive
    <3> QED BY <2>0, <2>1, <3>1, SoleOther DEF Moves
  <2>2. c # p
    BY <2>0, Kinds
  <2> QED BY <2>1, <2>2
<1>20. ASSUME NEW p \in Launchers, WriteRecord(p) PROVE Alone'
  <2> SUFFICES ASSUME NEW c \in Stops \ company' PROVE Sole(c)'
    BY DEF Alone
  <2>0. p \in Procs /\ c \in Procs /\ c \in Stops \ company /\ Sole(c) /\ Moves(p)
    BY <1>20 DEF Procs, Alone, WriteRecord, Moves, Goto, Leave, Typed
  <2>1. CASE c # p
    <3>1. Alive(p) \/ ~Alive(c)
      BY <1>20, <2>0, <2>1 DEF WriteRecord, Alive
    <3> QED BY <2>0, <2>1, <3>1, SoleOther DEF Moves
  <2>2. c # p
    BY <2>0, Kinds
  <2> QED BY <2>1, <2>2
<1>21. ASSUME NEW p \in Launchers, Swap(p) PROVE Alone'
  <2> SUFFICES ASSUME NEW c \in Stops \ company' PROVE Sole(c)'
    BY DEF Alone
  <2>0. p \in Procs /\ c \in Procs /\ c \in Stops \ company /\ Sole(c) /\ Moves(p)
    BY <1>21 DEF Procs, Alone, Swap, Moves, Goto, Leave, Typed
  <2>1. CASE c # p
    <3>1. Alive(p) \/ ~Alive(c)
      BY <1>21, <2>0, <2>1 DEF Swap, Alive
    <3> QED BY <2>0, <2>1, <3>1, SoleOther DEF Moves
  <2>2. c # p
    BY <2>0, Kinds
  <2> QED BY <2>1, <2>2
<1>22. ASSUME NEW p \in Launchers, WriteState(p) PROVE Alone'
  <2> SUFFICES ASSUME NEW c \in Stops \ company' PROVE Sole(c)'
    BY DEF Alone
  <2>0. p \in Procs /\ c \in Procs /\ c \in Stops \ company /\ Sole(c) /\ Moves(p)
    BY <1>22 DEF Procs, Alone, WriteState, Moves, Goto, Leave, Typed
  <2>1. CASE c # p
    <3>1. Alive(p) \/ ~Alive(c)
      BY <1>22, <2>0, <2>1 DEF WriteState, Alive
    <3> QED BY <2>0, <2>1, <3>1, SoleOther DEF Moves
  <2>2. c # p
    BY <2>0, Kinds
  <2> QED BY <2>1, <2>2
<1>23. ASSUME NEW p \in Launchers, Abandon(p) PROVE Alone'
  <2> SUFFICES ASSUME NEW c \in Stops \ company' PROVE Sole(c)'
    BY DEF Alone
  <2>0. p \in Procs /\ c \in Procs /\ c \in Stops \ company /\ Sole(c) /\ Moves(p)
    BY <1>23 DEF Procs, Alone, Abandon, Moves, Goto, Leave, Typed
  <2>1. CASE c # p
    <3>1. Alive(p) \/ ~Alive(c)
      BY <1>23, <2>0, <2>1 DEF Abandon, Alive
    <3> QED BY <2>0, <2>1, <3>1, SoleOther DEF Moves
  <2>2. c # p
    BY <2>0, Kinds
  <2> QED BY <2>1, <2>2
<1>24. ASSUME NEW p \in Launchers, Serve(p) PROVE Alone'
  <2> SUFFICES ASSUME NEW c \in Stops \ company' PROVE Sole(c)'
    BY DEF Alone
  <2>0. p \in Procs /\ c \in Procs /\ c \in Stops \ company /\ Sole(c) /\ Moves(p)
    BY <1>24 DEF Procs, Alone, Serve, Moves, Goto, Leave, Typed
  <2>1. CASE c # p
    <3>1. Alive(p) \/ ~Alive(c)
      BY <1>24, <2>0, <2>1 DEF Serve, Alive
    <3> QED BY <2>0, <2>1, <3>1, SoleOther DEF Moves
  <2>2. c # p
    BY <2>0, Kinds
  <2> QED BY <2>1, <2>2
<1>25. ASSUME NEW p \in Launchers, Shutdown(p) PROVE Alone'
  <2> SUFFICES ASSUME NEW c \in Stops \ company' PROVE Sole(c)'
    BY DEF Alone
  <2>0. p \in Procs /\ c \in Procs /\ c \in Stops \ company /\ Sole(c) /\ Moves(p)
    BY <1>25 DEF Procs, Alone, Shutdown, Moves, Goto, Leave, Typed
  <2>1. CASE c # p
    <3>1. Alive(p) \/ ~Alive(c)
      BY <1>25, <2>0, <2>1 DEF Shutdown, Alive
    <3> QED BY <2>0, <2>1, <3>1, SoleOther DEF Moves
  <2>2. c # p
    BY <2>0, Kinds
  <2> QED BY <2>1, <2>2
<1>26. ASSUME NEW p \in Launchers, Retain(p) PROVE Alone'
  <2> SUFFICES ASSUME NEW c \in Stops \ company' PROVE Sole(c)'
    BY DEF Alone
  <2>0. p \in Procs /\ c \in Procs /\ c \in Stops \ company /\ Sole(c) /\ Moves(p)
    BY <1>26 DEF Procs, Alone, Retain, Moves, Goto, Leave, Typed
  <2>1. CASE c # p
    <3>1. Alive(p) \/ ~Alive(c)
      BY <1>26, <2>0, <2>1 DEF Retain, Alive
    <3> QED BY <2>0, <2>1, <3>1, SoleOther DEF Moves
  <2>2. c # p
    BY <2>0, Kinds
  <2> QED BY <2>1, <2>2
<1>27. ASSUME NEW p \in Inits, Configure(p) PROVE Alone'
  <2> SUFFICES ASSUME NEW c \in Stops \ company' PROVE Sole(c)'
    BY DEF Alone
  <2>0. p \in Procs /\ c \in Procs /\ c \in Stops \ company /\ Sole(c) /\ Moves(p)
    BY <1>27 DEF Procs, Alone, Configure, Moves, Goto, Leave, Typed
  <2>1. CASE c # p
    <3>1. Alive(p) \/ ~Alive(c)
      BY <1>27, <2>0, <2>1 DEF Configure, Alive
    <3> QED BY <2>0, <2>1, <3>1, SoleOther DEF Moves
  <2>2. c # p
    BY <2>0, Kinds
  <2> QED BY <2>1, <2>2
<1>28. ASSUME NEW p \in Stops, RemoveState(p) PROVE Alone'
  <2> SUFFICES ASSUME NEW c \in Stops \ company' PROVE Sole(c)'
    BY DEF Alone
  <2>0. p \in Procs /\ c \in Procs /\ c \in Stops \ company /\ Sole(c) /\ Moves(p)
    BY <1>28 DEF Procs, Alone, RemoveState, Moves, Goto, Leave, Typed
  <2>1. CASE c # p
    <3>1. Alive(p) \/ ~Alive(c)
      BY <1>28, <2>0, <2>1 DEF RemoveState, Alive
    <3> QED BY <2>0, <2>1, <3>1, SoleOther DEF Moves
  <2>2. CASE c = p
    <3>1. \A q \in Procs \ {c} : ~Alive(q) /\ ~Alive(q)'
      BY <1>28, <2>0, <2>2, SoleSelf DEF RemoveState, Alive
    <3>3. pc'[c] = "release"
      BY <1>28, <2>2, <2>0 DEF RemoveState, Goto, Typed
    <3> QED BY <3>1, <3>3 DEF Sole
  <2> QED BY <2>1, <2>2
<1>29. ASSUME NEW p \in Procs, Release(p) PROVE Alone'
  <2> SUFFICES ASSUME NEW c \in Stops \ company' PROVE Sole(c)'
    BY DEF Alone
  <2>0. p \in Procs /\ c \in Procs /\ c \in Stops \ company /\ Sole(c) /\ Moves(p)
    BY <1>29 DEF Procs, Alone, Release, Moves, Goto, Leave, Typed
  <2>1. CASE c # p
    <3>1. Alive(p) \/ ~Alive(c)
      BY <1>29, <2>0, <2>1 DEF Release, Alive
    <3> QED BY <2>0, <2>1, <3>1, SoleOther DEF Moves
  <2>2. CASE c = p
    <3>1. \A q \in Procs \ {c} : ~Alive(q) /\ ~Alive(q)'
      BY <1>29, <2>0, <2>2, SoleSelf DEF Release, Alive
    <3>3. c \notin guard
      BY <1>29, <2>2 DEF Release, Control, InPlace
    <3>4. pc'[c] \in {"unlink", "done"}
      BY <1>29, <2>2, <2>0, <3>3 DEF Release, Goto, Leave, Typed
    <3> QED BY <3>1, <3>4 DEF Sole
  <2> QED BY <2>1, <2>2
<1>30. ASSUME NEW p \in Procs, Unlink(p) PROVE Alone'
  <2> SUFFICES ASSUME NEW c \in Stops \ company' PROVE Sole(c)'
    BY DEF Alone
  <2>0. p \in Procs /\ c \in Procs /\ c \in Stops \ company /\ Sole(c) /\ Moves(p)
    BY <1>30 DEF Procs, Alone, Unlink, Moves, Goto, Leave, Typed
  <2>1. CASE c # p
    <3>1. Alive(p) \/ ~Alive(c)
      BY <1>30, <2>0, <2>1 DEF Unlink, Alive
    <3> QED BY <2>0, <2>1, <3>1, SoleOther DEF Moves
  <2>2. CASE c = p
    <3>1. \A q \in Procs \ {c} : ~Alive(q) /\ ~Alive(q)'
      BY <1>30, <2>0, <2>2, SoleSelf DEF Unlink, Alive
    <3>3. pc'[c] = "rmdir"
      BY <1>30, <2>2, <2>0 DEF Unlink, Goto, Typed
    <3> QED BY <3>1, <3>3 DEF Sole
  <2> QED BY <2>1, <2>2
<1>31. ASSUME NEW p \in Procs, Rmdir(p) PROVE Alone'
  <2> SUFFICES ASSUME NEW c \in Stops \ company' PROVE Sole(c)'
    BY DEF Alone
  <2>0. p \in Procs /\ c \in Procs /\ c \in Stops \ company /\ Sole(c) /\ Moves(p)
    BY <1>31 DEF Procs, Alone, Rmdir, Moves, Goto, Leave, Typed
  <2>1. CASE c # p
    <3>1. Alive(p) \/ ~Alive(c)
      BY <1>31, <2>0, <2>1 DEF Rmdir, Alive
    <3> QED BY <2>0, <2>1, <3>1, SoleOther DEF Moves
  <2>2. CASE c = p
    <3>1. \A q \in Procs \ {c} : ~Alive(q) /\ ~Alive(q)'
      BY <1>31, <2>0, <2>2, SoleSelf DEF Rmdir, Alive
    <3>3. c \notin guard
      BY <1>31, <2>2 DEF Rmdir, Control, InPlace
    <3>4. pc'[c] = "done"
      BY <1>31, <2>2, <2>0, <3>3 DEF Rmdir, Goto, Leave, Typed
    <3> QED BY <3>1, <3>4 DEF Sole
  <2> QED BY <2>1, <2>2
<1>32. ASSUME NEW p \in Procs, Crash(p) PROVE Alone'
  <2> SUFFICES ASSUME NEW c \in Stops \ company' PROVE Sole(c)'
    BY DEF Alone
  <2>0. p \in Procs /\ c \in Procs /\ c \in Stops \ company /\ Sole(c) /\ Moves(p)
    BY <1>32 DEF Procs, Alone, Crash, Moves, Goto, Leave, Typed
  <2>1. CASE c # p
    <3>1. Alive(p) \/ ~Alive(c)
      BY <1>32, <2>0, <2>1 DEF Crash, Alive
    <3> QED BY <2>0, <2>1, <3>1, SoleOther DEF Moves
  <2>2. CASE c = p
    <3>1. \A q \in Procs \ {c} : ~Alive(q) /\ ~Alive(q)'
      BY <1>32, <2>0, <2>2, SoleSelf DEF Crash, Alive
    <3>3. pc'[c] = "dead"
      BY <1>32, <2>2, <2>0 DEF Crash, Goto, Typed
    <3> QED BY <3>1, <3>3 DEF Sole
  <2> QED BY <2>1, <2>2
<1> QED BY <1>1, <1>2, <1>3, <1>4, <1>5, <1>6, <1>7, <1>8, <1>9, <1>10, <1>11, <1>12, <1>13, <1>14, <1>15, <1>16, <1>17, <1>18, <1>19, <1>20, <1>21, <1>22, <1>23, <1>24, <1>25, <1>26, <1>27, <1>28, <1>29, <1>30, <1>31, <1>32, StepIs

LEMMA AloneHolds == Careful /\ Spec => []Alone
<1> SUFFICES ASSUME Careful PROVE Spec => []Alone
  OBVIOUS
<1>1. Init => Alone
  BY DEF Init, Alone, Sole, Alive, Procs
<1>2. LockInv /\ LockInv' /\ Alone /\ [Next]_vars => Alone'
  BY AloneKept
<1> QED BY <1>1, <1>2, LockHolds, PTL DEF Spec

-----------------------------------------------------------------------------
(* What a runtime was projected from *)

\* A start reads the configuration under the lock, its launcher takes it over.
Early == {"idle", "guard", "exists", "publish", "project", "spawn"}
StartsRead == \A s \in Starts \cap owns : pc[s] \in {"spawn", "ready"} => used[s] = config
LaunchersRead == \A l \in Launchers : Parent[l] # l /\ pc[l] = "begin" => used[Parent[l]] = config
Spawned == \A l \in Launchers : Parent[l] # l /\ pc[l] # "idle" => pc[Parent[l]] \notin Early
Projected == StartsRead /\ LaunchersRead /\ Spawned /\ RuntimeTrue

\* A step that neither projects nor touches the files.
Detached(p) ==
  /\ Moves(p) /\ UNCHANGED files /\ owns' \subseteq owns \cup {p}
  /\ pc'[p] \in {"spawn", "ready", "boot", "serve"} => p \notin Starts /\ pc[p] \in {"boot", "serve"}
  /\ pc'[p] = "begin" => Parent[p] = p
  /\ p \in Starts /\ pc'[p] \in Early => pc[p] \in Early
  /\ p \in Launchers /\ pc[p] = "idle" => Parent[p] = p

LEMMA ProjectedMove ==
  ASSUME Typed, Projected, NEW p \in Procs, Detached(p)
  PROVE  Projected'
<1>1. config' = config /\ used' = used /\ state' = state /\ \A q \in Procs \ {p} : pc'[q] = pc[q]
  BY DEF Detached, Moves, files
<1>2. StartsRead'
  BY <1>1 DEF Projected, StartsRead, Detached, Procs
<1>3. LaunchersRead'
  BY <1>1 DEF Projected, LaunchersRead, Detached, Procs
<1>4. Spawned'
  <2> SUFFICES ASSUME NEW l \in Launchers, Parent[l] # l, pc'[l] # "idle" PROVE pc'[Parent[l]] \notin Early
    BY DEF Spawned
  <2>1. pc[l] # "idle"
    BY <1>1 DEF Detached, Procs
  <2>2. pc[Parent[l]] \notin Early
    BY <2>1 DEF Projected, Spawned
  <2>3. Parent[l] \in Starts /\ Parent[l] \in Procs
    BY ParentKind
  <2> QED BY <1>1, <2>2, <2>3 DEF Detached
<1>5. RuntimeTrue'
  BY <1>1 DEF Projected, RuntimeTrue, Detached, Procs
<1> QED BY <1>2, <1>3, <1>4, <1>5 DEF Projected

LEMMA ProjectedKept ==
  ASSUME LockInv, LockInv', Projected, [Next]_vars
  PROVE  Projected'
<1> USE DEF LockInv
<1>0. \A p, q \in owns : p = q
  BY OneOwner
<1>1. CASE UNCHANGED vars
  BY <1>1 DEF vars, files, Projected, StartsRead, LaunchersRead, Spawned, RuntimeTrue
<1>2. ASSUME NEW p \in Procs, Begin(p) PROVE Projected'
  <2>1. p \in Procs /\ pc[p] = "idle" /\ UNCHANGED <<owns, state, config, used>> /\ (p \in Launchers => Parent[p] = p)
    BY <1>2 DEF Procs, Begin, files
  <2>2. Moves(p) /\ pc'[p] \in {"guard", "peek", "exists"} /\ (p \in Starts => pc'[p] = "guard")
    BY <1>2, <2>1, Kinds DEF Begin, Goto, Typed, Procs, Moves
  <2>3. Detached(p)
    BY <2>1, <2>2 DEF Detached, Early, files
  <2> QED BY <2>1, <2>3, ProjectedMove
<1>3. ASSUME NEW p \in Starts \cup Stops, TakeGuard(p) PROVE Projected'
  <2>1. p \in Procs /\ InPlace(p)
    BY DEF Procs, Control
  <2>2. Detached(p)
    BY <1>3, <2>1, Kinds DEF Detached, Moves, files, Early, TakeGuard, Goto, Leave, Typed, InPlace, Acquiring, Adopting, StartSteps, Waiting, GivingUp, Over, OwnersWork, Holding, OwnSteps
  <2> QED BY <2>1, <2>2, ProjectedMove
<1>4. ASSUME NEW p \in Starts \cup Stops, GuardBusy(p) PROVE Projected'
  <2>1. p \in Procs /\ InPlace(p)
    BY DEF Procs, Control
  <2>2. Detached(p)
    BY <1>4, <2>1, Kinds DEF Detached, Moves, files, Early, GuardBusy, Goto, Leave, Typed, InPlace, Acquiring, Adopting, StartSteps, Waiting, GivingUp, Over, OwnersWork, Holding, OwnSteps
  <2> QED BY <2>1, <2>2, ProjectedMove
<1>5. ASSUME NEW p \in Stops, Probe(p) PROVE Projected'
  <2>1. p \in Procs /\ InPlace(p)
    BY DEF Procs, Control
  <2>2. Detached(p)
    BY <1>5, <2>1, Kinds DEF Detached, Moves, files, Early, Probe, Goto, Leave, Typed, InPlace, Acquiring, Adopting, StartSteps, Waiting, GivingUp, Over, OwnersWork, Holding, OwnSteps
  <2> QED BY <2>1, <2>2, ProjectedMove
<1>6. ASSUME NEW p \in Starts \cup Stops, Unguard(p) PROVE Projected'
  <2>1. p \in Procs /\ InPlace(p)
    BY DEF Procs, Control
  <2>2. Detached(p)
    BY <1>6, <2>1, Kinds DEF Detached, Moves, files, Early, Unguard, Goto, Leave, Typed, InPlace, Acquiring, Adopting, StartSteps, Waiting, GivingUp, Over, OwnersWork, Holding, OwnSteps
  <2> QED BY <2>1, <2>2, ProjectedMove
<1>7. ASSUME NEW p \in Procs, Exists(p) PROVE Projected'
  <2>1. p \in Procs /\ InPlace(p)
    BY DEF Procs, Control
  <2>2. Detached(p)
    BY <1>7, <2>1, Kinds DEF Detached, Moves, files, Early, Exists, Goto, Leave, Typed, InPlace, Acquiring, Adopting, StartSteps, Waiting, GivingUp, Over, OwnersWork, Holding, OwnSteps
  <2> QED BY <2>1, <2>2, ProjectedMove
<1>8. ASSUME NEW p \in Procs, Publish(p) PROVE Projected'
  <2>0. p \in Procs /\ InPlace(p) /\ pc[p] = "publish" /\ UNCHANGED files
    BY <1>8 DEF Procs, Control, Publish
  <2>1. p \in Launchers => Parent[p] = p
    BY <2>0 DEF InPlace, Acquiring
  <2>2. CASE ~Solid(run)
    <3>1. owns' = owns \cup {p}
      BY <1>8, <2>2 DEF Publish
    <3>2. Moves(p) /\ pc'[p] = (CASE p \in Starts -> "project" [] p \in Launchers -> "begin" [] p \in Inits -> "config" [] p \in Stops -> "unguard")
      BY <1>8, <2>2, <2>0 DEF Publish, Goto, Typed, Moves
    <3>3. /\ p \in Starts => pc'[p] = "project"
          /\ p \notin Starts => pc'[p] \in {"begin", "config", "unguard"}
          /\ pc'[p] = "begin" => p \in Launchers
      BY <2>0, <3>2, Kinds DEF Procs
    <3>4. Detached(p)
      BY <2>0, <2>1, <3>1, <3>2, <3>3 DEF Detached, Early
    <3> QED BY <2>0, <3>4, ProjectedMove
  <2>3. CASE Solid(run)
    <3>1. owns' = owns /\ Leave(p, "failed")
      BY <1>8, <2>3 DEF Publish
    <3>2. Moves(p) /\ pc'[p] \in {"unguard", "failed"}
      BY <2>0, <3>1 DEF Leave, Goto, Typed, Moves
    <3>3. Detached(p)
      BY <2>0, <3>1, <3>2 DEF Detached, Early
    <3> QED BY <2>0, <3>3, ProjectedMove
  <2> QED BY <2>2, <2>3
<1>9. ASSUME NEW p \in Inits \cup Stops, Peek(p) PROVE Projected'
  <2>1. p \in Procs /\ InPlace(p)
    BY DEF Procs, Control
  <2>2. Detached(p)
    BY <1>9, <2>1, Kinds DEF Detached, Moves, files, Early, Peek, Goto, Leave, Typed, InPlace, Acquiring, Adopting, StartSteps, Waiting, GivingUp, Over, OwnersWork, Holding, OwnSteps
  <2> QED BY <2>1, <2>2, ProjectedMove
<1>10. ASSUME NEW p \in Inits \cup Stops, ReadOwner(p) PROVE Projected'
  <2>1. p \in Procs /\ InPlace(p)
    BY DEF Procs, Control
  <2>2. Detached(p)
    BY <1>10, <2>1, Kinds DEF Detached, Moves, files, Early, ReadOwner, Goto, Leave, Typed, InPlace, Acquiring, Adopting, StartSteps, Waiting, GivingUp, Over, OwnersWork, Holding, OwnSteps
  <2> QED BY <2>1, <2>2, ProjectedMove
<1>11. ASSUME NEW p \in Inits \cup Stops, Inspect(p) PROVE Projected'
  <2>1. p \in Procs /\ InPlace(p)
    BY DEF Procs, Control
  <2>2. Detached(p)
    BY <1>11, <2>1, Kinds DEF Detached, Moves, files, Early, Inspect, Goto, Leave, Typed, InPlace, Acquiring, Adopting, StartSteps, Waiting, GivingUp, Over, OwnersWork, Holding, OwnSteps
  <2> QED BY <2>1, <2>2, ProjectedMove
<1>12. ASSUME NEW p \in Inits \cup Stops, Claim(p) PROVE Projected'
  <2>1. p \in Procs /\ InPlace(p)
    BY DEF Procs, Control
  <2>2. Detached(p)
    BY <1>12, <2>1, Kinds DEF Detached, Moves, files, Early, Claim, Goto, Leave, Typed, InPlace, Acquiring, Adopting, StartSteps, Waiting, GivingUp, Over, OwnersWork, Holding, OwnSteps
  <2> QED BY <2>1, <2>2, ProjectedMove
<1>13. ASSUME NEW p \in Inits \cup Stops, Check(p) PROVE Projected'
  <2>1. p \in Procs /\ InPlace(p)
    BY DEF Procs, Control
  <2>2. Detached(p)
    BY <1>13, <2>1, Kinds DEF Detached, Moves, files, Early, Check, Goto, Leave, Typed, InPlace, Acquiring, Adopting, StartSteps, Waiting, GivingUp, Over, OwnersWork, Holding, OwnSteps
  <2> QED BY <2>1, <2>2, ProjectedMove
<1>14. ASSUME NEW p \in Inits \cup Stops, Detach(p) PROVE Projected'
  <2>1. p \in Procs /\ InPlace(p)
    BY DEF Procs, Control
  <2>2. Detached(p)
    BY <1>14, <2>1, Kinds DEF Detached, Moves, files, Early, Detach, Goto, Leave, Typed, InPlace, Acquiring, Adopting, StartSteps, Waiting, GivingUp, Over, OwnersWork, Holding, OwnSteps
  <2> QED BY <2>1, <2>2, ProjectedMove
<1>15. ASSUME NEW p \in Starts, Project(p) PROVE Projected'
  <2>0. p \in Procs /\ \A q \in Procs \ {p} : pc'[q] = pc[q]
    BY <1>15 DEF Procs, Project, Goto, Typed
  <2>1. pc[p] = "project" /\ pc'[p] = "spawn" /\ UNCHANGED <<config, state, owns>>
    BY <1>15, <2>0 DEF Project, Goto, Typed
  <2>2. used'[p] = config /\ \A q \in Procs \ {p} : used'[q] = used[q]
    BY <1>15, <2>0 DEF Project, Typed
  <2>3. p \notin Launchers /\ \A l \in Launchers : Parent[l] = p => Parent[l] # l
    BY <2>0, Kinds
  <2>4. \A l \in Launchers : Parent[l] = p => pc[l] = "idle"
    BY <2>1, <2>3 DEF Projected, Spawned, Early
  <2>5. StartsRead'
    BY <2>0, <2>1, <2>2 DEF Projected, StartsRead, Procs
  <2>6. LaunchersRead' /\ Spawned' /\ RuntimeTrue'
    BY <2>0, <2>1, <2>2, <2>3, <2>4, ParentKind DEF Projected, LaunchersRead, Spawned, RuntimeTrue, Procs, Early
  <2> QED BY <2>5, <2>6 DEF Projected
<1>16. ASSUME NEW p \in Starts, Spawn(p) PROVE Projected'
  <2>0. p \in Procs /\ pc[p] = "spawn" /\ UNCHANGED <<config, used, state, owns>> /\ p \notin Launchers
    BY <1>16, Kinds DEF Procs, Spawn, files
  <2>1. CASE Goto(p, "release")
    <3>1. Detached(p)
      BY <1>16, <2>0, <2>1 DEF Detached, Moves, Spawn, Goto, Typed, Early
    <3> QED BY <2>0, <3>1, ProjectedMove
  <2>2. ASSUME NEW l \in Launchers, Parent[l] = p, pc[l] = "idle", pc' = [pc EXCEPT ![p] = "ready", ![l] = "adopt"]
        PROVE  Projected'
    <3>1. /\ pc'[p] = "ready" /\ pc'[l] = "adopt" /\ l \in Procs /\ l \notin Starts
          /\ \A q \in Procs \ {p, l} : pc'[q] = pc[q]
      BY <2>0, <2>2, Kinds DEF Typed, Procs
    <3>2. StartsRead'
      BY <2>0, <3>1 DEF Projected, StartsRead, Procs
    <3>3. LaunchersRead' /\ RuntimeTrue'
      BY <2>0, <3>1 DEF Projected, LaunchersRead, RuntimeTrue, Procs
    <3>4. Spawned'
      BY <2>0, <2>2, <3>1, ParentKind DEF Projected, Spawned, Early, Procs
    <3> QED BY <3>2, <3>3, <3>4 DEF Projected
  <2> QED BY <1>16, <2>1, <2>2 DEF Spawn
<1>17. ASSUME NEW p \in Starts, Ready(p) PROVE Projected'
  <2>0. p \in Procs /\ pc[p] = "ready" /\ UNCHANGED <<config, used, state>> /\ p \notin Launchers /\ owns' \subseteq owns
    BY <1>17, Kinds DEF Procs, Ready, files
  <2>1. PICK l \in Launchers :
          \/ Goto(p, "unguard")
          \/ pc' = [pc EXCEPT ![p] = "handback", ![l] = IF Alive(l) THEN "dead" ELSE @]
    BY <1>17 DEF Ready
  <2>2. l \in Procs /\ l \notin Starts
    BY Kinds DEF Procs
  <2>3. /\ pc'[p] \in {"unguard", "handback"}
        /\ \A q \in Procs \ {p} : pc'[q] \in {pc[q], "dead"} /\ (pc[q] = "idle" \/ q \in Starts => pc'[q] = pc[q])
    BY <2>0, <2>1, <2>2 DEF Goto, Typed, Alive
  <2>4. StartsRead'
    BY <2>0, <2>3 DEF Projected, StartsRead, Procs
  <2>5. LaunchersRead' /\ RuntimeTrue'
    BY <2>0, <2>3 DEF Projected, LaunchersRead, RuntimeTrue, Procs
  <2>6. Spawned'
    BY <2>0, <2>3, ParentKind DEF Projected, Spawned, Early, Procs
  <2> QED BY <2>4, <2>5, <2>6 DEF Projected
<1>18. ASSUME NEW p \in Starts, HandBack(p) PROVE Projected'
  <2>1. p \in Procs /\ InPlace(p)
    BY DEF Procs, Control
  <2>2. Detached(p)
    BY <1>18, <2>1, Kinds DEF Detached, Moves, files, Early, HandBack, Goto, Leave, Typed, InPlace, Acquiring, Adopting, StartSteps, Waiting, GivingUp, Over, OwnersWork, Holding, OwnSteps
  <2> QED BY <2>1, <2>2, ProjectedMove
<1>19. ASSUME NEW p \in Launchers, Adopt(p) PROVE Projected'
  <2>1. p \in Procs /\ InPlace(p)
    BY DEF Procs, Control
  <2>2. Detached(p)
    BY <1>19, <2>1, Kinds DEF Detached, Moves, files, Early, Adopt, Goto, Leave, Typed, InPlace, Acquiring, Adopting, StartSteps, Waiting, GivingUp, Over, OwnersWork, Holding, OwnSteps
  <2> QED BY <2>1, <2>2, ProjectedMove
<1>20. ASSUME NEW p \in Launchers, WriteRecord(p) PROVE Projected'
  <2>1. p \in Procs /\ InPlace(p)
    BY DEF Procs, Control
  <2>2. Detached(p)
    BY <1>20, <2>1, Kinds DEF Detached, Moves, files, Early, WriteRecord, Goto, Leave, Typed, InPlace, Acquiring, Adopting, StartSteps, Waiting, GivingUp, Over, OwnersWork, Holding, OwnSteps
  <2> QED BY <2>1, <2>2, ProjectedMove
<1>21. ASSUME NEW p \in Launchers, Swap(p) PROVE Projected'
  <2>0. p \in Procs /\ Moves(p) /\ pc[p] = "swap" /\ UNCHANGED <<config, used, state>> /\ \A q \in Procs \ {p} : pc'[q] = pc[q]
    BY <1>21 DEF Procs, Moves, Swap, Goto, Typed, files
  <2>1. p \notin Starts /\ InPlace(p) /\ Parent[p] # p
    BY <2>0, Kinds DEF Control, InPlace, Adopting
  <2>2. Parent[p] \in Starts \cap owns /\ pc[Parent[p]] = "ready"
    BY <2>0, <2>1, ParentKind DEF Holding, ParentsReady, Adopting
  <2>3. used[Parent[p]] = config
    BY <2>2 DEF Projected, StartsRead
  <2>4. pc'[p] \in {"begin", "failed"} /\ owns' \subseteq owns \cup {p}
    BY <1>21, <2>0 DEF Swap, Goto, Typed
  <2>5. StartsRead'
    BY <2>0, <2>1, <2>4 DEF Projected, StartsRead, Procs
  <2>6. LaunchersRead'
    BY <2>0, <2>3, <2>4 DEF Projected, LaunchersRead, Procs
  <2>7. Spawned' /\ RuntimeTrue'
    BY <2>0, <2>1, <2>4, ParentKind DEF Projected, Spawned, RuntimeTrue, Procs
  <2> QED BY <2>5, <2>6, <2>7 DEF Projected
<1>22. ASSUME NEW p \in Launchers, WriteState(p) PROVE Projected'
  <2>0. p \in Procs /\ Moves(p) /\ p \in owns /\ owns' = owns /\ \A q \in Procs \ {p} : pc'[q] = pc[q]
    BY <1>22 DEF Procs, Moves, WriteState, Goto, Typed, Holding, WorkersOwn, Working
  <2>1. owns = {p} /\ pc[p] = "begin" /\ pc'[p] = "boot" /\ config' = config /\ state' = {p}
    BY <1>22, <1>0, <2>0 DEF WriteState, Goto, Typed
  <2>2. \A q \in Procs \ {p} : pc[q] \notin {"begin", "boot", "serve"}
    BY <2>1 DEF Holding, WorkersOwn, Working
  <2>3. used'[p] = config /\ \A q \in Procs \ {p} : used'[q] = used[q]
    BY <1>22, <2>0, <2>1 DEF WriteState, Typed, Projected, LaunchersRead
  <2>4. p \notin Starts
    BY <2>0, Kinds
  <2>5. StartsRead' /\ LaunchersRead' /\ RuntimeTrue'
    BY <2>0, <2>1, <2>2, <2>3, <2>4 DEF StartsRead, LaunchersRead, RuntimeTrue, Procs
  <2>6. Spawned'
    BY <2>0, <2>1, <2>4, ParentKind DEF Projected, Spawned, Procs
  <2> QED BY <2>5, <2>6 DEF Projected
<1>23. ASSUME NEW p \in Launchers, Abandon(p) PROVE Projected'
  <2>1. p \in Procs /\ InPlace(p)
    BY DEF Procs, Control
  <2>2. Detached(p)
    BY <1>23, <2>1, Kinds DEF Detached, Moves, files, Early, Abandon, Goto, Leave, Typed, InPlace, Acquiring, Adopting, StartSteps, Waiting, GivingUp, Over, OwnersWork, Holding, OwnSteps
  <2> QED BY <2>1, <2>2, ProjectedMove
<1>24. ASSUME NEW p \in Launchers, Serve(p) PROVE Projected'
  <2>1. p \in Procs /\ InPlace(p)
    BY DEF Procs, Control
  <2>2. Detached(p)
    BY <1>24, <2>1, Kinds DEF Detached, Moves, files, Early, Serve, Goto, Leave, Typed, InPlace, Acquiring, Adopting, StartSteps, Waiting, GivingUp, Over, OwnersWork, Holding, OwnSteps
  <2> QED BY <2>1, <2>2, ProjectedMove
<1>25. ASSUME NEW p \in Launchers, Shutdown(p) PROVE Projected'
  <2>0. p \in Procs /\ Moves(p) /\ p \in owns /\ owns' = owns /\ \A q \in Procs \ {p} : pc'[q] = pc[q]
    BY <1>25 DEF Procs, Moves, Shutdown, Goto, Typed, Holding, WorkersOwn, Working
  <2>1. owns = {p} /\ pc'[p] = "release" /\ pc[p] # "release" /\ used' = used
    BY <1>25, <1>0, <2>0 DEF Shutdown, Goto, Typed
  <2>2. \A q \in Procs \ {p} : pc[q] \notin {"begin", "boot", "serve"} /\ q \notin owns
    BY <2>1 DEF Holding, WorkersOwn, Working
  <2>3. StartsRead' /\ LaunchersRead' /\ RuntimeTrue'
    BY <2>0, <2>1, <2>2 DEF StartsRead, LaunchersRead, RuntimeTrue, Procs
  <2>4. Spawned'
    <3>1. pc[p] # "idle" /\ p \notin Starts
      BY <1>25, <2>0, Kinds DEF Shutdown
    <3> QED BY <2>0, <2>1, <3>1, ParentKind DEF Projected, Spawned, Procs
  <2> QED BY <2>3, <2>4 DEF Projected
<1>26. ASSUME NEW p \in Launchers, Retain(p) PROVE Projected'
  <2>1. p \in Procs /\ InPlace(p)
    BY DEF Procs, Control
  <2>2. Detached(p)
    BY <1>26, <2>1, Kinds DEF Detached, Moves, files, Early, Retain, Goto, Leave, Typed, InPlace, Acquiring, Adopting, StartSteps, Waiting, GivingUp, Over, OwnersWork, Holding, OwnSteps
  <2> QED BY <2>1, <2>2, ProjectedMove
<1>27. ASSUME NEW p \in Inits, Configure(p) PROVE Projected'
  <2>0. p \in Procs /\ Moves(p) /\ p \in owns /\ owns' = owns /\ \A q \in Procs \ {p} : pc'[q] = pc[q]
    BY <1>27 DEF Procs, Moves, Configure, Goto, Typed, Holding, WorkersOwn, Working
  <2>1. owns = {p} /\ pc'[p] = "release" /\ pc[p] # "release" /\ used' = used
    BY <1>27, <1>0, <2>0 DEF Configure, Goto, Typed
  <2>2. \A q \in Procs \ {p} : pc[q] \notin {"begin", "boot", "serve"} /\ q \notin owns
    BY <2>1 DEF Holding, WorkersOwn, Working
  <2>3. StartsRead' /\ LaunchersRead' /\ RuntimeTrue'
    BY <2>0, <2>1, <2>2 DEF StartsRead, LaunchersRead, RuntimeTrue, Procs
  <2>4. Spawned'
    <3>1. pc[p] # "idle" /\ p \notin Starts
      BY <1>27, <2>0, Kinds DEF Configure
    <3> QED BY <2>0, <2>1, <3>1, ParentKind DEF Projected, Spawned, Procs
  <2> QED BY <2>3, <2>4 DEF Projected
<1>28. ASSUME NEW p \in Stops, RemoveState(p) PROVE Projected'
  <2>0. p \in Procs /\ Moves(p) /\ p \in owns /\ owns' = owns /\ \A q \in Procs \ {p} : pc'[q] = pc[q]
    BY <1>28 DEF Procs, Moves, RemoveState, Goto, Typed, Holding, WorkersOwn, Working
  <2>1. owns = {p} /\ pc'[p] = "release" /\ pc[p] # "release" /\ used' = used
    BY <1>28, <1>0, <2>0 DEF RemoveState, Goto, Typed
  <2>2. \A q \in Procs \ {p} : pc[q] \notin {"begin", "boot", "serve"} /\ q \notin owns
    BY <2>1 DEF Holding, WorkersOwn, Working
  <2>3. StartsRead' /\ LaunchersRead' /\ RuntimeTrue'
    BY <2>0, <2>1, <2>2 DEF StartsRead, LaunchersRead, RuntimeTrue, Procs
  <2>4. Spawned'
    <3>1. pc[p] # "idle" /\ p \notin Starts
      BY <1>28, <2>0, Kinds DEF RemoveState
    <3> QED BY <2>0, <2>1, <3>1, ParentKind DEF Projected, Spawned, Procs
  <2> QED BY <2>3, <2>4 DEF Projected
<1>29. ASSUME NEW p \in Procs, Release(p) PROVE Projected'
  <2>1. p \in Procs /\ InPlace(p)
    BY DEF Procs, Control
  <2>2. Detached(p)
    BY <1>29, <2>1, Kinds DEF Detached, Moves, files, Early, Release, Goto, Leave, Typed, InPlace, Acquiring, Adopting, StartSteps, Waiting, GivingUp, Over, OwnersWork, Holding, OwnSteps
  <2> QED BY <2>1, <2>2, ProjectedMove
<1>30. ASSUME NEW p \in Procs, Unlink(p) PROVE Projected'
  <2>1. p \in Procs /\ InPlace(p)
    BY DEF Procs, Control
  <2>2. Detached(p)
    BY <1>30, <2>1, Kinds DEF Detached, Moves, files, Early, Unlink, Goto, Leave, Typed, InPlace, Acquiring, Adopting, StartSteps, Waiting, GivingUp, Over, OwnersWork, Holding, OwnSteps
  <2> QED BY <2>1, <2>2, ProjectedMove
<1>31. ASSUME NEW p \in Procs, Rmdir(p) PROVE Projected'
  <2>1. p \in Procs /\ InPlace(p)
    BY DEF Procs, Control
  <2>2. Detached(p)
    BY <1>31, <2>1, Kinds DEF Detached, Moves, files, Early, Rmdir, Goto, Leave, Typed, InPlace, Acquiring, Adopting, StartSteps, Waiting, GivingUp, Over, OwnersWork, Holding, OwnSteps
  <2> QED BY <2>1, <2>2, ProjectedMove
<1>32. ASSUME NEW p \in Procs, Crash(p) PROVE Projected'
  <2>1. p \in Procs /\ pc[p] # "idle" /\ owns' \subseteq owns /\ UNCHANGED files
    BY <1>32 DEF Procs, Crash, Alive
  <2>2. Moves(p) /\ pc'[p] = "dead"
    BY <1>32, <2>1 DEF Crash, Goto, Typed, Moves
  <2>3. Detached(p)
    BY <2>1, <2>2 DEF Detached, Early
  <2> QED BY <2>1, <2>3, ProjectedMove
<1> QED BY <1>1, <1>2, <1>3, <1>4, <1>5, <1>6, <1>7, <1>8, <1>9, <1>10, <1>11, <1>12, <1>13, <1>14, <1>15, <1>16, <1>17, <1>18, <1>19, <1>20, <1>21, <1>22, <1>23, <1>24, <1>25, <1>26, <1>27, <1>28, <1>29, <1>30, <1>31, <1>32, StepIs

\* A runtime that is up was projected from the present configuration and is the
\* one that is recorded, with an init beside its start or not
\* (source-runtime-launcher.ts:277-292); a stop that runs alone recovers whatever
\* lock is left.
THEOREM LockHonest == Careful /\ Spec => []LockTrue
<1> SUFFICES ASSUME Careful PROVE Spec => []LockTrue
  OBVIOUS
<1>1. Init => Projected
  BY DEF Init, Projected, StartsRead, LaunchersRead, Spawned, RuntimeTrue, Procs
<1>2. LockInv /\ LockInv' /\ Projected /\ [Next]_vars => Projected'
  BY ProjectedKept
<1>3. Spec => []Projected
  BY <1>1, <1>2, LockHolds, PTL DEF Spec
<1>4. Projected /\ Alone => LockTrue
  BY DEF Projected, Alone, Sole, LockTrue, StopRecovers
<1> QED BY <1>3, <1>4, AloneHolds, PTL

-----------------------------------------------------------------------------
(* What a command ends *)

\* The fields of a command and of its scope.
IsCommand(r) ==
  r = [cmd |-> r.cmd, at |-> r.at, shell |-> r.shell, scope |-> r.scope, found |-> r.found,
       refusedPorts |-> r.refusedPorts, refusedPids |-> r.refusedPids, approved |-> r.approved,
       answer |-> r.answer]

\* What the state and the scope name is never another program's tool.
Named(entries) == \A e \in entries : e[2] # "tool"
StateNamed == Named(record.ports) /\ Named(record.pids)
RunNamed == IsCommand(asked) /\ Named(asked.scope.ports) /\ Named(asked.scope.pids)

\* Nobody approves of what `fx stop` ends.
NoneApproved == asked.cmd = "stop" => asked.approved = {}

OwnInv == StateNamed /\ RunNamed /\ NoneApproved

On(scope) == {t \in (DOMAIN proc) \X scope.ports : t[1] \in Authority!Listeners(t[2][1])}
At(scope) == {t \in (DOMAIN proc) \X scope.pids : t[1] = t[2][1]}
Admits(r, scope, t) == Authority!Approved(r, t[1]) \/ Authority!Owns(t[1], t[2][2], scope.role)

LEMMA FoundFields ==
  ASSUME NEW r, IsCommand(r), NEW scope
  PROVE  /\ IsCommand(Authority!Found(r, scope))
         /\ Authority!Found(r, scope).cmd = r.cmd /\ Authority!Found(r, scope).at = r.at
         /\ Authority!Found(r, scope).shell = r.shell
         /\ Authority!Found(r, scope).scope = scope /\ Authority!Found(r, scope).approved = r.approved
         /\ Authority!Found(r, scope).found = {t[1] : t \in {u \in On(scope) \cup At(scope) : Admits(r, scope, u)}}
         /\ Authority!Found(r, scope).refusedPorts = {t[2][1] : t \in {u \in On(scope) : ~Admits(r, scope, u)}}
         /\ Authority!Found(r, scope).refusedPids = {t[1] : t \in {u \in At(scope) : ~Admits(r, scope, u)}}
<1> DEFINE found == {t[1] : t \in {u \in On(scope) \cup At(scope) : Admits(r, scope, u)}}
           ports == {t[2][1] : t \in {u \in On(scope) : ~Admits(r, scope, u)}}
           pids == {t[1] : t \in {u \in At(scope) : ~Admits(r, scope, u)}}
<1>1. Authority!Found(r, scope) = [r EXCEPT !.scope = scope, !.found = found, !.refusedPorts = ports, !.refusedPids = pids]
  BY Zenon DEF Authority!Found, On, At, Admits
<1> HIDE DEF found, ports, pids
<1>2. Authority!Found(r, scope) = [cmd |-> r.cmd, at |-> r.at, shell |-> r.shell, scope |-> scope, found |-> found,
       refusedPorts |-> ports, refusedPids |-> pids, approved |-> r.approved, answer |-> r.answer]
  BY <1>1 DEF IsCommand
<1>3. /\ IsCommand(Authority!Found(r, scope))
      /\ Authority!Found(r, scope).cmd = r.cmd /\ Authority!Found(r, scope).at = r.at
      /\ Authority!Found(r, scope).shell = r.shell
      /\ Authority!Found(r, scope).scope = scope /\ Authority!Found(r, scope).approved = r.approved
      /\ Authority!Found(r, scope).found = found /\ Authority!Found(r, scope).refusedPorts = ports
      /\ Authority!Found(r, scope).refusedPids = pids
  BY <1>2 DEF IsCommand
<1> QED BY <1>3 DEF found, ports, pids

LEMMA AskedFields ==
  ASSUME NEW cmd, NEW shell
  PROVE  /\ IsCommand(Authority!Asked(cmd, shell)) /\ Authority!Asked(cmd, shell).cmd = cmd
         /\ Authority!Asked(cmd, shell).at = "asked"
         /\ Authority!Asked(cmd, shell).shell = shell /\ Authority!Asked(cmd, shell).approved = {}
         /\ Authority!Asked(cmd, shell).scope = Authority!NoScope /\ Authority!Asked(cmd, shell).found = {}
<1>1. Authority!Asked(cmd, shell) = [cmd |-> cmd, at |-> "asked", shell |-> shell, scope |-> Authority!NoScope, found |-> {},
          refusedPorts |-> {}, refusedPids |-> {}, approved |-> {}, answer |-> "none"]
  <2>1. /\ IsCommand(Authority!NoRun) /\ Authority!NoRun.scope = Authority!NoScope
        /\ Authority!NoRun.found = {} /\ Authority!NoRun.refusedPorts = {}
        /\ Authority!NoRun.refusedPids = {} /\ Authority!NoRun.approved = {} /\ Authority!NoRun.answer = "none"
    BY DEF Authority!NoRun, IsCommand
  <2>2. Authority!Asked(cmd, shell) = [Authority!NoRun EXCEPT !.cmd = cmd, !.at = "asked", !.shell = shell]
    BY DEF Authority!Asked
  <2> QED BY <2>1, <2>2 DEF IsCommand
<1> QED BY <1>1 DEF IsCommand

LEMMA OwnedIsOwn ==
  ASSUME NEW p, NEW service, service # "tool", NEW role, Authority!Owns(p, service, role)
  PROVE  Authority!Own(p)
BY DEF Authority!Owns, Authority!InItsDirectory, Authority!RunsIt, Authority!ServesExtension,
   Authority!Snapshot, Authority!Own

LEMMA ScopeNamed ==
  ASSUME StateNamed, NEW shell
  PROVE  Named(Authority!Scope(shell).ports) /\ Named(Authority!Scope(shell).pids)
<1>1. CASE Authority!Trusted
  BY <1>1 DEF Authority!Scope, StateNamed, Named
<1>2. CASE ~Authority!Trusted
  <2>1. Authority!Scope(shell).ports = {<<Authority!CorePort(s, slot), s>> : s \in {"server", "interface"}} \cup Authority!Recovered.ports
    BY <1>2 DEF Authority!Scope
  <2>2. Authority!Scope(shell).pids = IF held = 0 THEN {} ELSE {<<held, "launcher">>}
    BY <1>2 DEF Authority!Scope
  <2>3. Authority!Recovered.ports = IF Authority!Known("ext") THEN {<<p, "ext">> : p \in map.ports} ELSE {}
    BY DEF Authority!Recovered
  <2> QED BY <2>1, <2>2, <2>3 DEF Named
<1> QED BY <1>1, <1>2

LEMMA FoundIsOwn ==
  ASSUME NEW r, IsCommand(r), NEW scope, Named(scope.ports), Named(scope.pids),
         NEW p \in Authority!Found(r, scope).found
  PROVE  p \in DOMAIN proc /\ (Authority!Approved(r, p) \/ Authority!Own(p))
<1>1. PICK t \in On(scope) \cup At(scope) : p = t[1] /\ Admits(r, scope, t)
  BY FoundFields
<1>2. t[1] \in DOMAIN proc /\ t[2] \in scope.ports \cup scope.pids
  BY DEF On, At
<1>3. t[2][2] # "tool"
  BY <1>2 DEF Named
<1> QED BY <1>1, <1>2, <1>3, OwnedIsOwn DEF Admits

\* What is gone with the processes `ended` are those and some of this checkout's.
LEMMA GoneEnds ==
  ASSUME NEW ended, NEW heeded, Authority!Gone(ended, heeded), NEW p \in Authority!Killed
  PROVE  p \in ended \/ Authority!Own(p)
BY SMTT(30) DEF Authority!Gone, Authority!Without, Authority!Killed, Authority!Ours

LEMMA GoneThins ==
  ASSUME NEW ended, NEW heeded, Authority!Gone(ended, heeded)
  PROVE  DOMAIN proc' \subseteq DOMAIN proc /\ \A p \in DOMAIN proc' : proc'[p] = proc[p]
BY SMTT(30) DEF Authority!Gone, Authority!Without

LEMMA OverFields ==
  ASSUME NEW r, NEW answer, Authority!Over(r, answer)
  PROVE  /\ IsCommand(asked') /\ asked'.cmd = r.cmd /\ asked'.at = "over" /\ asked'.shell = r.shell
         /\ asked'.answer = answer
         /\ asked'.scope = Authority!NoScope /\ asked'.found = {} /\ asked'.approved = {}
<1>1. /\ IsCommand(Authority!NoRun) /\ Authority!NoRun.scope = Authority!NoScope
      /\ Authority!NoRun.found = {} /\ Authority!NoRun.refusedPorts = {}
      /\ Authority!NoRun.refusedPids = {} /\ Authority!NoRun.approved = {} /\ Authority!NoRun.answer = "none"
  BY DEF Authority!NoRun, IsCommand
<1>2. asked' = [Authority!NoRun EXCEPT !.cmd = r.cmd, !.at = "over", !.shell = r.shell, !.answer = answer]
  BY DEF Authority!Over
<1> QED BY <1>1, <1>2 DEF IsCommand

\* The command goes on to its next step.
LEMMA GoesOn ==
  ASSUME NEW r, IsCommand(r), NEW at, asked' = [r EXCEPT !.at = at]
  PROVE  /\ IsCommand(asked') /\ asked'.cmd = r.cmd /\ asked'.at = at /\ asked'.shell = r.shell
         /\ asked'.answer = r.answer
         /\ asked'.scope = r.scope /\ asked'.found = r.found /\ asked'.approved = r.approved
         /\ asked'.refusedPorts = r.refusedPorts /\ asked'.refusedPids = r.refusedPids
BY DEF IsCommand

EndsOwn(r) == \A p \in Authority!Killed : Authority!Own(p) \/ Authority!Approved(r, p) \/ Authority!Unchecked(p)
FindsOwn == asked'.cmd = "stop" /\ asked'.at = "termed" => \A p \in asked'.found : Authority!Own(p)

LEMMA FinishEndsNone ==
  ASSUME NEW r, Authority!Refuses(r) \/ Authority!Finish(r)
  PROVE  /\ proc' = proc /\ boot' = boot
         /\ (Authority!Over(r, "refused") \/ Authority!Over(r, "ok"))
         /\ record' \in {record, Authority!NoState}
BY DEF Authority!Refuses, Authority!Finish

LEMMA OverOwn ==
  ASSUME StateNamed, NEW r, Authority!Refuses(r) \/ Authority!Finish(r)
  PROVE  OwnInv' /\ EndsOwn(r) /\ FindsOwn
<1>1. proc' = proc /\ (Authority!Over(r, "refused") \/ Authority!Over(r, "ok")) /\ record' \in {record, Authority!NoState}
  BY FinishEndsNone
<1>2. asked'.scope = Authority!NoScope /\ asked'.approved = {} /\ asked'.at = "over" /\ IsCommand(asked')
  BY <1>1, OverFields
<1>3. Authority!NoScope.ports = {} /\ Authority!NoScope.pids = {} /\ Authority!NoState.ports = {}
                                   /\ Authority!NoState.pids = {}
  BY DEF Authority!NoScope, Authority!NoState
<1>4. RunNamed' /\ NoneApproved' /\ FindsOwn
  BY <1>2, <1>3 DEF RunNamed, NoneApproved, FindsOwn, Named
<1>5. StateNamed'
  BY <1>1, <1>3 DEF StateNamed, Named
<1>6. EndsOwn(r)
  BY <1>1, FinishEndsNone DEF EndsOwn, Authority!Killed
<1> QED BY <1>4, <1>5, <1>6 DEF OwnInv

LEMMA GoneNamed ==
  ASSUME StateNamed, NEW ended, NEW heeded, Authority!Gone(ended, heeded)
  PROVE  StateNamed'
<1>1. record' \in {record, Authority!NoState}
  BY DEF Authority!Gone
<1>2. Authority!NoState.ports = {} /\ Authority!NoState.pids = {}
  BY DEF Authority!NoState
<1> QED BY <1>1, <1>2 DEF StateNamed, Named

\* A command that has looked ends what it has found.
LEMMA TermsOwn ==
  ASSUME StateNamed, NEW r, IsCommand(r), r.cmd = "stop" => r.approved = {}, NEW shell,
         Authority!Terminates(Authority!Found(r, Authority!Scope(shell)))
  PROVE  OwnInv' /\ EndsOwn(asked') /\ FindsOwn
<1> DEFINE f == Authority!Found(r, Authority!Scope(shell))
<1>1. IsCommand(f) /\ f.cmd = r.cmd /\ f.approved = r.approved /\ f.scope = Authority!Scope(shell)
  BY FoundFields
<1>2. \A p \in f.found : p \in DOMAIN proc /\ (Authority!Approved(r, p) \/ Authority!Own(p))
  BY ScopeNamed, FoundIsOwn
<1> HIDE DEF f
<1>3. PICK ended \in SUBSET f.found : asked' = [f EXCEPT !.at = "termed"] /\ Authority!Gone(ended, TRUE)
  BY DEF Authority!Terminates, f
<1>4. /\ IsCommand(asked') /\ asked'.cmd = r.cmd /\ asked'.approved = r.approved
      /\ asked'.scope = Authority!Scope(shell) /\ asked'.found = f.found
  BY <1>1, <1>3, GoesOn
<1>5. EndsOwn(asked')
  BY <1>2, <1>3, <1>4, GoneEnds DEF EndsOwn, Authority!Approved
<1>6. RunNamed'
  BY <1>4, ScopeNamed DEF RunNamed
<1>7. NoneApproved' /\ FindsOwn
  BY <1>2, <1>4 DEF NoneApproved, FindsOwn, Authority!Approved
<1> QED BY <1>3, <1>5, <1>6, <1>7, GoneNamed DEF OwnInv

LEMMA CommandOwn ==
  ASSUME OwnInv, Authority!Command
  PROVE  OwnInv' /\ FindsOwn /\ (EndsOwn(asked) \/ EndsOwn(asked'))
<1> USE DEF OwnInv
<1>1. ASSUME Authority!AskStop PROVE OwnInv' /\ FindsOwn /\ EndsOwn(asked')
  <2>1. PICK cmd \in {"stop", "force"}, profile \in Authority!Profiles :
          LET r == Authority!Found(Authority!Asked(cmd, Authority!Shell(profile)), Authority!Scope(Authority!Shell(profile)))
          IN  IF r.scope.conflict \/ (r.found = {} /\ Authority!Blocked(r)) THEN Authority!Refuses(r)
              ELSE IF r.found = {} THEN Authority!Finish(r) ELSE Authority!Terminates(r)
    BY <1>1 DEF Authority!AskStop
  <2> DEFINE a == Authority!Asked(cmd, Authority!Shell(profile))
             r == Authority!Found(a, Authority!Scope(Authority!Shell(profile)))
  <2>2. IsCommand(a) /\ a.approved = {} /\ IsCommand(r) /\ r.cmd = a.cmd /\ r.approved = a.approved
    BY AskedFields, FoundFields
  <2>3. Authority!Refuses(r) \/ Authority!Finish(r) \/ Authority!Terminates(r)
    BY <2>1
  <2> HIDE DEF a
  <2>4. CASE Authority!Terminates(r)
    BY <2>2, <2>4, TermsOwn
  <2> HIDE DEF r
  <2>5. CASE Authority!Refuses(r) \/ Authority!Finish(r)
    <3>1. OwnInv' /\ EndsOwn(r) /\ FindsOwn
      BY <2>5, OverOwn
    <3>2. proc' = proc
      BY <2>5, FinishEndsNone
    <3> QED BY <3>1, <3>2 DEF EndsOwn, Authority!Killed
  <2> QED BY <2>3, <2>4, <2>5
<1>2. ASSUME Authority!StopKills PROVE OwnInv' /\ FindsOwn /\ EndsOwn(asked')
  <2>1. /\ asked' = [asked EXCEPT !.at = "killed"] /\ Authority!Gone(asked.found \cap DOMAIN proc, FALSE)
        /\ asked.cmd \in {"stop", "force"} /\ asked.at = "termed"
    BY <1>2 DEF Authority!StopKills
  <2>2. /\ IsCommand(asked') /\ asked'.cmd = asked.cmd /\ asked'.approved = asked.approved
        /\ asked'.scope = asked.scope /\ asked'.found = asked.found /\ asked'.at = "killed"
    BY <2>1, GoesOn DEF RunNamed
  <2>3. EndsOwn(asked')
    BY <2>1, <2>2, GoneEnds DEF EndsOwn, Authority!Approved, Authority!Unchecked
  <2>4. NoneApproved' /\ FindsOwn
    BY <2>1, <2>2 DEF NoneApproved, FindsOwn
  <2> QED BY <2>1, <2>2, <2>3, <2>4, GoneNamed DEF RunNamed
<1>3. ASSUME Authority!StopEnds PROVE OwnInv' /\ FindsOwn /\ EndsOwn(asked)
  BY <1>3, OverOwn DEF Authority!StopEnds
<1>4. ASSUME Authority!AskRestart \/ Authority!AskEnsure PROVE OwnInv' /\ FindsOwn /\ EndsOwn(asked')
  <2>1. proc' = proc /\ record' = record
    BY <1>4 DEF Authority!AskRestart, Authority!AskEnsure, Authority!Over
  <2>2. PICK cmd \in {"restart", "ensure"}, shell \in {Authority!Resolved(profile) : profile \in Authority!Profiles} :
          asked' = Authority!Asked(cmd, shell) \/ Authority!Over(Authority!Asked(cmd, shell), "reused")
    BY <1>4 DEF Authority!AskRestart, Authority!AskEnsure
  <2>3. Authority!NoScope.ports = {} /\ Authority!NoScope.pids = {}
    BY DEF Authority!NoScope
  <2>4. IsCommand(asked') /\ asked'.cmd # "stop" /\ asked'.scope = Authority!NoScope
    BY <2>2, AskedFields, OverFields
  <2>5. StateNamed' /\ EndsOwn(asked')
    BY <2>1 DEF StateNamed, EndsOwn, Authority!Killed
  <2> QED BY <2>3, <2>4, <2>5 DEF RunNamed, NoneApproved, FindsOwn, Named
<1>5. ASSUME Authority!Approves PROVE OwnInv' /\ FindsOwn /\ EndsOwn(asked')
  <2>1. /\ proc' = proc /\ record' = record /\ asked.cmd = "restart"
        /\ asked' = [asked EXCEPT !.approved = asked'.approved]
    <3>1. PICK approved : asked' = [asked EXCEPT !.approved = approved]
      BY <1>5 DEF Authority!Approves
    <3>2. asked'.approved = approved
      BY <3>1 DEF RunNamed, IsCommand
    <3> QED BY <1>5, <3>1, <3>2 DEF Authority!Approves
  <2>2. IsCommand(asked') /\ asked'.cmd = asked.cmd /\ asked'.scope = asked.scope
    BY <2>1 DEF RunNamed, IsCommand
  <2> QED BY <2>1, <2>2 DEF StateNamed, RunNamed, NoneApproved, FindsOwn, EndsOwn, Authority!Killed
<1>6. ASSUME Authority!RestartLooks \/ Authority!RestartEnds PROVE OwnInv' /\ FindsOwn /\ (EndsOwn(asked) \/ EndsOwn(asked'))
  <2> DEFINE r == Authority!Found(asked, Authority!Scope(asked.shell))
  <2>1. Authority!Refuses(r) \/ Authority!Finish(r) \/ Authority!Terminates(r)
    BY <1>6 DEF Authority!RestartLooks, Authority!RestartEnds, Authority!Looks
  <2>2. CASE Authority!Terminates(r)
    BY <1>6, <2>2, TermsOwn DEF RunNamed, Authority!RestartLooks, Authority!RestartEnds, Authority!Restarting
  <2>3. CASE Authority!Refuses(r) \/ Authority!Finish(r)
    <3>1. OwnInv' /\ FindsOwn /\ proc' = proc
      BY <2>3, OverOwn, FinishEndsNone
    <3> QED BY <3>1 DEF EndsOwn, Authority!Killed
  <2> QED BY <2>1, <2>2, <2>3
<1>7. ASSUME Authority!RestartForces PROVE OwnInv' /\ FindsOwn /\ (EndsOwn(asked) \/ EndsOwn(asked'))
  <2> DEFINE r == Authority!Found(asked, Authority!Scope(asked.shell))
             carried == asked.found \cap DOMAIN proc
  <2>1. \/ Authority!Refuses(r)
        \/ /\ asked' = [r EXCEPT !.at = "forced"] /\ Authority!Gone(r.found \cup carried, FALSE)
           /\ \A p \in carried : Authority!StillOurs(p)
    BY <1>7 DEF Authority!RestartForces, Authority!Looks
  <2>2. /\ IsCommand(r) /\ r.cmd = asked.cmd /\ r.approved = asked.approved
        /\ r.scope = Authority!Scope(asked.shell)
        /\ \A p \in r.found : p \in DOMAIN proc /\ (Authority!Approved(asked, p) \/ Authority!Own(p))
    BY FoundFields, FoundIsOwn, ScopeNamed DEF RunNamed
  <2>3. asked.cmd # "stop"
    BY <1>7 DEF Authority!RestartForces, Authority!Restarting
  <2> HIDE DEF r
  <2>4. CASE Authority!Refuses(r)
    <3>1. OwnInv' /\ FindsOwn /\ proc' = proc
      BY <2>4, OverOwn, FinishEndsNone
    <3> QED BY <3>1 DEF EndsOwn, Authority!Killed
  <2>5. CASE /\ asked' = [r EXCEPT !.at = "forced"] /\ Authority!Gone(r.found \cup carried, FALSE)
             /\ \A p \in carried : Authority!StillOurs(p)
    <3>1. \A p \in carried : Authority!Approved(asked, p) \/ Authority!Own(p)
      BY <2>5, OwnedIsOwn DEF Authority!StillOurs, RunNamed, Named
    <3>2. EndsOwn(asked)
      BY <2>2, <2>5, <3>1, GoneEnds DEF EndsOwn
    <3>3. IsCommand(asked') /\ asked'.cmd = asked.cmd /\ asked'.scope = Authority!Scope(asked.shell)
      BY <2>2, <2>5, GoesOn
    <3>4. StateNamed'
      BY <2>5, GoneNamed
    <3> QED BY <2>3, <3>2, <3>3, <3>4, ScopeNamed DEF RunNamed, NoneApproved, FindsOwn
  <2> QED BY <2>1, <2>4, <2>5
<1> QED BY <1>1, <1>2, <1>3, <1>4, <1>5, <1>6, <1>7 DEF Authority!Command

\* What the others do.
LEMMA OthersOwn ==
  ASSUME OwnInv, asked' = asked, StateNamed'
  PROVE  OwnInv'
BY DEF OwnInv, RunNamed, NoneApproved

LEMMA StepOwn ==
  ASSUME OwnInv, [Authority!Next]_stopVars
  PROVE  OwnInv' /\ (asked' # asked => FindsOwn /\ (EndsOwn(asked) \/ EndsOwn(asked')))
<1>1. ASSUME NEW profile \in Authority!Profiles, Authority!StartLauncher(profile) PROVE OwnInv' /\ asked' = asked
  BY <1>1, OthersOwn DEF OwnInv, StateNamed, Authority!StartLauncher
<1>2. ASSUME Authority!Allocate \/ Authority!Crash \/ Authority!Ends PROVE OwnInv' /\ asked' = asked
  BY <1>2, OthersOwn DEF OwnInv, StateNamed, Authority!Allocate, Authority!Crash, Authority!Ends
<1>3. ASSUME NEW pids, \A e \in pids : e[2] \in Authority!Parts PROVE Named(Authority!Written(pids).ports) /\ Named(pids)
                                                                                                           /\ Authority!Written(pids).pids = pids
  <2>1. /\ Authority!Written(pids).pids = pids
        /\ Authority!Written(pids).ports = UNION {{<<p, s>> : p \in Authority!PortsOf(s)} : s \in Authority!Parts}
    BY DEF Authority!Written
  <2>2. \A s \in Authority!Parts : s # "tool"
    BY DEF Authority!Parts
  <2> QED BY <1>3, <2>1, <2>2 DEF Named
<1>4. ASSUME Authority!Records PROVE OwnInv' /\ asked' = asked
  <2>1. asked' = asked /\ proc' = proc /\ record' = Authority!Written({})
    BY <1>4 DEF Authority!Records
  <2> QED BY <1>3, <2>1, OthersOwn DEF StateNamed
<1>5. ASSUME Authority!Serve PROVE OwnInv' /\ asked' = asked
  <2>1. CASE record' = record
    BY <1>5, <2>1, OthersOwn DEF OwnInv, StateNamed, Authority!Serve
  <2>2. CASE LET at == [s \in Authority!Parts |-> Authority!Nth(Authority!Rank(s))]
             IN  record' = Authority!Written({<<at[s], s>> : s \in Authority!Parts})
    BY <1>3, <1>5, <2>2, OthersOwn DEF StateNamed, Authority!Serve
  <2> QED BY <1>5, <2>1, <2>2 DEF Authority!Serve
<1>6. ASSUME Authority!Loses PROVE OwnInv' /\ asked' = asked
  <2>1. asked' = asked /\ proc' = proc /\ \E kind : record' = [Authority!NoState EXCEPT !.kind = kind]
    BY <1>6 DEF Authority!Loses
  <2>2. Authority!NoState.ports = {} /\ Authority!NoState.pids = {}
    BY DEF Authority!NoState
  <2>3. StateNamed'
    BY <2>1, <2>2 DEF StateNamed, Named, Authority!NoState
  <2> QED BY <2>1, <2>3, OthersOwn
<1>7. ASSUME Authority!Stranger PROVE OwnInv' /\ asked' = asked
  BY <1>7, OthersOwn DEF OwnInv, StateNamed, Authority!Stranger
<1>8. ASSUME Authority!Edit \/ Authority!Reslot \/ UNCHANGED stopVars PROVE OwnInv' /\ asked' = asked
  BY <1>8, OthersOwn DEF OwnInv, StateNamed, Authority!Edit, Authority!Reslot, stopVars
<1> QED BY <1>1, <1>2, <1>4, <1>5, <1>6, <1>7, <1>8, CommandOwn DEF Authority!Next

LEMMA InitOwn == Authority!Init => OwnInv
<1> SUFFICES ASSUME Authority!Init PROVE OwnInv
  OBVIOUS
<1>1. record.ports = {} /\ record.pids = {} /\ asked = Authority!NoRun
  BY DEF Authority!Init, Authority!NoState
<1>2. IsCommand(Authority!NoRun) /\ Authority!NoRun.scope = Authority!NoScope /\ Authority!NoRun.found = {}
                                 /\ Authority!NoRun.cmd = "none"
  BY DEF Authority!NoRun, IsCommand
<1>3. Authority!NoScope.ports = {} /\ Authority!NoScope.pids = {}
  BY DEF Authority!NoScope
<1> QED BY <1>1, <1>2, <1>3 DEF OwnInv, StateNamed, RunNamed, NoneApproved, Named

\* Every step of a behaviour of the commands is one of theirs, or leaves them alone.
LEMMA SumSteps ==
  ASSUME [SumNext]_<<part, vars, stopVars>>
  PROVE  /\ [Authority!Next]_stopVars /\ part' = part
         /\ part = "authority" => stopVars' # stopVars \/ <<part, vars, stopVars>>' = <<part, vars, stopVars>>
<1>1. CASE part = "lock" /\ stopVars' = stopVars /\ part' = part
  BY <1>1
<1>2. CASE /\ part = "authority" /\ (Authority!Next \/ stopVars' = stopVars)
           /\ part' = part /\ vars' = vars
  BY <1>2
<1>3. CASE part' = part /\ vars' = vars /\ stopVars' = stopVars
  BY <1>3
<1>4. \/ part = "lock" /\ stopVars' = stopVars /\ part' = part
      \/ /\ part = "authority" /\ (Authority!Next \/ stopVars' = stopVars)
         /\ part' = part /\ vars' = vars
      \/ part' = part /\ vars' = vars /\ stopVars' = stopVars
  <2>1. CASE SumNext
    BY <2>1 DEF SumNext, vars, stopVars
  <2>2. CASE UNCHANGED <<part, vars, stopVars>>
    BY <2>2
  <2> QED BY <2>1, <2>2
<1> QED BY <1>1, <1>2, <1>3, <1>4

LEMMA SumInits == SumInit => Init /\ Authority!Init
BY DEF SumInit

\* runtime-process-owner.ts, stop-execution.ts, stop.ts: whatever starts, crashes, edits,
\* slots and other programs there are, `fx stop`, `fx restart` and `fx start --ensure` end
\* only processes of this checkout's services and those that an operator has forced or
\* approved of, but for the pids that `fx stop` kills without another look: they were this
\* checkout's when it found them, and may be another program's by then.
THEOREM OwnStops ==
  SumSpec => [][part = "authority" => Authority!StopsOnlyOwn]_<<part, vars, stopVars>>
<1>1. OwnInv /\ [SumNext]_<<part, vars, stopVars>> =>
        OwnInv' /\ [part = "authority" => Authority!StopsOnlyOwn]_<<part, vars, stopVars>>
  <2> SUFFICES ASSUME OwnInv, [SumNext]_<<part, vars, stopVars>>
               PROVE  OwnInv' /\ [part = "authority" => Authority!StopsOnlyOwn]_<<part, vars, stopVars>>
    OBVIOUS
  <2>1. OwnInv' /\ (asked' # asked => FindsOwn /\ (EndsOwn(asked) \/ EndsOwn(asked')))
    BY SumSteps, StepOwn
  <2>2. Authority!StopsOnlyOwn
    BY <2>1 DEF Authority!StopsOnlyOwn, Authority!Signalling, EndsOwn, FindsOwn
  <2> QED BY <2>1, <2>2
<1> QED BY <1>1, SumInits, InitOwn, PTL DEF SumSpec

-----------------------------------------------------------------------------
(* What runs, and what a start has made of the files *)

\* Nobody starts beside a command, or beside services that a crash has left.
Orderly == ~Mcp /\ ~Overlaps /\ ~Hasty /\ ~Reslots /\ Strangers \in {0, 1}

Launching == {p \in Authority!Ours : proc[p].svc = "launcher"}
Serving == {p \in Authority!Ours : proc[p].svc # "launcher"}
WaitSteps == {"termed", "killed", "forced"}
Stopping == asked.cmd \in {"stop", "force"}

IsBoot(b) == b = [at |-> b.at, pid |-> b.pid, profile |-> b.profile, role |-> b.role, ports |-> b.ports]
Counted == counts \in [starts : Nat, strangers : Nat, faults : Nat, commands : Nat]

Shapes ==
  /\ DOMAIN proc \subseteq Authority!Pid /\ slot \in 0..1 /\ Counted
  /\ IsBoot(boot) /\ boot.at \in {"no", "begun", "mapped", "recorded"}
  /\ record.kind \in {"none", "other", "torn", "whole"}
  /\ \A p \in Serving : proc[p].svc \in Authority!Parts
  /\ \A p, q \in Authority!Ours : proc[p].svc = proc[q].svc => p = q
  /\ \A p \in Launching : proc[p].ports = {}
OneStranger ==
  /\ \A p, q \in DOMAIN proc \ Authority!Ours : p = q
  /\ \A p \in DOMAIN proc \ Authority!Ours : \A e, f \in proc[p].ports : e = f
  /\ counts.strangers = 0 => DOMAIN proc = Authority!Ours
\* A launcher that starts is the only process, and its map is written.
Booting ==
  /\ boot.at = "no" => boot.pid = 0
  /\ boot.at # "no" => boot.pid \in Launching /\ Serving = {}
  /\ boot.at \in {"mapped", "recorded"} => map.kind = "whole" /\ map.ports = boot.ports /\ boot.ports # {}
LockHeld == \A p \in Launching : held = p
\* A service listens where the slot, the map and the state tell.
Heard ==
  \A p \in Serving :
    /\ proc[p].ports # {}
    /\ proc[p].svc \in {"server", "interface"} => proc[p].ports = {Authority!CorePort(proc[p].svc, slot)}
    /\ proc[p].svc = "ext" => map.kind = "whole" /\ map.ports = proc[p].ports
    /\ record.kind = "whole" => \A q \in proc[p].ports : <<q, proc[p].svc>> \in record.ports
    /\ record.kind = "whole" /\ proc[p].svc = "server" => proc[p].role = record.role
\* What a scope is about.
Within(p, scope) ==
  \/ scope.untrusted
  \/ \E q \in proc[p].ports : q \in scope.unprovenPorts \/ \E e \in scope.ports : e[1] = q
StopWaits ==
  Stopping /\ asked.at \in WaitSteps => boot.at = "no" /\ \A p \in Serving : Within(p, asked.scope)

Stands == Shapes /\ OneStranger /\ Booting /\ LockHeld /\ Heard
StackInv == Stands /\ StopWaits

-----------------------------------------------------------------------------
(* One start *)

OneStart == Orderly /\ ~Elsewhere /\ ~Edits /\ Starting \in {0, 1}

NotYet ==
  counts.starts = 0 =>
    Authority!Ours = {} /\ held = 0 /\ record.kind = "none" /\ map.kind = "none" /\ boot.at = "no"
OneLauncher ==
  /\ record.kind = "whole" /\ held # 0 => held = record.launcher
  /\ \A p \in Serving : p # held /\ (record.kind = "whole" => p # record.launcher)
StateFits ==
  /\ record.kind = "whole" => Authority!Declared(record.role) /\ record.slot = slot
  /\ boot.at \in {"mapped", "recorded"} => Authority!Declared(boot.role)
Told ==
  record.kind = "whole" =>
    /\ \A e \in record.ports \cup record.pids : e[2] \in Authority!Parts
    /\ \A e \in record.pids : e[1] \in Authority!Ours => proc[e[1]].svc = e[2]
    /\ \A e \in record.ports, p \in Authority!Ours : e[1] \in proc[p].ports => proc[p].svc = e[2]
Separate ==
  /\ boot.at \in {"mapped", "recorded"} => boot.ports \cap Authority!CorePorts = {}
  /\ \A p \in Serving : proc[p].svc # "ext" => proc[p].ports \cap map.ports = {}
  /\ \A p \in Serving : proc[p].svc = "ext" => proc[p].ports \cap Authority!CorePorts = {}
\* A server that the shell of the command would not start, and no state tells of it.
Odd(p) == proc[p].svc = "server" /\ proc[p].role # asked.shell /\ record.kind # "whole"
Pending ==
  /\ asked.at \in WaitSteps => boot.at = "no"
  /\ Stopping /\ asked.at = "termed" => \A p \in Authority!Ours : p \in asked.found \/ Odd(p)
  /\ Stopping /\ asked.at = "killed" => \A p \in Authority!Ours : Odd(p)
  /\ Stopping /\ asked.at \in WaitSteps =>
       asked.scope.unprovenPorts = {} /\ asked.scope.unprovenPids = {} /\ (asked.scope.untrusted => map.kind = "bad")
  /\ ~Stopping /\ asked.at = "termed" => \A p \in asked.found \cap Authority!Ours : Authority!StillOurs(p)
  /\ asked.at = "forced" => Authority!Ours = {}
Files == NotYet /\ OneLauncher /\ StateFits /\ Told /\ Separate
SoleInv == Files /\ Pending

-----------------------------------------------------------------------------
(* Free pids and ports *)

LEMMA Least ==
  ASSUME NEW S, S \subseteq 1..8, S # {}
  PROVE  \E m \in S : \A q \in S : m <= q
<1>1. CASE 1 \in S
  BY <1>1
<1>2. CASE 1 \notin S /\ 2 \in S
  BY <1>2
<1>3. CASE 1 \notin S /\ 2 \notin S /\ 3 \in S
  BY <1>3
<1>4. CASE 1 \notin S /\ 2 \notin S /\ 3 \notin S /\ 4 \in S
  BY <1>4
<1>5. CASE S \subseteq 5..8 /\ 5 \in S
  BY <1>5
<1>6. CASE S \subseteq 6..8 /\ 6 \in S
  BY <1>6
<1>7. CASE S \subseteq 7..8 /\ 7 \in S
  BY <1>7
<1>8. CASE S \subseteq {8}
  <2>1. 8 \in S /\ \A q \in S : q = 8
    BY <1>8
  <2> QED BY <2>1
<1>9. S \subseteq 5..8 \/ 1 \in S \/ 2 \in S \/ 3 \in S \/ 4 \in S
  OBVIOUS
<1> QED BY <1>1, <1>2, <1>3, <1>4, <1>5, <1>6, <1>7, <1>8, <1>9

\* The instance counts as the module does.
LEMMA SameCount ==
  ASSUME NEW S
  PROVE  Authority!Cardinality(S) = Cardinality(S)
BY Zenon DEF Authority!Cardinality, Cardinality

LEMMA NthIs ==
  ASSUME NEW k
  PROVE  Authority!Nth(k) = CHOOSE p \in Authority!Pid \ DOMAIN proc :
           Cardinality({q \in Authority!Pid \ DOMAIN proc : q <= p}) = k
BY SameCount DEF Authority!Nth

\* The k-th free pid, for as many as are asked for.
LEMMA FirstFree ==
  ASSUME Authority!Pid \ DOMAIN proc # {}
  PROVE  Authority!Fresh \in Authority!Pid /\ Authority!Fresh \notin DOMAIN proc
<1> DEFINE S == Authority!Pid \ DOMAIN proc
<1>1. PICK m \in S : \A q \in S : m <= q
  <2>1. S \subseteq 1..8 /\ S # {}
    BY DEF Authority!Pid
  <2> QED BY <2>1, Least
<1>2. {q \in S : q <= m} = {m}
  BY <1>1 DEF Authority!Pid
<1>3. Cardinality({q \in S : q <= m}) = 1
  BY <1>2, FS_Singleton
<1>4. \E p \in S : Cardinality({q \in S : q <= p}) = 1
  BY <1>3
<1>5. (CHOOSE p \in S : Cardinality({q \in S : q <= p}) = 1) \in S
  BY <1>4
<1> QED BY <1>5, NthIs DEF Authority!Fresh

LEMMA ThreeFree ==
  ASSUME NEW a, NEW b, DOMAIN proc \subseteq {a, b}
  PROVE  \A k \in 1..3 : /\ Authority!Nth(k) \in Authority!Pid \ DOMAIN proc
                         /\ Cardinality({q \in Authority!Pid \ DOMAIN proc : q <= Authority!Nth(k)}) = k
<1> DEFINE S == Authority!Pid \ DOMAIN proc
<1>0. S \subseteq 1..8 /\ S # {}
  BY DEF Authority!Pid
<1>1. PICK x \in S : \A q \in S : x <= q
  BY <1>0, Least
<1>2. PICK y \in S \ {x} : \A q \in S \ {x} : y <= q
  <2>1. S \ {x} # {} /\ S \ {x} \subseteq 1..8
    BY DEF Authority!Pid
  <2> QED BY <2>1, Least
<1>3. PICK z \in S \ {x, y} : \A q \in S \ {x, y} : z <= q
  <2>1. S \ {x, y} # {} /\ S \ {x, y} \subseteq 1..8
    BY DEF Authority!Pid
  <2> QED BY <2>1, Least
<1>4. {q \in S : q <= x} = {x} /\ {q \in S : q <= y} = {x, y} /\ {q \in S : q <= z} = {x, y, z}
  BY <1>0, <1>1, <1>2, <1>3
<1>5. Cardinality({x}) = 1 /\ IsFiniteSet({x})
  BY FS_Singleton
<1>6. Cardinality({x} \cup {y}) = 2 /\ IsFiniteSet({x} \cup {y})
  BY <1>2, <1>5, FS_AddElement
<1>7. Cardinality(({x} \cup {y}) \cup {z}) = 3
  <2>1. z \notin {x} \cup {y}
    OBVIOUS
  <2>2. Cardinality(({x} \cup {y}) \cup {z}) = Cardinality({x} \cup {y}) + 1
    BY <1>6, <2>1, FS_AddElement
  <2> QED BY <1>6, <2>2
<1>8. {x, y} = {x} \cup {y} /\ {x, y, z} = ({x} \cup {y}) \cup {z}
  OBVIOUS
<1>9. /\ Cardinality({q \in S : q <= x}) = 1
      /\ Cardinality({q \in S : q <= y}) = 2
      /\ Cardinality({q \in S : q <= z}) = 3
  BY <1>4, <1>5, <1>6, <1>7, <1>8
<1>10. ASSUME NEW k \in 1..3 PROVE \E p \in S : Cardinality({q \in S : q <= p}) = k
  <2>1. k = 1 \/ k = 2 \/ k = 3
    OBVIOUS
  <2> QED BY <1>9, <2>1
<1>11. ASSUME NEW k \in 1..3 PROVE Authority!Nth(k) \in S /\ Cardinality({q \in S : q <= Authority!Nth(k)}) = k
  BY <1>10, NthIs
<1> QED BY <1>11

\* Ten ports are enough beside five that are taken.
LEMMA FreeIs ==
  ASSUME NEW seed \in Nat, NEW taken,
         NEW a, NEW b, NEW c, NEW d, taken \subseteq {a, b, c}, \A p : Authority!Busy(p) => p = d
  PROVE  Authority!Free(seed, taken) \in seed..(seed + 9) /\ Authority!Free(seed, taken) \notin taken
<1> DEFINE Bad(q) == q \in taken \/ Authority!Busy(q)
<1>1. \A q : Bad(q) => q \in {a, b, c, d}
  OBVIOUS
<1> HIDE DEF Bad
<1>2. \E p \in seed..(seed + 9) : ~Bad(p) /\ \A q \in seed..(p - 1) : Bad(q)
  <2>1. CASE ~Bad(seed)
    <3>1. seed..(seed - 1) = {}
      OBVIOUS
    <3> QED BY <2>1, <3>1
  <2>2. CASE Bad(seed) /\ ~Bad(seed + 1)
    <3>1. seed..((seed + 1) - 1) = {seed}
      OBVIOUS
    <3> QED BY <2>2, <3>1
  <2>3. CASE Bad(seed) /\ Bad(seed + 1) /\ ~Bad(seed + 2)
    <3>1. seed..((seed + 2) - 1) = {seed, seed + 1}
      OBVIOUS
    <3> QED BY <2>3, <3>1
  <2>4. CASE Bad(seed) /\ Bad(seed + 1) /\ Bad(seed + 2) /\ ~Bad(seed + 3)
    <3>1. seed..((seed + 3) - 1) = {seed, seed + 1, seed + 2}
      OBVIOUS
    <3> QED BY <2>4, <3>1
  <2>5. CASE Bad(seed) /\ Bad(seed + 1) /\ Bad(seed + 2) /\ Bad(seed + 3)
    <3>1. ~Bad(seed + 4)
      BY <1>1, <2>5
    <3>2. seed..((seed + 4) - 1) = {seed, seed + 1, seed + 2, seed + 3}
      OBVIOUS
    <3> QED BY <2>5, <3>1, <3>2
  <2> QED BY <2>1, <2>2, <2>3, <2>4, <2>5
<1>3. Authority!Free(seed, taken) \in seed..(seed + 9) /\ ~Bad(Authority!Free(seed, taken))
  BY <1>2 DEF Authority!Free, Bad
<1> QED BY <1>3 DEF Bad

-----------------------------------------------------------------------------
(* Where everything stands, after a step *)

Thins == DOMAIN proc' \subseteq DOMAIN proc /\ \A p \in DOMAIN proc' : proc'[p] = proc[p]

LEMMA Thinner ==
  ASSUME Thins
  PROVE  /\ Authority!Ours' = Authority!Ours \cap DOMAIN proc'
         /\ Launching' = Launching \cap DOMAIN proc' /\ Serving' = Serving \cap DOMAIN proc'
BY DEF Thins, Authority!Ours, Authority!Own, Launching, Serving

LEMMA NoBootIs == IsBoot(Authority!NoBoot) /\ Authority!NoBoot.at = "no" /\ Authority!NoBoot.pid = 0
BY DEF Authority!NoBoot, IsBoot

LEMMA CountIs ==
  ASSUME Counted, NEW kind \in {"starts", "strangers", "faults", "commands"}, Authority!Count(kind)
  PROVE  /\ Counted' /\ counts'[kind] = counts[kind] + 1
         /\ \A other \in {"starts", "strangers", "faults", "commands"} \ {kind} : counts'[other] = counts[other]
BY DEF Counted, Authority!Count

\* A step that starts nothing.
LEMMA StandsThin ==
  ASSUME Stands, Thins, slot' = slot, Counted', counts'.strangers = counts.strangers,
         \/ boot' = Authority!NoBoot
         \/ boot' = boot /\ (boot.at # "no" => map' = map /\ boot.pid \in DOMAIN proc'),
         held' = held \/ Launching' = {},
         map' = map \/ Serving' = {},
         record' = record \/ (record'.kind \in {"none", "other", "torn"})
  PROVE  Stands'
<1> USE DEF Stands
<1>0. /\ Authority!Ours' = Authority!Ours \cap DOMAIN proc'
      /\ Launching' = Launching \cap DOMAIN proc' /\ Serving' = Serving \cap DOMAIN proc'
  BY Thinner
<1>1. Shapes'
  <2>1. IsBoot(boot)' /\ boot'.at \in {"no", "begun", "mapped", "recorded"}
    BY NoBootIs DEF Shapes, IsBoot
  <2>2. record'.kind \in {"none", "other", "torn", "whole"}
    BY DEF Shapes
  <2>3. /\ \A p \in Serving' : proc'[p].svc \in Authority!Parts
        /\ \A p, q \in Authority!Ours' : proc'[p].svc = proc'[q].svc => p = q
        /\ \A p \in Launching' : proc'[p].ports = {}
    BY <1>0 DEF Shapes, Thins
  <2>4. DOMAIN proc' \subseteq Authority!Pid /\ slot' \in 0..1
    BY DEF Shapes, Thins
  <2> QED BY <2>1, <2>2, <2>3, <2>4 DEF Shapes
<1>2. OneStranger'
  BY <1>0 DEF OneStranger, Thins
<1>3. Booting'
  BY <1>0, NoBootIs DEF Booting
<1>4. LockHeld'
  BY <1>0 DEF LockHeld
<1>5. Heard'
  BY <1>0 DEF Heard, Thins, Authority!CorePort
<1> QED BY <1>1, <1>2, <1>3, <1>4, <1>5

\* A launcher that starts is the owner of the lock and runs alone.
LEMMA StartsAlone ==
  ASSUME Stands, boot.at # "no"
  PROVE  /\ boot.pid \in DOMAIN proc /\ boot.pid \in Authority!Pid /\ boot.pid = held
         /\ Authority!Ours = {boot.pid}
         /\ Launching = {boot.pid} /\ Serving = {}
<1>1. boot.pid \in Launching /\ Serving = {} /\ held = boot.pid
  BY DEF Stands, Booting, LockHeld
<1>2. \A p \in Authority!Ours : p \in Launching \/ p \in Serving
  BY DEF Launching, Serving
<1>3. \A p \in Launching : p = held
  BY DEF Stands, LockHeld
<1> QED BY <1>1, <1>2, <1>3 DEF Launching, Authority!Ours, Stands, Shapes

LEMMA StandsStart ==
  ASSUME Orderly, Stands, NEW profile \in Authority!Profiles, Authority!StartLauncher(profile)
  PROVE  Stands' /\ Serving' = {} /\ ~Authority!Commanding /\ Authority!Ours = {}
                 /\ Authority!Ours' = {Authority!Fresh}
<1>0. Authority!Ours = {} /\ ~Authority!Commanding
  BY DEF Authority!StartLauncher, Orderly
<1>1. Authority!Fresh \in Authority!Pid /\ Authority!Fresh \notin DOMAIN proc
  <2>1. \A p, q \in DOMAIN proc : p = q
    BY <1>0 DEF Stands, OneStranger
  <2>2. Authority!Pid \ DOMAIN proc # {}
    BY <2>1 DEF Authority!Pid
  <2> QED BY <2>2, FirstFree
<1> DEFINE f == Authority!Fresh
<1> HIDE DEF f
<1>2. /\ proc' = [p \in DOMAIN proc \cup {f} |-> IF p = f THEN Authority!Of("launcher", Authority!Base, {}) ELSE proc[p]]
      /\ held' = f /\ slot' = slot /\ map' = map /\ record' = record
      /\ boot' = [Authority!NoBoot EXCEPT !.at = "begun", !.pid = f, !.profile = profile]
  BY DEF Authority!StartLauncher, Authority!With, f
<1>3. f \in Authority!Pid /\ f \notin DOMAIN proc
  BY <1>1 DEF f
<1>4. /\ DOMAIN proc' = DOMAIN proc \cup {f} /\ \A p \in DOMAIN proc : proc'[p] = proc[p]
      /\ proc'[f].svc = "launcher" /\ proc'[f].home = "here" /\ proc'[f].ports = {}
  BY <1>2, <1>3 DEF Authority!Of
<1>5. Authority!Ours' = {f}
  BY <1>0, <1>3, <1>4 DEF Authority!Ours, Authority!Own
<1>6. Launching' = {f} /\ Serving' = {}
  BY <1>4, <1>5 DEF Launching, Serving
<1>7. Counted' /\ counts'.strangers = counts.strangers
  <2>1. counts'["strangers"] = counts["strangers"] /\ Counted'
    BY CountIs DEF Authority!StartLauncher, Stands, Shapes
  <2> QED BY <2>1
<1>8. IsBoot(boot') /\ boot'.at = "begun" /\ boot'.pid = f
  BY <1>2 DEF Authority!NoBoot, IsBoot
<1>9. Shapes'
  BY <1>2, <1>3, <1>4, <1>5, <1>6, <1>7, <1>8 DEF Shapes, Stands
<1>10. OneStranger'
  BY <1>0, <1>3, <1>4, <1>5, <1>7 DEF OneStranger, Stands
<1>11. Booting' /\ LockHeld' /\ Heard'
  BY <1>2, <1>6, <1>8 DEF Booting, LockHeld, Heard
<1> QED BY <1>0, <1>5, <1>6, <1>9, <1>10, <1>11 DEF Stands, f

\* The launcher is gone, and the lock with it.
LEMMA LauncherGone ==
  ASSUME Stands, boot.at # "no", proc' = Authority!Without({boot.pid})
  PROVE  Thins /\ Authority!Ours' = {} /\ Launching' = {} /\ Serving' = {}
<1>1. Thins /\ boot.pid \notin DOMAIN proc'
  BY DEF Authority!Without, Thins
<1> QED BY <1>1, Thinner, StartsAlone

LEMMA StandsAllocate ==
  ASSUME Orderly, Stands, Authority!Allocate
  PROVE  Stands'
<1>1. /\ boot.at = "begun" /\ slot' = slot /\ record' = record /\ counts' = counts
      /\ \/ Authority!Aborts
         \/ /\ map' = Authority!PortMap(Authority!ExtPorts) /\ proc' = proc /\ held' = held
            /\ boot' = [boot EXCEPT !.at = "mapped", !.role = Authority!Resolved(boot.profile), !.ports = Authority!ExtPorts]
  BY DEF Authority!Allocate
<1>2. CASE Authority!Aborts
  BY <1>1, <1>2, LauncherGone, StandsThin DEF Authority!Aborts, Stands, Shapes, Counted
<1>3. CASE /\ map' = Authority!PortMap(Authority!ExtPorts) /\ proc' = proc /\ held' = held
           /\ boot' = [boot EXCEPT !.at = "mapped", !.role = Authority!Resolved(boot.profile), !.ports = Authority!ExtPorts]
  <2> DEFINE ports == Authority!ExtPorts
  <2>1. ports # {}
    BY DEF Authority!ExtPorts
  <2> HIDE DEF ports
  <2>2. IsBoot(boot') /\ boot'.at = "mapped" /\ boot'.pid = boot.pid /\ boot'.ports = ports
    BY <1>3 DEF Stands, Shapes, IsBoot, ports
  <2>3. map'.kind = "whole" /\ map'.ports = ports
    BY <1>3 DEF Authority!PortMap, ports
  <2>4. Authority!Ours' = Authority!Ours /\ Launching' = Launching /\ Serving' = Serving /\ Serving = {}
    BY <1>1, <1>3, StartsAlone DEF Authority!Ours, Authority!Own, Launching, Serving
  <2>5. Shapes'
    BY <1>1, <1>3, <2>2, <2>4 DEF Stands, Shapes, Counted
  <2>6. OneStranger'
    BY <1>1, <1>3, <2>4 DEF Stands, OneStranger
  <2>7. Booting' /\ LockHeld' /\ Heard'
    BY <1>1, <1>3, <2>1, <2>2, <2>3, <2>4 DEF Stands, Booting, LockHeld, Heard
  <2> QED BY <2>5, <2>6, <2>7 DEF Stands
<1> QED BY <1>1, <1>2, <1>3

\* The same processes, when nothing serves.
LEMMA StandsSame ==
  ASSUME Stands, proc' = proc, slot' = slot, Counted', counts'.strangers = counts.strangers,
         held' = held, map' = map, Serving = {}, record'.kind \in {"none", "other", "torn", "whole"},
         IsBoot(boot'), boot'.pid = boot.pid, boot'.ports = boot.ports,
         boot'.at = boot.at \/ (boot.at = "mapped" /\ boot'.at = "recorded")
  PROVE  Stands'
<1>1. Authority!Ours' = Authority!Ours /\ Launching' = Launching /\ Serving' = Serving
  BY DEF Authority!Ours, Authority!Own, Launching, Serving
<1>2. Shapes'
  BY <1>1 DEF Stands, Shapes
<1>3. OneStranger' /\ LockHeld' /\ Heard'
  BY <1>1 DEF Stands, OneStranger, LockHeld, Heard
<1>4. Booting'
  BY <1>1 DEF Stands, Booting
<1> QED BY <1>2, <1>3, <1>4 DEF Stands

LEMMA WrittenIs ==
  ASSUME NEW pids
  PROVE  /\ Authority!Written(pids).kind = "whole" /\ Authority!Written(pids).role = boot.role
         /\ Authority!Written(pids).slot = slot
         /\ Authority!Written(pids).launcher = boot.pid /\ Authority!Written(pids).pids = pids
         /\ Authority!Written(pids).ports = UNION {{<<p, s>> : p \in Authority!PortsOf(s)} : s \in Authority!Parts}
BY DEF Authority!Written

LEMMA StandsRecords ==
  ASSUME Stands, Authority!Records
  PROVE  Stands'
<1>1. /\ boot.at = "mapped" /\ boot' = [boot EXCEPT !.at = "recorded"] /\ record' = Authority!Written({})
      /\ slot' = slot /\ proc' = proc /\ held' = held /\ map' = map /\ counts' = counts
  BY DEF Authority!Records
<1>2. IsBoot(boot') /\ boot'.at = "recorded" /\ boot'.pid = boot.pid /\ boot'.ports = boot.ports
  BY <1>1 DEF Stands, Shapes, IsBoot
<1>3. record'.kind = "whole"
  BY <1>1, WrittenIs
<1>4. Counted'
  BY <1>1 DEF Counted, Stands, Shapes
<1> QED BY <1>1, <1>2, <1>3, <1>4, StartsAlone, StandsSame

\* Where the services of a start are put, and what they are.
At3 == [s \in Authority!Parts |-> Authority!Nth(Authority!Rank(s))]
Started ==
  /\ proc' = [p \in DOMAIN proc \cup {At3[s] : s \in Authority!Parts} |->
       IF p \in DOMAIN proc THEN proc[p]
       ELSE LET s == CHOOSE s \in Authority!Parts : At3[s] = p
            IN  Authority!Of(s, IF s = "server" THEN boot.role ELSE Authority!Base, Authority!PortsOf(s))]
  /\ record' = Authority!Written({<<At3[s], s>> : s \in Authority!Parts})
  /\ held' = held

LEMMA ServeIs ==
  ASSUME Authority!Serve
  PROVE  /\ boot.at = "recorded" /\ boot' = Authority!NoBoot
         /\ slot' = slot /\ map' = map /\ asked' = asked /\ counts' = counts /\ declared' = declared
         /\ \/ proc' = Authority!Without({boot.pid}) /\ held' = 0 /\ record' = record
            \/ Started
BY Zenon DEF Authority!Serve, Started, At3

LEMMA StartedIs ==
  ASSUME Orderly, Stands, boot.at # "no", Started
  PROVE  /\ DOMAIN proc' = DOMAIN proc \cup {At3[s] : s \in Authority!Parts}
         /\ \A p \in DOMAIN proc : proc'[p] = proc[p]
         /\ \A s \in Authority!Parts :
              /\ At3[s] \in Authority!Pid /\ At3[s] \notin DOMAIN proc
              /\ proc'[At3[s]] = Authority!Of(s, IF s = "server" THEN boot.role ELSE Authority!Base, Authority!PortsOf(s))
         /\ \A s, t \in Authority!Parts : At3[s] = At3[t] => s = t
<1>1. Authority!Parts = {"server", "interface", "ext"}
  BY DEF Authority!Parts, Orderly
<1>2. \A s \in Authority!Parts : Authority!Rank(s) \in 1..3
  BY <1>1 DEF Authority!Rank
<1>3. \A s, t \in Authority!Parts : Authority!Rank(s) = Authority!Rank(t) => s = t
  BY <1>1 DEF Authority!Rank
<1>4. \E a, b : DOMAIN proc \subseteq {a, b}
  <2>1. \A p, q \in DOMAIN proc \ {boot.pid} : p = q
    BY StartsAlone DEF Stands, OneStranger
  <2>2. CASE DOMAIN proc \subseteq {boot.pid}
    BY <2>2
  <2>3. CASE ~(DOMAIN proc \subseteq {boot.pid})
    <3>1. PICK b \in DOMAIN proc : b # boot.pid
      BY <2>3
    <3>2. DOMAIN proc \subseteq {boot.pid, b}
      BY <2>1, <3>1
    <3> QED BY <3>2
  <2> QED BY <2>2, <2>3
<1>5. \A k \in 1..3 : /\ Authority!Nth(k) \in Authority!Pid \ DOMAIN proc
                     /\ Cardinality({q \in Authority!Pid \ DOMAIN proc : q <= Authority!Nth(k)}) = k
  BY <1>4, ThreeFree
<1> DEFINE at == At3
<1>6. \A s \in Authority!Parts : at[s] = Authority!Nth(Authority!Rank(s))
  BY DEF At3
<1>7. \A s \in Authority!Parts : at[s] \in Authority!Pid /\ at[s] \notin DOMAIN proc
  BY <1>2, <1>5, <1>6
<1>8. \A s, t \in Authority!Parts : at[s] = at[t] => s = t
  BY <1>2, <1>3, <1>5, <1>6
<1> HIDE DEF at
<1>9. proc' = [p \in DOMAIN proc \cup {at[s] : s \in Authority!Parts} |->
       IF p \in DOMAIN proc THEN proc[p]
       ELSE LET s == CHOOSE s \in Authority!Parts : at[s] = p
            IN  Authority!Of(s, IF s = "server" THEN boot.role ELSE Authority!Base, Authority!PortsOf(s))]
  BY Zenon DEF Started, at
<1>10. ASSUME NEW s \in Authority!Parts
       PROVE  proc'[at[s]] = Authority!Of(s, IF s = "server" THEN boot.role ELSE Authority!Base, Authority!PortsOf(s))
  <2>1. (CHOOSE t \in Authority!Parts : at[t] = at[s]) = s
    <3>1. \E t \in Authority!Parts : at[t] = at[s]
      OBVIOUS
    <3>2. (CHOOSE t \in Authority!Parts : at[t] = at[s]) \in Authority!Parts /\ at[CHOOSE t \in Authority!Parts : at[t] = at[s]] = at[s]
      BY <3>1
    <3> QED BY <1>8, <3>2
  <2> QED BY <1>7, <1>9, <2>1
<1>11. DOMAIN proc' = DOMAIN proc \cup {at[s] : s \in Authority!Parts} /\ \A p \in DOMAIN proc : proc'[p] = proc[p]
  BY <1>9
<1> QED BY <1>7, <1>8, <1>10, <1>11 DEF at

\* The services are those of the start.
LEMMA StartedServes ==
  ASSUME Orderly, Stands, boot.at # "no", Started
  PROVE  /\ Launching' = {boot.pid} /\ Serving' = {At3[s] : s \in Authority!Parts}
         /\ Authority!Ours' = {boot.pid} \cup {At3[s] : s \in Authority!Parts}
         /\ boot.pid \notin {At3[s] : s \in Authority!Parts}
         /\ proc'[boot.pid] = proc[boot.pid]
         /\ \A s \in Authority!Parts : /\ proc'[At3[s]].svc = s /\ proc'[At3[s]].ports = Authority!PortsOf(s)
                              /\ proc'[At3[s]].role = IF s = "server" THEN boot.role ELSE Authority!Base
         /\ DOMAIN proc' \ Authority!Ours' = DOMAIN proc \ Authority!Ours
<1> DEFINE at == At3
<1>1. /\ DOMAIN proc' = DOMAIN proc \cup {at[s] : s \in Authority!Parts}
      /\ \A p \in DOMAIN proc : proc'[p] = proc[p]
      /\ \A s \in Authority!Parts :
           /\ at[s] \in Authority!Pid /\ at[s] \notin DOMAIN proc
           /\ proc'[at[s]] = Authority!Of(s, IF s = "server" THEN boot.role ELSE Authority!Base, Authority!PortsOf(s))
  BY StartedIs
<1>2. /\ boot.pid \in DOMAIN proc /\ Authority!Ours = {boot.pid} /\ Launching = {boot.pid}
  BY StartsAlone
<1> HIDE DEF at
<1>3. \A s \in Authority!Parts : /\ proc'[at[s]].svc = s /\ proc'[at[s]].ports = Authority!PortsOf(s)
                                 /\ proc'[at[s]].home = "here"
                       /\ proc'[at[s]].role = IF s = "server" THEN boot.role ELSE Authority!Base
  <2>1. SUFFICES ASSUME NEW s \in Authority!Parts
                 PROVE  /\ proc'[at[s]].svc = s /\ proc'[at[s]].ports = Authority!PortsOf(s)
                        /\ proc'[at[s]].home = "here"
                        /\ proc'[at[s]].role = IF s = "server" THEN boot.role ELSE Authority!Base
    OBVIOUS
  <2> DEFINE role == IF s = "server" THEN boot.role ELSE Authority!Base
             ports == Authority!PortsOf(s)
  <2>2. proc'[at[s]] = [svc |-> s, role |-> role, home |-> "here", ports |-> ports, token |-> 0]
    BY <1>1 DEF Authority!Of
  <2> HIDE DEF role, ports
  <2>3. proc'[at[s]].svc = s /\ proc'[at[s]].ports = ports /\ proc'[at[s]].home = "here"
                             /\ proc'[at[s]].role = role
    BY <2>2
  <2> QED BY <2>3 DEF role, ports
<1>4. "tool" \notin Authority!Parts /\ "launcher" \notin Authority!Parts
  BY DEF Authority!Parts
<1>5. Authority!Ours' = {boot.pid} \cup {at[s] : s \in Authority!Parts}
  <2>1. \A p \in DOMAIN proc : Authority!Own(p)' <=> Authority!Own(p)
    BY <1>1 DEF Authority!Own
  <2>2. ASSUME NEW q, NEW s \in Authority!Parts, q = at[s] PROVE Authority!Own(q)'
    <3>1. proc'[q].home = "here" /\ proc'[q].svc = s
      BY Zenon, <1>3, <2>2
    <3>2. s # "tool"
      BY <1>4
    <3> QED BY <3>1, <3>2 DEF Authority!Own
  <2>3. \A p \in DOMAIN proc' : p \in DOMAIN proc \/ \E s \in Authority!Parts : p = at[s]
    BY <1>1
  <2>4. \A p \in DOMAIN proc : p \in Authority!Ours <=> p = boot.pid
    BY <1>2
  <2>5. \A p : p \in Authority!Ours' <=> p \in DOMAIN proc' /\ Authority!Own(p)'
    BY DEF Authority!Ours
  <2>6. \A p : p \in Authority!Ours <=> p \in DOMAIN proc /\ Authority!Own(p)
    BY DEF Authority!Ours
  <2>7. ASSUME NEW p PROVE p \in Authority!Ours' <=> p = boot.pid \/ \E s \in Authority!Parts : p = at[s]
    <3>1. CASE \E s \in Authority!Parts : p = at[s]
      <4>1. PICK s \in Authority!Parts : p = at[s]
        BY <3>1
      <4>2. p \in DOMAIN proc'
        BY <1>1, <4>1
      <4>3. Authority!Own(p)'
        BY <2>2, <4>1
      <4> QED BY <2>5, <3>1, <4>2, <4>3
    <3>2. CASE ~\E s \in Authority!Parts : p = at[s]
      <4>1. p \in DOMAIN proc' <=> p \in DOMAIN proc
        BY <1>1, <2>3, <3>2
      <4> QED BY <1>2, <2>1, <2>4, <2>5, <2>6, <3>2, <4>1
    <3> QED BY <3>1, <3>2
  <2> QED BY <2>7
<1>6. proc[boot.pid].svc = "launcher"
  BY <1>2 DEF Launching
<1>7. Launching' = {boot.pid} /\ Serving' = {at[s] : s \in Authority!Parts}
  BY <1>1, <1>2, <1>3, <1>4, <1>5, <1>6 DEF Launching, Serving
<1>8. DOMAIN proc' \ Authority!Ours' = DOMAIN proc \ Authority!Ours
  BY <1>1, <1>2, <1>5
<1>9. boot.pid \notin {at[s] : s \in Authority!Parts} /\ proc'[boot.pid] = proc[boot.pid]
  BY <1>1, <1>2
<1> QED BY <1>3, <1>5, <1>7, <1>8, <1>9 DEF at

LEMMA StandsServe ==
  ASSUME Orderly, Stands, Authority!Serve
  PROVE  Stands'
<1>1. /\ boot.at = "recorded" /\ boot' = Authority!NoBoot /\ slot' = slot /\ map' = map /\ counts' = counts
      /\ \/ proc' = Authority!Without({boot.pid}) /\ held' = 0 /\ record' = record
         \/ Started
  BY ServeIs
<1>2. CASE proc' = Authority!Without({boot.pid}) /\ held' = 0 /\ record' = record
  BY <1>1, <1>2, LauncherGone, StandsThin DEF Stands, Shapes, Counted
<1>3. CASE Started
  <2> DEFINE at == At3
  <2>1. /\ Launching' = {boot.pid} /\ Serving' = {at[s] : s \in Authority!Parts}
        /\ Authority!Ours' = {boot.pid} \cup {at[s] : s \in Authority!Parts}
        /\ proc'[boot.pid] = proc[boot.pid]
        /\ \A s \in Authority!Parts : /\ proc'[at[s]].svc = s /\ proc'[at[s]].ports = Authority!PortsOf(s)
                             /\ proc'[at[s]].role = IF s = "server" THEN boot.role ELSE Authority!Base
        /\ DOMAIN proc' \ Authority!Ours' = DOMAIN proc \ Authority!Ours
    BY <1>1, <1>3, StartedServes
  <2>2. /\ DOMAIN proc' = DOMAIN proc \cup {at[s] : s \in Authority!Parts}
        /\ \A p \in DOMAIN proc : proc'[p] = proc[p]
        /\ \A s \in Authority!Parts : at[s] \in Authority!Pid
        /\ \A s, t \in Authority!Parts : at[s] = at[t] => s = t
    BY <1>1, <1>3, StartedIs
  <2>3. /\ boot.pid \in DOMAIN proc /\ boot.pid = held /\ Authority!Ours = {boot.pid} /\ Launching = {boot.pid}
    BY <1>1, StartsAlone
  <2>4. held' = held /\ record' = Authority!Written({<<at[s], s>> : s \in Authority!Parts})
    BY <1>3 DEF Started
  <2> HIDE DEF at
  <2>5. /\ record'.kind = "whole" /\ record'.role = boot.role
        /\ record'.ports = UNION {{<<p, s>> : p \in Authority!PortsOf(s)} : s \in Authority!Parts}
    BY <2>4, WrittenIs
  <2>6. Authority!Parts = {"server", "interface", "ext"}
    BY DEF Authority!Parts, Orderly
  <2>7. Shapes'
    <3>1. DOMAIN proc' \subseteq Authority!Pid /\ slot' \in 0..1 /\ Counted'
                                               /\ record'.kind \in {"none", "other", "torn", "whole"}
      BY <1>1, <2>2, <2>5 DEF Stands, Shapes, Counted
    <3>2. IsBoot(boot') /\ boot'.at \in {"no", "begun", "mapped", "recorded"}
      BY <1>1, NoBootIs
    <3>3. \A p \in Serving' : proc'[p].svc \in Authority!Parts
      BY <2>1
    <3>4. proc'[boot.pid].svc = "launcher" /\ proc'[boot.pid].ports = {}
      BY <2>1, <2>3 DEF Stands, Shapes, Launching
    <3>5. \A p, q \in Authority!Ours' : proc'[p].svc = proc'[q].svc => p = q
      <4>1. \A p \in Authority!Ours' : p = boot.pid \/ \E s \in Authority!Parts : p = at[s] /\ proc'[p].svc = s
        BY <2>1
      <4>2. "launcher" \notin Authority!Parts
        BY <2>6
      <4> QED BY <2>2, <3>4, <4>1, <4>2
    <3>6. \A p \in Launching' : proc'[p].ports = {}
      BY <2>1, <3>4
    <3> QED BY <3>1, <3>2, <3>3, <3>5, <3>6 DEF Shapes
  <2>8. OneStranger'
    <3>1. counts.strangers = 0 => DOMAIN proc' = Authority!Ours'
      BY <2>1, <2>2, <2>3 DEF Stands, OneStranger
    <3> QED BY <1>1, <2>1, <2>2, <3>1 DEF Stands, OneStranger
  <2>9. Booting' /\ LockHeld'
    BY <1>1, <2>1, <2>3, <2>4, NoBootIs DEF Booting, LockHeld
  <2>10. Heard'
    <3>1. SUFFICES ASSUME NEW s \in Authority!Parts
                   PROVE  /\ Authority!PortsOf(s) # {}
                          /\ s \in {"server", "interface"} => Authority!PortsOf(s) = {Authority!CorePort(s, slot)}
                          /\ s = "ext" => map.kind = "whole" /\ map.ports = Authority!PortsOf(s)
                          /\ \A q \in Authority!PortsOf(s) : <<q, s>> \in record'.ports
                          /\ s = "server" => boot.role = record'.role
      BY <1>1, <2>1, <2>5 DEF Heard, Authority!CorePort
    <3>2. map.kind = "whole" /\ map.ports = boot.ports /\ boot.ports # {}
      BY <1>1 DEF Stands, Booting
    <3>3. s = "server" \/ s = "interface" \/ s = "ext"
      BY <2>6
    <3>4. CASE s = "ext"
      BY <2>5, <3>2, <3>4 DEF Authority!PortsOf
    <3>5. CASE s = "server" \/ s = "interface"
      <4>1. Authority!PortsOf(s) = {Authority!CorePort(s, slot)}
        BY <3>5 DEF Authority!PortsOf
      <4> QED BY <2>5, <3>5, <4>1
    <3> QED BY <3>3, <3>4, <3>5
  <2> QED BY <2>7, <2>8, <2>9, <2>10 DEF Stands
<1> QED BY <1>1, <1>2, <1>3

LEMMA StandsCrash ==
  ASSUME Stands, Authority!Crash
  PROVE  Stands' /\ Thins
<1>1. PICK p \in Authority!Ours :
        /\ proc[p].svc = "launcher" /\ proc' = Authority!Without({p})
        /\ boot' = IF boot.pid = p THEN Authority!NoBoot ELSE boot
        /\ map' \in IF boot.at = "begun" THEN {map, [kind |-> "bad", ports |-> {}]} ELSE {map}
  BY DEF Authority!Crash
<1>2. /\ slot' = slot /\ held' = held /\ record' = record /\ Counted' /\ counts'.strangers = counts.strangers
  <2>1. Counted' /\ counts'["strangers"] = counts["strangers"]
    BY CountIs DEF Authority!Crash, Stands, Shapes
  <2> QED BY <2>1 DEF Authority!Crash
<1>3. p \in Launching /\ p \in Authority!Pid /\ p \in DOMAIN proc
  BY <1>1 DEF Launching, Authority!Ours, Stands, Shapes
<1>4. Thins /\ p \notin DOMAIN proc'
  BY <1>1 DEF Authority!Without, Thins
<1>5. CASE boot.at # "no"
  <2>1. boot.pid = p /\ Serving' = {} /\ Launching' = {}
    BY <1>3, <1>4, <1>5, StartsAlone, Thinner
  <2> QED BY <1>1, <1>2, <1>4, <2>1, StandsThin
<1>6. CASE boot.at = "no"
  <2>1. boot.pid # p
    BY <1>3, <1>6 DEF Stands, Booting, Authority!Pid
  <2> QED BY <1>1, <1>2, <1>4, <1>6, <2>1, StandsThin
<1> QED BY <1>4, <1>5, <1>6

LEMMA StandsEnds ==
  ASSUME Stands, Authority!Ends
  PROVE  Stands' /\ Thins
<1>1. PICK p \in DOMAIN proc :
        /\ Authority!Own(p) => proc[p].svc # "launcher" /\ \A q \in Authority!Ours : proc[q].svc # "launcher"
        /\ proc' = Authority!Without({p})
  BY DEF Authority!Ends
<1>2. Thins /\ DOMAIN proc' = DOMAIN proc \ {p}
  BY <1>1 DEF Authority!Without, Thins
<1>3. boot.at # "no" => boot.pid # p /\ boot.pid \in DOMAIN proc
  BY <1>1, StartsAlone DEF Launching, Authority!Ours
<1>4. UNCHANGED <<slot, held, map, record, boot, counts>>
  BY DEF Authority!Ends
<1> QED BY <1>2, <1>3, <1>4, StandsThin DEF Stands, Shapes, Counted

LEMMA StandsLoses ==
  ASSUME Stands, Authority!Loses
  PROVE  Stands' /\ Thins
<1>1. Thins
  BY DEF Authority!Loses, Thins
<1>2. record'.kind \in {"none", "other", "torn"}
  BY DEF Authority!Loses, Authority!NoState
<1>3. Counted' /\ counts'.strangers = counts.strangers
  <2>1. Counted' /\ counts'["strangers"] = counts["strangers"]
    BY CountIs DEF Authority!Loses, Stands, Shapes
  <2> QED BY <2>1
<1>4. boot.at # "no" => boot.pid \in DOMAIN proc'
  BY StartsAlone DEF Authority!Loses
<1>5. UNCHANGED <<slot, proc, held, map, boot>>
  BY DEF Authority!Loses
<1> QED BY <1>1, <1>2, <1>3, <1>4, <1>5, StandsThin

LEMMA StrangerIs ==
  ASSUME Orderly, Stands, Authority!Stranger
  PROVE  /\ Authority!Fresh \in Authority!Pid /\ Authority!Fresh \notin DOMAIN proc
         /\ DOMAIN proc = Authority!Ours
         /\ DOMAIN proc' = DOMAIN proc \cup {Authority!Fresh} /\ \A p \in DOMAIN proc : proc'[p] = proc[p]
         /\ Authority!Ours' = Authority!Ours /\ Launching' = Launching /\ Serving' = Serving
         /\ \A e, f \in proc'[Authority!Fresh].ports : e = f
         /\ UNCHANGED <<declared, slot, held, map, record, boot, asked>>
         /\ Counted' /\ counts'.strangers # 0 /\ counts'.starts = counts.starts
<1>1. counts.strangers = 0
  BY DEF Authority!Stranger, Orderly, Stands, Shapes, Counted
<1>2. DOMAIN proc = Authority!Ours
  BY <1>1 DEF Stands, OneStranger
<1>3. \A p \in DOMAIN proc : proc[p].svc \in {"launcher", "server", "interface", "ext"}
  BY <1>2 DEF Stands, Shapes, Serving, Authority!Parts, Orderly
<1>4. \A p, q \in DOMAIN proc : proc[p].svc = proc[q].svc => p = q
  BY <1>2 DEF Stands, Shapes
<1>5. Authority!Pid \ DOMAIN proc # {}
  <2>1. SUFFICES ASSUME {1, 2, 3, 4, 5} \subseteq DOMAIN proc PROVE FALSE
    BY DEF Authority!Pid
  <2> QED BY <1>3, <1>4, <2>1
<1>6. Authority!Fresh \in Authority!Pid /\ Authority!Fresh \notin DOMAIN proc
  BY <1>5, FirstFree
<1> DEFINE f == Authority!Fresh
<1> HIDE DEF f
<1>7. PICK port \in {0, Authority!CorePort("server", slot), Authority!Seed + 1},
           kind \in {<<"server", "else">>, <<"launcher", "else">>, <<"tool", "here">>} :
        proc' = Authority!With(f, [svc |-> kind[1], role |-> Authority!Base, home |-> kind[2],
                         ports |-> {port} \ {0}, token |-> counts.strangers + 1])
  <2>1. Authority!Stranger
    OBVIOUS
  <2> QED BY Zenon, <2>1 DEF Authority!Stranger, f
<1>8. DOMAIN proc' = DOMAIN proc \cup {f} /\ \A p \in DOMAIN proc : proc'[p] = proc[p]
  BY <1>6, <1>7 DEF Authority!With, f
<1>9. proc'[f].svc = kind[1] /\ proc'[f].home = kind[2] /\ proc'[f].ports = {port} \ {0}
  BY <1>7 DEF Authority!With
<1>10. proc'[f].home = "else" \/ proc'[f].svc = "tool"
  BY <1>9
<1>11. Authority!Ours' = Authority!Ours
  <2>1. \A p \in DOMAIN proc : p \in Authority!Ours'
    BY <1>2, <1>8 DEF Authority!Ours, Authority!Own
  <2>2. f \notin Authority!Ours'
    BY <1>10 DEF Authority!Ours, Authority!Own
  <2>3. \A p \in Authority!Ours' : p \in DOMAIN proc'
    BY DEF Authority!Ours
  <2> QED BY <1>2, <1>8, <2>1, <2>2, <2>3
<1>12. Launching' = Launching /\ Serving' = Serving
  BY <1>2, <1>8, <1>11 DEF Launching, Serving
<1>13. Counted' /\ counts'.strangers # 0 /\ counts'.starts = counts.starts
  <2>1. Counted' /\ counts'["strangers"] = counts["strangers"] + 1 /\ counts'["starts"] = counts["starts"]
    BY CountIs DEF Authority!Stranger, Stands, Shapes
  <2> QED BY <1>1, <2>1
<1> QED BY <1>2, <1>6, <1>8, <1>9, <1>11, <1>12, <1>13 DEF f, Authority!Stranger

LEMMA StandsStranger ==
  ASSUME Orderly, Stands, Authority!Stranger
  PROVE  Stands'
<1> DEFINE f == Authority!Fresh
<1>1. /\ f \in Authority!Pid /\ f \notin DOMAIN proc /\ DOMAIN proc = Authority!Ours
      /\ DOMAIN proc' = DOMAIN proc \cup {f} /\ \A p \in DOMAIN proc : proc'[p] = proc[p]
      /\ Authority!Ours' = Authority!Ours /\ Launching' = Launching /\ Serving' = Serving
      /\ \A d, e \in proc'[f].ports : d = e
      /\ UNCHANGED <<declared, slot, held, map, record, boot, asked>>
      /\ Counted' /\ counts'.strangers # 0
  BY StrangerIs
<1> HIDE DEF f
<1>2. Shapes'
  BY <1>1 DEF Stands, Shapes, Serving, Launching
<1>3. OneStranger'
  BY <1>1 DEF OneStranger
<1>4. Booting' /\ LockHeld'
  BY <1>1 DEF Stands, Booting, LockHeld
<1>5. Heard'
  BY <1>1 DEF Stands, Heard, Authority!CorePort, Serving
<1> QED BY <1>2, <1>3, <1>4, <1>5 DEF Stands

\* Where nothing of this checkout runs, the files may be anything.
LEMMA StandsIdle ==
  ASSUME Stands, Authority!Ours = {}, proc' = proc, slot' \in 0..1, Counted', counts'.strangers = counts.strangers,
         boot' = boot, record' = record
  PROVE  Stands'
<1>1. Authority!Ours' = {} /\ Launching' = {} /\ Serving' = {} /\ Authority!Ours = {} /\ Launching = {}
                           /\ Serving = {}
  BY DEF Authority!Ours, Authority!Own, Launching, Serving
<1>2. boot.at = "no"
  BY <1>1 DEF Stands, Booting
<1>3. Shapes'
  BY <1>1 DEF Stands, Shapes
<1>4. OneStranger'
  BY <1>1 DEF Stands, OneStranger
<1>5. Booting' /\ LockHeld' /\ Heard'
  BY <1>1, <1>2 DEF Stands, Booting, LockHeld, Heard
<1> QED BY <1>3, <1>4, <1>5 DEF Stands

LEMMA StandsEdit ==
  ASSUME Orderly, Stands, Authority!Edit \/ Authority!Reslot
  PROVE  Stands'
<1>1. Counted' /\ counts'.strangers = counts.strangers
  <2>1. Counted' /\ counts'["strangers"] = counts["strangers"]
    BY CountIs DEF Authority!Edit, Authority!Reslot, Stands, Shapes
  <2> QED BY <2>1
<1>2. CASE Authority!Edit
  <2>1. UNCHANGED <<slot, proc, held, map, record, boot>>
    BY <1>2 DEF Authority!Edit
  <2>2. Thins /\ (boot.at # "no" => boot.pid \in DOMAIN proc')
    BY <2>1, StartsAlone DEF Thins
  <2> QED BY <1>1, <2>1, <2>2, StandsThin
<1>3. CASE Authority!Reslot
  <2>1. Authority!Ours = {} /\ proc' = proc /\ boot' = boot /\ record' = record /\ slot' \in 0..1
    BY <1>3 DEF Authority!Reslot, Orderly, Stands, Shapes
  <2> QED BY <1>1, <2>1, StandsIdle
<1> QED BY <1>2, <1>3

\* What is gone with `ended`: a launcher that cleans up leaves no service.
LEMMA GoneIs ==
  ASSUME Stands, NEW ended, ended \subseteq DOMAIN proc, NEW heeded, Authority!Gone(ended, heeded)
  PROVE  /\ Thins /\ ended \cap DOMAIN proc' = {}
         /\ boot' = IF boot.pid \in ended THEN Authority!NoBoot ELSE boot
         /\ boot.at # "no" => boot.pid \in ended \/ boot.pid \in DOMAIN proc'
         /\ held' = held \/ (held' = 0 /\ Launching' = {})
         /\ \/ record' = record /\ map' = map
            \/ /\ record' = Authority!NoState /\ map' = Authority!NoMap /\ heeded /\ Serving' = {}
               /\ record.kind = "whole"
               /\ boot.at = "no"
<1> DEFINE launchers == {p \in ended : proc[p].svc = "launcher" /\ Authority!Own(p)}
           shuts == heeded /\ \E p \in launchers \ {boot.pid} : record.kind = "whole" /\ record.launcher = p
           taken == IF shuts THEN {e[1] : e \in record.pids} \cap Authority!Ours ELSE {}
           left == DOMAIN proc \ (ended \cup taken)
           clean == shuts /\ \A e \in record.ports, p \in left : e[1] \notin proc[p].ports
<1>1. /\ proc' = Authority!Without(ended \cup taken)
      /\ held' = IF boot.pid \in ended \/ (clean /\ held \in launchers) THEN 0 ELSE held
      /\ record' = IF clean THEN Authority!NoState ELSE record
      /\ map' = IF clean THEN Authority!NoMap ELSE map
      /\ boot' = IF boot.pid \in ended THEN Authority!NoBoot ELSE boot
  BY Zenon DEF Authority!Gone
<1>2. \A p \in launchers : p \in Launching /\ held = p
  <2>1. \A p \in launchers : p \in Launching
    BY DEF Launching, Authority!Ours
  <2> QED BY <2>1 DEF Stands, LockHeld
<1>3. Thins /\ DOMAIN proc' = left
  BY <1>1 DEF Authority!Without, Thins
<1>4. ASSUME shuts PROVE boot.at = "no" /\ record.kind = "whole"
  <2>1. PICK p \in launchers \ {boot.pid} : record.kind = "whole"
    BY <1>4
  <2>2. boot.at # "no" => boot.pid = p
    BY <1>2, <2>1, StartsAlone
  <2> QED BY <2>1, <2>2
<1>5. boot.at # "no" => boot.pid \in ended \/ boot.pid \in DOMAIN proc'
  <2>1. SUFFICES ASSUME boot.at # "no" PROVE boot.pid \in ended \/ boot.pid \in DOMAIN proc'
    OBVIOUS
  <2>2. ~shuts
    BY <1>4, <2>1
  <2>3. taken = {}
    BY <2>2
  <2> QED BY <1>3, <2>1, <2>3, StartsAlone
<1>6. ended \cap DOMAIN proc' = {}
  BY <1>3
<1>7. ASSUME NEW p \in Launching', held \in ended PROVE FALSE
  <2>1. p \in Launching /\ p \in DOMAIN proc'
    BY <1>3, <1>7, Thinner
  <2>2. p = held
    BY <2>1 DEF Stands, LockHeld
  <2> QED BY <1>6, <1>7, <2>1, <2>2
<1>8. held' = held \/ (held' = 0 /\ Launching' = {})
  <2>1. CASE boot.pid \in ended
    <3>1. boot.at # "no"
      BY <2>1 DEF Stands, Booting, Shapes, Authority!Pid
    <3>2. held \in ended
      BY <2>1, <3>1, StartsAlone
    <3> QED BY <1>1, <1>7, <2>1, <3>2
  <2>2. CASE clean /\ held \in launchers
    BY <1>1, <1>7, <2>2
  <2> QED BY <1>1, <2>1, <2>2
<1>9. ASSUME clean PROVE Serving' = {} /\ record.kind = "whole" /\ boot.at = "no" /\ heeded
  <2>1. record.kind = "whole" /\ boot.at = "no" /\ heeded
    BY <1>4, <1>9
  <2>2. SUFFICES ASSUME NEW p \in Serving' PROVE FALSE
    BY <2>1
  <2>3. p \in Serving /\ p \in left
    BY <1>3, <2>2, Thinner
  <2>4. PICK q \in proc[p].ports : <<q, proc[p].svc>> \in record.ports
    BY <2>1, <2>3 DEF Stands, Heard
  <2>5. \A e \in record.ports : e[1] \notin proc[p].ports
    BY <1>9, <2>3
  <2> QED BY <2>4, <2>5
<1>10. (record' = record /\ map' = map) \/ (clean /\ record' = Authority!NoState /\ map' = Authority!NoMap)
  BY <1>1
<1> HIDE DEF launchers, shuts, taken, left, clean
<1> QED BY <1>1, <1>3, <1>5, <1>6, <1>8, <1>9, <1>10

LEMMA StandsGone ==
  ASSUME Stands, NEW ended, ended \subseteq DOMAIN proc, NEW heeded, Authority!Gone(ended, heeded),
         slot' = slot, Counted', counts'.strangers = counts.strangers
  PROVE  Stands' /\ (boot.at = "no" \/ boot.pid \in ended => boot'.at = "no")
<1>1. /\ Thins
      /\ boot' = IF boot.pid \in ended THEN Authority!NoBoot ELSE boot
      /\ boot.at # "no" => boot.pid \in ended \/ boot.pid \in DOMAIN proc'
      /\ held' = held \/ (held' = 0 /\ Launching' = {})
      /\ \/ record' = record /\ map' = map
         \/ /\ record' = Authority!NoState /\ map' = Authority!NoMap /\ Serving' = {} /\ boot.at = "no"
  BY GoneIs
<1>2. Authority!NoState.kind = "none"
  BY DEF Authority!NoState
<1>4. Stands'
  <2>1. CASE record' = record /\ map' = map
    BY <1>1, <2>1, StandsThin
  <2>2. CASE /\ record' = Authority!NoState /\ map' = Authority!NoMap /\ Serving' = {} /\ boot.at = "no"
    BY <1>1, <1>2, <2>2, StandsThin
  <2> QED BY <1>1, <2>1, <2>2
<1> QED BY <1>1, <1>4, NoBootIs

-----------------------------------------------------------------------------
(* What a scope covers *)

LEMMA ScopeIs ==
  ASSUME NEW shell
  PROVE  /\ Authority!Trusted =>
              /\ Authority!Scope(shell).role = record.role
              /\ Authority!Scope(shell).ports = {e \in record.ports : Authority!Known(e[2])}
              /\ Authority!Scope(shell).pids = {<<record.launcher, "launcher">>} \cup {e \in record.pids : Authority!Known(e[2])}
              /\ Authority!Scope(shell).unprovenPorts = {e[1] : e \in {e \in record.ports : ~Authority!Known(e[2])}}
              /\ Authority!Scope(shell).unprovenPids = {e[1] : e \in {e \in record.pids : ~Authority!Known(e[2])}}
              /\ Authority!Scope(shell).conflict <=> held # 0 /\ held # record.launcher
              /\ Authority!Scope(shell).untrusted <=> held # 0 /\ held # record.launcher
         /\ ~Authority!Trusted =>
              /\ Authority!Scope(shell).role = shell
              /\ Authority!Scope(shell).ports = {<<Authority!CorePort(s, slot), s>> : s \in {"server", "interface"}} \cup Authority!Recovered.ports
              /\ Authority!Scope(shell).pids = IF held = 0 THEN {} ELSE {<<held, "launcher">>}
              /\ Authority!Scope(shell).unprovenPorts = Authority!Recovered.unproven
              /\ Authority!Scope(shell).unprovenPids = {}
              /\ ~Authority!Scope(shell).conflict
              /\ Authority!Scope(shell).untrusted <=> map.kind = "bad"
<1>1. CASE Authority!Trusted
  <2>1. /\ Authority!Scope(shell).role = record.role
        /\ Authority!Scope(shell).ports = {e \in record.ports : Authority!Known(e[2])}
        /\ Authority!Scope(shell).pids = {<<record.launcher, "launcher">>} \cup {e \in record.pids : Authority!Known(e[2])}
        /\ Authority!Scope(shell).unprovenPorts = {e[1] : e \in {e \in record.ports : ~Authority!Known(e[2])}}
        /\ Authority!Scope(shell).unprovenPids = {e[1] : e \in {e \in record.pids : ~Authority!Known(e[2])}}
    BY <1>1 DEF Authority!Scope
  <2>2. /\ Authority!Scope(shell).conflict = (held # 0 /\ held # record.launcher)
        /\ Authority!Scope(shell).untrusted = (held # 0 /\ held # record.launcher)
    BY <1>1 DEF Authority!Scope
  <2> QED BY <1>1, <2>1, <2>2
<1>2. CASE ~Authority!Trusted
  <2>1. /\ Authority!Scope(shell).role = shell
        /\ Authority!Scope(shell).ports = {<<Authority!CorePort(s, slot), s>> : s \in {"server", "interface"}} \cup Authority!Recovered.ports
        /\ Authority!Scope(shell).pids = IF held = 0 THEN {} ELSE {<<held, "launcher">>}
        /\ Authority!Scope(shell).unprovenPorts = Authority!Recovered.unproven
        /\ Authority!Scope(shell).unprovenPids = {}
        /\ Authority!Scope(shell).conflict = FALSE
        /\ Authority!Scope(shell).untrusted = Authority!Recovered.torn
    BY <1>2 DEF Authority!Scope
  <2>2. Authority!Recovered.torn = (map.kind = "bad")
    BY DEF Authority!Recovered
  <2> QED BY <1>2, <2>1, <2>2
<1> QED BY <1>1, <1>2

LEMMA RecoveredIs ==
  /\ Authority!Recovered.ports = IF Authority!Known("ext") THEN {<<p, "ext">> : p \in map.ports} ELSE {}
  /\ Authority!Recovered.unproven = IF Authority!Known("ext") THEN {} ELSE map.ports
BY DEF Authority!Recovered

\* What listens is in the scope of every command.
LEMMA Covered ==
  ASSUME Orderly, Stands, NEW p \in Serving, NEW shell
  PROVE  \E q \in proc[p].ports :
           q \in Authority!Scope(shell).unprovenPorts \/ \E e \in Authority!Scope(shell).ports : e[1] = q
<1>1. /\ proc[p].ports # {}
      /\ proc[p].svc \in {"server", "interface"} => proc[p].ports = {Authority!CorePort(proc[p].svc, slot)}
      /\ proc[p].svc = "ext" => map.kind = "whole" /\ map.ports = proc[p].ports
      /\ record.kind = "whole" => \A q \in proc[p].ports : <<q, proc[p].svc>> \in record.ports
  BY DEF Stands, Heard
<1>2. PICK q \in proc[p].ports : TRUE
  BY <1>1
<1> DEFINE svc == proc[p].svc
<1>3. svc \in {"server", "interface", "ext"}
  BY DEF Stands, Shapes, Authority!Parts, Orderly
<1>4. CASE Authority!Trusted
  <2>1. <<q, svc>> \in record.ports
    BY <1>1, <1>2, <1>4 DEF Authority!Trusted, Authority!Readable, Authority!Agrees, Stands, Shapes
  <2>2. CASE Authority!Known(svc)
    <3>1. <<q, svc>> \in Authority!Scope(shell).ports /\ <<q, svc>>[1] = q
      BY <1>4, <2>1, <2>2, ScopeIs
    <3> QED BY <1>2, <3>1
  <2>3. CASE ~Authority!Known(svc)
    <3>1. <<q, svc>>[1] = q /\ <<q, svc>> \in {e \in record.ports : ~Authority!Known(e[2])}
      BY <2>1, <2>3
    <3>2. q \in {e[1] : e \in {e \in record.ports : ~Authority!Known(e[2])}}
      BY <3>1
    <3> QED BY <1>2, <1>4, <3>2, ScopeIs
  <2> QED BY <2>2, <2>3
<1>5. CASE ~Authority!Trusted /\ svc = "ext"
  <2>1. q \in map.ports
    BY <1>1, <1>2, <1>5
  <2>2. CASE Authority!Known("ext")
    <3>1. <<q, "ext">> \in Authority!Scope(shell).ports /\ <<q, "ext">>[1] = q
      BY <1>5, <2>1, <2>2, ScopeIs, RecoveredIs
    <3> QED BY <1>2, <3>1
  <2>3. CASE ~Authority!Known("ext")
    BY <1>2, <1>5, <2>1, <2>3, ScopeIs, RecoveredIs
  <2> QED BY <2>2, <2>3
<1>6. CASE ~Authority!Trusted /\ svc \in {"server", "interface"}
  <2>1. q = Authority!CorePort(svc, slot)
    BY <1>1, <1>2, <1>6
  <2>2. <<q, svc>> \in Authority!Scope(shell).ports /\ <<q, svc>>[1] = q
    BY <1>6, <2>1, ScopeIs
  <2> QED BY <1>2, <2>2
<1> QED BY <1>3, <1>4, <1>5, <1>6

\* A command that finds everything in its scope gone has left nothing.
LEMMA OkGone ==
  ASSUME Orderly, Stands, NEW r, Authority!CanFinalize(r), ~Authority!Live(held), \A p \in Serving : Within(p, r.scope)
  PROVE  Authority!Ours = {}
<1>1. SUFFICES ASSUME NEW p \in Authority!Ours PROVE FALSE
  OBVIOUS
<1>2. CASE p \in Launching
  BY <1>2 DEF Stands, LockHeld, Authority!Live, Launching, Authority!Ours
<1>3. CASE p \in Serving
  <2>1. PICK q \in proc[p].ports : q \in r.scope.unprovenPorts \/ \E e \in r.scope.ports : e[1] = q
    BY <1>3 DEF Authority!CanFinalize, Within
  <2>2. Authority!Busy(q)
    BY <1>1, <2>1 DEF Authority!Busy, Authority!Ours
  <2>3. ~Authority!Unproven(r.scope) /\ \A e \in r.scope.ports : ~Authority!Busy(e[1])
    BY DEF Authority!CanFinalize
  <2> QED BY <2>1, <2>2, <2>3 DEF Authority!Unproven
<1> QED BY <1>1, <1>2, <1>3 DEF Launching, Serving

LEMMA StandsOver ==
  ASSUME Orderly, Stands, NEW r, Authority!Refuses(r) \/ Authority!Finish(r), \A p \in Serving : Within(p, r.scope),
         slot' = slot, Counted', counts'.strangers = counts.strangers
  PROVE  /\ Stands' /\ asked'.at = "over" /\ Thins /\ proc' = proc /\ boot' = boot
         /\ asked'.answer = "ok" => Authority!Ours = {}
         /\ (record' = record /\ map' = map /\ held' = held) \/ Authority!Ours = {}
<1>0. Thins
  BY FinishEndsNone DEF Thins
<1>1. CASE Authority!Refuses(r)
  <2>1. proc' = proc /\ held' = held /\ map' = map /\ record' = record /\ boot' = boot
    BY <1>1 DEF Authority!Refuses
  <2>2. Stands'
    BY <1>0, <2>1, StandsThin, StartsAlone
  <2>3. asked'.at = "over" /\ asked'.answer = "refused"
    BY <1>1, OverFields DEF Authority!Refuses
  <2> QED BY <1>0, <2>1, <2>2, <2>3
<1>2. CASE Authority!Finish(r) /\ ~Authority!Refuses(r)
  <2>1. /\ Authority!CanFinalize(r) /\ ~Authority!Live(held) /\ Authority!Over(r, "ok") /\ held' = 0
        /\ map' = Authority!NoMap /\ record' = Authority!NoState
        /\ proc' = proc /\ boot' = boot
    BY <1>2 DEF Authority!Finish
  <2>2. Authority!Ours = {}
    BY <2>1, OkGone
  <2>3. Launching' = {} /\ Serving' = {} /\ boot.at = "no"
    <3>1. Launching = {} /\ Serving = {}
      BY <2>2 DEF Launching, Serving
    <3> QED BY <1>0, <2>2, <3>1, Thinner, StartsAlone
  <2>4. Authority!NoState.kind = "none"
    BY DEF Authority!NoState
  <2>5. Stands'
    BY <1>0, <2>1, <2>3, <2>4, StandsThin
  <2>6. asked'.at = "over"
    BY <2>1, OverFields
  <2> QED BY <1>0, <2>1, <2>2, <2>5, <2>6
<1> QED BY <1>1, <1>2

\* The launcher that runs is found.
LEMMA LauncherFound ==
  ASSUME Stands, NEW p \in Launching, NEW r, IsCommand(r), NEW shell, ~Authority!Scope(shell).conflict
  PROVE  p \in Authority!Found(r, Authority!Scope(shell)).found
<1> DEFINE scope == Authority!Scope(shell)
           t == <<p, <<p, "launcher">>>>
<1>1. p = held /\ p \in DOMAIN proc /\ p \in Authority!Pid /\ proc[p].home = "here" /\ proc[p].svc = "launcher"
  BY DEF Stands, Shapes, LockHeld, Launching, Authority!Ours, Authority!Own
<1>2. held # 0
  BY <1>1 DEF Authority!Pid
<1>3. <<p, "launcher">> \in scope.pids
  <2>1. CASE Authority!Trusted
    BY <1>1, <1>2, <2>1, ScopeIs
  <2>2. CASE ~Authority!Trusted
    BY <1>1, <1>2, <2>2, ScopeIs
  <2> QED BY <2>1, <2>2
<1>4. Authority!Owns(p, "launcher", scope.role)
  BY <1>1 DEF Authority!Owns, Authority!InItsDirectory, Authority!RunsIt, Authority!Snapshot
<1> HIDE DEF scope
<1>5. t \in At(scope) /\ Admits(r, scope, t) /\ t[1] = p
  BY <1>1, <1>3, <1>4 DEF At, Admits
<1>6. p \in {u[1] : u \in {u \in On(scope) \cup At(scope) : Admits(r, scope, u)}}
  BY <1>5
<1> QED BY <1>6, FoundFields DEF scope

-----------------------------------------------------------------------------
(* What a command does to the stack *)

LEMMA CommandCounts ==
  ASSUME Counted, Authority!Command
  PROVE  slot' = slot /\ declared' = declared /\ Counted' /\ counts'.strangers = counts.strangers
                      /\ counts'.starts = counts.starts
<1>1. slot' = slot /\ declared' = declared /\ (counts' = counts \/ Authority!Count("commands"))
  BY DEF Authority!Command, Authority!AskStop, Authority!AskRestart, Authority!AskEnsure,
     Authority!StopKills, Authority!StopEnds, Authority!Approves, Authority!RestartLooks,
     Authority!RestartForces,
         Authority!RestartEnds, Authority!Asks, Authority!Goes
<1>2. CASE counts' = counts
  BY <1>1, <1>2 DEF Counted
<1>3. CASE Authority!Count("commands")
  <2>1. Counted' /\ counts'["strangers"] = counts["strangers"] /\ counts'["starts"] = counts["starts"]
    BY <1>3, CountIs
  <2> QED BY <1>1, <2>1
<1> QED BY <1>1, <1>2, <1>3

\* A command that changes nothing but itself.
LEMMA StandsWaits ==
  ASSUME Stands, UNCHANGED <<proc, held, map, record, boot>>, slot' = slot, Counted',
         counts'.strangers = counts.strangers
  PROVE  Stands'
BY StandsThin, StartsAlone DEF Thins

LEMMA FoundInProc ==
  ASSUME NEW r, IsCommand(r), NEW scope
  PROVE  Authority!Found(r, scope).found \subseteq DOMAIN proc
<1>1. Authority!Found(r, scope).found = {t[1] : t \in {u \in On(scope) \cup At(scope) : Admits(r, scope, u)}}
  BY FoundFields
<1>2. \A t \in On(scope) \cup At(scope) : t[1] \in DOMAIN proc
  BY DEF On, At
<1> QED BY <1>1, <1>2

\* A command that looks and ends what it has found.
LEMMA StackTerms ==
  ASSUME Orderly, Stands, NEW r, IsCommand(r), NEW shell, ~Authority!Scope(shell).conflict,
         Authority!Terminates(Authority!Found(r, Authority!Scope(shell))),
         slot' = slot, Counted', counts'.strangers = counts.strangers
  PROVE  /\ Stands' /\ boot'.at = "no" /\ Thins
         /\ IsCommand(asked') /\ asked'.cmd = r.cmd /\ asked'.shell = r.shell /\ asked'.at = "termed"
         /\ asked'.scope = Authority!Scope(shell)
         /\ asked'.found = Authority!Found(r, Authority!Scope(shell)).found
         /\ asked'.approved = r.approved
         /\ (\A p \in Serving : Within(p, asked.scope))'
         /\ \/ record' = record /\ map' = map
            \/ record' = Authority!NoState /\ map' = Authority!NoMap /\ record.kind = "whole"
         /\ held' = held \/ held' = 0
<1> DEFINE scope == Authority!Scope(shell)
           f == Authority!Found(r, scope)
<1>1. IsCommand(f) /\ f.cmd = r.cmd /\ f.shell = r.shell /\ f.scope = scope /\ f.approved = r.approved
  BY FoundFields
<1>2. f.found \subseteq DOMAIN proc
  BY FoundInProc
<1>3. boot.at # "no" => boot.pid \in f.found
  BY StartsAlone, LauncherFound
<1>4. \A p \in Serving : \E q \in proc[p].ports :
           q \in scope.unprovenPorts \/ \E e \in scope.ports : e[1] = q
  BY Covered
<1> HIDE DEF f, scope
<1>5. PICK ended \in SUBSET f.found :
        f.found \cap {boot.pid} \subseteq ended /\ asked' = [f EXCEPT !.at = "termed"]
                                                /\ Authority!Gone(ended, TRUE)
  BY DEF Authority!Terminates, f, scope
<1>6. ended \subseteq DOMAIN proc
  BY <1>2, <1>5
<1>7. Stands' /\ boot'.at = "no"
  BY <1>3, <1>5, <1>6, StandsGone
<1>8. /\ IsCommand(asked') /\ asked'.cmd = r.cmd /\ asked'.shell = r.shell /\ asked'.at = "termed"
      /\ asked'.scope = scope /\ asked'.found = f.found /\ asked'.approved = r.approved
  BY <1>1, <1>5, GoesOn
<1>9. /\ Thins
      /\ \/ record' = record /\ map' = map
         \/ record' = Authority!NoState /\ map' = Authority!NoMap /\ record.kind = "whole"
      /\ held' = held \/ held' = 0
  BY <1>5, <1>6, GoneIs
<1>10. \A p \in Serving' : p \in Serving /\ proc'[p] = proc[p]
  BY <1>9, Thinner DEF Thins, Serving, Authority!Ours
<1>11. ASSUME NEW p \in Serving' PROVE \E q \in proc'[p].ports :
           q \in scope.unprovenPorts \/ \E e \in scope.ports : e[1] = q
  <2>1. p \in Serving /\ proc'[p] = proc[p]
    BY <1>10
  <2>2. PICK q \in proc[p].ports : q \in scope.unprovenPorts \/ \E e \in scope.ports : e[1] = q
    BY <1>4, <2>1
  <2> QED BY <2>1, <2>2
<1>12. (\A p \in Serving : Within(p, asked.scope))'
  <2>1. ASSUME NEW p \in Serving' PROVE Within(p, asked.scope)'
    BY <1>8, <1>11, <2>1 DEF Within
  <2> QED BY <2>1
<1> QED BY <1>7, <1>8, <1>9, <1>12 DEF f, scope

\* The cases of a stop, a kill and an end.
LEMMA AskStopIs ==
  ASSUME Authority!AskStop
  PROVE  \E cmd \in {"stop", "force"}, profile \in Authority!Profiles :
           LET a == Authority!Asked(cmd, Authority!Shell(profile))
               r == Authority!Found(a, Authority!Scope(Authority!Shell(profile)))
           IN  /\ IsCommand(a) /\ a.cmd = cmd /\ a.shell = Authority!Shell(profile) /\ a.approved = {}
               /\ IsCommand(r) /\ r.cmd = cmd /\ r.shell = Authority!Shell(profile)
               /\ r.scope = Authority!Scope(Authority!Shell(profile))
               /\ \/ Authority!Refuses(r) /\ (r.scope.conflict \/ (r.found = {} /\ Authority!Blocked(r)))
                  \/ ~r.scope.conflict /\ r.found = {} /\ ~Authority!Blocked(r) /\ Authority!Finish(r)
                  \/ ~r.scope.conflict /\ Authority!Terminates(r)
<1>1. PICK cmd \in {"stop", "force"}, profile \in Authority!Profiles :
        LET r == Authority!Found(Authority!Asked(cmd, Authority!Shell(profile)), Authority!Scope(Authority!Shell(profile)))
        IN  IF r.scope.conflict \/ (r.found = {} /\ Authority!Blocked(r)) THEN Authority!Refuses(r)
            ELSE IF r.found = {} THEN Authority!Finish(r) ELSE Authority!Terminates(r)
  BY DEF Authority!AskStop
<1> DEFINE a == Authority!Asked(cmd, Authority!Shell(profile))
           r == Authority!Found(a, Authority!Scope(Authority!Shell(profile)))
<1>2. /\ IsCommand(a) /\ a.cmd = cmd /\ a.shell = Authority!Shell(profile) /\ a.approved = {}
      /\ IsCommand(r) /\ r.cmd = cmd /\ r.shell = Authority!Shell(profile)
      /\ r.scope = Authority!Scope(Authority!Shell(profile))
  BY AskedFields, FoundFields
<1>3. \/ Authority!Refuses(r) /\ (r.scope.conflict \/ (r.found = {} /\ Authority!Blocked(r)))
      \/ ~r.scope.conflict /\ r.found = {} /\ ~Authority!Blocked(r) /\ Authority!Finish(r)
      \/ ~r.scope.conflict /\ Authority!Terminates(r)
  BY <1>1
<1> QED BY <1>2, <1>3

LEMMA LooksIs ==
  ASSUME IsCommand(asked)
  PROVE  /\ Authority!Looks = Authority!Found(asked, Authority!Scope(asked.shell))
         /\ IsCommand(Authority!Looks) /\ Authority!Looks.cmd = asked.cmd
         /\ Authority!Looks.shell = asked.shell /\ Authority!Looks.scope = Authority!Scope(asked.shell)
         /\ Authority!Looks.approved = asked.approved
BY FoundFields DEF Authority!Looks

\* Without a conflict, what blocks a command does not untrust its scope.
LEMMA NotBlocked ==
  ASSUME NEW shell, NEW r, r.scope = Authority!Scope(shell), ~Authority!Blocked(r)
  PROVE  ~Authority!Scope(shell).conflict
<1>1. ~Authority!Scope(shell).untrusted
  BY DEF Authority!Blocked
<1> QED BY <1>1, ScopeIs

LEMMA WithinAll ==
  ASSUME Orderly, Stands, NEW shell, NEW r, r.scope = Authority!Scope(shell)
  PROVE  \A p \in Serving : Within(p, r.scope)
BY Covered DEF Within

LEMMA CommandStack ==
  ASSUME Orderly, OwnInv, StackInv, Authority!Command
  PROVE  StackInv' /\ Authority!OkMeansGone /\ Authority!Reused
<1>0. /\ slot' = slot /\ Counted' /\ counts'.strangers = counts.strangers
      /\ IsCommand(asked) /\ Stands
  BY CommandCounts DEF StackInv, Stands, Shapes, OwnInv, RunNamed
<1>1. ASSUME NEW r, Authority!Refuses(r) \/ Authority!Finish(r), \A p \in Serving : Within(p, r.scope)
      PROVE  StackInv' /\ Authority!OkMeansGone /\ Authority!Reused
  <2>1. Stands' /\ asked'.at = "over" /\ (asked'.answer = "ok" => Authority!Ours = {}) /\ asked'.answer \in {"ok", "refused"}
    <3>1. asked'.answer \in {"ok", "refused"}
      BY <1>1, FinishEndsNone, OverFields
    <3> QED BY <1>0, <1>1, <3>1, StandsOver
  <2> QED BY <2>1 DEF StackInv, StopWaits, WaitSteps, Authority!OkMeansGone, Authority!Reused, Authority!Answers
<1>2. ASSUME NEW r, IsCommand(r), NEW shell, ~Authority!Scope(shell).conflict, Authority!Terminates(Authority!Found(r, Authority!Scope(shell)))
      PROVE  StackInv' /\ Authority!OkMeansGone /\ Authority!Reused
  <2>1. Stands' /\ boot'.at = "no" /\ asked'.at = "termed" /\ (\A p \in Serving : Within(p, asked.scope))'
    BY <1>0, <1>2, StackTerms
  <2> QED BY <2>1 DEF StackInv, StopWaits, Authority!OkMeansGone, Authority!Reused, Authority!Answers
<1>3. CASE Authority!AskStop
  <2>1. PICK cmd \in {"stop", "force"}, profile \in Authority!Profiles :
           LET a == Authority!Asked(cmd, Authority!Shell(profile))
               r == Authority!Found(a, Authority!Scope(Authority!Shell(profile)))
           IN  /\ IsCommand(a) /\ a.cmd = cmd /\ a.shell = Authority!Shell(profile) /\ a.approved = {}
               /\ IsCommand(r) /\ r.cmd = cmd /\ r.shell = Authority!Shell(profile)
               /\ r.scope = Authority!Scope(Authority!Shell(profile))
               /\ \/ Authority!Refuses(r) /\ (r.scope.conflict \/ (r.found = {} /\ Authority!Blocked(r)))
                  \/ ~r.scope.conflict /\ r.found = {} /\ ~Authority!Blocked(r) /\ Authority!Finish(r)
                  \/ ~r.scope.conflict /\ Authority!Terminates(r)
    BY <1>3, AskStopIs
  <2> DEFINE a == Authority!Asked(cmd, Authority!Shell(profile))
             r == Authority!Found(a, Authority!Scope(Authority!Shell(profile)))
  <2>2. IsCommand(a) /\ r.scope = Authority!Scope(Authority!Shell(profile))
    BY <2>1
  <2>3. CASE ~r.scope.conflict /\ Authority!Terminates(r)
    BY <1>2, <2>2, <2>3
  <2>4. CASE Authority!Refuses(r) \/ Authority!Finish(r)
    <3>1. \A p \in Serving : Within(p, r.scope)
      BY <1>0, <2>2, WithinAll
    <3> QED BY <1>1, <2>4, <3>1
  <2> QED BY <2>1, <2>3, <2>4
<1>4. CASE Authority!StopKills
  <2>1. /\ asked.at = "termed" /\ Stopping /\ asked' = [asked EXCEPT !.at = "killed"]
        /\ Authority!Gone(asked.found \cap DOMAIN proc, FALSE)
    BY <1>4 DEF Authority!StopKills, Stopping
  <2>2. asked'.at = "killed" /\ asked'.scope = asked.scope
    BY <1>0, <2>1, GoesOn
  <2>3. boot.at = "no" /\ \A p \in Serving : Within(p, asked.scope)
    BY <2>1 DEF StackInv, StopWaits, WaitSteps
  <2>4. Stands' /\ boot'.at = "no" /\ Thins
    BY <1>0, <2>1, <2>3, StandsGone, GoneIs
  <2>5. (\A p \in Serving : Within(p, asked.scope))'
    <3>1. \A p \in Serving' : p \in Serving /\ proc'[p] = proc[p]
      BY <2>4, Thinner DEF Thins, Serving, Authority!Ours
    <3> QED BY <2>2, <2>3, <3>1 DEF Within
  <2> QED BY <2>2, <2>4, <2>5 DEF StackInv, StopWaits, Authority!OkMeansGone, Authority!Reused,
     Authority!Answers
<1>5. CASE Authority!StopEnds
  <2>1. Authority!Finish(asked) /\ \A p \in Serving : Within(p, asked.scope)
    BY <1>5 DEF Authority!StopEnds, StackInv, StopWaits, WaitSteps, Stopping
  <2> QED BY <1>1, <2>1
<1>6. CASE Authority!AskRestart
  <2>1. PICK shell : asked' = Authority!Asked("restart", shell)
    BY <1>6 DEF Authority!AskRestart
  <2>2. asked'.at = "asked"
    BY <2>1, AskedFields
  <2>3. Stands'
    BY <1>0, <1>6, StandsWaits DEF Authority!AskRestart
  <2> QED BY <2>2, <2>3 DEF StackInv, StopWaits, WaitSteps, Authority!OkMeansGone, Authority!Reused,
     Authority!Answers
<1>7. CASE Authority!AskEnsure
  <2>1. PICK shell : IF Authority!LiveState /\ Authority!Matches(Authority!Asked("ensure", shell).shell)
                     THEN Authority!Over(Authority!Asked("ensure", shell), "reused") ELSE asked' = Authority!Asked("ensure", shell)
    BY <1>7 DEF Authority!AskEnsure
  <2>2. Authority!Asked("ensure", shell).shell = shell
    BY AskedFields
  <2>3. Stands'
    BY <1>0, <1>7, StandsWaits DEF Authority!AskEnsure
  <2>4. CASE asked' = Authority!Asked("ensure", shell)
    <3>1. asked'.at = "asked"
      BY <2>4, AskedFields
    <3> QED BY <2>3, <3>1 DEF StackInv, StopWaits, WaitSteps, Authority!OkMeansGone, Authority!Reused,
       Authority!Answers
  <2>5. CASE Authority!LiveState /\ Authority!Matches(shell)
                                 /\ Authority!Over(Authority!Asked("ensure", shell), "reused")
    <3>1. asked'.at = "over" /\ asked'.answer = "reused" /\ asked'.shell = shell
      BY <2>2, <2>5, OverFields
    <3>2. record.kind = "whole" /\ record.role = shell
      BY <1>0, <2>5 DEF Authority!LiveState, Authority!Trusted, Authority!Readable, Authority!Agrees,
         Authority!Matches, Stands, Shapes
    <3>3. \A p \in Authority!Ours : proc[p].svc = "server" => proc[p].role = shell
      BY <1>0, <3>2 DEF Stands, Heard, Serving
    <3> QED BY <2>3, <3>1, <3>3 DEF StackInv, StopWaits, WaitSteps, Authority!OkMeansGone, Authority!Reused,
       Authority!Answers
  <2> QED BY <2>1, <2>2, <2>4, <2>5
<1>8. CASE Authority!Approves
  <2>1. PICK approved : asked' = [asked EXCEPT !.approved = approved]
    BY <1>8 DEF Authority!Approves
  <2>2. asked.at = "asked"
    BY <1>8 DEF Authority!Approves
  <2>3. asked'.at = "asked"
    BY <1>0, <2>1, <2>2 DEF IsCommand
  <2>4. Stands'
    BY <1>0, <1>8, StandsWaits DEF Authority!Approves
  <2> QED BY <2>3, <2>4 DEF StackInv, StopWaits, WaitSteps, Authority!OkMeansGone, Authority!Reused,
     Authority!Answers
<1>9. CASE Authority!RestartLooks
  <2>1. Authority!Refuses(Authority!Looks) \/ (~Authority!Blocked(Authority!Looks) /\ Authority!Terminates(Authority!Looks))
    BY <1>9 DEF Authority!RestartLooks
  <2>2. CASE Authority!Refuses(Authority!Looks)
    BY <1>0, <1>1, <2>2, LooksIs, WithinAll
  <2>3. CASE ~Authority!Blocked(Authority!Looks) /\ Authority!Terminates(Authority!Looks)
    <3>1. ~Authority!Scope(asked.shell).conflict /\ Authority!Looks = Authority!Found(asked, Authority!Scope(asked.shell))
      BY <1>0, <2>3, LooksIs, NotBlocked
    <3> QED BY <1>0, <1>2, <2>3, <3>1
  <2> QED BY <2>1, <2>2, <2>3
<1>10. CASE Authority!RestartForces
  <2> DEFINE carried == asked.found \cap DOMAIN proc
  <2>1. \/ Authority!Refuses(Authority!Looks)
        \/ asked' = [Authority!Looks EXCEPT !.at = "forced"] /\ Authority!Gone(Authority!Looks.found \cup carried, FALSE)
                                                             /\ ~Authority!Blocked(Authority!Looks)
    BY <1>10 DEF Authority!RestartForces
  <2>2. CASE Authority!Refuses(Authority!Looks)
    BY <1>0, <1>1, <2>2, LooksIs, WithinAll
  <2>3. CASE asked' = [Authority!Looks EXCEPT !.at = "forced"] /\ Authority!Gone(Authority!Looks.found \cup carried, FALSE)
                                                               /\ ~Authority!Blocked(Authority!Looks)
    <3>1. asked'.at = "forced" /\ asked'.cmd = asked.cmd
      BY <1>0, <2>3, LooksIs, GoesOn
    <3>2. asked.cmd \in {"restart", "ensure"}
      BY <1>10 DEF Authority!RestartForces, Authority!Restarting
    <3>3. Authority!Looks.found \subseteq DOMAIN proc
      BY <1>0, FoundInProc, LooksIs
    <3>4. Stands'
      BY <1>0, <2>3, <3>3, StandsGone
    <3> QED BY <3>1, <3>2, <3>4 DEF StackInv, StopWaits, Stopping, Authority!OkMeansGone, Authority!Reused,
       Authority!Answers
  <2> QED BY <2>1, <2>2, <2>3
<1>11. CASE Authority!RestartEnds
  <2>1. Authority!Refuses(Authority!Looks) \/ Authority!Finish(Authority!Looks)
    BY <1>11 DEF Authority!RestartEnds
  <2> QED BY <1>0, <1>1, <2>1, LooksIs, WithinAll
<1> QED BY <1>3, <1>4, <1>5, <1>6, <1>7, <1>8, <1>9, <1>10, <1>11 DEF Authority!Command

LEMMA StackStep ==
  ASSUME Orderly, OwnInv, StackInv, [Authority!Next]_stopVars
  PROVE  StackInv' /\ Authority!OkMeansGone /\ Authority!Reused
<1>0. Stands /\ StopWaits
  BY DEF StackInv
<1>1. ASSUME asked' = asked, Stands', boot.at = "no" => boot'.at = "no" \/ ~Stopping \/ asked.at \notin WaitSteps,
             Serving' \subseteq Serving \/ boot.at # "no" \/ ~Stopping \/ asked.at \notin WaitSteps,
             \A p \in Serving \cap Serving' : proc'[p] = proc[p]
      PROVE  StackInv' /\ Authority!OkMeansGone /\ Authority!Reused
  <2>1. StopWaits'
    <3>1. SUFFICES ASSUME Stopping, asked.at \in WaitSteps
                   PROVE boot'.at = "no" /\ (\A p \in Serving : Within(p, asked.scope))'
      BY <1>1 DEF StopWaits, Stopping, WaitSteps
    <3>2. boot.at = "no" /\ boot'.at = "no" /\ Serving' \subseteq Serving
          /\ \A p \in Serving : Within(p, asked.scope)
      BY <1>0, <1>1, <3>1 DEF StopWaits
    <3>3. ASSUME NEW p \in Serving' PROVE Within(p, asked.scope)'
      BY <1>1, <3>2, <3>3 DEF Within
    <3> QED BY <3>2, <3>3
  <2> QED BY <1>1, <2>1 DEF StackInv, Authority!OkMeansGone, Authority!Reused, Authority!Answers
<1>2. ASSUME Stands', Thins, asked' = asked, boot' = boot \/ boot' = Authority!NoBoot
      PROVE  StackInv' /\ Authority!OkMeansGone /\ Authority!Reused
  <2>1. Serving' \subseteq Serving /\ \A p \in Serving' : proc'[p] = proc[p]
    BY <1>2, Thinner DEF Thins, Serving, Authority!Ours
  <2> QED BY <1>1, <1>2, <2>1, NoBootIs
<1>3. ASSUME NEW profile \in Authority!Profiles, Authority!StartLauncher(profile) PROVE StackInv' /\ Authority!OkMeansGone
                                                                                                  /\ Authority!Reused
  <2>1. Stands' /\ Serving' = {} /\ ~Authority!Commanding
    BY <1>0, <1>3, StandsStart
  <2>2. asked.at \notin WaitSteps /\ asked' = asked
    BY <1>3, <2>1 DEF Authority!Commanding, WaitSteps, Authority!StartLauncher
  <2> QED BY <1>1, <2>1, <2>2
<1>4. CASE Authority!Allocate
  <2>1. Stands' /\ asked' = asked /\ boot.at # "no"
    BY <1>0, <1>4, StandsAllocate DEF Authority!Allocate
  <2>2. Serving = {}
    BY <1>0, <2>1, StartsAlone
  <2> QED BY <1>1, <2>1, <2>2
<1>5. CASE Authority!Records
  <2>1. Stands' /\ asked' = asked /\ boot.at # "no"
    BY <1>0, <1>5, StandsRecords DEF Authority!Records
  <2>2. Serving = {}
    BY <1>0, <2>1, StartsAlone
  <2> QED BY <1>1, <2>1, <2>2
<1>6. CASE Authority!Serve
  <2>1. Stands' /\ asked' = asked /\ boot.at # "no"
    BY <1>0, <1>6, StandsServe, ServeIs
  <2>2. Serving = {}
    BY <1>0, <2>1, StartsAlone
  <2> QED BY <1>1, <2>1, <2>2
<1>7. CASE Authority!Crash
  <2>1. Stands' /\ Thins /\ asked' = asked
    BY <1>0, <1>7, StandsCrash DEF Authority!Crash
  <2> QED BY <1>2, <1>7, <2>1 DEF Authority!Crash
<1>8. CASE Authority!Ends
  <2>1. Stands' /\ Thins /\ asked' = asked
    BY <1>0, <1>8, StandsEnds DEF Authority!Ends
  <2> QED BY <1>2, <1>8, <2>1 DEF Authority!Ends
<1>9. CASE Authority!Loses
  <2>1. Stands' /\ Thins /\ asked' = asked
    BY <1>0, <1>9, StandsLoses DEF Authority!Loses
  <2> QED BY <1>2, <1>9, <2>1 DEF Authority!Loses
<1>10. CASE Authority!Stranger
  <2>1. Stands' /\ asked' = asked /\ boot' = boot /\ Serving' = Serving /\ \A p \in Serving : proc'[p] = proc[p]
    BY <1>0, <1>10, StandsStranger, StrangerIs DEF Serving, Authority!Ours
  <2> QED BY <1>1, <2>1
<1>11. CASE Authority!Edit \/ Authority!Reslot
  <2>1. Stands' /\ Thins /\ asked' = asked /\ boot' = boot
    BY <1>0, <1>11, StandsEdit DEF Authority!Edit, Authority!Reslot, Thins
  <2> QED BY <1>2, <2>1
<1>12. CASE UNCHANGED stopVars
  <2>1. UNCHANGED <<slot, proc, held, map, record, boot, asked, counts>>
    BY <1>12 DEF stopVars
  <2>2. Counted'
    BY <1>0, <2>1 DEF Counted, Stands, Shapes
  <2>3. Stands' /\ Thins
    BY <1>0, <2>1, <2>2, StandsWaits DEF Thins
  <2> QED BY <1>2, <2>1, <2>3
<1> QED BY <1>3, <1>4, <1>5, <1>6, <1>7, <1>8, <1>9, <1>10, <1>11, <1>12, CommandStack DEF Authority!Next

LEMMA StackInit == Authority!Init => StackInv
<1> SUFFICES ASSUME Authority!Init PROVE StackInv
  OBVIOUS
<1>1. /\ slot = 0 /\ proc = [p \in {} |-> Authority!NoBoot] /\ record = Authority!NoState
      /\ boot = Authority!NoBoot /\ asked = Authority!NoRun
      /\ counts = [starts |-> 0, strangers |-> 0, faults |-> 0, commands |-> 0]
  BY DEF Authority!Init
<1>2. DOMAIN proc = {}
  BY <1>1
<1>3. Authority!Ours = {} /\ Launching = {} /\ Serving = {}
  BY <1>2 DEF Authority!Ours, Launching, Serving
<1>4. record.kind = "none" /\ asked.at = "idle"
  BY <1>1 DEF Authority!NoState, Authority!NoRun
<1>5. Counted
  BY <1>1 DEF Counted
<1>6. Shapes
  BY <1>1, <1>2, <1>3, <1>4, <1>5, NoBootIs DEF Shapes
<1>7. OneStranger
  BY <1>2, <1>3 DEF OneStranger
<1>8. Booting /\ LockHeld /\ Heard
  BY <1>1, <1>3, NoBootIs DEF Booting, LockHeld, Heard
<1>9. StopWaits
  BY <1>4 DEF StopWaits, WaitSteps
<1> QED BY <1>6, <1>7, <1>8, <1>9 DEF StackInv, Stands

\* stop.ts "stack is down", stop-execution.ts canFinalizeStop: where no start overlaps a
\* command or follows a crash whose services still run, the slot stays while services run,
\* at most one other program comes in and no MCP server is asked for, an `ok` leaves no
\* launcher and no service of this checkout, after any number of starts; and what
\* `--ensure` reuses is the server that its shell would start (source-runtime-launcher.ts).
THEOREM DownMeansDown ==
  Orderly /\ SumSpec =>
    [][part = "authority" => Authority!OkMeansGone /\ Authority!Reused]_<<part, vars, stopVars>>
<1> SUFFICES ASSUME Orderly
             PROVE  SumSpec =>
               [][part = "authority" => Authority!OkMeansGone /\ Authority!Reused]_<<part, vars, stopVars>>
  OBVIOUS
<1>1. OwnInv /\ StackInv /\ [SumNext]_<<part, vars, stopVars>> =>
        /\ OwnInv' /\ StackInv'
        /\ [part = "authority" => Authority!OkMeansGone /\ Authority!Reused]_<<part, vars, stopVars>>
  <2> SUFFICES ASSUME OwnInv, StackInv, [SumNext]_<<part, vars, stopVars>>
               PROVE  /\ OwnInv' /\ StackInv'
                      /\ [part = "authority" => Authority!OkMeansGone /\ Authority!Reused]_<<part, vars, stopVars>>
    OBVIOUS
  <2>1. OwnInv' /\ StackInv' /\ Authority!OkMeansGone /\ Authority!Reused
    BY SumSteps, StepOwn, StackStep
  <2> QED BY <2>1
<1> QED BY <1>1, SumInits, InitOwn, StackInit, PTL DEF SumSpec

-----------------------------------------------------------------------------
(* What one start leaves, after a step *)

\* A step that starts nothing.
LEMMA FilesThin ==
  ASSUME Stands, Files, Thins, slot' = slot, declared' = declared, counts'.starts = counts.starts,
         boot' = boot \/ boot' = Authority!NoBoot, held' = held \/ held' = 0,
         record' = record \/ record' = Authority!NoState \/ (record'.kind # "whole" /\ record.kind = "whole"),
         map' = map \/ (Serving' = {} /\ (map' = Authority!NoMap \/ Authority!Ours # {}))
  PROVE  Files'
<1> USE DEF Files
<1>0. /\ Authority!Ours' = Authority!Ours \cap DOMAIN proc'
      /\ Serving' = Serving \cap DOMAIN proc' /\ \A p \in DOMAIN proc' : proc'[p] = proc[p]
  BY Thinner DEF Thins
<1>1. Authority!NoState.kind = "none" /\ Authority!NoMap.kind = "none" /\ Authority!NoBoot.at = "no"
  BY DEF Authority!NoState, Authority!NoMap, Authority!NoBoot
<1>2. Authority!Ours' \subseteq DOMAIN proc' /\ Serving' \subseteq Serving
                                             /\ Serving' \subseteq DOMAIN proc'
                                             /\ Authority!Ours' \subseteq Authority!Ours
  BY <1>0
<1>3. NotYet'
  BY <1>0, <1>1 DEF NotYet
<1>4. OneLauncher'
  <2>1. \A p \in Serving : p # 0
    BY DEF Stands, Shapes, Authority!Pid, Serving, Authority!Ours
  <2>2. record'.kind = "whole" => record' = record
    BY <1>1
  <2> QED BY <1>2, <2>1, <2>2 DEF OneLauncher
<1>5. StateFits'
  BY <1>1 DEF StateFits, Authority!Declared, Authority!Overrides
<1>6. Told'
  BY <1>0, <1>1, <1>2 DEF Told, Authority!Parts
<1>7. Separate'
  <2>1. Authority!CorePorts' = Authority!CorePorts
    BY DEF Authority!CorePorts, Authority!CorePort
  <2>2. boot'.at \in {"mapped", "recorded"} => boot' = boot
    BY <1>1
  <2> QED BY <1>0, <1>2, <2>1, <2>2 DEF Separate
<1> QED BY <1>3, <1>4, <1>5, <1>6, <1>7

\* What a command waits for, while it does.
LEMMA PendingThin ==
  ASSUME Pending, asked' = asked, Thins, boot' = boot \/ boot' = Authority!NoBoot,
         record' = record \/ record'.kind # "whole",
         map' = map \/ boot.at # "no"
  PROVE  Pending'
<1>0. /\ Authority!Ours' = Authority!Ours \cap DOMAIN proc' /\ \A p \in DOMAIN proc' : proc'[p] = proc[p]
  BY Thinner DEF Thins
<1>1. \A p \in Authority!Ours' : p \in Authority!Ours /\ proc'[p] = proc[p] /\ (Odd(p) => Odd(p)')
  BY <1>0 DEF Odd
<1>2. \A p \in Authority!Ours' : Authority!StillOurs(p) => Authority!StillOurs(p)'
  BY <1>1 DEF Authority!StillOurs, Authority!Owns, Authority!InItsDirectory, Authority!RunsIt,
     Authority!ServesExtension, Authority!Snapshot, Authority!InMarketplace, Authority!Approved
<1>3. asked.at \in WaitSteps => boot'.at = "no" /\ map' = map
  BY NoBootIs DEF Pending
<1>4. Stopping' <=> Stopping
  BY DEF Stopping
<1>5. (asked.at \in WaitSteps => boot.at = "no")'
  BY <1>3 DEF WaitSteps
<1>6. (Stopping /\ asked.at = "termed" => \A p \in Authority!Ours : p \in asked.found \/ Odd(p))'
  BY <1>1, <1>4 DEF Pending
<1>7. (Stopping /\ asked.at = "killed" => \A p \in Authority!Ours : Odd(p))'
  BY <1>1, <1>4 DEF Pending
<1>8. (Stopping /\ asked.at \in WaitSteps =>
       asked.scope.unprovenPorts = {} /\ asked.scope.unprovenPids = {} /\ (asked.scope.untrusted => map.kind = "bad"))'
  BY <1>3, <1>4 DEF Pending, WaitSteps
<1>9. (~Stopping /\ asked.at = "termed" => \A p \in asked.found \cap Authority!Ours : Authority!StillOurs(p))'
  BY <1>1, <1>2, <1>4 DEF Pending
<1>10. (asked.at = "forced" => Authority!Ours = {})'
  BY <1>0 DEF Pending
<1> QED BY <1>5, <1>6, <1>7, <1>8, <1>9, <1>10 DEF Pending

\* A step beside which no command waits.
LEMMA PendingIdle ==
  ASSUME asked'.at \notin WaitSteps
  PROVE  Pending'
BY DEF Pending, WaitSteps

LEMMA FilesStart ==
  ASSUME OneStart, Stands, Files, NEW profile \in Authority!Profiles, Authority!StartLauncher(profile)
  PROVE  Files' /\ asked'.at \notin WaitSteps
<1>1. Serving' = {} /\ ~Authority!Commanding /\ counts.starts = 0
  <2>1. counts.starts < Starting /\ counts.starts \in Nat
    BY DEF Authority!StartLauncher, Stands, Shapes, Counted
  <2> QED BY <2>1, StandsStart DEF OneStart
<1>2. record.kind = "none" /\ map.kind = "none"
  BY <1>1 DEF Files, NotYet
<1>3. counts'.starts # 0
  <2>1. counts'["starts"] = counts["starts"] + 1
    BY CountIs DEF Authority!StartLauncher, Stands, Shapes
  <2> QED BY <1>1, <2>1
<1>4. record' = record /\ map' = map /\ asked' = asked
                       /\ boot' = [Authority!NoBoot EXCEPT !.at = "begun", !.pid = Authority!Fresh, !.profile = profile]
  BY DEF Authority!StartLauncher
<1>5. boot'.at = "begun"
  BY <1>4 DEF Authority!NoBoot
<1>6. Files'
  BY <1>1, <1>2, <1>3, <1>4, <1>5 DEF Files, NotYet, OneLauncher, StateFits, Told, Separate
<1> QED BY <1>1, <1>4, <1>6 DEF Authority!Commanding, WaitSteps

\* resolveActiveServerRole gives a package that declares itself the server.
LEMMA ResolvedDeclared ==
  ASSUME NEW profile, Authority!Resolves(profile)
  PROVE  Authority!Declared(Authority!Resolved(profile))
<1>1. Authority!Resolve(profile) # {}
  BY FS_EmptySet, SameCount DEF Authority!Resolves
<1>2. Authority!Resolved(profile) \in Authority!Resolve(profile)
  BY <1>1 DEF Authority!Resolved
<1>3. Authority!Resolve(profile) \subseteq {Authority!Base} \cup Authority!Overrides
  BY DEF Authority!Resolve
<1> QED BY <1>2, <1>3 DEF Authority!Declared

LEMMA ExtPortsApart ==
  ASSUME Stands, boot.at = "begun"
  PROVE  Authority!ExtPorts \cap Authority!CorePorts = {}
<1> DEFINE seed == Authority!Seed + 10 * slot
           front == Authority!Free(seed, Authority!CorePorts)
           back == Authority!Free(seed + 2, Authority!CorePorts \cup {front})
           s1p == Authority!CorePort("server", slot)
           s2p == Authority!CorePort("interface", slot)
<1>1. Authority!ExtPorts = {front, back} /\ Authority!CorePorts = {s1p, s2p}
  BY DEF Authority!ExtPorts, Authority!CorePorts
<1>2. seed \in Nat
  BY DEF Authority!Seed, Stands, Shapes
<1>3. PICK d : \A p : Authority!Busy(p) => p = d
  <2>1. \A p \in Authority!Ours : proc[p].ports = {}
    BY StartsAlone DEF Stands, Shapes
  <2>2. CASE \E p : Authority!Busy(p)
    <3>1. PICK e : Authority!Busy(e)
      BY <2>2
    <3>2. \A p : Authority!Busy(p) => p = e
      <4>1. SUFFICES ASSUME NEW p, Authority!Busy(p) PROVE p = e
        OBVIOUS
      <4>2. PICK a \in DOMAIN proc, b \in DOMAIN proc : p \in proc[a].ports /\ e \in proc[b].ports
        BY <3>1, <4>1 DEF Authority!Busy
      <4>3. a \notin Authority!Ours /\ b \notin Authority!Ours
        BY <2>1, <4>2
      <4> QED BY <4>2, <4>3 DEF Stands, OneStranger
    <3> QED BY <3>2
  <2>3. CASE ~\E p : Authority!Busy(p)
    BY <2>3
  <2> QED BY <2>2, <2>3
<1> HIDE DEF seed, s1p, s2p
<1>4. front \notin Authority!CorePorts
  <2>1. Authority!CorePorts \subseteq {s1p, s2p, s1p}
    BY <1>1
  <2> QED BY <1>2, <1>3, <2>1, FreeIs
<1> HIDE DEF front
<1>5. back \notin Authority!CorePorts
  <2>1. Authority!CorePorts \cup {front} \subseteq {s1p, s2p, front} /\ seed + 2 \in Nat
    BY <1>1, <1>2
  <2>2. back \notin Authority!CorePorts \cup {front}
    BY <1>3, <2>1, FreeIs
  <2> QED BY <2>2
<1> QED BY <1>1, <1>4, <1>5

LEMMA FilesAllocate ==
  ASSUME OneStart, Stands, Files, Authority!Allocate
  PROVE  Files'
<1>1. /\ boot.at = "begun" /\ slot' = slot /\ declared' = declared /\ record' = record /\ counts' = counts
      /\ \/ Authority!Aborts /\ (map' = map \/ map' = Authority!PortMap(Authority!ExtPorts))
         \/ /\ map' = Authority!PortMap(Authority!ExtPorts) /\ proc' = proc /\ held' = held
            /\ Authority!Resolves(boot.profile)
            /\ boot' = [boot EXCEPT !.at = "mapped", !.role = Authority!Resolved(boot.profile), !.ports = Authority!ExtPorts]
  BY DEF Authority!Allocate
<1>2. Authority!Ours # {}
  BY <1>1, StartsAlone
<1>3. CASE Authority!Aborts
  <2>1. Thins /\ Serving' = {}
    BY <1>1, <1>3, LauncherGone DEF Authority!Aborts
  <2> QED BY <1>1, <1>2, <1>3, <2>1, FilesThin DEF Authority!Aborts
<1>4. CASE /\ map' = Authority!PortMap(Authority!ExtPorts) /\ proc' = proc /\ held' = held
           /\ Authority!Resolves(boot.profile)
           /\ boot' = [boot EXCEPT !.at = "mapped", !.role = Authority!Resolved(boot.profile), !.ports = Authority!ExtPorts]
  <2> DEFINE ports == Authority!ExtPorts
             role == Authority!Resolved(boot.profile)
  <2>1. ports \cap Authority!CorePorts = {} /\ Authority!Declared(role)
    BY <1>1, <1>4, ExtPortsApart, ResolvedDeclared
  <2> HIDE DEF ports, role
  <2>2. boot'.at = "mapped" /\ boot'.ports = ports /\ boot'.role = role
    BY <1>4 DEF Stands, Shapes, IsBoot, ports, role
  <2>3. Authority!Ours' = Authority!Ours /\ Serving' = {} /\ Serving = {}
    BY <1>1, <1>4, StartsAlone DEF Authority!Ours, Authority!Own, Serving
  <2>4. counts.starts # 0
    BY <1>2 DEF Files, NotYet
  <2>5. Authority!CorePorts' = Authority!CorePorts
    BY <1>1 DEF Authority!CorePorts, Authority!CorePort
  <2>6. NotYet' /\ OneLauncher'
    BY <1>1, <1>4, <2>3, <2>4 DEF Files, NotYet, OneLauncher
  <2>7. StateFits'
    BY <1>1, <2>1, <2>2 DEF Files, StateFits, Authority!Declared, Authority!Overrides
  <2>8. Told'
    BY <1>1, <1>4, <2>3 DEF Files, Told, Authority!Parts
  <2>9. Separate'
    BY <2>1, <2>2, <2>3, <2>5 DEF Separate
  <2> QED BY <2>6, <2>7, <2>8, <2>9 DEF Files
<1> QED BY <1>1, <1>3, <1>4

LEMMA FilesRecords ==
  ASSUME OneStart, Stands, Files, Authority!Records
  PROVE  Files'
<1>1. /\ boot.at = "mapped" /\ boot' = [boot EXCEPT !.at = "recorded"] /\ record' = Authority!Written({})
      /\ UNCHANGED <<declared, slot, proc, held, map, counts>>
  BY DEF Authority!Records
<1>2. boot'.at = "recorded" /\ boot'.pid = boot.pid /\ boot'.ports = boot.ports /\ boot'.role = boot.role
  BY <1>1 DEF Stands, Shapes, IsBoot
<1>3. /\ record'.kind = "whole" /\ record'.role = boot.role /\ record'.slot = slot
      /\ record'.launcher = boot.pid
      /\ record'.pids = {}
      /\ record'.ports = UNION {{<<p, s>> : p \in Authority!PortsOf(s)} : s \in Authority!Parts}
  BY <1>1, WrittenIs
<1>4. Authority!Ours = {boot.pid} /\ held = boot.pid /\ proc[boot.pid].ports = {}
  BY <1>1, StartsAlone DEF Stands, Shapes
<1>5. Authority!Ours' = Authority!Ours /\ Serving' = {} /\ proc' = proc
  BY <1>1, StartsAlone DEF Authority!Ours, Authority!Own, Serving
<1>6. counts.starts # 0
  BY <1>4 DEF Files, NotYet
<1>7. Authority!CorePorts' = Authority!CorePorts
  BY <1>1 DEF Authority!CorePorts, Authority!CorePort
<1>8. NotYet' /\ OneLauncher'
  BY <1>1, <1>3, <1>4, <1>5, <1>6 DEF NotYet, OneLauncher
<1>9. StateFits'
  BY <1>1, <1>2, <1>3 DEF Files, StateFits, Authority!Declared, Authority!Overrides
<1>10. Told'
  <2>1. \A e \in record'.ports : e[2] \in Authority!Parts
    BY <1>3
  <2> QED BY <1>3, <1>4, <1>5, <2>1 DEF Told, Authority!Parts
<1>11. Separate'
  BY <1>1, <1>2, <1>5, <1>7 DEF Files, Separate
<1> QED BY <1>8, <1>9, <1>10, <1>11 DEF Files

LEMMA FilesServe ==
  ASSUME OneStart, Stands, Files, Authority!Serve
  PROVE  Files'
<1>1. /\ boot.at = "recorded" /\ boot' = Authority!NoBoot /\ slot' = slot /\ declared' = declared /\ map' = map
      /\ counts' = counts
      /\ \/ proc' = Authority!Without({boot.pid}) /\ held' = 0 /\ record' = record
         \/ Started
  BY ServeIs
<1>2. CASE proc' = Authority!Without({boot.pid}) /\ held' = 0 /\ record' = record
  <2>1. Thins
    BY <1>1, <1>2, LauncherGone
  <2> QED BY <1>1, <1>2, <2>1, FilesThin
<1>3. CASE Started
  <2> DEFINE at == At3
  <2>0. Orderly
    BY DEF OneStart
  <2>1. /\ Serving' = {at[s] : s \in Authority!Parts}
        /\ Authority!Ours' = {boot.pid} \cup {at[s] : s \in Authority!Parts}
        /\ boot.pid \notin {at[s] : s \in Authority!Parts}
        /\ proc'[boot.pid] = proc[boot.pid]
        /\ \A s \in Authority!Parts : proc'[at[s]].svc = s /\ proc'[at[s]].ports = Authority!PortsOf(s)
    BY Zenon, <1>1, <1>3, <2>0, StartedServes
  <2>3. /\ boot.pid = held /\ boot.pid \in Launching /\ Authority!Ours # {}
    BY <1>1, StartsAlone
  <2>4. held' = held /\ record' = Authority!Written({<<at[s], s>> : s \in Authority!Parts})
    BY <1>3 DEF Started
  <2> HIDE DEF at
  <2>5. /\ record'.kind = "whole" /\ record'.role = boot.role /\ record'.slot = slot
        /\ record'.launcher = boot.pid
        /\ record'.pids = {<<at[s], s>> : s \in Authority!Parts}
        /\ record'.ports = UNION {{<<p, s>> : p \in Authority!PortsOf(s)} : s \in Authority!Parts}
    BY <2>4, WrittenIs
  <2>6. Authority!Parts = {"server", "interface", "ext"} /\ Authority!CorePorts' = Authority!CorePorts
                                                         /\ Authority!Parts' = Authority!Parts
    BY <1>1, <2>0 DEF Authority!Parts, Orderly, Authority!CorePorts, Authority!CorePort
  <2>7. boot.ports \cap Authority!CorePorts = {} /\ Authority!Declared(boot.role) /\ map.ports = boot.ports
    BY <1>1 DEF Files, Separate, StateFits, Stands, Booting
  <2>8. /\ Authority!PortsOf("server") = {Authority!CorePort("server", slot)}
        /\ Authority!PortsOf("interface") = {Authority!CorePort("interface", slot)}
        /\ Authority!PortsOf("ext") = boot.ports
        /\ Authority!CorePorts = {Authority!CorePort("server", slot), Authority!CorePort("interface", slot)}
    BY DEF Authority!PortsOf, Authority!CorePorts
  <2>9. Authority!CorePort("server", slot) # Authority!CorePort("interface", slot)
    BY DEF Authority!CorePort, Stands, Shapes
  <2>10. ASSUME NEW s \in Authority!Parts, NEW t \in Authority!Parts, NEW q \in Authority!PortsOf(s), q \in Authority!PortsOf(t) PROVE s = t
    BY <2>6, <2>7, <2>8, <2>9, <2>10
  <2>11. NotYet'
    BY <1>1, <2>3 DEF Files, NotYet
  <2>12. OneLauncher'
    BY <2>1, <2>3, <2>4, <2>5 DEF OneLauncher
  <2>13. StateFits'
    BY <1>1, <2>5, <2>7, NoBootIs DEF StateFits, Authority!Declared, Authority!Overrides
  <2>14. Told'
    <3>1. \A e \in record'.ports : e[2] \in Authority!Parts /\ e[1] \in Authority!PortsOf(e[2])
      BY <2>5
    <3>2. \A e \in record'.pids : e[2] \in Authority!Parts /\ e[1] = at[e[2]]
      BY <2>5
    <3>3. \A e \in record'.pids : proc'[e[1]].svc = e[2]
      BY <2>1, <3>2
    <3>4. ASSUME NEW e \in record'.ports, NEW p \in Authority!Ours', e[1] \in proc'[p].ports PROVE proc'[p].svc = e[2]
      <4>1. p # boot.pid
        BY <2>1, <2>3, <3>4 DEF Stands, Shapes
      <4>2. PICK s \in Authority!Parts : p = at[s]
        BY <2>1, <3>4, <4>1
      <4>3. proc'[p].svc = s /\ e[1] \in Authority!PortsOf(s)
        BY <2>1, <3>4, <4>2
      <4> QED BY <2>10, <3>1, <4>3
    <3> QED BY <2>6, <3>1, <3>2, <3>3, <3>4 DEF Told
  <2>15. Separate'
    <3>1. ASSUME NEW p \in Serving'
          PROVE  /\ proc'[p].svc # "ext" => proc'[p].ports \cap map'.ports = {}
                 /\ proc'[p].svc = "ext" => proc'[p].ports \cap Authority!CorePorts = {}
      <4>1. PICK s \in Authority!Parts : p = at[s] /\ proc'[p].svc = s /\ proc'[p].ports = Authority!PortsOf(s)
        BY <2>1, <3>1
      <4> QED BY <1>1, <2>6, <2>7, <2>8, <4>1
    <3> QED BY <1>1, <2>6, <3>1, NoBootIs DEF Separate
  <2> QED BY <2>11, <2>12, <2>13, <2>14, <2>15 DEF Files
<1> QED BY <1>1, <1>2, <1>3

-----------------------------------------------------------------------------
(* What a command finds of one start *)

LEMMA KnowsAll ==
  ASSUME OneStart
  PROVE  \A s \in Authority!Parts \cup {"launcher"} : Authority!Known(s)
BY DEF OneStart, Orderly, Authority!Known, Authority!OwnersOf, Authority!InMarketplace, Authority!Parts

LEMMA TrustedWhole ==
  ASSUME Stands, Files
  PROVE  Authority!Trusted <=> record.kind = "whole"
BY DEF Authority!Trusted, Authority!Readable, Authority!Agrees, Authority!NamesServer, Stands, Shapes,
   Files, StateFits

LEMMA ScopeSole ==
  ASSUME OneStart, Stands, Files, NEW shell
  PROVE  /\ Authority!Scope(shell).unprovenPorts = {} /\ Authority!Scope(shell).unprovenPids = {}
         /\ ~Authority!Scope(shell).conflict
         /\ Authority!Scope(shell).untrusted => map.kind = "bad" /\ record.kind # "whole"
<1>0. Authority!Known("ext") /\ \A s \in Authority!Parts : Authority!Known(s)
  BY KnowsAll DEF Authority!Known, OneStart, Authority!OwnersOf, Authority!InMarketplace
<1>1. CASE Authority!Trusted
  <2>1. record.kind = "whole"
    BY <1>1, TrustedWhole
  <2>2. \A e \in record.ports \cup record.pids : Authority!Known(e[2])
    BY <1>0, <2>1 DEF Files, Told
  <2>3. ~(held # 0 /\ held # record.launcher)
    BY <2>1 DEF Files, OneLauncher
  <2> QED BY <1>1, <2>2, <2>3, ScopeIs
<1>2. CASE ~Authority!Trusted
  BY <1>0, <1>2, ScopeIs, RecoveredIs, TrustedWhole
<1> QED BY <1>1, <1>2

LEMMA OwnsIt ==
  ASSUME OneStart, NEW p, proc[p].home = "here", NEW role, proc[p].svc = "server" => proc[p].role = role
  PROVE  Authority!Owns(p, proc[p].svc, role)
BY DEF Authority!Owns, Authority!InItsDirectory, Authority!RunsIt, Authority!ServesExtension,
   Authority!Snapshot, Authority!InMarketplace, OneStart

\* A server that the shell would not start, and no state tells of it.
Unlike(p, shell) == proc[p].svc = "server" /\ proc[p].role # shell /\ record.kind # "whole"

LEMMA FoundAll ==
  ASSUME OneStart, Stands, Files, NEW p \in Authority!Ours, NEW r, IsCommand(r), NEW shell, ~Unlike(p, shell)
  PROVE  p \in Authority!Found(r, Authority!Scope(shell)).found
<1>1. CASE p \in Launching
  BY <1>1, LauncherFound, ScopeSole
<1>2. CASE p \in Serving
  <2> DEFINE svc == proc[p].svc
             scope == Authority!Scope(shell)
  <2>1. /\ proc[p].ports # {}
        /\ proc[p].svc \in {"server", "interface"} => proc[p].ports = {Authority!CorePort(proc[p].svc, slot)}
        /\ proc[p].svc = "ext" => map.ports = proc[p].ports
        /\ record.kind = "whole" => \A q \in proc[p].ports : <<q, proc[p].svc>> \in record.ports
        /\ record.kind = "whole" /\ proc[p].svc = "server" => proc[p].role = record.role
    BY <1>2 DEF Stands, Heard
  <2>2. svc \in Authority!Parts /\ p \in DOMAIN proc /\ proc[p].home = "here"
    BY <1>2 DEF Stands, Shapes, Authority!Ours, Authority!Own
  <2>3. PICK q \in proc[p].ports : TRUE
    BY <2>1
  <2>4. Authority!Known(svc) /\ Authority!Known("ext")
    BY <2>2, KnowsAll DEF Authority!Known, OneStart, Authority!OwnersOf, Authority!InMarketplace
  <2>5. <<q, svc>> \in scope.ports
    <3>1. CASE Authority!Trusted
      BY <2>1, <2>3, <2>4, <3>1, TrustedWhole, ScopeIs
    <3>2. CASE ~Authority!Trusted /\ svc = "ext"
      BY <2>1, <2>3, <2>4, <3>2, ScopeIs, RecoveredIs
    <3>3. CASE ~Authority!Trusted /\ svc \in {"server", "interface"}
      BY <2>1, <2>3, <3>3, ScopeIs
    <3> QED BY <2>2, <3>1, <3>2, <3>3 DEF Authority!Parts, OneStart, Orderly
  <2>6. svc = "server" => proc[p].role = scope.role
    BY <2>1, ScopeIs, TrustedWhole DEF Unlike
  <2>7. Authority!Owns(p, svc, scope.role)
    BY <2>2, <2>6, OwnsIt
  <2> DEFINE t == <<p, <<q, svc>>>>
  <2> HIDE DEF scope, svc
  <2>8. t \in On(scope) /\ Admits(r, scope, t) /\ t[1] = p
    BY <2>2, <2>3, <2>5, <2>7 DEF On, Admits, Authority!Listeners
  <2>9. p \in {u[1] : u \in {u \in On(scope) \cup At(scope) : Admits(r, scope, u)}}
    BY <2>8
  <2> QED BY <2>9, FoundFields DEF scope
<1> QED BY <1>1, <1>2 DEF Launching, Serving

\* Nothing but one start of this checkout, which the shell would have started or
\* the state tells of.
Clear(shell) == DOMAIN proc = Authority!Ours /\ map.kind # "bad" /\ \A p \in Authority!Ours : ~Unlike(p, shell)

LEMMA ClearOwned ==
  ASSUME OneStart, Stands, Files, NEW shell, Clear(shell), NEW t \in On(Authority!Scope(shell)) \cup At(Authority!Scope(shell))
  PROVE  Authority!Owns(t[1], t[2][2], Authority!Scope(shell).role)
<1> DEFINE scope == Authority!Scope(shell)
           p == t[1]
           e == t[2]
<1>1. /\ p \in DOMAIN proc /\ p \in Authority!Ours /\ proc[p].home = "here" /\ ~Unlike(p, shell)
      /\ p \in Authority!Pid
      /\ p \in Launching \/ p \in Serving
  BY DEF Clear, On, At, Authority!Ours, Authority!Own, Launching, Serving, Stands, Shapes
<1>2. \/ e \in scope.ports /\ e[1] \in proc[p].ports
      \/ e \in scope.pids /\ e[1] = p
  BY DEF On, At, Authority!Listeners
<1>3. proc[p].svc = e[2]
  <2>1. CASE Authority!Trusted
    <3>1. record.kind = "whole"
      BY <2>1, TrustedWhole
    <3>2. CASE e \in scope.ports /\ e[1] \in proc[p].ports
      BY <1>1, <2>1, <3>1, <3>2, ScopeIs DEF Files, Told
    <3>3. CASE e \in record.pids /\ e[1] = p
      BY <1>1, <3>1, <3>3 DEF Files, Told
    <3>4. CASE e = <<record.launcher, "launcher">> /\ e[1] = p
      <4>1. p = record.launcher /\ e[2] = "launcher"
        BY <3>4
      <4>2. p \in Launching
        BY <1>1, <3>1, <4>1 DEF Files, OneLauncher
      <4> QED BY <4>1, <4>2 DEF Launching
    <3>5. e \in scope.pids => e = <<record.launcher, "launcher">> \/ e \in record.pids
      BY <2>1, ScopeIs
    <3> QED BY <1>2, <3>2, <3>3, <3>4, <3>5
  <2>2. CASE ~Authority!Trusted
    <3>1. CASE e \in scope.pids /\ e[1] = p
      <4>1. p = held /\ e[2] = "launcher"
        BY <2>2, <3>1, ScopeIs
      <4>2. p \in Launching
        BY <1>1, <4>1 DEF Files, OneLauncher
      <4> QED BY <4>1, <4>2 DEF Launching
    <3>2. CASE e \in scope.ports /\ e[1] \in proc[p].ports
      <4>1. p \in Serving
        BY <1>1, <3>2 DEF Stands, Shapes
      <4>2. /\ proc[p].svc \in {"server", "interface", "ext"}
            /\ proc[p].svc \in {"server", "interface"} => proc[p].ports = {Authority!CorePort(proc[p].svc, slot)}
            /\ proc[p].svc # "ext" => proc[p].ports \cap map.ports = {}
            /\ proc[p].svc = "ext" => proc[p].ports \cap Authority!CorePorts = {}
        BY <4>1 DEF Stands, Shapes, Authority!Parts, OneStart, Orderly, Heard, Files, Separate
      <4>3. \/ \E s \in {"server", "interface"} : e = <<Authority!CorePort(s, slot), s>>
            \/ \E q \in map.ports : e = <<q, "ext">>
        BY <2>2, <3>2, ScopeIs, RecoveredIs
      <4>4. CASE \E q \in map.ports : e = <<q, "ext">>
        BY <3>2, <4>2, <4>4
      <4>5. CASE \E s \in {"server", "interface"} : e = <<Authority!CorePort(s, slot), s>>
        <5>1. PICK s \in {"server", "interface"} : e[1] = Authority!CorePort(s, slot) /\ e[2] = s
          BY <4>5
        <5>2. e[1] \in Authority!CorePorts
          BY <5>1 DEF Authority!CorePorts
        <5>3. proc[p].svc \in {"server", "interface"} /\ Authority!CorePort(proc[p].svc, slot) = Authority!CorePort(s, slot)
          BY <3>2, <4>2, <5>1, <5>2
        <5>4. Authority!CorePort("server", slot) # Authority!CorePort("interface", slot)
          BY DEF Authority!CorePort, Stands, Shapes
        <5> QED BY <5>1, <5>3, <5>4
      <4> QED BY <4>3, <4>4, <4>5
    <3> QED BY <1>2, <3>1, <3>2
  <2> QED BY <2>1, <2>2
<1>4. proc[p].svc = "server" => proc[p].role = scope.role
  <2>1. CASE Authority!Trusted
    BY <1>1, <2>1, ScopeIs, TrustedWhole DEF Serving, Launching, Stands, Heard
  <2>2. CASE ~Authority!Trusted
    BY <1>1, <2>2, ScopeIs, TrustedWhole DEF Unlike
  <2> QED BY <2>1, <2>2
<1> QED BY <1>1, <1>3, <1>4, OwnsIt

LEMMA ClearGoes ==
  ASSUME OneStart, Stands, Files, NEW shell, Clear(shell), NEW r, IsCommand(r)
  PROVE  ~Authority!Blocked(Authority!Found(r, Authority!Scope(shell))) /\ DOMAIN proc \subseteq Authority!Found(r, Authority!Scope(shell)).found
<1> DEFINE scope == Authority!Scope(shell)
           f == Authority!Found(r, scope)
<1>1. \A t \in On(scope) \cup At(scope) : Admits(r, scope, t)
  BY ClearOwned DEF Admits
<1>2. f.refusedPorts = {} /\ f.refusedPids = {} /\ f.scope = scope
  BY <1>1, FoundFields
<1>3. ~scope.untrusted /\ scope.unprovenPorts = {} /\ scope.unprovenPids = {}
  BY ScopeSole DEF Clear
<1>4. ~Authority!Blocked(f)
  BY <1>2, <1>3 DEF Authority!Blocked, Authority!Unproven
<1>5. DOMAIN proc \subseteq f.found
  BY FoundAll DEF Clear
<1> QED BY <1>4, <1>5

\* Where nothing runs, and the map is whole, a command finishes.
LEMMA NothingFinishes ==
  ASSUME DOMAIN proc = {}, NEW r, Authority!Finish(r), ~r.scope.untrusted,
         r.scope.unprovenPorts = {}, r.scope.unprovenPids = {}
  PROVE  asked'.answer = "ok"
<1>1. Authority!CanFinalize(r) /\ ~Authority!Live(held)
  BY DEF Authority!CanFinalize, Authority!Unproven, Authority!Live, Authority!Busy
<1>2. Authority!Over(r, "ok")
  BY <1>1 DEF Authority!Finish
<1> QED BY <1>2, OverFields

-----------------------------------------------------------------------------
(* What a command does to one start *)

LEMMA FilesGone ==
  ASSUME Stands, Files, NEW ended, ended \subseteq DOMAIN proc, NEW heeded, Authority!Gone(ended, heeded),
         slot' = slot, declared' = declared, counts'.starts = counts.starts
  PROVE  Files'
<1>1. /\ Thins /\ (boot' = boot \/ boot' = Authority!NoBoot)
      /\ held' = held \/ held' = 0
      /\ \/ record' = record /\ map' = map
         \/ record' = Authority!NoState /\ map' = Authority!NoMap /\ Serving' = {}
  BY GoneIs
<1> QED BY <1>1, FilesThin

LEMMA FilesOver ==
  ASSUME Orderly, Stands, Files, NEW r, Authority!Refuses(r) \/ Authority!Finish(r), \A p \in Serving : Within(p, r.scope),
         slot' = slot, declared' = declared, Counted', counts'.strangers = counts.strangers,
         counts'.starts = counts.starts
  PROVE  Files' /\ asked'.at = "over"
<1>1. /\ asked'.at = "over" /\ Thins /\ boot' = boot
      /\ (record' = record /\ map' = map /\ held' = held) \/ Authority!Ours = {}
  BY StandsOver
<1>2. record' \in {record, Authority!NoState} /\ map' \in {map, Authority!NoMap} /\ held' \in {held, 0}
  BY DEF Authority!Refuses, Authority!Finish
<1>3. Authority!Ours = {} => Serving' = {}
  <2>1. Authority!Ours = {} => Serving = {}
    BY DEF Serving
  <2> QED BY <1>1, <2>1, Thinner
<1> QED BY <1>1, <1>2, <1>3, FilesThin

\* A refusal of a command that met nothing but one start.
LEMMA RefusedRight ==
  ASSUME Authority!Answers("refused") => ~Clear(asked'.shell)
  PROVE  Authority!OwnStackStops
BY DEF Authority!OwnStackStops, Clear, Unlike, Authority!Ours

LEMMA SoleTerms ==
  ASSUME OneStart, Stands, Files, NEW r, IsCommand(r), NEW shell, r.shell = shell,
         Authority!Terminates(Authority!Found(r, Authority!Scope(shell))),
         slot' = slot, declared' = declared, Counted', counts'.strangers = counts.strangers,
         counts'.starts = counts.starts
  PROVE  SoleInv' /\ asked'.at = "termed"
<1>0. Orderly /\ ~Authority!Scope(shell).conflict
  BY ScopeSole DEF OneStart
<1> DEFINE scope == Authority!Scope(shell)
           f == Authority!Found(r, scope)
<1>1. /\ boot'.at = "no" /\ Thins
      /\ asked'.cmd = r.cmd /\ asked'.shell = shell /\ asked'.at = "termed"
      /\ asked'.scope = scope /\ asked'.found = f.found /\ asked'.approved = r.approved
      /\ \/ record' = record /\ map' = map
         \/ record' = Authority!NoState /\ map' = Authority!NoMap /\ record.kind = "whole"
  BY <1>0, StackTerms
<1>2. Files'
  <2>1. f.found \subseteq DOMAIN proc
    BY FoundInProc
  <2>2. PICK ended \in SUBSET f.found : Authority!Gone(ended, TRUE)
    BY DEF Authority!Terminates
  <2> QED BY <2>1, <2>2, FilesGone
<1>3. \A p \in Authority!Ours' : p \in Authority!Ours /\ p \in DOMAIN proc' /\ proc'[p] = proc[p]
  BY <1>1, Thinner DEF Thins, Authority!Ours
<1>4. \A p \in Authority!Ours : p \in f.found \/ Unlike(p, shell)
  BY FoundAll
<1>5. /\ scope.unprovenPorts = {} /\ scope.unprovenPids = {}
      /\ scope.untrusted => map.kind = "bad" /\ record.kind # "whole"
  BY ScopeSole
<1>6. f.found = {t[1] : t \in {u \in On(scope) \cup At(scope) : Admits(r, scope, u)}}
  BY FoundFields
<1> HIDE DEF f, scope
<1>7. Authority!NoState.kind = "none"
  BY DEF Authority!NoState
<1>8. ASSUME NEW p \in Authority!Ours', Unlike(p, shell) PROVE Odd(p)'
  BY <1>1, <1>3, <1>7, <1>8 DEF Odd, Unlike
<1>9. ASSUME NEW p \in asked'.found \cap Authority!Ours' PROVE Authority!StillOurs(p)'
  <2>1. PICK t \in On(scope) \cup At(scope) : p = t[1] /\ Admits(r, scope, t)
    BY <1>1, <1>6, <1>9
  <2>2. proc'[p] = proc[p]
    BY <1>3, <1>9
  <2>3. CASE Authority!Approved(r, p)
    BY <1>1, <2>2, <2>3 DEF Authority!StillOurs, Authority!Approved
  <2>4. CASE Authority!Owns(p, t[2][2], scope.role)
    <3>2. CASE t \in On(scope)
      <4>1. t[2] \in asked'.scope.ports
        BY <1>1, <3>2 DEF On
      <4>2. (Authority!Owns(p, t[2][2], asked.scope.role))'
        BY <1>1, <2>2, <2>4 DEF Authority!Owns, Authority!InItsDirectory, Authority!RunsIt,
           Authority!ServesExtension, Authority!Snapshot, Authority!InMarketplace
      <4> QED BY <4>1, <4>2 DEF Authority!StillOurs
    <3>3. CASE t \in At(scope)
      <4>1. t[2] \in asked'.scope.pids /\ t[2][1] = p
        BY <1>1, <2>1, <3>3 DEF At
      <4>2. (Authority!Owns(p, t[2][2], asked.scope.role))'
        BY <1>1, <2>2, <2>4 DEF Authority!Owns, Authority!InItsDirectory, Authority!RunsIt,
           Authority!ServesExtension, Authority!Snapshot, Authority!InMarketplace
      <4> QED BY <4>1, <4>2 DEF Authority!StillOurs
    <3> QED BY <2>1, <3>2, <3>3
  <2> QED BY <2>1, <2>3, <2>4 DEF Admits
<1>10. Pending'
  <2>1. (asked.at \in WaitSteps => boot.at = "no")'
    BY <1>1
  <2>2. (Stopping /\ asked.at = "termed" => \A p \in Authority!Ours : p \in asked.found \/ Odd(p))'
    BY <1>1, <1>3, <1>4, <1>8
  <2>3. (Stopping /\ asked.at \in WaitSteps =>
       asked.scope.unprovenPorts = {} /\ asked.scope.unprovenPids = {} /\ (asked.scope.untrusted => map.kind = "bad"))'
    BY <1>1, <1>5
  <2>4. (~Stopping /\ asked.at = "termed" => \A p \in asked.found \cap Authority!Ours : Authority!StillOurs(p))'
    BY <1>9
  <2> QED BY <1>1, <2>1, <2>2, <2>3, <2>4 DEF Pending
<1> QED BY <1>1, <1>2, <1>10 DEF SoleInv

\* A server that is not what the shell would start is refused or found.
LEMMA UnlikeFound ==
  ASSUME OneStart, Stands, Files, NEW p \in Authority!Ours, NEW r, IsCommand(r), NEW shell, Unlike(p, shell),
         ~Authority!Blocked(Authority!Found(r, Authority!Scope(shell)))
  PROVE  p \in Authority!Found(r, Authority!Scope(shell)).found
<1> DEFINE scope == Authority!Scope(shell)
           f == Authority!Found(r, scope)
           q == Authority!CorePort("server", slot)
           t == <<p, <<q, "server">>>>
<1>1. p \in Serving /\ proc[p].svc = "server" /\ proc[p].ports = {q} /\ p \in DOMAIN proc
  BY DEF Unlike, Serving, Stands, Heard, Authority!Ours
<1>2. <<q, "server">> \in scope.ports
  BY TrustedWhole, ScopeIs DEF Unlike
<1>3. f.refusedPorts = {u[2][1] : u \in {u \in On(scope) : ~Admits(r, scope, u)}}
      /\ f.found = {u[1] : u \in {u \in On(scope) \cup At(scope) : Admits(r, scope, u)}}
  BY FoundFields
<1>4. f.refusedPorts = {}
  BY DEF Authority!Blocked
<1> HIDE DEF scope, f, q
<1>5. t \in On(scope) /\ t[1] = p
  BY <1>1, <1>2 DEF On, Authority!Listeners
<1>6. Admits(r, scope, t)
  <2>1. SUFFICES ASSUME ~Admits(r, scope, t) PROVE FALSE
    OBVIOUS
  <2>2. t[2][1] \in f.refusedPorts
    BY <1>3, <1>5, <2>1
  <2> QED BY <1>4, <2>2
<1>7. p \in f.found
  BY <1>3, <1>5, <1>6
<1> QED BY <1>7 DEF f, scope

LEMMA CommandSole ==
  ASSUME OneStart, OwnInv, StackInv, SoleInv, Authority!Command
  PROVE  SoleInv' /\ Authority!OwnStackStops
<1>0. /\ slot' = slot /\ declared' = declared /\ Counted' /\ counts'.strangers = counts.strangers
      /\ counts'.starts = counts.starts
      /\ IsCommand(asked) /\ Stands /\ Orderly /\ Files /\ Pending
  BY CommandCounts DEF StackInv, Stands, Shapes, OwnInv, RunNamed, OneStart, SoleInv
<1>1. ASSUME NEW r, Authority!Refuses(r) \/ Authority!Finish(r), \A p \in Serving : Within(p, r.scope),
             asked'.answer = "refused" => ~Clear(r.shell)
      PROVE  SoleInv' /\ Authority!OwnStackStops
  <2>1. Files' /\ asked'.at = "over"
    BY <1>0, <1>1, FilesOver
  <2>2. Pending'
    BY <2>1, PendingIdle DEF WaitSteps
  <2>3. asked'.shell = r.shell
    BY <1>1, FinishEndsNone, OverFields
  <2> QED BY <1>1, <2>1, <2>2, <2>3, RefusedRight DEF SoleInv, Authority!Answers
<1>2. ASSUME NEW r, IsCommand(r), NEW shell, r.shell = shell, Authority!Terminates(Authority!Found(r, Authority!Scope(shell)))
      PROVE  SoleInv' /\ Authority!OwnStackStops
  <2>1. SoleInv' /\ asked'.at = "termed"
    BY <1>0, <1>2, SoleTerms
  <2> QED BY <2>1 DEF Authority!OwnStackStops, Authority!Answers
\* A command that has not ended.
<1>3. ASSUME Files', Pending', asked'.at # "over" PROVE SoleInv' /\ Authority!OwnStackStops
  BY <1>3 DEF SoleInv, Authority!OwnStackStops, Authority!Answers
<1>4. ASSUME UNCHANGED <<proc, held, map, record, boot>> PROVE Files'
  <2>1. Thins
    BY <1>4 DEF Thins
  <2> QED BY <1>0, <1>4, <2>1, FilesThin
<1>5. CASE Authority!AskStop
  <2>1. PICK cmd \in {"stop", "force"}, profile \in Authority!Profiles :
           LET a == Authority!Asked(cmd, Authority!Shell(profile))
               r == Authority!Found(a, Authority!Scope(Authority!Shell(profile)))
           IN  /\ IsCommand(a) /\ a.cmd = cmd /\ a.shell = Authority!Shell(profile) /\ a.approved = {}
               /\ IsCommand(r) /\ r.cmd = cmd /\ r.shell = Authority!Shell(profile)
               /\ r.scope = Authority!Scope(Authority!Shell(profile))
               /\ \/ Authority!Refuses(r) /\ (r.scope.conflict \/ (r.found = {} /\ Authority!Blocked(r)))
                  \/ ~r.scope.conflict /\ r.found = {} /\ ~Authority!Blocked(r) /\ Authority!Finish(r)
                  \/ ~r.scope.conflict /\ Authority!Terminates(r)
    BY <1>5, AskStopIs
  <2> DEFINE shell == Authority!Shell(profile)
             a == Authority!Asked(cmd, shell)
             r == Authority!Found(a, Authority!Scope(shell))
  <2>2. /\ IsCommand(a) /\ a.shell = shell /\ r.scope = Authority!Scope(shell) /\ r.shell = shell
        /\ \/ Authority!Refuses(r) /\ (r.scope.conflict \/ (r.found = {} /\ Authority!Blocked(r)))
           \/ ~r.scope.conflict /\ r.found = {} /\ ~Authority!Blocked(r) /\ Authority!Finish(r)
           \/ ~r.scope.conflict /\ Authority!Terminates(r)
    BY <2>1
  <2>3. CASE Authority!Terminates(r)
    BY <1>2, <2>2, <2>3
  <2>4. CASE Authority!Refuses(r) /\ (r.scope.conflict \/ (r.found = {} /\ Authority!Blocked(r)))
    <3>1. \A p \in Serving : Within(p, r.scope)
      BY <1>0, <2>2, WithinAll
    <3>2. ~Clear(shell)
      BY <1>0, <2>2, <2>4, ScopeSole, ClearGoes
    <3> QED BY <1>1, <2>2, <2>4, <3>1, <3>2
  <2>5. CASE r.found = {} /\ Authority!Finish(r)
    <3>1. \A p \in Serving : Within(p, r.scope)
      BY <1>0, <2>2, WithinAll
    <3>2. ASSUME Clear(shell) PROVE asked'.answer = "ok"
      <4>1. DOMAIN proc = {}
        BY <1>0, <2>2, <2>5, <3>2, ClearGoes
      <4>2. ~r.scope.untrusted /\ r.scope.unprovenPorts = {} /\ r.scope.unprovenPids = {}
        BY <1>0, <2>2, <3>2, ScopeSole DEF Clear
      <4> HIDE DEF r
      <4> QED BY <2>5, <4>1, <4>2, NothingFinishes
    <3>3. asked'.answer = "refused" => ~Clear(r.shell)
      BY <2>2, <3>2
    <3> QED BY <1>1, <2>5, <3>1, <3>3
  <2> QED BY <2>2, <2>3, <2>4, <2>5
<1>6. CASE Authority!StopKills
  <2>1. /\ asked.at = "termed" /\ Stopping /\ asked' = [asked EXCEPT !.at = "killed"]
        /\ Authority!Gone(asked.found \cap DOMAIN proc, FALSE)
    BY <1>6 DEF Authority!StopKills, Stopping
  <2>2. /\ asked'.at = "killed" /\ asked'.scope = asked.scope /\ asked'.cmd = asked.cmd
        /\ asked'.shell = asked.shell
    BY <1>0, <2>1, GoesOn
  <2>3. /\ Thins /\ (asked.found \cap DOMAIN proc) \cap DOMAIN proc' = {}
        /\ boot' = boot \/ boot' = Authority!NoBoot
        /\ record' = record /\ map' = map
    BY <1>0, <2>1, GoneIs
  <2>4. Files'
    BY <1>0, <2>1, FilesGone
  <2>5. boot.at = "no" /\ \A p \in Authority!Ours : p \in asked.found \/ Odd(p)
    BY <1>0, <2>1 DEF Pending, WaitSteps
  <2>6. ASSUME NEW p \in Authority!Ours' PROVE Odd(p)'
    <3>1. p \in Authority!Ours /\ p \in DOMAIN proc' /\ p \in DOMAIN proc /\ proc'[p] = proc[p]
      BY <2>3, <2>6, Thinner DEF Thins, Authority!Ours
    <3>2. Odd(p)
      BY <2>3, <2>5, <3>1
    <3> QED BY <2>2, <2>3, <3>1, <3>2 DEF Odd
  <2>7. Pending'
    <3>1. boot'.at = "no"
      BY <2>3, <2>5, NoBootIs
    <3>2. Stopping'
      BY <2>1, <2>2 DEF Stopping
    <3>3. asked.scope.unprovenPorts = {} /\ asked.scope.unprovenPids = {} /\ (asked.scope.untrusted => map.kind = "bad")
      BY <1>0, <2>1 DEF Pending, WaitSteps
    <3> QED BY <2>2, <2>3, <2>6, <3>1, <3>2, <3>3 DEF Pending
  <2> QED BY <1>3, <2>2, <2>4, <2>7
<1>7. CASE Authority!StopEnds
  <2>1. Authority!Finish(asked) /\ asked.at = "killed" /\ Stopping
    BY <1>7 DEF Authority!StopEnds, Stopping
  <2>2. \A p \in Serving : Within(p, asked.scope)
    BY <2>1 DEF StackInv, StopWaits, WaitSteps
  <2>3. /\ \A p \in Authority!Ours : Odd(p)
        /\ asked.scope.unprovenPorts = {} /\ asked.scope.unprovenPids = {} /\ (asked.scope.untrusted => map.kind = "bad")
    BY <1>0, <2>1 DEF Pending, WaitSteps
  <2>4. ASSUME Clear(asked.shell) PROVE asked'.answer = "ok"
    <3>1. DOMAIN proc = {} /\ ~asked.scope.untrusted
      BY <2>3, <2>4 DEF Clear, Odd, Unlike
    <3> QED BY <2>1, <2>3, <3>1, NothingFinishes
  <2>5. asked'.answer = "refused" => ~Clear(asked.shell)
    BY <2>4
  <2> QED BY <1>1, <2>1, <2>2, <2>5
<1>8. CASE Authority!AskRestart \/ Authority!AskEnsure
  <2>1. PICK cmd, shell : asked' = Authority!Asked(cmd, shell) \/ Authority!Over(Authority!Asked(cmd, shell), "reused")
    BY <1>8 DEF Authority!AskRestart, Authority!AskEnsure
  <2>2. asked'.at = "asked" \/ (asked'.at = "over" /\ asked'.answer = "reused")
    BY <2>1, AskedFields, OverFields
  <2>3. Files'
    BY <1>4, <1>8 DEF Authority!AskRestart, Authority!AskEnsure
  <2>4. Pending'
    BY <2>2, PendingIdle DEF WaitSteps
  <2> QED BY <2>2, <2>3, <2>4 DEF SoleInv, Authority!OwnStackStops, Authority!Answers
<1>9. CASE Authority!Approves
  <2>1. PICK approved : asked' = [asked EXCEPT !.approved = approved]
    BY <1>9 DEF Authority!Approves
  <2>2. asked.at = "asked"
    BY <1>9 DEF Authority!Approves
  <2>3. asked'.at = "asked"
    BY <1>0, <2>1, <2>2 DEF IsCommand
  <2>4. Files'
    BY <1>4, <1>9 DEF Authority!Approves
  <2>5. Pending'
    BY <2>3, PendingIdle DEF WaitSteps
  <2> QED BY <1>3, <2>3, <2>4, <2>5
<1>10. CASE Authority!RestartLooks
  <2>1. (Authority!Refuses(Authority!Looks) /\ Authority!Blocked(Authority!Looks)) \/ Authority!Terminates(Authority!Looks)
    BY <1>10 DEF Authority!RestartLooks
  <2>2. CASE Authority!Refuses(Authority!Looks) /\ Authority!Blocked(Authority!Looks)
    <3>1. ~Clear(Authority!Looks.shell)
      BY <1>0, <2>2, LooksIs, ClearGoes
    <3> QED BY <1>0, <1>1, <2>2, <3>1, LooksIs, WithinAll
  <2>3. CASE Authority!Terminates(Authority!Looks)
    BY <1>0, <1>2, <2>3, LooksIs
  <2> QED BY <2>1, <2>2, <2>3
<1>11. CASE Authority!RestartForces
  <2> DEFINE carried == asked.found \cap DOMAIN proc
  <2>0. asked.at = "termed" /\ ~Stopping
    BY <1>11 DEF Authority!RestartForces, Authority!Restarting, Stopping
  <2>1. \/ Authority!Refuses(Authority!Looks) /\ (Authority!Blocked(Authority!Looks) \/ \E p \in carried : ~Authority!StillOurs(p))
        \/ asked' = [Authority!Looks EXCEPT !.at = "forced"] /\ Authority!Gone(Authority!Looks.found \cup carried, FALSE)
                                                             /\ ~Authority!Blocked(Authority!Looks)
    BY <1>11 DEF Authority!RestartForces
  <2>2. CASE Authority!Refuses(Authority!Looks) /\ (Authority!Blocked(Authority!Looks) \/ \E p \in carried : ~Authority!StillOurs(p))
    <3>1. ASSUME Clear(asked.shell) PROVE FALSE
      <4>1. ~Authority!Blocked(Authority!Looks) /\ DOMAIN proc = Authority!Ours
        BY <1>0, <3>1, LooksIs, ClearGoes DEF Clear
      <4>2. \A p \in asked.found \cap Authority!Ours : Authority!StillOurs(p)
        BY <1>0, <2>0 DEF Pending
      <4> QED BY <2>2, <4>1, <4>2
    <3>2. ~Clear(Authority!Looks.shell)
      BY <1>0, <3>1, LooksIs
    <3> QED BY <1>0, <1>1, <2>2, <3>2, LooksIs, WithinAll
  <2>3. CASE asked' = [Authority!Looks EXCEPT !.at = "forced"] /\ Authority!Gone(Authority!Looks.found \cup carried, FALSE)
                                                               /\ ~Authority!Blocked(Authority!Looks)
    <3>1. asked'.at = "forced" /\ asked'.cmd = asked.cmd
      BY <1>0, <2>3, LooksIs, GoesOn
    <3>2. Authority!Looks.found \cup carried \subseteq DOMAIN proc
      BY <1>0, FoundInProc, LooksIs
    <3>3. Files'
      BY <1>0, <2>3, <3>2, FilesGone
    <3>4. /\ Thins /\ (Authority!Looks.found \cup carried) \cap DOMAIN proc' = {} /\ (boot' = boot \/ boot' = Authority!NoBoot)
      BY <1>0, <2>3, <3>2, GoneIs
    <3>5. boot'.at = "no"
      BY <1>0, <2>0, <3>4, NoBootIs DEF Pending, WaitSteps
    <3>6. Authority!Ours \subseteq Authority!Looks.found
      <4>1. SUFFICES ASSUME NEW p \in Authority!Ours PROVE p \in Authority!Looks.found
        OBVIOUS
      <4>2. CASE ~Unlike(p, asked.shell)
        BY <1>0, <4>2, FoundAll, LooksIs
      <4>3. CASE Unlike(p, asked.shell)
        BY <1>0, <2>3, <4>1, <4>3, UnlikeFound, LooksIs
      <4> QED BY <4>2, <4>3
    <3>7. Authority!Ours' = {}
      BY <3>4, <3>6, Thinner
    <3>8. Pending'
      <4>1. ~Stopping'
        BY <2>0, <3>1 DEF Stopping
      <4> QED BY <3>1, <3>5, <3>7, <4>1 DEF Pending
    <3> QED BY <1>3, <3>1, <3>3, <3>8
  <2> QED BY <2>1, <2>2, <2>3
<1>12. CASE Authority!RestartEnds
  <2>1. Authority!Ours = {}
    BY <1>0, <1>12 DEF Authority!RestartEnds, Pending
  <2>2. (Authority!Refuses(Authority!Looks) /\ Authority!Blocked(Authority!Looks)) \/ Authority!Finish(Authority!Looks)
    BY <1>12 DEF Authority!RestartEnds
  <2>3. CASE Authority!Refuses(Authority!Looks) /\ Authority!Blocked(Authority!Looks)
    <3>1. ~Clear(Authority!Looks.shell)
      BY <1>0, <2>3, LooksIs, ClearGoes
    <3> QED BY <1>0, <1>1, <2>3, <3>1, LooksIs, WithinAll
  <2>4. CASE Authority!Finish(Authority!Looks)
    <3>1. ASSUME Clear(asked.shell) PROVE asked'.answer = "ok"
      <4>1. DOMAIN proc = {}
        BY <2>1, <3>1 DEF Clear
      <4>2. ~Authority!Looks.scope.untrusted /\ Authority!Looks.scope.unprovenPorts = {}
                                             /\ Authority!Looks.scope.unprovenPids = {}
        BY <1>0, <3>1, LooksIs, ScopeSole DEF Clear
      <4> QED BY <2>4, <4>1, <4>2, NothingFinishes
    <3>2. asked'.answer = "refused" => ~Clear(Authority!Looks.shell)
      BY <1>0, <3>1, LooksIs
    <3> QED BY <1>0, <1>1, <2>4, <3>2, LooksIs, WithinAll
  <2> QED BY <2>2, <2>3, <2>4
<1> QED BY <1>5, <1>6, <1>7, <1>8, <1>9, <1>10, <1>11, <1>12 DEF Authority!Command

LEMMA SoleStep ==
  ASSUME OneStart, OwnInv, StackInv, SoleInv, [Authority!Next]_stopVars
  PROVE  SoleInv' /\ Authority!OwnStackStops
<1>0. Stands /\ Files /\ Pending /\ Orderly
  BY DEF StackInv, SoleInv, OneStart
<1>1. ASSUME Files', Pending', asked' = asked PROVE SoleInv' /\ Authority!OwnStackStops
  BY <1>1 DEF SoleInv, Authority!OwnStackStops, Authority!Answers
<1>2. ASSUME NEW profile \in Authority!Profiles, Authority!StartLauncher(profile) PROVE SoleInv' /\ Authority!OwnStackStops
  <2>1. Files' /\ asked'.at \notin WaitSteps /\ asked' = asked
    BY <1>0, <1>2, FilesStart DEF Authority!StartLauncher
  <2> QED BY <1>1, <2>1, PendingIdle
<1>3. ASSUME Authority!Allocate \/ Authority!Records \/ Authority!Serve PROVE SoleInv' /\ Authority!OwnStackStops
  <2>1. Files'
    BY <1>0, <1>3, FilesAllocate, FilesRecords, FilesServe
  <2>2. boot.at # "no" /\ asked' = asked
    BY <1>3 DEF Authority!Allocate, Authority!Records, Authority!Serve
  <2>3. asked'.at \notin WaitSteps
    BY <1>0, <2>2 DEF Pending
  <2> QED BY <1>1, <2>1, <2>2, <2>3, PendingIdle
<1>4. CASE Authority!Crash
  <2>1. /\ Thins /\ asked' = asked /\ UNCHANGED <<declared, slot, held, record>>
        /\ boot' = boot \/ boot' = Authority!NoBoot
        /\ map' = map \/ boot.at # "no"
    BY <1>0, <1>4, StandsCrash DEF Authority!Crash
  <2>2. counts'["starts"] = counts["starts"]
    BY <1>0, <1>4, CountIs DEF Authority!Crash, Stands, Shapes
  <2>3. map' # map => Authority!Ours # {} /\ Serving' = {}
    <3>1. SUFFICES ASSUME boot.at # "no" PROVE Authority!Ours # {} /\ Serving' = {}
      BY <2>1
    <3>2. Authority!Ours # {} /\ Serving = {}
      BY <1>0, <3>1, StartsAlone
    <3> QED BY <2>1, <3>2, Thinner
  <2>4. Files'
    BY <1>0, <2>1, <2>2, <2>3, FilesThin
  <2>5. Pending'
    BY <1>0, <2>1, PendingThin
  <2> QED BY <1>1, <2>1, <2>4, <2>5
<1>5. CASE Authority!Ends
  <2>1. Thins /\ UNCHANGED <<declared, slot, held, map, record, boot, asked, counts>>
    BY <1>0, <1>5, StandsEnds DEF Authority!Ends
  <2>2. Files' /\ Pending'
    BY <1>0, <2>1, FilesThin, PendingThin
  <2> QED BY <1>1, <2>1, <2>2
<1>6. CASE Authority!Loses
  <2>1. Thins /\ UNCHANGED <<declared, slot, proc, held, map, boot, asked>> /\ record.kind = "whole"
              /\ ~Authority!Commanding
    BY <1>0, <1>6, StandsLoses DEF Authority!Loses
  <2>2. record'.kind # "whole"
    BY <1>6 DEF Authority!Loses, Authority!NoState
  <2>3. counts'["starts"] = counts["starts"]
    BY <1>0, <1>6, CountIs DEF Authority!Loses, Stands, Shapes
  <2>4. Files' /\ Pending'
    BY <1>0, <2>1, <2>2, <2>3, FilesThin, PendingThin
  <2> QED BY <1>1, <2>1, <2>4
<1>7. CASE Authority!Stranger
  <2>1. /\ DOMAIN proc = Authority!Ours /\ Authority!Ours' = Authority!Ours /\ Serving' = Serving /\ \A p \in DOMAIN proc : proc'[p] = proc[p]
        /\ UNCHANGED <<declared, slot, held, map, record, boot, asked>> /\ counts'.starts = counts.starts
    BY <1>0, <1>7, StrangerIs
  <2>2. \A p \in Authority!Ours : proc'[p] = proc[p]
    BY <2>1
  <2>3. Serving \subseteq Authority!Ours
    BY DEF Serving
  <2>4. NotYet' /\ OneLauncher'
    BY <1>0, <2>1 DEF Files, NotYet, OneLauncher
  <2>5. StateFits' /\ Told'
    BY <1>0, <2>1, <2>2 DEF Files, StateFits, Told, Authority!Declared, Authority!Overrides, Authority!Parts
  <2>6. Separate'
    BY <1>0, <2>1, <2>2, <2>3 DEF Files, Separate, Authority!CorePorts, Authority!CorePort
  <2>7. Pending'
    <3>1. \A p \in Authority!Ours : (Odd(p) => Odd(p)') /\ (Authority!StillOurs(p) => Authority!StillOurs(p)')
      BY <2>1, <2>2 DEF Odd, Authority!StillOurs, Authority!Owns, Authority!InItsDirectory,
         Authority!RunsIt, Authority!ServesExtension, Authority!Snapshot, Authority!InMarketplace,
         Authority!Approved
    <3> QED BY <1>0, <2>1, <3>1 DEF Pending, Stopping, WaitSteps
  <2> QED BY <1>1, <2>1, <2>4, <2>5, <2>6, <2>7 DEF Files
<1>8. CASE Authority!Edit \/ Authority!Reslot
  <2>1. /\ Authority!Ours = {} /\ record.kind = "none" /\ UNCHANGED <<proc, held, map, record, boot, asked>>
    BY <1>0, <1>8 DEF Authority!Edit, Authority!Reslot, OneStart, Orderly
  <2>2. counts'["starts"] = counts["starts"]
    BY <1>0, <1>8, CountIs DEF Authority!Edit, Authority!Reslot, Stands, Shapes
  <2>3. boot.at = "no" /\ Authority!Ours' = {} /\ Serving' = {}
    <3>1. Authority!Ours' = {}
      BY <2>1 DEF Authority!Ours, Authority!Own
    <3> QED BY <1>0, <2>1, <3>1, StartsAlone DEF Serving
  <2>4. NotYet' /\ OneLauncher' /\ StateFits' /\ Told' /\ Separate'
    BY <1>0, <2>1, <2>2, <2>3 DEF Files, NotYet, OneLauncher, StateFits, Told, Separate
  <2>5. Pending'
    BY <1>0, <2>1, <2>3 DEF Pending, Stopping, WaitSteps
  <2> QED BY <1>1, <2>1, <2>4, <2>5 DEF Files
<1>9. CASE UNCHANGED stopVars
  <2>1. UNCHANGED <<declared, slot, proc, held, map, record, boot, asked, counts>>
    BY <1>9 DEF stopVars
  <2>2. Thins
    BY <2>1 DEF Thins
  <2>3. Files' /\ Pending'
    BY <1>0, <2>1, <2>2, FilesThin, PendingThin
  <2> QED BY <1>1, <2>1, <2>3
<1> QED BY <1>2, <1>3, <1>4, <1>5, <1>6, <1>7, <1>8, <1>9, CommandSole DEF Authority!Next

LEMMA SoleInit == Authority!Init => SoleInv
<1> SUFFICES ASSUME Authority!Init PROVE SoleInv
  OBVIOUS
<1>1. /\ proc = [p \in {} |-> Authority!NoBoot] /\ record = Authority!NoState /\ boot = Authority!NoBoot
      /\ asked = Authority!NoRun /\ held = 0
      /\ map = Authority!NoMap
  BY DEF Authority!Init
<1>2. DOMAIN proc = {}
  BY <1>1
<1>3. Authority!Ours = {} /\ Serving = {}
  BY <1>2 DEF Authority!Ours, Serving
<1>4. record.kind = "none" /\ asked.at = "idle" /\ boot.at = "no" /\ map.kind = "none"
  BY <1>1 DEF Authority!NoState, Authority!NoRun, Authority!NoBoot, Authority!NoMap
<1> QED BY <1>1, <1>3, <1>4 DEF SoleInv, Files, NotYet, OneLauncher, StateFits, Told, Separate, Pending,
   WaitSteps

\* stop-scope.ts, stop-execution.ts, runtime-process-owner.ts, source-runtime-launcher.ts:
\* for one start whose extension the marketplace holds and whose packages keep their
\* declarations, a command ends only what is this checkout's, forced, approved of or
\* found to be this checkout's when `fx stop` looked, its
\* `ok` leaves nothing of the checkout behind, its refusal has met another program, a torn
\* map, a launcher the state does not know or, without a state, a server its shell would
\* not start, and what it reuses is the server of its shell.
THEOREM StopsHonest == OneStart /\ SumSpec => StopsTrue
<1> SUFFICES ASSUME OneStart PROVE SumSpec => StopsTrue
  OBVIOUS
<1>0. Orderly
  BY DEF OneStart
<1>1. OwnInv /\ StackInv /\ SoleInv /\ [SumNext]_<<part, vars, stopVars>> =>
        /\ OwnInv' /\ StackInv' /\ SoleInv'
        /\ [part = "authority" => Authority!StopTrue]_<<part, vars, stopVars>>
  <2> SUFFICES ASSUME OwnInv, StackInv, SoleInv, [SumNext]_<<part, vars, stopVars>>
               PROVE  /\ OwnInv' /\ StackInv' /\ SoleInv'
                      /\ [part = "authority" => Authority!StopTrue]_<<part, vars, stopVars>>
    OBVIOUS
  <2>1. OwnInv' /\ (asked' # asked => FindsOwn /\ (EndsOwn(asked) \/ EndsOwn(asked')))
    BY SumSteps, StepOwn
  <2>2. Authority!StopsOnlyOwn
    BY <2>1 DEF Authority!StopsOnlyOwn, Authority!Signalling, EndsOwn, FindsOwn
  <2>3. StackInv' /\ SoleInv' /\ Authority!OkMeansGone /\ Authority!Reused /\ Authority!OwnStackStops
    BY <1>0, SumSteps, StackStep, SoleStep
  <2>4. Authority!StopTrue
    BY <2>2, <2>3 DEF Authority!StopTrue
  <2> QED BY <2>1, <2>3, <2>4
<1> QED BY <1>1, SumInits, InitOwn, StackInit, SoleInit, PTL DEF SumSpec, StopsTrue
=============================================================================

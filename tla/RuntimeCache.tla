----------------------------- MODULE RuntimeCache -----------------------------
(***************************************************************************)
(* packages/game-runtime/common/src/cache.ts and manager.ts: the cache of  *)
(* installed game runtimes, of which this is one install root: one runtime *)
(* id, version and machine.                                                *)
(*                                                                         *)
(* A call is one installRuntime of an archive, in a process of its own.    *)
(* The calls share the root: .install.lock, the downloaded archives, the   *)
(* extracted tree and the marker .ready.json.  A runtime is known by its   *)
(* checksum; a tree has the command and everything else.  One action is    *)
(* one effect on the root, and no lock but .install.lock orders them.      *)
(***************************************************************************)
EXTENDS Naturals, FiniteSets

CONSTANTS
  Calls,
  Wants,        \* Wants[c]: the checksum of the archive that is asked for
  Shas, None,
  Before,       \* what an earlier release left in the root, or None
  MarkerFirst,  \* TRUE: readdir names the marker before the tree
  SlowOwners,   \* TRUE: an install may last longer than the lock stays young
  Contested,    \* TRUE: two calls may be about to remove the same stale lock
  Repeats,      \* TRUE: a call may come to install what another has installed since
                \* it looked at the root
  MaxCrashes    \* bound: calls killed

ASSUME Constants ==
  /\ IsFiniteSet(Calls) /\ None \notin Calls
  /\ None \notin Shas /\ {"none", "busy", "failed"} \cap Shas = {}
  /\ Wants \in [Calls -> Shas] /\ Before \in Shas \cup {None}
  /\ {MarkerFirst, SlowOwners, Contested, Repeats} \subseteq BOOLEAN /\ MaxCrashes \in Nat

Parts == {"command", "files"}
Steps == {"idle", "check", "lock", "stat", "reclaim", "reopen", "busy", "download", "place",
          "clear", "clear2", "extract", "extract2", "mark", "reread", "undo", "release",
          "done", "dead"}

VARIABLES
  lock,     \* the call whose lock file is there, or None
  aged,     \* TRUE: the lock file is older than staleAfterMs
  marker,   \* the checksum in .ready.json, or None
  tree,     \* tree[p]: the archive a part was extracted from, or None
  archive,  \* the archives that are downloaded into the root, by call
  pc, result,
  fetched,  \* the calls whose archive is in a temporary file in the root
  used,     \* the checksums of runtimes some call answered with
  crashes

vars == <<lock, aged, marker, tree, archive, pc, result, fetched, used, crashes>>
dir == <<marker, tree, archive, fetched>>

\* Types; a call in the middle of an install has not answered.
TypeOK ==
  /\ lock \in Calls \cup {None} /\ aged \in BOOLEAN
  /\ marker \in Shas \cup {None}
  /\ tree \in [Parts -> Shas \cup {None}]
  /\ archive \subseteq Calls /\ fetched \subseteq Calls
  /\ pc \in [Calls -> Steps]
  /\ result \in [Calls -> Shas \cup {"none", "busy", "failed"}]
  /\ used \subseteq Shas /\ crashes \in 0 .. MaxCrashes
  /\ \A c \in Calls : pc[c] \notin {"release", "done", "dead"} => result[c] = "none"

Init ==
  /\ lock = None /\ aged = FALSE
  /\ marker = Before /\ tree = [p \in Parts |-> Before]
  /\ archive = {} /\ fetched = {}
  /\ pc = [c \in Calls |-> "idle"] /\ result = [c \in Calls |-> "none"]
  /\ used = {} /\ crashes = 0

-----------------------------------------------------------------------------
(* What is installed: readInstalledRuntime *)

\* A marker whose command is there; the tree is not looked at.
Installed == IF tree["command"] = None THEN None ELSE marker

Goto(c, s) == pc' = [pc EXCEPT ![c] = s]
Answer(c, r) ==
  /\ result' = [result EXCEPT ![c] = r]
  /\ used' = IF r \in Shas THEN used \cup {r} ELSE used
Silent == UNCHANGED <<result, used>>

\* The steps of an install that holds the lock.
Inside == {"download", "place", "clear", "clear2", "extract", "extract2", "mark", "reread",
           "undo", "release"}

-----------------------------------------------------------------------------
(* ensureRuntime, installRuntime, acquireRuntimeLock *)

Begin(c) ==
  /\ pc[c] = "idle" /\ Goto(c, "check")
  /\ UNCHANGED <<lock, aged, dir, result, used, crashes>>

\* Mutants: any installed runtime will do, and none will do.
CheckAny(c) ==
  /\ pc[c] = "check"
  /\ IF Installed # None THEN Answer(c, Installed) /\ Goto(c, "done")
                         ELSE Goto(c, "lock") /\ Silent
  /\ UNCHANGED <<lock, aged, dir, crashes>>
CheckNone(c) ==
  /\ pc[c] = "check" /\ Goto(c, "lock")
  /\ UNCHANGED <<lock, aged, dir, result, used, crashes>>

Check(c) ==
  /\ pc[c] = "check"
  /\ IF Installed = Wants[c] THEN Answer(c, Wants[c]) /\ Goto(c, "done")
                             ELSE Goto(c, "lock") /\ Silent
  /\ UNCHANGED <<lock, aged, dir, crashes>>

Created(c, s) ==
  /\ lock = None /\ lock' = c /\ aged' = FALSE /\ Goto(c, s)

Open(c) ==
  /\ pc[c] = "lock"
  /\ \/ Created(c, "download")
     \/ lock # None /\ Goto(c, "stat") /\ UNCHANGED <<lock, aged>>
  /\ UNCHANGED <<dir, result, used, crashes>>

\* The lock that is found stale is removed by its name.  While ~Contested one call at
\* a time is about to do that.
Recovers == \E d \in Calls : pc[d] = "reclaim"

\* Mutants: every lock is stale, and none is.
StatStale(c) ==
  /\ pc[c] = "stat" /\ Goto(c, "reclaim") /\ (Contested \/ ~Recovers)
  /\ UNCHANGED <<lock, aged, dir, result, used, crashes>>
StatHeld(c) ==
  /\ pc[c] = "stat" /\ Goto(c, "busy")
  /\ UNCHANGED <<lock, aged, dir, result, used, crashes>>

\* The age of the lock file, not the life of its owner, makes it stale; a
\* file that is gone by now counts as held.
Stat(c) ==
  /\ pc[c] = "stat"
  /\ IF lock # None /\ aged THEN Goto(c, "reclaim") /\ (Contested \/ ~Recovers)
                            ELSE Goto(c, "busy")
  /\ UNCHANGED <<lock, aged, dir, result, used, crashes>>

Reclaim(c) ==
  /\ pc[c] = "reclaim"
  /\ lock' = None /\ aged' = FALSE /\ Goto(c, "reopen")
  /\ UNCHANGED <<dir, result, used, crashes>>

Reopen(c) ==
  /\ pc[c] = "reopen"
  /\ \/ Created(c, "download")
     \/ lock # None /\ Goto(c, "busy") /\ UNCHANGED <<lock, aged>>
  /\ UNCHANGED <<dir, result, used, crashes>>

\* Whatever runtime is there is the answer.
Busy(c) ==
  /\ pc[c] = "busy"
  /\ Answer(c, IF Installed # None THEN Installed ELSE "busy") /\ Goto(c, "done")
  /\ UNCHANGED <<lock, aged, dir, crashes>>

\* The download and its checksum.
Download(c) ==
  /\ pc[c] = "download"
  /\ \/ fetched' = fetched \cup {c} /\ Goto(c, "place")
     \/ Goto(c, "undo") /\ UNCHANGED fetched
  /\ UNCHANGED <<lock, aged, marker, tree, archive, result, used, crashes>>

Place(c) ==
  /\ pc[c] = "place"
  /\ \/ /\ c \in fetched
        /\ archive' = archive \cup {c} /\ fetched' = fetched \ {c} /\ Goto(c, "clear")
     \/ c \notin fetched /\ Goto(c, "undo") /\ UNCHANGED <<archive, fetched>>
  /\ UNCHANGED <<lock, aged, marker, tree, result, used, crashes>>

\* extractArchive: an unsafe archive is refused; everything but it and the lock
\* is removed, entry by entry; then it is unpacked.
DropTree == tree' = [p \in Parts |-> None]
Clear(c) ==
  /\ pc[c] = "clear"
  /\ \/ /\ c \in archive /\ Goto(c, "clear2")
        /\ archive' = {c} /\ fetched' = {}
        /\ IF MarkerFirst THEN marker' = None /\ UNCHANGED tree
                          ELSE tree' = [tree EXCEPT !["files"] = None] /\ UNCHANGED marker
     \/ Goto(c, "undo") /\ UNCHANGED dir
  /\ UNCHANGED <<lock, aged, result, used, crashes>>

Clear2(c) ==
  /\ pc[c] = "clear2"
  /\ DropTree /\ marker' = None /\ Goto(c, "extract")
  /\ UNCHANGED <<lock, aged, archive, fetched, result, used, crashes>>

Extract(c) ==
  /\ pc[c] = "extract"
  /\ \/ /\ c \in archive
        /\ tree' = [tree EXCEPT !["command"] = Wants[c]] /\ Goto(c, "extract2")
     \/ Goto(c, "undo") /\ UNCHANGED tree
  /\ UNCHANGED <<lock, aged, marker, archive, fetched, result, used, crashes>>

\* Mutant: an extraction that fails half way passes for a good one.
Extract2Unchecked(c) ==
  /\ pc[c] = "extract2"
  /\ \/ tree' = [tree EXCEPT !["files"] = Wants[c]]
     \/ UNCHANGED tree
  /\ archive' = archive \ {c} /\ Goto(c, "mark")
  /\ UNCHANGED <<lock, aged, marker, fetched, result, used, crashes>>

Extract2(c) ==
  /\ pc[c] = "extract2"
  /\ \/ /\ tree' = [tree EXCEPT !["files"] = Wants[c]] /\ archive' = archive \ {c}
        /\ Goto(c, "mark")
     \/ Goto(c, "undo") /\ UNCHANGED <<tree, archive>>
  /\ UNCHANGED <<lock, aged, marker, fetched, result, used, crashes>>

\* The calls that have found the runtime missing and not met the lock yet.
Window == {"lock", "stat", "reclaim", "reopen"}

\* The marker is renamed into its place if the command is there.  While ~Repeats no
\* other call for the same runtime is on its way from its look to the lock.
Mark(c) ==
  /\ pc[c] = "mark"
  /\ Repeats \/ \A d \in Calls \ {c} : pc[d] \in Window => Wants[d] # Wants[c]
  /\ IF tree["command"] # None THEN marker' = Wants[c] /\ Goto(c, "reread")
                               ELSE Goto(c, "undo") /\ UNCHANGED marker
  /\ UNCHANGED <<lock, aged, tree, archive, fetched, result, used, crashes>>

Reread(c) ==
  /\ pc[c] = "reread"
  /\ IF Installed # None THEN Answer(c, Installed) /\ Goto(c, "release")
                         ELSE Goto(c, "undo") /\ Silent
  /\ UNCHANGED <<lock, aged, dir, crashes>>

\* An error takes the temporary file and the marker away, and nothing else.
Undo(c) ==
  /\ pc[c] = "undo"
  /\ fetched' = fetched \ {c} /\ marker' = None
  /\ Answer(c, "failed") /\ Goto(c, "release")
  /\ UNCHANGED <<lock, aged, tree, archive, crashes>>

\* The lock file is removed by name, whoever created it.
Release(c) ==
  /\ pc[c] = "release"
  /\ lock' = None /\ aged' = FALSE /\ Goto(c, "done")
  /\ UNCHANGED <<dir, result, used, crashes>>

-----------------------------------------------------------------------------

\* Ten minutes pass.
Age ==
  /\ lock # None /\ ~aged
  /\ SlowOwners \/ pc[lock] = "dead"
  /\ aged' = TRUE
  /\ UNCHANGED <<lock, dir, pc, result, used, crashes>>

Crash(c) ==
  /\ crashes < MaxCrashes /\ pc[c] \notin {"idle", "done", "dead"}
  /\ Goto(c, "dead") /\ crashes' = crashes + 1
  /\ UNCHANGED <<lock, aged, dir, result, used>>

Work(c) ==
  \/ Check(c) \/ Open(c) \/ Stat(c) \/ Reclaim(c) \/ Reopen(c) \/ Busy(c)
  \/ Download(c) \/ Place(c) \/ Clear(c) \/ Clear2(c) \/ Extract(c) \/ Extract2(c)
  \/ Mark(c) \/ Reread(c) \/ Undo(c) \/ Release(c)

Next ==
  \/ \E c \in Calls : Begin(c) \/ Work(c) \/ Crash(c)
  \/ Age

Spec == Init /\ [][Next]_vars

-----------------------------------------------------------------------------
(* Properties *)

\* One call at a time installs into the root ("does not hand out an
\* installation lock that is already held", test/runtime.test.ts:337).
OneInstaller == Cardinality({c \in Calls : pc[c] \in Inside}) <= 1

\* What readInstalledRuntime takes for installed is one archive, whole, at
\* every moment and after every crash ("replaces an archive install tree and
\* keeps only the new payload", test/runtime.test.ts:291).
WholeWhenReady == Installed # None => \A p \in Parts : tree[p] = Installed

\* A runtime that a call answered with is not taken from under its launcher
\* by a call that asks for the same one.
StaysInstalled ==
  \A c \in Calls : Wants[c] \in used /\ Installed = Wants[c] /\ pc'[c] # pc[c] =>
    Installed' = Wants[c]

\* A call answers with the runtime it asked for, or with none; one that met
\* another install answers with what was there.
AnswerTrue ==
  \A c \in Calls : result'[c] \in Shas /\ result[c] \notin Shas =>
    result'[c] = Wants[c] \/ pc[c] = "busy"

\* The answer of a call that met another install, too.
AnswerAlways == \A c \in Calls : result[c] \in Shas => result[c] = Wants[c]

\* A call is refused only while another call installs or has just ended, or for as
\* long as the lock of a dead one is young: a crash never closes the cache for good.
BusyTrue ==
  \A c \in Calls : pc[c] = "stat" /\ pc'[c] = "busy" =>
    lock = None \/ ~aged \/ pc[lock] \in Inside

\* One call at a time installs the runtime, and what is marked ready is whole.
RuntimesWhole == OneInstaller /\ WholeWhenReady

\* What every step of a call keeps to.
AnswersStand == AnswerTrue /\ StaysInstalled /\ BusyTrue
=============================================================================

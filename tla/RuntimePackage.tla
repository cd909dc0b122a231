---------------------------- MODULE RuntimePackage ----------------------------
(***************************************************************************)
(* scripts/build-game-runtime-sdk.ts and scripts/build-game-runtime.ts:    *)
(* the build of what the game runtime's packages carry, the snapshot of    *)
(* the Engine SDK and the archive of one platform, and                     *)
(* scripts/game-runtime/accept-packed-runtime.ts, which judges the packed  *)
(* train before it is released.                                            *)
(*                                                                         *)
(* The Engine is a checkout that others move: its files are revisions per  *)
(* part, and HEAD is set when every part is there.  A build may die after  *)
(* any step; what it leaves is packed as it stands, so the acceptance is   *)
(* judged whenever no build runs.  Bounds: MaxBuilds, MaxMoves of the      *)
(* checkout, MaxFaults failing commands, MaxCrashes.                       *)
(***************************************************************************)
EXTENDS Naturals, Sequences, FiniteSets

CONSTANTS
  Races,      \* the checkout may move while a build runs
  MaxBuilds, MaxMoves, MaxFaults, MaxCrashes

Parts == {"packages", "templates", "skills", "source"}
Copied == <<"packages", "templates", "skills", "source">>
None == 0
Revisions == 1 .. (MaxMoves + 1)

VARIABLES
  engine,     \* the Engine checkout: files of each part, declarations, HEAD
  sdk,        \* assets/engine-sdk of the common package; .exposed remembers what
              \* the acceptance cannot see of how it came about
  runtime,    \* the platform package: archive, manifest, dist
  build,      \* the build that runs, or ended last
  counts

vars == <<engine, sdk, runtime, build, counts>>

NoSdk == [part |-> [p \in Parts |-> None], torn |-> {}, types |-> None, version |-> None, config |-> FALSE,
          exposed |-> {}]
NoManifest == [archive |-> None, commit |-> None]
Running == build.pc \notin {"idle", "done", "failed", "dead"}
Settled == \A p \in Parts : engine.part[p] = engine.head

Count(what, max) == counts[what] < max /\ counts' = [counts EXCEPT ![what] = @ + 1]
Goto(pc) == build' = [build EXCEPT !.pc = pc]
\* A command fails, and the build with it.
Fail == Count("faults", MaxFaults) /\ Goto("failed") /\ UNCHANGED <<engine, sdk, runtime>>

\* Types, and what the program counters mean.
TypeOK ==
  /\ engine.part \in [Parts -> Revisions] /\ engine.head \in Revisions
  /\ engine.types \in Revisions \cup {None}
  /\ sdk.part \in [Parts -> Revisions \cup {None}] /\ sdk.torn \subseteq Parts
  /\ sdk.version \in Revisions \cup {None} /\ sdk.config \in BOOLEAN
  /\ sdk.exposed \subseteq {"removal", "config", "types"}
  /\ runtime.archive \in 0 .. MaxBuilds /\ runtime.entry \in BOOLEAN /\ runtime.torn \in BOOLEAN
  /\ runtime.manifest \in [archive : 0 .. MaxBuilds, commit : Revisions \cup {None}]
  /\ build.next \in 1 .. Len(Copied) + 1 /\ build.skip \in BOOLEAN /\ build.kept \in BOOLEAN
  /\ build.pc = "copy" => sdk.version = None

-----------------------------------------------------------------------------
(* The checkout. *)

\* git moves the files of one part after the other, then HEAD.  Declarations are not
\* tracked: they stay, or are cleaned away with the packages.
MoveFiles(p) ==
  /\ Races \/ ~Running
  /\ engine.head <= MaxMoves /\ engine.part[p] = engine.head
  /\ \E t \in {engine.types} \cup (IF p = "packages" THEN {None} ELSE {}) :
       engine' = [engine EXCEPT !.part[p] = engine.head + 1, !.types = t]
  /\ UNCHANGED <<sdk, runtime, build, counts>>

MoveHead ==
  /\ \A p \in Parts : engine.part[p] = engine.head + 1
  /\ engine' = [engine EXCEPT !.head = @ + 1]
  /\ UNCHANGED <<sdk, runtime, build, counts>>

-----------------------------------------------------------------------------
(* buildGameRuntimeSdk *)

\* buildRuntimeTarget, with or without --skip-sdk.
Start ==
  /\ ~Running /\ counts.builds < MaxBuilds /\ counts' = [counts EXCEPT !.builds = @ + 1]
  /\ Races \/ Settled
  /\ \E skip \in BOOLEAN :
       build' = [pc |-> IF skip THEN "stage" ELSE "declare", skip |-> skip, next |-> 1,
                 commit |-> None, kept |-> FALSE]
  /\ UNCHANGED <<engine, sdk, runtime>>

\* packageHasPublicDeclarations fails for some package.
Missing == engine.types = None

\* A mistake the properties would catch: missing declarations are not built.
DeclareNothing ==
  build.pc = "declare" /\ Goto("clear") /\ UNCHANGED <<engine, sdk, runtime, counts>>

\* Declarations are built if some are missing; what is there is kept, also if another
\* revision was there when it was built.
Declare ==
  /\ build.pc = "declare"
  /\ \/ /\ build' = [build EXCEPT !.pc = "clear",
                                 !.kept = ~Missing /\ engine.types # engine.part["packages"]]
        /\ engine' = [engine EXCEPT !.types = IF Missing THEN engine.part["packages"] ELSE @]
        /\ UNCHANGED <<sdk, runtime, counts>>
     \/ Missing /\ Fail

\* A mistake the properties would catch: the former snapshot is copied over.
KeepFormer ==
  build.pc = "clear" /\ Goto("copy") /\ UNCHANGED <<engine, sdk, runtime, counts>>

\* What is left of a snapshot some of whose files are removed.
Remains ==
  {[sdk EXCEPT !.version = None], [sdk EXCEPT !.config = FALSE]}
    \cup {[sdk EXCEPT !.part[p] = None] : p \in Parts}
    \cup {[sdk EXCEPT !.torn = @ \cup {p}] : p \in Parts}

\* rm -r of the former snapshot; a build that dies in it leaves some of the files.
Clear ==
  /\ build.pc = "clear"
  /\ \/ Goto("copy") /\ sdk' = NoSdk /\ UNCHANGED counts
     \/ /\ sdk.version # None
        /\ Count("crashes", MaxCrashes) /\ Goto("dead")
        /\ \E s \in Remains : sdk' = [s EXCEPT !.exposed = @ \cup {"removal"}]
  /\ UNCHANGED <<engine, runtime>>

\* copyPublicDeclarationClosure goes with the packages.
TypesCopied(p) == IF p = "packages" THEN engine.types ELSE sdk.types
Exposes(p) == sdk.exposed \cup (IF p = "packages" /\ build.kept THEN {"types"} ELSE {})

\* snapshotPackages, snapshotTemplates, snapshotSkills, snapshotSource: each copies
\* its part as it is now, and throws if something required is missing.
Copy ==
  /\ build.pc = "copy" /\ build.next <= Len(Copied)
  /\ LET p == Copied[build.next] IN
     \/ /\ sdk' = [sdk EXCEPT !.part[p] = engine.part[p],
                              !.types = TypesCopied(p), !.exposed = Exposes(p)]
        /\ build' = [build EXCEPT !.next = @ + 1]
        /\ UNCHANGED <<engine, runtime, counts>>
     \/ Fail

\* A mistake the properties would catch: the version is written before the sources.
WriteVersionEarly ==
  /\ build.pc = "copy" /\ build.next = Len(Copied)
  /\ sdk' = [sdk EXCEPT !.version = engine.head, !.part["source"] = engine.part["source"],
                        !.torn = {"source"}]
  /\ Goto("config") /\ UNCHANGED <<engine, runtime, counts>>

\* engine-version.json: HEAD is read when the copies are there; the file that was
\* written is read again and compared with the directories.
WriteVersion ==
  /\ build.pc = "copy" /\ build.next > Len(Copied)
  /\ sdk' = [sdk EXCEPT !.version = engine.head] /\ Goto("config")
  /\ UNCHANGED <<engine, runtime, counts>>

\* tsconfig.json and README.md
WriteConfig ==
  /\ build.pc = "config"
  /\ sdk' = [sdk EXCEPT !.config = TRUE] /\ Goto("stage")
  /\ UNCHANGED <<engine, runtime, counts>>

-----------------------------------------------------------------------------
(* buildRuntimeTarget *)

\* A mistake the properties would catch: the commit is always the checkout's.
StageAtHead ==
  /\ build.pc = "stage"
  /\ build' = [build EXCEPT !.pc = "assets", !.commit = engine.head]
  /\ UNCHANGED <<engine, sdk, runtime, counts>>

\* assembleRuntimeResources finds something missing; it works in a directory of its
\* own, which is removed.
Misassemble == build.pc = "stage" /\ Fail

\* The snapshot's commit, if it has one.
CommitOf == IF sdk.version # None THEN sdk.version ELSE engine.head

\* preparePreviewEngine and stagePreviewScripts complete that directory.
Stage ==
  /\ build.pc = "stage"
  /\ build' = [build EXCEPT !.pc = "assets", !.commit = CommitOf]
  /\ UNCHANGED <<engine, sdk, runtime, counts>>

\* rm -r of assets, in any order, then of dist.
ClearAssets ==
  /\ build.pc = "assets"
  /\ \/ runtime.archive # None /\ runtime' = [runtime EXCEPT !.archive = None, !.torn = FALSE] /\ UNCHANGED build
     \/ runtime.manifest # NoManifest /\ runtime' = [runtime EXCEPT !.manifest = NoManifest] /\ UNCHANGED build
     \/ /\ runtime.archive = None /\ runtime.manifest = NoManifest
        /\ runtime' = [runtime EXCEPT !.entry = FALSE] /\ Goto("archive")
  /\ UNCHANGED <<engine, sdk, counts>>

\* gzip writes to the archive's own path.
Archive ==
  /\ \/ build.pc = "archive" /\ Goto("gzip")
        /\ runtime' = [runtime EXCEPT !.archive = counts.builds, !.torn = TRUE] /\ UNCHANGED counts
     \/ build.pc = "gzip" /\ Goto("manifest")
        /\ runtime' = [runtime EXCEPT !.torn = FALSE] /\ UNCHANGED counts
     \/ build.pc = "gzip" /\ Count("faults", MaxFaults) /\ Goto("failed") /\ UNCHANGED runtime
  /\ UNCHANGED <<engine, sdk>>

\* runtime-manifest.json, with the archive's digest.
WriteManifest ==
  /\ build.pc = "manifest" /\ Goto("entry")
  /\ runtime' = [runtime EXCEPT !.manifest = [archive |-> runtime.archive, commit |-> build.commit]]
  /\ UNCHANGED <<engine, sdk, counts>>

\* writePlatformEntry
WriteEntry ==
  /\ build.pc = "entry" /\ Goto("done")
  /\ runtime' = [runtime EXCEPT !.entry = TRUE]
  /\ UNCHANGED <<engine, sdk, counts>>

\* The build is killed; one that is, between engine-version.json and tsconfig.json,
\* leaves a snapshot that has its version and not its configuration.
Die ==
  /\ Running
  /\ Count("crashes", MaxCrashes) /\ Goto("dead")
  /\ sdk' = IF build.pc = "config" THEN [sdk EXCEPT !.exposed = @ \cup {"config"}] ELSE sdk
  /\ UNCHANGED <<engine, runtime>>

Init ==
  /\ engine = [part |-> [p \in Parts |-> 1], types |-> None, head |-> 1]
  /\ sdk = NoSdk
  /\ runtime = [archive |-> None, torn |-> FALSE, manifest |-> NoManifest, entry |-> FALSE]
  /\ build = [pc |-> "idle", skip |-> FALSE, next |-> 1, commit |-> None, kept |-> FALSE]
  /\ counts = [builds |-> 0, faults |-> 0, crashes |-> 0]

Next ==
  \/ \E p \in Parts : MoveFiles(p)
  \/ MoveHead \/ Start \/ Declare \/ Clear \/ Copy \/ WriteVersion \/ WriteConfig
  \/ Misassemble \/ Stage \/ ClearAssets \/ Archive \/ WriteManifest \/ WriteEntry \/ Die

Spec == Init /\ [][Next]_vars

-----------------------------------------------------------------------------
(* acceptPackedRuntime *)

\* acceptCommonSdkSnapshot: the version lists the directories that are packed.
SdkAccepted == sdk.version # None /\ \A p \in Parts : sdk.part[p] # None

\* One manifest with a commit, the archive it names with its digest, the entry.
RuntimeAccepted ==
  /\ runtime.manifest # NoManifest /\ runtime.manifest.commit # None
  /\ runtime.archive # None /\ ~runtime.torn /\ runtime.archive = runtime.manifest.archive
  /\ runtime.entry

Accepted == ~Running /\ SdkAccepted /\ RuntimeAccepted

\* A snapshot of the one revision that it names, and its configuration.
OneRevision == sdk.torn = {} /\ \A p \in Parts : sdk.part[p] = sdk.version

\* build-game-runtime-sdk.ts, build-game-runtime.ts: wherever builds fail or die, packages
\* that are accepted have every file of one revision, unless the last build of the
\* snapshot died while it removed the one before, and their configuration, unless it
\* died there or just before it wrote it.
AcceptedWhole ==
  Accepted => /\ "removal" \notin sdk.exposed => OneRevision
              /\ sdk.exposed \cap {"removal", "config"} = {} => sdk.config

\* A build that ends well leaves packages that are accepted, unless it was told to
\* skip the snapshot; and if they are, the archive's manifest names the commit of
\* the snapshot.
BuiltTrue ==
  build.pc = "done" =>
    /\ ~build.skip => Accepted
    /\ Accepted => runtime.manifest.commit = sdk.version

\* The declarations in a snapshot are those of its packages, unless its build found some
\* of another revision and kept them.
TypesTrue == Accepted /\ "types" \notin sdk.exposed => sdk.types = sdk.part["packages"]

=============================================================================

------------------------------- MODULE Prepare -------------------------------
(***************************************************************************)
(* scripts/prepare.ts, the lifecycle script of `bun install`, with         *)
(* scripts/lib/engine-entry-freshness.ts, ci/ensure-engine-wgpu-wasm.ts,   *)
(* ci/build-engine-packages.ts and the gate of `bun fx start` in fx.ts:    *)
(* what is built, what is thought to be fresh and not built again, and     *)
(* what a start may rely on.                                               *)
(*                                                                         *)
(* Freshness is a matter of modification times.  `files` lists, oldest     *)
(* first, the files of a package as far as they exist: its sources, what   *)
(* is built from them and the sentinel that proves it.  `built` says which *)
(* sources a file is built from.  A build reads the sources before it      *)
(* writes.                                                                 *)
(***************************************************************************)
EXTENDS Naturals, FiniteSets, Sequences, SequencesExt

CONSTANTS
  Pkgs,        \* packages with entries in the freshness check
  Wgpu,        \* the package of the wasm binary
  Cli, Fbx,    \* what is built only where it is missing; Fbx may stay missing
  Graphs,      \* pinned graphs, numbers from 1
  Races,       \* TRUE: sources may change between the reading and the writing of a build
  Foreign,     \* TRUE: CI's script and `doctor --fix` work on the wasm binary too
  Skips,       \* TRUE: FORGEAX_SKIP_PREPARE=1 may be set
  MaxEdits,    \* bound: edits and checkouts
  MaxFaults    \* bound: builds that fail, and crashes

All == Pkgs \cup {Wgpu, Cli, Fbx}
Contents == 1 .. Cardinality(Graphs) + MaxEdits

VARIABLES
  graph,    \* the recursive pins that are checked out
  src,      \* per package: what its sources say
  files,    \* per package: which files there are, oldest first
  built,    \* per package and file: the sources it is built from
  record,   \* .forgeax/recursive-input-result.json
  run,      \* the running prepare
  ready,    \* history: the graphs of which a prepare got to its end
  counts    \* what the bounds count

vars == <<graph, src, files, built, record, run, ready, counts>>

Outputs(p) == IF p = Wgpu THEN {"wasm", "glue"} ELSE IF p \in {Cli, Fbx} THEN {"main"} ELSE {"mjs", "dts"}
NoRecord == [graph |-> 0, ready |-> FALSE]
NoRun == [step |-> "none", todo |-> {}, on |-> Cli, seen |-> 0, skip |-> FALSE, strict |-> FALSE,
          force |-> FALSE, ok |-> TRUE]

\* Types; every built file there is, is built from something.
TypeOK ==
  /\ graph \in Graphs /\ src \in [All -> Contents]
  /\ \A p \in All : \A f \in Outputs(p) : Contains(files[p], f) <=> built[p][f] # 0
  /\ \A p \in All : IsInjective(files[p]) /\ Contains(files[p], "src")
  /\ record.graph \in {0} \cup Graphs /\ ready \subseteq Graphs

Init ==
  /\ graph \in Graphs /\ src = [p \in All |-> graph]
  /\ files = [p \in All |-> <<"src">>]
  /\ built = [p \in All |-> [f \in Outputs(p) |-> 0]]
  /\ record = NoRecord /\ run = NoRun /\ ready = {}
  /\ counts = [edits |-> 0, faults |-> 0]

Count(what, bound) == counts[what] < bound /\ counts' = [counts EXCEPT ![what] = @ + 1]
Fault == Count("faults", MaxFaults)
To(step) == run' = [run EXCEPT !.step = step]
Exit == run' = NoRun

At(p, f) == SelectInSeq(files[p], LAMBDA g : g = f)
Has(p, f) == At(p, f) # 0
Newer(p, f, g) == At(p, f) > At(p, g)
Touch(s, f) == Append(Remove(s, f), f)

Without(s, f) == Remove(s, f)

-----------------------------------------------------------------------------
(* What is fresh *)

\* Mutant: the declarations' proof stands for the entry too.
ProofOnly(p) ==
  /\ Has(p, "mjs") /\ Has(p, "dts")
  /\ ~Newer(p, "src", "dts") \/ (Has(p, "proof") /\ ~Newer(p, "src", "proof"))

\* isEngineEntryDistFresh: the oldest proof, the sentinel being one for declarations.
Fresh(p) ==
  /\ Has(p, "mjs") /\ Has(p, "dts") /\ ~Newer(p, "src", "mjs")
  /\ ~Newer(p, "src", "dts") \/ (Has(p, "proof") /\ ~Newer(p, "src", "proof"))

\* Mutant: only the binary is looked for.
StaleBinary ==
  LET anchor == IF Has(Wgpu, "sent") THEN "sent" ELSE "wasm" IN
  ~Has(Wgpu, "wasm") \/ Newer(Wgpu, "src", anchor)

\* wgpuWasmStale: the sources or the glue are newer than the sentinel, or the binary.
WgpuStale ==
  LET anchor == IF Has(Wgpu, "sent") THEN "sent" ELSE "wasm" IN
  ~Has(Wgpu, "wasm") \/ ~Has(Wgpu, "glue") \/ Newer(Wgpu, "src", anchor) \/ Newer(Wgpu, "glue", anchor)

-----------------------------------------------------------------------------
(* The developer *)

\* A change that a build is reading is a race.
Unread(ps) ==
  Races \/ run.step \notin {"write", "glue", "tsc", "proof"}
        \/ (run.step \in {"write", "glue"} /\ run.on \notin ps)

Changed(ps, v) ==
  /\ src' = [p \in All |-> IF p \in ps THEN v ELSE src[p]]
  /\ files' = [p \in All |-> IF p \in ps /\ src[p] # v THEN Touch(files[p], "src") ELSE files[p]]

Edit(p) ==
  /\ Count("edits", MaxEdits) /\ Unread({p})
  /\ Changed({p}, Cardinality(Graphs) + counts.edits + 1)
  /\ UNCHANGED <<graph, built, record, run, ready>>

\* git checkout of another graph writes the files that differ.
Checkout(g) ==
  /\ g # graph /\ Count("edits", MaxEdits) /\ Unread(All)
  /\ graph' = g /\ Changed(All, g)
  /\ UNCHANGED <<built, record, run, ready>>

\* CI's script builds the binary with no sentinel; doctor touches what there is.
ForeignBuild ==
  /\ Foreign /\ run.step = "none" /\ ~(Has(Wgpu, "wasm") /\ Has(Wgpu, "glue"))
  /\ files' = [files EXCEPT ![Wgpu] = Touch(Touch(@, "wasm"), "glue")]
  /\ built' = [built EXCEPT ![Wgpu] = [f \in Outputs(Wgpu) |-> src[Wgpu]]]
  /\ UNCHANGED <<graph, src, record, run, ready, counts>>

DoctorFix ==
  /\ Foreign /\ run.step = "none" /\ Has(Wgpu, "wasm")
  /\ files' = [files EXCEPT ![Wgpu] = Touch(@, "wasm")]
  /\ UNCHANGED <<graph, src, built, record, run, ready, counts>>

-----------------------------------------------------------------------------
(* prepare *)

Start(strict, force) ==
  /\ run.step = "none"
  /\ run' = [NoRun EXCEPT !.step = "submodules", !.strict = strict, !.force = force]
  /\ UNCHANGED <<graph, src, files, built, record, ready, counts>>

\* A submodule that fails is reported at the end.
Submodules ==
  /\ run.step = "submodules"
  /\ \/ To("cli") /\ UNCHANGED counts
     \/ Fault /\ run' = [run EXCEPT !.step = "cli", !.ok = FALSE]
  /\ UNCHANGED <<graph, src, files, built, record, ready>>

\* A build of p: it reads the sources now.
Read(p) == run' = [run EXCEPT !.step = "write", !.on = p, !.seen = src[p]]

Command ==
  /\ run.step = "cli"
  /\ IF Has(Cli, "main") /\ ~run.force THEN To("decide") ELSE Read(Cli)
  /\ UNCHANGED <<graph, src, files, built, record, ready, counts>>

\* engineEntryDistsFresh: every entry, or all are built.
Decide ==
  /\ run.step = "decide"
  /\ LET skip == ~run.force /\ \A p \in Pkgs : Fresh(p) IN
     run' = [run EXCEPT !.step = "wgpu", !.skip = skip, !.todo = IF skip THEN {} ELSE Pkgs]
  /\ UNCHANGED <<graph, src, files, built, record, ready, counts>>

AfterWgpu == IF run.skip THEN "fbx" ELSE "packages"

\* buildWgpuWasm: a sentinel, if there is none, or a new binary.
Provision ==
  /\ run.step = "wgpu"
  /\ IF run.force \/ WgpuStale THEN Read(Wgpu) /\ UNCHANGED files
     ELSE /\ To(AfterWgpu)
          /\ files' = IF Has(Wgpu, "sent") THEN files ELSE [files EXCEPT ![Wgpu] = Touch(@, "sent")]
  /\ UNCHANGED <<graph, src, built, record, ready, counts>>

\* The next package, when its dependency, the glue of the binary, is there.
BuildNext(p) ==
  /\ run.step = "packages" /\ p \in run.todo
  /\ IF Has(Wgpu, "glue") THEN Read(p) ELSE Exit
  /\ UNCHANGED <<graph, src, files, built, record, ready, counts>>

Built ==
  /\ run.step = "packages" /\ run.todo = {} /\ To("tsc")
  /\ UNCHANGED <<graph, src, files, built, record, ready, counts>>

Writes(p, f) ==
  /\ files' = [files EXCEPT ![p] = Touch(@, f)]
  /\ built' = [built EXCEPT ![p][f] = run.seen]

\* A build writes what it has read; of the binary first one file, then the other.
Write ==
  /\ run.step = "write"
  /\ CASE run.on = Cli -> Writes(Cli, "main") /\ To("decide")
       [] run.on = Fbx -> Writes(Fbx, "main") /\ To("check")
       [] run.on = Wgpu ->
            \E f \in Outputs(Wgpu) : Writes(Wgpu, f) /\ run' = [run EXCEPT !.step = "glue", !.todo = @ \cup {f}]
       [] OTHER -> Writes(run.on, "mjs") /\ run' = [run EXCEPT !.step = "packages", !.todo = @ \ {run.on}]
  /\ UNCHANGED <<graph, src, record, ready, counts>>

\* The other file, and the sentinel.
WriteOther ==
  /\ run.step = "glue"
  /\ LET f == IF "wasm" \in run.todo THEN "glue" ELSE "wasm" IN
     /\ files' = [files EXCEPT ![Wgpu] = Touch(Touch(@, f), "sent")]
     /\ built' = [built EXCEPT ![Wgpu][f] = run.seen]
  /\ run' = [run EXCEPT !.step = AfterWgpu, !.todo = @ \ Outputs(Wgpu)]
  /\ UNCHANGED <<graph, src, record, ready, counts>>

\* The build fails, with the file gone or as it was.  Only a binary that is not
\* required lets prepare go on.
BuildFails ==
  /\ run.step = "write" /\ Fault
  /\ IF run.on \in {Wgpu, Fbx} THEN UNCHANGED <<files, built>>
     ELSE LET f == IF run.on = Cli THEN "main" ELSE "mjs" IN
          \/ UNCHANGED <<files, built>>
          \/ /\ files' = [files EXCEPT ![run.on] = Without(@, f)]
             /\ built' = [built EXCEPT ![run.on][f] = 0]
  /\ CASE run.on = Fbx -> To("check")
       [] run.on = Wgpu /\ ~run.strict -> To(AfterWgpu)
       [] OTHER -> Exit
  /\ UNCHANGED <<graph, src, record, ready>>

Prove(emitted, ok) ==
  IF ok THEN To("proof") ELSE IF run.strict THEN Exit ELSE To("fbx")

\* tsc -b: it checks every package, and writes again what has changed; where it
\* fails, also after --clean, the declarations of some packages are not there.
Declarations ==
  /\ run.step = "tsc"
  /\ \/ /\ UNCHANGED counts /\ Prove(Pkgs, TRUE)
        /\ \E same \in SUBSET {p \in Pkgs : Has(p, "dts")} :
             files' = [p \in All |-> IF p \in Pkgs \ same THEN Touch(files[p], "dts") ELSE files[p]]
        /\ built' = [p \in All |-> IF p \in Pkgs THEN [built[p] EXCEPT !["dts"] = src[p]] ELSE built[p]]
     \/ /\ Fault /\ \E emitted \in SUBSET Pkgs \ {Pkgs} :
             /\ Prove(emitted, FALSE)
             /\ files' = [p \in All |-> IF p \in emitted THEN Touch(files[p], "dts")
                                        ELSE IF p \in Pkgs THEN Without(files[p], "dts") ELSE files[p]]
             /\ built' = [p \in All |-> IF p \in Pkgs
                            THEN [built[p] EXCEPT !["dts"] = IF p \in emitted THEN src[p] ELSE 0]
                            ELSE built[p]]
  /\ UNCHANGED <<graph, src, record, ready>>

Proof ==
  /\ run.step = "proof" /\ To("fbx")
  /\ files' = [p \in All |-> IF p \in Pkgs THEN Touch(files[p], "proof") ELSE files[p]]
  /\ UNCHANGED <<graph, src, built, record, ready, counts>>

\* The fbx and codec binaries: a warning is all that a failure makes.
Extras ==
  /\ run.step = "fbx"
  /\ IF Has(Fbx, "main") /\ ~run.force THEN To("check") ELSE Read(Fbx)
  /\ UNCHANGED <<graph, src, files, built, record, ready, counts>>

\* Mutant: a complete set-up is not looked at.
CheckNothing ==
  /\ run.step = "check" /\ To("record")
  /\ UNCHANGED <<graph, src, files, built, record, ready, counts>>

\* collectMissingEngineArtifacts, where a complete set-up is required.
Check ==
  /\ run.step = "check"
  /\ IF run.strict /\ \E p \in All : \E f \in Outputs(p) : ~Has(p, f) THEN Exit ELSE To("record")
  /\ UNCHANGED <<graph, src, files, built, record, ready, counts>>

\* Mutant: the record is ready whatever failed.
RecordReady ==
  /\ run.step = "record" /\ record' = [graph |-> graph, ready |-> TRUE]
  /\ ready' = IF run.ok THEN ready \cup {graph} ELSE ready
  /\ To("done")
  /\ UNCHANGED <<graph, src, files, built, counts>>

\* writeRecursiveInputResult: by the graph as it is now.
Record ==
  /\ run.step = "record" /\ record' = [graph |-> graph, ready |-> run.ok]
  /\ ready' = IF run.ok THEN ready \cup {graph} ELSE ready
  /\ To("done")
  /\ UNCHANGED <<graph, src, files, built, counts>>

Done ==
  /\ run.step = "done" /\ Exit
  /\ UNCHANGED <<graph, src, files, built, record, ready, counts>>

\* The process dies, or one of the installations and builds between the steps
\* fails: packages that are required, the IDE workspace, orchestrator, editor.
Dies ==
  /\ run.step \notin {"none", "done"} /\ Fault /\ Exit
  /\ UNCHANGED <<graph, src, files, built, record, ready>>

\* fx.ts, runSetup: bun install with a prepare that exits at once, and the record.
SkippedSetup ==
  /\ Skips /\ run.step = "none" /\ record' = [graph |-> graph, ready |-> TRUE]
  /\ UNCHANGED <<graph, src, files, built, run, ready, counts>>

Next ==
  \/ \E p \in All \ {Fbx} : Edit(p)
  \/ \E g \in Graphs : Checkout(g)
  \/ ForeignBuild \/ DoctorFix \/ SkippedSetup
  \/ \E strict, force \in BOOLEAN : Start(strict, force)
  \/ Submodules \/ Command \/ Decide \/ Provision
  \/ \E p \in Pkgs : BuildNext(p)
  \/ Built \/ Write \/ WriteOther \/ BuildFails \/ Declarations \/ Proof \/ Extras
  \/ Check \/ Record \/ Done \/ Dies

Spec == Init /\ [][Next]_vars

-----------------------------------------------------------------------------
(* Properties *)

\* engine-entry-freshness.ts, "built after its sources changed": an entry that is
\* thought to be fresh is built, and its declarations checked, from its sources.
FreshTrue == \A p \in Pkgs : Fresh(p) => built[p].mjs = src[p] /\ built[p].dts = src[p]

\* prepare.ts: a binary that is not built again, with its glue, is of its sources
\* (where one build at most has died between the two files).
WgpuTrue == run.step # "glue" /\ ~WgpuStale => \A f \in Outputs(Wgpu) : built[Wgpu][f] = src[Wgpu]

\* prepare.ts, FORGEAX_REQUIRE_COMPLETE_SETUP: a complete set-up that gets to its
\* end has every output, whatever was skipped, failed or was deleted on the way.
CompleteMeansBuilt ==
  run.step = "done" /\ run.strict => \A p \in All : \A f \in Outputs(p) : Has(p, f)

\* fx.ts, the gate of start: a record that is ready for the graph that is checked
\* out says that a prepare of it got to its end with nothing failed.
RecordTrue == record.ready => record.graph \in ready

\* prepare.ts, "[1b/5] Building @forgeax/cli": the command line is of its sources.
CliTrue == run.step = "decide" => built[Cli].main = src[Cli]

\* A start that the gate lets through finds every entry.
StartFindsEntries ==
  record.ready /\ record.graph = graph /\ run.step = "none" => \A p \in Pkgs : Has(p, "mjs")
=============================================================================

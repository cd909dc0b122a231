---------------------------- MODULE RecursiveInputs ----------------------------
(***************************************************************************)
(* packages/recursive-input-contract: which source a job may work on.  An  *)
(* attempt of a CI job checks the submodules out, removes its credentials, *)
(* records what it has in the attempt store and in the result file, and    *)
(* only what a consumer validates against its own attempt and against the  *)
(* graph as it is now may be worked on.  The workspace, with the files of  *)
(* earlier attempts, is used again.                                        *)
(*                                                                         *)
(* Revisions are numbers: revision r of a repository pins its submodules   *)
(* at r.  The graph is read from what is checked out, so below a submodule *)
(* that is not at its pin the pins of what is there count.                 *)
(***************************************************************************)
EXTENDS Naturals, FiniteSets

CONSTANTS
  Root, Subs, Parent,  \* the repositories
  Above,       \* per submodule: the submodules it is in
  Revs,        \* revisions, numbers from 1
  Attempts,    \* bound: attempts, numbers from 1
  Meddles,     \* TRUE: the checkouts may be moved while a job runs
  MaxMoves,    \* bound: moves of a checkout by others
  MaxFaults    \* bound: updates and clean-ups that fail, and crashes

VARIABLES
  head,      \* the revision of the root
  wt,        \* per submodule: what is checked out, 0 for nothing
  attempt,   \* GITHUB_RUN_ATTEMPT of the latest job, 0 for none
  run,       \* that job
  ready,     \* ready.json of the attempt store
  stored,    \* per attempt: its result in the store
  manifest,  \* the result file of the jobs
  local,     \* .forgeax/recursive-input-result.json
  earned,    \* history: the attempts that were complete and clean
  counts     \* what the bounds count

vars == <<head, wt, attempt, run, ready, stored, manifest, local, earned, counts>>

-----------------------------------------------------------------------------
(* The graph *)

\* Where the walk gets to, and the pin that is recorded there.
Known == {s \in Subs : \A a \in Above[s] : wt[a] # 0}
Pin(s) == IF Parent[s] = Root THEN head ELSE wt[Parent[s]]

\* readAuthoritativeGitGraph and projectGitlinkGraph.
Graph == [rev |-> head, pins |-> [s \in Known |-> Pin(s)], unreachable |-> {s \in Known : wt[s] = 0}]

AllAtPins == Known = Subs /\ \A s \in Subs : wt[s] = Pin(s)

-----------------------------------------------------------------------------
(* Results *)

NoPins == [s \in {} |-> 0]
NoResult == [rev |-> 0, pins |-> NoPins, attempt |-> 0, scope |-> "none", cleanup |-> "unknown", ready |-> FALSE]
NoFacts == [complete |-> FALSE, cleanup |-> "unknown"]
NoRun == [step |-> "over", facts |-> NoFacts, graph |-> [rev |-> 0, pins |-> NoPins, unreachable |-> {}],
          result |-> NoResult]

Results == [rev : {0} \cup Revs, pins : UNION {[K -> {0} \cup Revs] : K \in SUBSET Subs},
            attempt : 0 .. Attempts, scope : {"none", "ci", "local"},
            cleanup : {"passed", "failed", "unknown"}, ready : BOOLEAN]

\* Types; a result that is ready has credentials that are removed, and a graph
\* with no node that is not there.
TypeOK ==
  /\ head \in Revs /\ wt \in [Subs -> {0} \cup Revs] /\ attempt \in 0 .. Attempts
  /\ {ready, manifest, local} \subseteq Results /\ stored \in [1 .. Attempts -> Results]
  /\ \A r \in {ready, manifest} : r.ready => r.cleanup = "passed" /\ DOMAIN r.pins = Subs
  /\ earned \subseteq 1 .. Attempts

\* createRecursiveInputResult: ready, unless there is a failure to report.
Create(graph, att, scope, complete, cleanup) ==
  [rev |-> graph.rev, pins |-> graph.pins, attempt |-> att, scope |-> scope, cleanup |-> cleanup,
   ready |-> complete /\ cleanup = "passed"]

\* validateRecursiveInputResult: source, graph, attempt, trust scope, clean-up, state.
Valid(r, graph, att, scope) ==
  /\ r # NoResult /\ r.rev = graph.rev /\ graph.unreachable = {} /\ r.pins = graph.pins
  /\ r.attempt = att /\ r.scope = scope /\ r.cleanup = "passed" /\ r.ready

\* What the validation of r gives back: r, or a result that is not ready.
Validated(r, graph, att, scope) ==
  IF Valid(r, graph, att, scope) THEN r
  ELSE [rev |-> graph.rev, pins |-> graph.pins, attempt |-> att, scope |-> scope,
        cleanup |-> IF r.ready THEN "passed" ELSE r.cleanup, ready |-> FALSE]

-----------------------------------------------------------------------------

Init ==
  /\ head \in Revs /\ wt = [s \in Subs |-> 0]
  /\ attempt = 0 /\ run = NoRun /\ ready = NoResult /\ stored = [a \in 1 .. Attempts |-> NoResult]
  /\ manifest = NoResult /\ local = NoResult /\ earned = {}
  /\ counts = [moves |-> 0, faults |-> 0]

Count(what, bound) == counts[what] < bound /\ counts' = [counts EXCEPT ![what] = @ + 1]
Fault == Count("faults", MaxFaults)
To(step) == run' = [run EXCEPT !.step = step]
Idle == run.step = "over" \/ Meddles

\* Others move the root, or a submodule.
Checkout(r) ==
  /\ Idle /\ r # head /\ Count("moves", MaxMoves) /\ head' = r
  /\ UNCHANGED <<wt, attempt, run, ready, stored, manifest, local, earned>>

Wander(s, c) ==
  /\ Idle /\ s \in Known /\ c # wt[s] /\ Count("moves", MaxMoves)
  /\ wt' = [t \in Subs |-> IF t = s THEN c ELSE IF c = 0 /\ s \in Above[t] THEN 0 ELSE wt[t]]
  /\ UNCHANGED <<head, attempt, run, ready, stored, manifest, local, earned>>

-----------------------------------------------------------------------------
(* A job *)

Begin ==
  /\ run.step = "over" /\ attempt < Attempts
  /\ attempt' = attempt + 1 /\ run' = [NoRun EXCEPT !.step = "update"]
  /\ UNCHANGED <<head, wt, ready, stored, manifest, local, earned, counts>>

\* git submodule update --init --recursive.
Update(s) ==
  /\ run.step = "update" /\ s \in Known /\ wt[s] # Pin(s)
  /\ wt' = [wt EXCEPT ![s] = Pin(s)]
  /\ UNCHANGED <<head, attempt, run, ready, stored, manifest, local, earned, counts>>

\* Mutant: what git says of the update is enough.
TrustUpdate ==
  /\ run.step = "update"
  /\ \/ AllAtPins /\ UNCHANGED counts
     \/ Fault
  /\ run' = [run EXCEPT !.step = "cleanup", !.facts.complete = TRUE]
  /\ UNCHANGED <<head, wt, attempt, ready, stored, manifest, local, earned>>

\* The update comes to its end, or fails; the status of every submodule decides.
PostCheck ==
  /\ run.step = "update"
  /\ \/ AllAtPins /\ UNCHANGED counts
     \/ Fault
  /\ run' = [run EXCEPT !.step = "cleanup", !.facts.complete = AllAtPins]
  /\ UNCHANGED <<head, wt, attempt, ready, stored, manifest, local, earned>>

\* The credentials are removed, or that fails, or nothing is known of it.
Cleanup(status) ==
  /\ run.step = "cleanup"
  /\ IF status = "passed" THEN UNCHANGED counts ELSE Fault
  /\ run' = [run EXCEPT !.step = "produce", !.facts.cleanup = status]
  /\ earned' = IF run.facts.complete /\ status = "passed" THEN earned \cup {attempt} ELSE earned
  /\ UNCHANGED <<head, wt, attempt, ready, stored, manifest, local>>

\* Mutant: credentials of which nothing is known are gone.
ProduceHopeful ==
  /\ run.step = "produce"
  /\ LET clean == IF run.facts.cleanup = "failed" THEN "failed" ELSE "passed" IN
     run' = [run EXCEPT !.step = "invalidate", !.graph = Graph,
               !.result = Create(Graph, attempt, "ci", run.facts.complete, clean)]
  /\ UNCHANGED <<head, wt, attempt, ready, stored, manifest, local, earned, counts>>

\* createTrustedBaseInputResult, produceRecursiveInputResult.
Produce ==
  /\ run.step = "produce"
  /\ run' = [run EXCEPT !.step = "invalidate", !.graph = Graph,
               !.result = Create(Graph, attempt, "ci", run.facts.complete, run.facts.cleanup)]
  /\ UNCHANGED <<head, wt, attempt, ready, stored, manifest, local, earned, counts>>

\* Mutant: the ready result is replaced, never removed.
KeepReady == run.step = "invalidate" /\ To("store") /\ UNCHANGED <<head, wt, attempt, ready, stored, manifest, local, earned, counts>>

\* publishRecursiveInputResult: nothing is ready until all of it is done.
Invalidate ==
  /\ run.step = "invalidate" /\ To("store") /\ ready' = NoResult
  /\ UNCHANGED <<head, wt, attempt, stored, manifest, local, earned, counts>>

Store ==
  /\ run.step = "store"
  /\ LET v == Validated(run.result, run.graph, attempt, "ci") IN
     /\ stored' = [stored EXCEPT ![attempt] = v]
     /\ run' = [run EXCEPT !.step = IF v.ready THEN "publish" ELSE "write"]
  /\ UNCHANGED <<head, wt, attempt, ready, manifest, local, earned, counts>>

Publish ==
  /\ run.step = "publish" /\ To("write") /\ ready' = run.result
  /\ UNCHANGED <<head, wt, attempt, stored, manifest, local, earned, counts>>

\* validateCiResult, and the result file in the place of the old one.
Write ==
  /\ run.step = "write" /\ To("work") /\ manifest' = stored[attempt]
  /\ UNCHANGED <<head, wt, attempt, ready, stored, local, earned, counts>>

\* The job is over; or its producer dies, and later steps still verify.
JobEnds ==
  /\ run.step = "work" /\ run' = NoRun
  /\ UNCHANGED <<head, wt, attempt, ready, stored, manifest, local, earned, counts>>

Crash ==
  /\ run.step \notin {"over", "work"} /\ Fault /\ To("work")
  /\ UNCHANGED <<head, wt, attempt, ready, stored, manifest, local, earned>>

\* validateCiResult, by a consumer: its source work is allowed.
Allowed == run.step # "over" /\ Valid(manifest, Graph, attempt, "ci")

-----------------------------------------------------------------------------
(* At the developer's *)

\* bun fx recursive-inputs materialize, with classes and no attempt, and bun fx setup.
CliMaterialize ==
  /\ run.step = "over" /\ local' = Create(Graph, 0, "local", Graph.unreachable = {}, "passed")
  /\ UNCHANGED <<head, wt, attempt, run, ready, stored, manifest, earned, counts>>

\* bun fx recursive-inputs verify and status; without --attempt the attempt is
\* `cli-` and the time, which no result has.
CliVerify(given) == given /\ Valid(local, Graph, 0, "local")

\* checkRecursiveInput, the gate of bun fx start, goes by the result's own attempt.
StartGate == Valid(local, Graph, local.attempt, local.scope)

Next ==
  \/ \E r \in Revs : Checkout(r)
  \/ \E s \in Subs : \E c \in {0} \cup Revs : Wander(s, c)
  \/ Begin \/ PostCheck \/ Produce \/ Invalidate \/ Store \/ Publish \/ Write \/ JobEnds \/ Crash
  \/ \E s \in Subs : Update(s)
  \/ \E status \in {"passed", "failed", "unknown"} : Cleanup(status)
  \/ CliMaterialize

Spec == Init /\ [][Next]_vars

-----------------------------------------------------------------------------
(* Properties *)

\* trust-adapter.ts: where source work is allowed every submodule is at its pin,
\* whatever an earlier attempt has left and wherever this one has died.
WorkOnPins == Allowed => AllAtPins

\* producer.ts: only an attempt that came to its end, with no credential left,
\* makes a result that is ready.
ReadyEarned == \A r \in {ready, manifest} : r.ready => r.attempt \in earned

\* publisher.ts: what is ready is in the store as such, and no later attempt has
\* left a result there, a failed one included.
StoreFailsClosed ==
  ready # NoResult =>
    /\ stored[ready.attempt] = ready
    /\ \A a \in 1 .. Attempts : a > ready.attempt => stored[a] = NoResult

\* fx.ts: a start that the gate lets through has every submodule at its pin.
GateOnPins == StartGate => AllAtPins

\* cli.ts, "Shortest path": what materialize has found ready, verify finds ready,
\* as long as nothing has moved.
ShortestPath == StartGate => CliVerify(FALSE)
=============================================================================

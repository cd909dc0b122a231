------------------------------ MODULE CiChecks ------------------------------
(***************************************************************************)
(* What the repository's CI decides from what GitHub tells it.            *)
(* scripts/ci/wait-for-prerequisite-checks.ts holds the submodule pin gate *)
(* until every other required check of the pull request has succeeded;    *)
(* packages/recursive-input-contract judges the workflows and the live    *)
(* rulesets; scripts/ci/collect-fast-robust-ci.ts samples past runs.       *)
(* Each of them reads GitHub in several requests while others push, rerun  *)
(* and administrate.                                                       *)
(*                                                                         *)
(* A behaviour follows one command.  GitHub itself is external: a head per *)
(* pull request, the check runs of a commit in the order of their creation *)
(* (dated once they carry started_at), rulesets, and workflow runs with    *)
(* the topology of each attempt.  Bounds: MaxPushes, MaxChecks (runs of a  *)
(* check on a commit), MaxPolls (reads before the deadline), MaxEdits of   *)
(* rulesets, MaxReruns of workflow runs.                                *)
(***************************************************************************)
EXTENDS Naturals, Sequences, FiniteSets, FiniteSetsExt, SequencesExt

CONSTANTS
  Commands,     \* the commands a behaviour may follow: "wait", "status", "collect"
  Contexts,     \* the required checks
  PinContext,   \* the one of them that waits for the others
  MaxPushes, MaxChecks, MaxPolls,
  QueuedDated,  \* whether a queued check run carries a start time
  Workflows,    \* the workflow files inspected: from jobs to steps
  RuleSets, Shapes, MaxEdits,
  Runs, Topologies, MaxReruns, Needed

VARIABLES
  command,
  head,      \* the commit a pull request points at, counted from the one waited for
  checks,    \* checks[h][c]: the runs of check c on commit h, oldest first
  waiter,    \* [pc, seen, polls]
  result,    \* what a producer has published, NoResult before
  combined,  \* the combination of the waiter's and the pin job's results
  workflow,  \* the governed workflow in the repository
  rules,     \* the rulesets GitHub has, by id
  probe,     \* [pc, at, asked, read, verdict, local]
  history,   \* history[r]: the topologies of the attempts of run r, the last may be open
  collector  \* [pc, roster, jobs, samples]

prVars == <<head, checks>>
vars == <<command, head, checks, waiter, result, combined, workflow, rules, probe, history, collector>>

Expected == 0
Commits == 0..MaxPushes
Result(status, safeRerun, blockedBy) == [status |-> status, safeRerun |-> safeRerun, blockedBy |-> blockedBy]
NoResult == Result("none", FALSE, {})

-----------------------------------------------------------------------------
(* Check runs of a pull request. *)

States == {"queued", "running", "success", "failure"}
Terminal == {"success", "failure"}
CheckRun == [dated : BOOLEAN, state : States]
NewestIs(runs, states) == runs # <<>> /\ Last(runs).state \in states

Push ==
  /\ head < MaxPushes
  /\ head' = head + 1
  /\ UNCHANGED checks

\* A first run of a check, or a rerun of one that has finished.
QueueCheck(h, c) ==
  /\ checks[h][c] # <<>> => NewestIs(checks[h][c], Terminal)
  /\ Len(checks[h][c]) < IF h = Expected THEN MaxChecks ELSE 1
  /\ checks' = [checks EXCEPT ![h][c] = Append(@, [dated |-> QueuedDated, state |-> "queued"])]
  /\ UNCHANGED head

AdvanceCheck(h, c) ==
  /\ checks[h][c] # <<>>
  /\ \E next \in [queued |-> {"running"}, running |-> Terminal, success |-> {}, failure |-> {}]
                   [Last(checks[h][c]).state] :
       checks' = [checks EXCEPT ![h][c][Len(checks[h][c])] = [dated |-> TRUE, state |-> next]]
  /\ UNCHANGED head

Others == /\ command = "wait" /\ waiter.pc # "done"
          /\ \/ Push
             \/ \E h \in 0..head, c \in Contexts : QueueCheck(h, c) \/ AdvanceCheck(h, c)
          /\ UNCHANGED <<command, waiter, result, combined, workflow, rules, probe, history, collector>>

-----------------------------------------------------------------------------
(* wait-for-prerequisite-checks.ts *)

Prerequisites == Contexts \ {PinContext}

\* A mistake the properties would catch: sorted the other way.
OldestCheck(runs) == Head(runs)

\* The run the code takes for the latest: sorted by start time, with runs that
\* have none first.
LatestCheck(runs) ==
  LET dated == {i \in DOMAIN runs : runs[i].dated}
  IN runs[IF dated = {} THEN Len(runs) ELSE Max(dated)]

Missing(read) == {c \in Prerequisites : read[c] = <<>>}
StateIn(read, states) ==
  {c \in Prerequisites \ Missing(read) : LatestCheck(read[c]).state \in states}
Pending(read) == StateIn(read, {"queued", "running"})
Failed(read) == StateIn(read, {"failure"})

\* A mistake the properties would catch: nothing pending is good enough, and the head is not compared.
EvaluateSettled(seen, read) ==
  IF Failed(read) # {} THEN "failed"
  ELSE IF Missing(read) \cup Pending(read) # {} THEN "waiting"
  ELSE "ready"

Evaluate(seen, read) ==
  IF seen # Expected THEN "stale"
  ELSE IF Failed(read) # {} THEN "failed"
  ELSE IF Missing(read) \cup Pending(read) # {} THEN "waiting"
  ELSE "ready"

\* The producer result of an evaluation; `cause` names what it is blocked by.
ProducerResult(evaluation, cause) ==
  CASE evaluation = "ready" -> Result("passed", FALSE, {})
    [] evaluation = "stale" -> Result("superseded", FALSE, {})
    [] evaluation = "timeout" -> Result("blocked", TRUE, cause)
    [] evaluation = "failed" -> Result("blocked", FALSE, cause)

Wait == command = "wait" /\ result = NoResult
WaitUnchanged ==
  UNCHANGED <<command, prVars, combined, workflow, rules, probe, history, collector>>

\* readPullRequestSnapshot asks for the head first, for its check runs second.
ReadHead ==
  /\ Wait /\ waiter.pc = "head"
  /\ waiter' = [waiter EXCEPT !.pc = "checks", !.seen = head]
  /\ UNCHANGED result /\ WaitUnchanged

ReadChecks ==
  /\ Wait /\ waiter.pc = "checks"
  /\ LET read == checks[waiter.seen]
         evaluation == Evaluate(waiter.seen, read)
     IN IF evaluation = "waiting"
        THEN waiter' = [waiter EXCEPT !.pc = "sleep"] /\ UNCHANGED result
        ELSE /\ waiter' = [waiter EXCEPT !.pc = "done"]
             /\ result' = ProducerResult(evaluation, Failed(read))
  /\ WaitUnchanged

\* A request that fails is only logged.
ReadFails ==
  /\ Wait /\ waiter.pc \in {"head", "checks"}
  /\ waiter' = [waiter EXCEPT !.pc = "sleep"]
  /\ UNCHANGED result /\ WaitUnchanged

\* A poll uses up one of MaxPolls; the deadline names every prerequisite missing.
SleepOrGiveUp ==
  /\ Wait /\ waiter.pc = "sleep"
  /\ \/ /\ waiter.polls + 1 < MaxPolls
        /\ waiter' = [waiter EXCEPT !.pc = "head", !.polls = @ + 1]
        /\ UNCHANGED result
     \/ /\ waiter' = [waiter EXCEPT !.pc = "done"]
        /\ result' = ProducerResult("timeout", Prerequisites)
  /\ WaitUnchanged

\* combineCiProducerResults over the waiter's result and that of another job: the
\* first of the worst status is the root.
Priority == <<"failed", "blocked", "superseded", "passed">>
Rank(r) == CHOOSE i \in DOMAIN Priority : Priority[i] = r.status
\* A mistake the properties would catch: the first result is the root.
CombineFirst(results) ==
  Result(results[1].status, results[1].safeRerun, UNION {results[i].blockedBy : i \in DOMAIN results})

Combine(results) ==
  LET worst == Min({Rank(results[i]) : i \in DOMAIN results})
      heaviest == results[Min({i \in DOMAIN results : Rank(results[i]) = worst})]
  IN Result(heaviest.status, heaviest.safeRerun, UNION {results[i].blockedBy : i \in DOMAIN results})

JobResults ==
  {Result("passed", FALSE, {}), Result("failed", FALSE, {}),
   Result("failed", TRUE, {}), Result("blocked", FALSE, {PinContext})}

CombineResults ==
  /\ command = "wait" /\ result # NoResult /\ combined.inputs = {}
  /\ \E job \in JobResults : \E order \in {<<result, job>>, <<job, result>>} :
       combined' = [inputs |-> {result, job}, all |-> Combine(order)]
  /\ UNCHANGED <<command, prVars, waiter, result, workflow, rules, probe, history, collector>>

-----------------------------------------------------------------------------
(* ci-source.ts: the workflow of a governed consumer. *)

\* A workflow is a function from its jobs to their steps; the manifest declares one
\* consumer, whose work belongs in Job and asks for the scope "ordinary".
Job == "job"
Fetch(scope) == [kind |-> "fetch", scope |-> scope]
Work == [kind |-> "work", scope |-> ""]

Calls(flow) ==
  UNION {{<<job, i>> : i \in {j \in DOMAIN flow[job] : flow[job][j].kind = "fetch"}} : job \in DOMAIN flow}
FirstStep(steps, kind) ==
  LET at == {i \in DOMAIN steps : steps[i].kind = kind} IN IF at = {} THEN 0 ELSE Min(at)

\* A mistake the properties would catch: the validator may come after the work.
CallErrors(flow) ==
  IF Job \notin DOMAIN flow THEN {}
  ELSE LET call == FirstStep(flow[Job], "fetch")
       IN (IF Cardinality(Calls(flow)) > 1 THEN {"duplicate-source-call"} ELSE {})
          \cup (IF call = 0 THEN {"missing-source-call"} ELSE {})
          \cup (IF call # 0 /\ flow[Job][call].scope # "ordinary" THEN {"trust-scope-drift"} ELSE {})

\* A workflow that has no job of a consumer is outside the contract.
SourceErrors(flow) ==
  IF Job \notin DOMAIN flow THEN {}
  ELSE LET steps == flow[Job]
           call == FirstStep(steps, "fetch")
           work == FirstStep(steps, "work")
       IN (IF Cardinality(Calls(flow)) > 1 THEN {"duplicate-source-call"} ELSE {})
          \cup (IF call = 0 THEN {"missing-source-call"} ELSE {})
          \cup (IF call # 0 /\ steps[call].scope # "ordinary" THEN {"trust-scope-drift"} ELSE {})
          \cup (IF work = 0 THEN {"missing-source-work"} ELSE {})
          \cup (IF call = 0 \/ (work # 0 /\ call > work) THEN {"validator-not-before-work"} ELSE {})

Local(flow) == IF SourceErrors(flow) = {} THEN "aligned" ELSE "non-ready"

-----------------------------------------------------------------------------
(* ci-ruleset.ts, ci-status.ts: the live rulesets. *)

\* A shape is [includes, excludes, active, strict, bypass, contexts]; parseRuleset
\* sees all of it but what the conditions exclude.
Applies(shape) == shape.includes
Governs(shape) == Applies(shape) /\ shape.active

\* A mistake the properties would catch: a ruleset with a way around it counts.
AlignedLoosely(read) ==
  LET governing == {r \in DOMAIN read : Governs(read[r])}
  IN \A c \in Contexts : Cardinality({r \in governing : c \in read[r].contexts}) = 1

Aligned(read) ==
  LET governing == {r \in DOMAIN read : Governs(read[r])}
      of(c) == {r \in governing : c \in read[r].contexts}
  IN /\ governing # {}
     /\ \A c \in Contexts : Cardinality(of(c)) = 1
     /\ \A r \in governing : read[r].contexts \subseteq Contexts
     /\ \E r \in governing : read[r].contexts # {}
     /\ \A r \in governing : ~read[r].bypass /\ (read[r].contexts = {} \/ ~read[r].strict)

Edits ==
  /\ command = "status" /\ probe.pc # "done" /\ probe.edits < MaxEdits
  /\ \E r \in RuleSets :
       \/ \E shape \in Shapes : rules' = [q \in DOMAIN rules \cup {r} |-> IF q = r THEN shape ELSE rules[q]]
       \/ rules' = [q \in DOMAIN rules \ {r} |-> rules[q]]
  /\ rules' # rules
  /\ probe' = [probe EXCEPT !.edits = @ + 1]
  /\ UNCHANGED <<command, prVars, waiter, result, combined, workflow, history, collector>>

ProbeUnchanged ==
  UNCHANGED <<command, prVars, waiter, result, combined, workflow, rules, history, collector>>

\* reduceCiStatus
Status(local, external) ==
  IF local = "aligned" /\ external = "aligned" THEN "ready"
  ELSE IF external = "unverified" THEN "unverified" ELSE "non-ready"

Probed(external) ==
  probe' = [probe EXCEPT !.pc = "done", !.verdict = Status(Local(workflow), external)]

\* The ids first, then every ruleset on its own, in any order.
ListRules ==
  /\ command = "status" /\ probe.pc = "list"
  /\ \/ probe' = [probe EXCEPT !.pc = "details", !.ids = DOMAIN rules,
                               !.asked = probe.edits]
     \/ Probed("unverified")
  /\ ProbeUnchanged

\* A ruleset that is gone, or a request that fails, leaves nothing to judge.
ReadRules(r) ==
  /\ command = "status" /\ probe.pc = "details" /\ r \in probe.ids \ DOMAIN probe.read
  /\ \/ /\ r \in DOMAIN rules
        /\ probe' = [probe EXCEPT !.read = [q \in DOMAIN @ \cup {r} |-> IF q = r THEN rules[r] ELSE @[q]]]
     \/ Probed("unverified")
  /\ ProbeUnchanged

JudgeRules ==
  /\ command = "status" /\ probe.pc = "details" /\ DOMAIN probe.read = probe.ids
  /\ Probed(IF Aligned(probe.read) THEN "aligned" ELSE "misaligned")
  /\ ProbeUnchanged

-----------------------------------------------------------------------------
(* collect-fast-robust-ci.ts *)

\* An attempt of a run is [of, open]: its topology, and whether jobs still run.
CloseAttempt(r) ==
  /\ Last(history[r]).open
  /\ history' = [history EXCEPT ![r][Len(history[r])].open = FALSE]
Rerun(r) ==
  /\ ~Last(history[r]).open
  /\ FoldFunction(LAMBDA attempts, sum : Len(attempts) - 1 + sum, 0, history) < MaxReruns
  /\ \E t \in Topologies : history' = [history EXCEPT ![r] = Append(@, [of |-> t, open |-> TRUE])]

RunsGoOn ==
  /\ command = "collect" /\ collector.pc # "done"
  /\ \E r \in Runs : CloseAttempt(r) \/ Rerun(r)
  /\ UNCHANGED <<command, prVars, waiter, result, combined, workflow, rules, probe, collector>>

CollectUnchanged ==
  UNCHANGED <<command, prVars, waiter, result, combined, workflow, rules, probe, history>>

\* gatherLiveInput: the roster of runs first.
ReadRoster ==
  /\ command = "collect" /\ collector.pc = "roster"
  /\ collector' = [collector EXCEPT !.pc = "jobs",
       !.roster = [r \in Runs |-> [attempt |-> Len(history[r]), completed |-> ~Last(history[r]).open]]]
  /\ CollectUnchanged

\* Then the jobs of one run after the other: those of its latest attempt.
ReadJobs(r) ==
  /\ command = "collect" /\ collector.pc = "jobs" /\ r \notin DOMAIN collector.jobs
  /\ collector' = [collector EXCEPT !.jobs =
       [q \in DOMAIN @ \cup {r} |-> IF q = r THEN Last(history[r]) ELSE @[q]]]
  /\ CollectUnchanged

\* A page that cannot be read, or is short, ends the command.
CollectFails ==
  /\ command = "collect" /\ collector.pc \in {"roster", "jobs"}
  /\ collector' = [collector EXCEPT !.pc = "done"]
  /\ CollectUnchanged

\* A mistake the properties would catch: a rerun counts as a sample.
AllCompleted(roster, jobs) == {r \in Runs : roster[r].completed}

\* assignComparability: the commonest topology of the runs that could be samples;
\* a tie goes to the first name.
Eligible(roster, jobs) ==
  {r \in Runs : roster[r].completed /\ roster[r].attempt = 1 /\ ~jobs[r].open}
Canonical(roster, jobs) ==
  LET count(t) == Cardinality({r \in Eligible(roster, jobs) : jobs[r].of = t})
  IN CHOOSE t \in Topologies : \A u \in Topologies : count(t) > count(u) \/ (count(t) = count(u) /\ t <= u)
Comparable(roster, jobs) ==
  {r \in Eligible(roster, jobs) : jobs[r].of = Canonical(roster, jobs)}

Assess ==
  /\ command = "collect" /\ collector.pc = "jobs" /\ DOMAIN collector.jobs = Runs
  /\ LET samples == Comparable(collector.roster, collector.jobs)
     IN collector' = [collector EXCEPT !.pc = "done", !.samples = samples,
                        !.claim = IF Cardinality(samples) >= Needed THEN "pass" ELSE "no-claim"]
  /\ CollectUnchanged

-----------------------------------------------------------------------------

Init ==
  /\ command \in Commands  \* what it does not look at starts in one way
  /\ head = Expected /\ checks = [h \in Commits |-> [c \in Contexts |-> <<>>]]
  /\ waiter = [pc |-> "head", seen |-> Expected, polls |-> 0]
  /\ result = NoResult /\ combined = [inputs |-> {}, all |-> NoResult]
  /\ workflow \in Workflows
  /\ command # "status" => workflow = CHOOSE flow \in Workflows : TRUE
  /\ rules \in UNION {[ids -> Shapes] : ids \in IF command = "status" THEN SUBSET RuleSets ELSE {{}}}
  /\ probe = [pc |-> "list", ids |-> {}, read |-> <<>>, edits |-> 0, asked |-> 0, verdict |-> "none"]
  /\ history \in [Runs -> {<<[of |-> t, open |-> TRUE]>> : t \in Topologies}]
  /\ command # "collect" => \A r \in Runs : history[r][1].of = CHOOSE t \in Topologies : TRUE
  /\ collector = [pc |-> "roster", roster |-> <<>>, jobs |-> <<>>, samples |-> {}, claim |-> "none"]

Next ==
  \/ Others
  \/ ReadHead \/ ReadChecks \/ ReadFails \/ SleepOrGiveUp \/ CombineResults
  \/ Edits
  \/ ListRules \/ (\E r \in RuleSets : ReadRules(r)) \/ JudgeRules
  \/ RunsGoOn
  \/ ReadRoster \/ (\E r \in Runs : ReadJobs(r)) \/ CollectFails \/ Assess

-----------------------------------------------------------------------------
(* Properties *)

TypeOK ==
  /\ head \in Commits
  /\ \A h \in Commits, c \in Contexts : \A i \in DOMAIN checks[h][c] : checks[h][c][i] \in CheckRun
  /\ waiter \in [pc : {"head", "checks", "sleep", "done"}, seen : Commits, polls : 0..MaxPolls]
  /\ (result = NoResult) = (waiter.pc # "done")
  /\ \A r \in DOMAIN rules : rules[r] \in Shapes
  /\ DOMAIN probe.read \subseteq probe.ids /\ collector.samples \subseteq Runs

\* wait-for-prerequisite-checks.ts:69: "only explicit SUCCESS for all prerequisites
\* releases the pin validator", of the commit it validates and of the newest run of
\* each check, whatever reruns and pushes came between its requests.
ReleasedOnSuccess ==
  result # NoResult /\ result.status = "passed" =>
    \A c \in Prerequisites : NewestIs(checks[Expected][c], {"success"})

\* ci-producer-result.ts: a combination is no better than any of its inputs, and is
\* safe to rerun only when nothing in it has failed for good.
CombinedHonest ==
  combined.inputs # {} =>
    /\ combined.all.status = "passed" <=> \A r \in combined.inputs : r.status = "passed"
    /\ \A r \in combined.inputs : r.status = "failed" => combined.all.status = "failed"
    /\ \A r \in combined.inputs : r.blockedBy \subseteq combined.all.blockedBy

\* ci-source.ts, ci-ruleset.ts: "ready" is only said of a repository whose governed
\* jobs validate their inputs before any source work, and whose branch is guarded by
\* every required check with no way around, if nobody edited rulesets meanwhile.
Guarded ==
  /\ \A c \in Contexts : \E r \in DOMAIN rules : Governs(rules[r]) /\ ~rules[r].excludes /\ c \in rules[r].contexts
  /\ \A r \in DOMAIN rules : Governs(rules[r]) => ~rules[r].bypass
Validated(job) ==
  \A i \in DOMAIN workflow[job] : workflow[job][i].kind = "work" =>
    \E k \in 1..i : workflow[job][k] = Fetch("ordinary")
ReadyTrue ==
  probe.verdict = "ready" =>
    /\ probe.asked = probe.edits => Guarded
    /\ Job \in DOMAIN workflow => Validated(Job)

\* collect-fast-robust-ci.ts: timing is only claimed from enough runs of one topology,
\* each of which GitHub listed as a completed first attempt.
SamplesAlike ==
  /\ \A r, q \in collector.samples : collector.jobs[r].of = collector.jobs[q].of
  /\ \A r \in collector.samples : collector.roster[r] = [attempt |-> 1, completed |-> TRUE]
  /\ collector.claim = "pass" => Cardinality(collector.samples) >= Needed

-----------------------------------------------------------------------------
(* What does not hold in the windows of the README. *)

\* The pull request still points at the commit that was released.
ReleasedAtHead == result # NoResult /\ result.status = "passed" => head = Expected
\* A check that has succeeded is not what a time-out is blocked by.
BlamesUnfinished ==
  result # NoResult /\ result.safeRerun =>
    \A c \in result.blockedBy : ~NewestIs(checks[Expected][c], {"success"})
\* No job does source work without validated inputs, by any name.
EveryJobValidated == probe.verdict = "ready" => \A job \in DOMAIN workflow : Validated(job)
\* The jobs of a sample are those of the attempt it stands for.
SamplesTrue == \A r \in collector.samples : collector.jobs[r].of = history[r][1].of
=============================================================================

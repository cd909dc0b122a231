---------------------------- MODULE MCLifecycle -----------------------------
(***************************************************************************)
(* The run lock and what the commands that stop may take down, in one run  *)
(* of TLC: `part` says which of the two a behaviour is of.                 *)
(***************************************************************************)
EXTENDS MCRunLock

CONSTANTS r1, r2, Servers, Declarations, Mcp, McpPort, Elsewhere, Edits, Overlaps, Hasty, Reslots,
  Starting, Strangers, Faults, Commands

VARIABLES part, declared, slot, proc, held, map, record, boot, asked, counts

\* No package, two of one rank, two of which one comes first.
SomeDeclarations ==
  {[r \in {r1, r2} |-> 0], [r \in {r1, r2} |-> 1], (r1 :> 2) @@ (r2 :> 1)}

Authority == INSTANCE StopAuthority WITH
  Roles <- Servers, MaxStarts <- Starting, MaxStrangers <- Strangers, MaxFaults <- Faults,
  MaxCommands <- Commands,
  lock <- held, state <- record, run <- asked

stopVars == <<declared, slot, proc, held, map, record, boot, asked, counts>>

SumInit ==
  /\ part \in {"lock", "authority"} /\ Init /\ Authority!Init
  /\ part = "lock" => declared = [r \in Servers |-> 0]
  /\ part = "authority" => run = Missing

SumNext ==
  \/ part = "lock" /\ Next /\ UNCHANGED <<part, stopVars>>
  \/ part = "authority" /\ (Authority!Next \/ UNCHANGED stopVars) /\ UNCHANGED <<part, vars>>

SumSpec == SumInit /\ [][SumNext]_<<part, vars, stopVars>>

\* stop-scope.ts, stop-execution.ts: what a command ends, what its answer means.
StopsTrue == [][part = "authority" => Authority!StopTrue]_<<part, vars, stopVars>>
\* stop.ts, stop-execution.ts: what a command ends, the SIGKILL of `fx stop` included.
OnlyOwnEnds == [][part = "authority" => Authority!EndsOnlyOwn]_<<part, vars, stopVars>>
\* stop.ts: "stack is down".
DownIsDown == [][part = "authority" => Authority!OkMeansGone]_<<part, vars, stopVars>>
\* run.ts, managed-runtime-ports.ts: a start finds ports for everything.
PortsFound == [][part = "authority" => Authority!PortsFound]_<<part, vars, stopVars>>
=============================================================================

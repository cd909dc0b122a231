----------------------------- MODULE MCInstalls -----------------------------
(***************************************************************************)
(* Two kinds of behaviours in one run of TLC, told apart by `part`: with   *)
(* failures and with crashes at any stage, from configs without the entry  *)
(* ("crash"), or with crashes while installing only, from any mixture of   *)
(* configs ("recovers").                                                   *)
(***************************************************************************)
EXTENDS MCInstallTransaction

VARIABLE part

SumInit ==
  /\ part \in {"crash", "recovers"}
  /\ Init
  /\ part = "crash" => \A t \in Targets : file[t] \in MCInitial

\* Nothing fails, and a run only crashes while installing, leaving no torn journal
\* or lock; a torn temporary it may leave.
OnlyInstallCrashes ==
  /\ faults' = faults
  /\ crashes' # crashes =>
       /\ UNCHANGED <<lock, jtemp>>
       /\ \A r \in Runs : pc'[r] = "dead" /\ pc[r] # "dead" => mem[r].stage = "install"

SumNext ==
  /\ Next
  /\ part = "recovers" => OnlyInstallCrashes
  /\ UNCHANGED part

\* As FairSpec: a run that is scheduled makes progress.
Fairness == \A r \in Runs : WF_vars(part = "recovers" /\ RunStep(r))

SumSpec == SumInit /\ [][SumNext]_<<part, vars>> /\ Fairness

\* transaction.ts: from configs without the entry, a half-installed set has a journal
\* that knows every config, and the installed configs are the first ones, wherever the
\* runs stop.
Undoable == part = "crash" => HalfInstallJournaled /\ CommittedPrefix
\* transaction.ts:981-983: each run that survives the crashes installs.
Installs ==
  \A r \in Runs : part = "recovers" /\ pc[r] = "scan" ~>
    \/ pc[r] = "dead"
    \/ pc[r] = "done" /\ result[r] \in {"COMMITTED", "CURRENT"}
=============================================================================

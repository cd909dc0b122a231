------------------------ MODULE MCInstallTransaction ------------------------
(***************************************************************************)
(* Instances of InstallTransaction for TLC.                                *)
(***************************************************************************)
EXTENDS InstallTransaction, TLC

CONSTANTS r1, r2, r3, nobody, alice

MCUsers == {nobody, alice}

Existing == [exists |-> TRUE, user |-> alice, ours |-> FALSE]

\* A missing and an existing config, neither with the entry.
MCInitial == {Absent, Existing}

\* ... and one that has the entry already.
Installed == [exists |-> TRUE, user |-> alice, ours |-> TRUE]
AnyInitial == MCInitial \cup {Installed}

AnyStage == {"recover", "install", "catch"}
InstallStage == {"install"}
NoStage == {}

\* Failures while the transaction can still be undone.
EarlyFaults == ThrowingSteps \ {"rb_begin", "cl_begin", "cl_temps", "cl_preimages",
                                "cl_journal", "cl_dir"}
LateFaults == ThrowingSteps
\* One failure, of a run whose locks a rival waits for.
BackupFault == {"mkbackup"}
NoFaults == {}

TornJournal == {"journal"}
TornTemporary == {"temporary"}
TornInstallWrite == {"journal", "temporary", "lock"}
TornReplacement == {"replacement"}
NoTornWrite == {}

Symmetric == Permutations(Runs)
=============================================================================

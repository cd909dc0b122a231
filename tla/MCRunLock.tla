----------------------------- MODULE MCRunLock ------------------------------
(***************************************************************************)
(* Instances of RunLock for TLC.                                           *)
(***************************************************************************)
EXTENDS RunLock, TLC

CONSTANTS s1, s2, l1, l2, d1, i1, i2, c1, c2, ghost

\* l1 and l2 are spawned, d1 is run by hand.
MCParent == [l \in Launchers |-> CASE l = l1 -> s1 [] l = l2 -> s2 [] OTHER -> l]

\* No lock; a malformed one; a legacy one.
AnyLock == {Missing, Directory(TRUE, {}, {Ghost}), Directory(TRUE, {Legacy}, {})}
NoLock == {Missing}

\* Crashes that leave no claim behind.
Unclaimed == Steps \ {"check", "detach"}
AnyStep == Steps
=============================================================================

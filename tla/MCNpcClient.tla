---------------------------- MODULE MCNpcClient -----------------------------
(***************************************************************************)
(* Instances of NpcClient for TLC.                                         *)
(***************************************************************************)
EXTENDS NpcClient

CONSTANTS p1, p2, p3, e1, e2, guide

\* Two calls with the same event, and one with another; one NPC.
MCEvent == [p \in Calls |-> IF p = p3 THEN e2 ELSE e1]
Distinct == [p \in Calls |-> IF p = p1 THEN e1 ELSE e2]
MCNpc == [p \in Calls |-> guide]
=============================================================================

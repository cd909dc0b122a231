---------------------------- MODULE MCPortLease -----------------------------
(***************************************************************************)
(* Instances of PortLease for TLC.                                         *)
(***************************************************************************)
EXTENDS PortLease, TLC

CONSTANTS p1, p2, p3

\* Three starts of overlapping instances.
Overlapping == (p1 :> {1, 2}) @@ (p2 :> {1, 2}) @@ (p3 :> {2})
OnePort == [p \in Procs |-> {1}]
TwoEach == [p \in Procs |-> {1, 2}]
Swapped == (p1 :> {1}) @@ (p2 :> {2})
SwappedExtras == (p1 :> {2}) @@ (p2 :> {1})
NoExtras == [p \in Procs |-> {}]
\* One start's new configuration keeps a port and adds one above all.
Moved == (p1 :> {2, 3}) @@ (p2 :> {}) @@ (p3 :> {})
NextSlot == [p \in Procs |-> {2, 3}]

AnyStep == Steps
NoStep == {}
=============================================================================

--------------------------- MODULE FloatingOverlay ----------------------------
(***************************************************************************)
(* scripts/worktree.ts, checkoutFloatingRepoWithOverlay: a floating        *)
(* repository is checked out over a directory that already has files of    *)
(* its own, the overlay.                                                   *)
(*                                                                         *)
(* The overlay's entries are moved to a backup directory one by one, the   *)
(* pinned commit is checked out, and the entries it does not track are     *)
(* moved back.  Any file-system step may fail.                             *)
(***************************************************************************)
EXTENDS Naturals, FiniteSets

CONSTANTS
  Overlay,    \* the entries of the directory
  Tracked,    \* the files of the pinned commit
  MaxFaults   \* bound: steps that fail

VARIABLES
  target,  \* target[e]: "overlay", "pinned" or "none": what the directory has
  backup,  \* the entries in the backup directory
  step,    \* aside, checkout, restore, undo, done, failed
  told,    \* the operator was told where the backup is
  faults

vars == <<target, backup, step, told, faults>>
Entries == Overlay \cup Tracked

\* Types; there is no backup once the checkout is done.
TypeOK ==
  /\ target \in [Entries -> {"overlay", "pinned", "none"}]
  /\ backup \subseteq Overlay
  /\ step \in {"aside", "checkout", "restore", "undo", "done", "failed"}
  /\ told \in BOOLEAN /\ faults \in 0 .. MaxFaults
  /\ step = "done" => backup = {}

Init ==
  /\ target = [e \in Entries |-> IF e \in Overlay THEN "overlay" ELSE "none"]
  /\ backup = {} /\ step = "aside" /\ told = FALSE /\ faults = 0

Left == {e \in Overlay : target[e] = "overlay"}

\* moveOverlayAside, which runs before the try: a fault is not undone.
Aside ==
  /\ step = "aside"
  /\ \/ /\ \E e \in Left : target' = [target EXCEPT ![e] = "none"] /\ backup' = backup \cup {e}
        /\ UNCHANGED step
     \/ Left = {} /\ step' = "checkout" /\ UNCHANGED <<target, backup>>
  /\ UNCHANGED <<told, faults>>

Checkout ==
  /\ step = "checkout"
  /\ target' = [e \in Entries |-> IF e \in Tracked THEN "pinned" ELSE target[e]]
  /\ step' = "restore"
  /\ UNCHANGED <<backup, told, faults>>

\* Mutant: an entry of the overlay goes back over the pinned file.
Overwrite(e, tracked) == target' = [target EXCEPT ![e] = "overlay"]

\* mergeOverlayEntry: a tracked file keeps what was checked out.
Merge(e, tracked) ==
  IF e \in tracked THEN UNCHANGED target ELSE target' = [target EXCEPT ![e] = "overlay"]

Restore ==
  /\ step = "restore"
  /\ \/ \E e \in backup : Merge(e, Tracked) /\ backup' = backup \ {e} /\ UNCHANGED step
     \/ backup = {} /\ step' = "done" /\ UNCHANGED <<target, backup>>
  /\ UNCHANGED <<told, faults>>

\* The catch: everything that is still in the backup goes back.
Undo ==
  /\ step = "undo"
  /\ \/ \E e \in backup : Merge(e, {}) /\ backup' = backup \ {e} /\ UNCHANGED step
     \/ backup = {} /\ step' = "failed" /\ UNCHANGED <<target, backup>>
  /\ UNCHANGED <<told, faults>>

\* Mutant: what could not be restored is removed.
Discard ==
  /\ step \in {"aside", "checkout", "restore", "undo"} /\ faults < MaxFaults
  /\ faults' = faults + 1
  /\ step' = IF step \in {"checkout", "restore"} THEN "undo" ELSE "failed"
  /\ told' = (step = "undo")
  /\ backup' = IF step = "undo" THEN {} ELSE backup
  /\ UNCHANGED target

Fault ==
  /\ step \in {"aside", "checkout", "restore", "undo"} /\ faults < MaxFaults
  /\ faults' = faults + 1
  /\ step' = IF step \in {"checkout", "restore"} THEN "undo" ELSE "failed"
  /\ told' = (step = "undo")
  /\ UNCHANGED <<target, backup>>

Next == Aside \/ Checkout \/ Restore \/ Undo \/ Fault
Spec == Init /\ [][Next]_vars

-----------------------------------------------------------------------------
(* Properties *)

\* "so that loop state survives": an entry the commit does not track is in the
\* directory or in the backup, whatever fails.
OverlaySurvives == \A e \in Overlay \ Tracked : target[e] = "overlay" \/ e \in backup

\* "without allowing stale files to block the pinned floating checkout": a
\* checkout that is done has the pinned files and the overlay's others.
CheckedOut ==
  step = "done" => \A e \in Entries :
    target[e] = IF e \in Tracked THEN "pinned" ELSE "overlay"

\* A checkout that failed leaves entries in the backup only if the operator knows.
\* (A fault while they are moved aside breaks this.)
LeftoversTold == step = "failed" /\ backup # {} => told
=============================================================================

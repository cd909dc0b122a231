------------------------- MODULE MCAssetTransaction -------------------------
(***************************************************************************)
(* Instances of AssetTransaction for TLC.                                  *)
(***************************************************************************)
EXTENDS AssetTransaction

CONSTANTS e1, e2, e3, d1, d2, tree, rock, v1, v2, mine, none

\* The first import delivers v2, the others v1.
MCDelivers == [e \in Importers |-> IF e = e1 THEN v2 ELSE v1]

\* Every import asks for one asset; in OneOfTwo e1's result has another as well.
OneItem == [e \in Importers |-> {tree}]
TwoItems == [e \in Importers |-> IF e = e1 THEN {tree, rock} ELSE {tree}]

Whole(v) == [files |-> v, prov |-> v]
WholeOrNothing == {Nothing, Whole(v1)}
JustV1 == {Whole(v1)}

\* A directory the user made, or changed since the import.
AnyInitial == WholeOrNothing \cup {[files |-> mine, prov |-> None],
                                  [files |-> mine, prov |-> v1]}

AnyStep == Steps
NoStep == {}

\* Between a journal and the move it announces, or a move back and the journal.
BeforeAside == {"aside"}
BeforeMark == {"undo_mark"}
BeforeDoctorMark == {"place", "d_mark"}

EngineFaults == {"engine"}
PlaceFaults == {"place"}
LateFaults == {"committed"}
AllFaults == Guarded \cup Unguarded
=============================================================================

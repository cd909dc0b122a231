------------------------------ MODULE MCAssets ------------------------------
(***************************************************************************)
(* Two instances of AssetTransaction in one run of TLC.  `part` says which *)
(* one a behaviour is of: two imports and a doctor one after the other,    *)
(* with two crashes and a failure, or two imports at once over two assets, *)
(* with a crash and a failure, anywhere.                                   *)
(***************************************************************************)
EXTENDS MCAssetTransaction

VARIABLE part

Imports == INSTANCE AssetTransaction WITH
  Doctors <- {}, Assets <- {tree, rock}, Items <- TwoItems, Packs <- {rock},
  Initial <- AnyInitial, MaxActive <- 2, MaxCrashes <- 1,
  CrashSteps <- AnyStep, FaultSteps <- AllFaults

SumInit ==
  \/ part = "recovery" /\ Init
  \/ part = "imports" /\ Imports!Init

SumNext ==
  /\ \/ part = "recovery" /\ Next
     \/ part = "imports" /\ Imports!Next
  /\ UNCHANGED part

SumSpec == SumInit /\ [][SumNext]_<<part, vars>>

\* transaction.ts: where destinations start whole, and until an asset is exposed, no
\* free asset is half imported, and an import that is over has left nothing behind.
SetRight == part = "recovery" /\ exposed = {} => NoHalfImport /\ NothingLeft
=============================================================================

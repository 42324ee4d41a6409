---------------------------- MODULE MCDispatchTx -----------------------------
(***************************************************************************)
(* Instances of DispatchTx for TLC.                                        *)
(***************************************************************************)
EXTENDS DispatchTx, TLC

CONSTANTS b1, b2, b3, transfer, charter

(* b1 and b2 are picked up at the same hour, b3 two hours later.           *)
Hours == b1 :> 1 @@ b2 :> 1 @@ b3 :> 3

(* Close pickups are of one service, or of two.                            *)
CloseTogether == b1 :> transfer @@ b2 :> transfer @@ b3 :> charter
CloseApart == b1 :> transfer @@ b2 :> charter @@ b3 :> transfer

TxSymmetry == Permutations(Tx) \union Permutations(Drivers)
=============================================================================

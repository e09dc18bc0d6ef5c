------------------------------ MODULE MCRxPool ------------------------------
(***************************************************************************)
(* TLC instance of RxPool: lists of 3 packets, refilled below 2.           *)
(***************************************************************************)
EXTENDS RxPool, TLC

CapacityM == "m" :> 3 @@ "c" :> 2

Symm == Permutations(Packets)
=============================================================================

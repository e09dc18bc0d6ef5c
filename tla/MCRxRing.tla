------------------------------ MODULE MCRxRing ------------------------------
(***************************************************************************)
(* TLC instance of RxRing: 3 descriptors, frames of up to 3 fragments, so  *)
(* that a frame can fill the ring or wrap in it.                           *)
(***************************************************************************)
EXTENDS RxRing, TLC

Symm == Permutations(Mbufs)
=============================================================================

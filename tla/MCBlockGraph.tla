----------------------------- MODULE MCBlockGraph -----------------------------
(***************************************************************************)
(* BlockGraph with interchangeable blocks: Init chooses root and end, no   *)
(* definition names a block.                                               *)
(***************************************************************************)
EXTENDS BlockGraph, TLC

BlockSymmetry == Permutations(Blocks)
=============================================================================

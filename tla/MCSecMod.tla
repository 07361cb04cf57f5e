------------------------------ MODULE MCSecMod ------------------------------
(***************************************************************************)
(* Instances of SecMod for TLC.                                            *)
(***************************************************************************)
EXTENDS SecMod, TLC

SidSymmetry == Permutations(Sids)
=============================================================================

-------------------------- MODULE MCBlockedRanges --------------------------
(* A small instance of BlockedRanges for TLC. *)
EXTENDS BlockedRanges, TLC

SourceSymmetry == Permutations(Sources)
=============================================================================

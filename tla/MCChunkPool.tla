---------------------------- MODULE MCChunkPool ----------------------------
(* Small instances of ChunkPool for TLC, in orders the allocator derives. *)
EXTENDS ChunkPoolLedger, PoolStats, TLC

Order == INSTANCE Permutation

\* ChunkPool takes an order that visits everything for granted.
ASSUME OrdersAssumption == Order!OrdersVisitEverything

\* Two virtual chunks in the order 1, 0.
Count2 == [p \in Puzzles |-> 2]
Perm2 == [p \in Puzzles |-> Order!AffineOrder(2, 1, 1)]

\* Five virtual chunks in the order 0, 2, 4, 1, 3, so that the two left after the anchors
\* (2, 0, 4) come last, and four probes see only one of them; beside a legacy puzzle of
\* three keys, in a sector of one and a sector of two.
CountFiveThree == 1 :> 5 @@ 2 :> 3
PermFiveThree == 1 :> Order!AffineOrder(5, 2, 0) @@ 2 :> Order!AffineOrder(3, 1, 0)

\* Enough rows for one puzzle to be used up.
FourRows == Len(chunks) <= 4

Count1 == [p \in Puzzles |-> 1]
Perm1 == [p \in Puzzles |-> Order!AffineOrder(1, 1, 0)]

NoTestRanges == {}
NoImports == {}

\* One test range equals a job the allocator may issue, one equals none.
TestRangesOnOff == {<<0, 1>>, <<5, 7>>}

ImportsSome == {{0}}
\* The inner virtual chunks, which leaves room for runs of one at both ends; all of them.
ImportsInnerAll == {1 .. 3, 0 .. 4}

WorkerSymmetry == Permutations(Workers)
=============================================================================

--------------------------- MODULE MCPoolRestart ---------------------------
(* Small instances of PoolRestart for TLC. *)
EXTENDS PoolRestart, TLC

\* A single virtual chunk.
Count1 == [p \in Puzzles |-> 1]
Perm1 == [p \in Puzzles |-> 0 :> 0]

NoImports == {}

\* The test range equals a job the allocator may issue.
TestRangeOn == {<<0, 1>>}

\* Two rows are enough for a job, its issue again and a test chunk beside it.
TwoRows == Len(chunks) <= 2

WorkerSymmetry == Permutations(Workers)
=============================================================================

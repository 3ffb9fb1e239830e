------------------------ MODULE MCChunkPoolProgress ------------------------
(* Small instances of ChunkPoolProgress for TLC. *)
EXTENDS ChunkPoolProgress, TLC

\* Two virtual chunks, visited in the order 1, 0.
Count2 == [p \in Puzzles |-> 2]
Perm2 == [p \in Puzzles |-> 0 :> 1 @@ 1 :> 0]

NoTestRanges == {}
ImportsSome == {{0}}
=============================================================================

----------------------- MODULE MCVisualizationCache -----------------------
(* Small instances of VisualizationCache for TLC. *)
EXTENDS VisualizationCache, TLC

\* Puzzles of a single virtual chunk.
Count1 == [p \in Puzzles |-> 1]
Perm1 == [p \in Puzzles |-> 0 :> 0]

NoTestRanges == {}
NoImports == {}
ImportsSome == {{0}}

=============================================================================

-------------------------- MODULE MCPuzzleRegistry --------------------------
(* Small instances of PuzzleRegistry for TLC. *)
EXTENDS PuzzleRegistry

Body(strategy, seed, size) ==
    [name |-> "A", range |-> 3, strategy |-> strategy, seed |-> seed, size |-> size]

\* One name; the default size, another one, one above the range, and a legacy
\* puzzle, each with the derived seed or the admin's.
Bodies ==
    {Body(Vchunks, seed, size) : seed \in {"", "mine"}, size \in {0, 1, 5}}
        \cup {Body(Legacy, "", 0)}

FallbackPuzzle == [name |-> "Puzzle #71", range |-> 4]

\* The option on and off; one configured keyspace and none.
AllConfigs ==
    [reseed : BOOLEAN, keyspaces : {<<>>, <<[name |-> "A", range |-> 3]>>}]
=============================================================================

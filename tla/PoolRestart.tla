---------------------------- MODULE PoolRestart ----------------------------
(***************************************************************************)
(* ChunkPool with a server that dies and comes back.  The database is all  *)
(* that survives, so a crash shows only where a handler commits more than  *)
(* once, or writes a file after it committed:                              *)
(*   - /submit clears the test range, and appends the new findings to      *)
(*     BINGO_FOUND_KEYS.txt, after its transaction;                        *)
(*   - /work notes that the worker was seen before it releases the jobs    *)
(*     the worker lost by being away.                                      *)
(* Between two commits of one handler nobody else runs (PoolService::mu_), *)
(* so a crash there is one action: the commits made, then the restart.     *)
(* What dies is the process: everything committed is there at the restart. *)
(* With WAL and synchronous=NORMAL (db.cpp) a power loss may also take the *)
(* last commits away; that is not modelled.                                *)
(*                                                                         *)
(* A restart runs PoolDb::migrate and the PoolService constructor.  With   *)
(* one active puzzle and seeded puzzles the constructor changes nothing;   *)
(* migrate does: it marks as test every row whose range is the test range  *)
(* of its puzzle.                                                          *)
(***************************************************************************)
EXTENDS ChunkPool

CONSTANT MaxRestarts   \* bound on the number of restarts

ASSUME MaxRestartsAssumption == MaxRestarts \in Nat

VARIABLES
    bingo,     \* the lines <<chunk_id, worker_name, found_key>> of the file
    issued,    \* history: the rows the allocator inserted as normal jobs
    restarts   \* how often the server came back

restartVars == <<vars, bingo, issued, restarts>>

-----------------------------------------------------------------------------
\* Deviation: the migration opens the rows it marks as test again.
MigratedReopening(tbl) ==
    [i \in DOMAIN tbl |->
        IF ~tbl[i].isTest /\ <<tbl[i].lo, tbl[i].hi>> = testRange[tbl[i].puzzle]
        THEN [tbl[i] EXCEPT !.isTest = TRUE, !.status = "reclaimed"]
        ELSE tbl[i]]

\* PoolDb::migrate on start: UPDATE chunks SET is_test = 1 WHERE ...
Migrated(tbl) ==
    [i \in DOMAIN tbl |->
        [tbl[i] EXCEPT !.isTest =
            @ \/ <<tbl[i].lo, tbl[i].hi>> = testRange[tbl[i].puzzle]]]

\* The server is up again on the table the last commit left.
StartOn(tbl) ==
    /\ restarts < MaxRestarts
    /\ restarts' = restarts + 1
    /\ chunks' = Migrated(tbl)
    /\ UNCHANGED <<puzzleVars, issued>>

Restart ==
    /\ StartOn(chunks)
    /\ UNCHANGED <<lastSeen, findings, bingo>>

\* Died in /work, after the worker row was written: before or after the jobs
\* of a reactivating worker are released.
DieInWork(w) ==
    /\ StartOn(chunks) \/ StartOn(TableFor(w))
    /\ lastSeen' = [lastSeen EXCEPT ![w] = 0]
    /\ UNCHANGED <<findings, bingo>>

\* Died in submitDone before clearTestChunkIfNeeded.
DieAfterDone(w, i) ==
    /\ i \in AssignedTo(chunks, w)
    /\ StartOn([chunks EXCEPT ![i] = Complete(chunks[i])])
    /\ UNCHANGED <<lastSeen, findings, bingo>>

\* Deviation: the chunk row and the findings are committed apart.
DieBeforeFindings(w, i, primary, keys) ==
    /\ FoundAccepted(w, i, primary)
    /\ StartOn([chunks EXCEPT ![i] = FoundRow(w, i, primary)])
    /\ UNCHANGED <<lastSeen, findings, bingo>>

\* Deviation: the lines are appended before the transaction.
DieBeforeCommit(w, i, primary, keys) ==
    /\ FoundAccepted(w, i, primary)
    /\ StartOn(chunks)
    /\ bingo' = bingo \cup Recorded(i, w, keys)
    /\ UNCHANGED <<lastSeen, findings>>

\* Died in submitFound after the transaction, with some of the new lines
\* appended.
DieAfterFound(w, i, primary, keys) ==
    /\ FoundAccepted(w, i, primary)
    /\ StartOn([chunks EXCEPT ![i] = FoundRow(w, i, primary)])
    /\ findings' = Recorded(i, w, keys)
    /\ \E lines \in SUBSET (findings' \ findings) : bingo' = bingo \cup lines
    /\ UNCHANGED lastSeen

-----------------------------------------------------------------------------
RestartInit == Init /\ bingo = {} /\ issued = {} /\ restarts = 0

NormalRowsAdded ==
    {i \in Rows(chunks') \ Rows(chunks) : ~chunks'[i].isTest}

\* A handler that ends appends a line for every finding it inserted.
Handler ==
    /\ Next
    /\ bingo' = bingo \cup (findings' \ findings)
    /\ issued' = issued \cup NormalRowsAdded
    /\ UNCHANGED restarts

Crash ==
    \/ Restart
    \/ \E w \in Workers :
          \/ DieInWork(w)
          \/ \E i \in Rows(chunks) : DieAfterDone(w, i)
          \/ \E i \in Rows(chunks), keys \in SUBSET Keys : \E primary \in keys :
                DieAfterFound(w, i, primary, keys)

RestartNext == Handler \/ Crash

RestartSpec == RestartInit /\ [][RestartNext]_restartVars
-----------------------------------------------------------------------------
(* What restarts and crashes must not change *)

\* A finished chunk keeps its status, the worker it is credited to and its
\* key over any number of crashes and restarts, wherever a handler died; the
\* migration may only change whether the row counts as a test chunk.
ResultsSurviveRestart ==
    [][\A i \in Rows(chunks) :
         chunks[i].status \in {"completed", "FOUND"} =>
             /\ i \in Rows(chunks')
             /\ chunks'[i].status = chunks[i].status
             /\ chunks'[i].worker = chunks[i].worker
             /\ chunks'[i].key = chunks[i].key]_chunks

\* The file never shows a key that the database lost: lines are written only
\* after the findings are committed.
BingoOnlyCommitted == bingo \subseteq findings

\* "No job overlaps possible" (docs/architecture-review.md, I4): two jobs the
\* allocator issued for a puzzle never share a virtual chunk.
IssuedJobsDisjoint ==
    \A i, j \in issued :
        (i # j /\ chunks[i].puzzle = chunks[j].puzzle) =>
            RunOf(chunks[i]) \cap RunOf(chunks[j]) = {}

=============================================================================

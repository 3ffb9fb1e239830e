----------------------------- MODULE PoolStats -----------------------------
(***************************************************************************)
(* What /stats says of the chunk table: PoolService::buildStats, for a     *)
(* puzzle of virtual chunks.  The dashboard's numbers come from several    *)
(* queries, each with its own idea of which rows count, and they add up    *)
(* only because of what the handlers keep true of the table.               *)
(***************************************************************************)
EXTENDS ChunkPool

Pick(T) == CHOOSE x \in T : TRUE

\* The sum of f over a finite set.
SumOver(f, S) ==
    LET sum[T \in SUBSET S] ==
            IF T = {} THEN 0 ELSE f[Pick(T)] + sum[T \ {Pick(T)}]
    IN  sum[S]

\* Deviation: found jobs are not completed ones.
IsCompletedOnly(c) == c.status = "completed"

IsDone(c) == c.status \in {"completed", "FOUND"}

\* completed_chunks.
CompletedRows(p) == {i \in NormalRows(chunks, p) : IsDone(chunks[i])}

\* scores: worker_name IS NOT NULL, whether or not there is such a worker.
ScoredRows(p) ==
    {i \in NormalRows(chunks, p) :
        chunks[i].status \in {"completed", "FOUND"} /\ chunks[i].worker # NoWorker}
ScoreRows(p, w) == {i \in ScoredRows(p) : chunks[i].worker = w}

\* One score for each name in these rows.
Scorers(p) == {chunks[i].worker : i \in ScoredRows(p)}

Keyspan(S) == SumOver([i \in S |-> chunks[i].hi - chunks[i].lo], S)

\* total_keys_completed, a plain sum (in virtual chunks).
TotalKeysCompleted(p) == Keyspan(ScoredRows(p))

\* virtual_chunks: total, started_vchunks, completed_vchunks.
VcTotal(p) == VchunkCount[p]
VcStarted(p) == Keyspan(NormalRows(chunks, p))
VcCompleted(p) == Keyspan(CompletedRows(p))

\* finders: findings joined with the chunks that are no test chunks.
Finders(p) == {f \in findings : f[1] \in NormalRows(chunks, p)}

\* The workers listed: seen within the timeout, and in some row of the puzzle, be it
\* only as the worker before.
VisibleWorkers(p) ==
    {w \in Workers :
        /\ lastSeen[w] # NoWorker
        /\ lastSeen[w] <= TimeoutMinutes
        /\ \E i \in Rows(chunks) :
              chunks[i].puzzle = p /\ w \in {chunks[i].worker, chunks[i].prev}}

\* The rows workerAssignedMap is filled from; the last one read is shown as
\* current_chunk of w.
CurrentChunks(p, w) ==
    {i \in NormalRows(chunks, p) : i \in AssignedTo(chunks, w)}

-----------------------------------------------------------------------------
(* Properties. *)

\* The dashboard's totals agree although they are counted separately: the scores
\* make up the completed chunks, the summed keys are the keys really covered ("the
\* allocator guarantees non-overlapping chunks", service_stats.cpp:186), and no more
\* is completed than started, nor started than there is.
StatsAddUp ==
    \A p \in Puzzles \ LegacyPuzzles :
        /\ SumOver([w \in Scorers(p) |-> Cardinality(ScoreRows(p, w))], Scorers(p))
              = Cardinality(CompletedRows(p))
        /\ TotalKeysCompleted(p)
              = Cardinality(UNION {RunOf(chunks[i]) : i \in ScoredRows(p)})
        /\ TotalKeysCompleted(p) = VcCompleted(p)
        /\ VcCompleted(p) <= VcStarted(p)
        /\ VcStarted(p) <= VcTotal(p)
        /\ {f[1] : f \in Finders(p)} \subseteq CompletedRows(p)

\* A job that is not due for reclaim is shown as the current chunk of its worker:
\* the worker is still listed, since nothing refreshes a job without refreshing the
\* worker, and no second job of it hides the first in workerAssignedMap.
LiveJobsShown ==
    \A p \in Puzzles : \A i \in NormalRows(chunks, p) :
        (chunks[i].status = "assigned" /\ chunks[i].age <= TimeoutMinutes) =>
            /\ chunks[i].worker \in VisibleWorkers(p)
            /\ CurrentChunks(p, chunks[i].worker) = {i}

=============================================================================

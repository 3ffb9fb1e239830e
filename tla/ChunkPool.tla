----------------------------- MODULE ChunkPool -----------------------------
(***************************************************************************)
(* The chunk table of the pool and every handler that changes it: /work,   *)
(* /heartbeat, /submit, the reclaimer, and the admin handlers that switch  *)
(* the active puzzle, set the test chunk and import blocked ranges.        *)
(*                                                                         *)
(* Every handler runs under the unique lock of PoolService::mu_ from its   *)
(* first read to its last write, so each is one action.  PoolRestart adds  *)
(* what a crash inside a handler and a restart do.                         *)
(*                                                                         *)
(* Abstractions.  A key range is measured in virtual chunks of its puzzle  *)
(* (virtual_chunk_size_keys = 1, start_hex = 0).  The clock is the age, in *)
(* minutes, of each timestamp the code compares with it: an age counts up  *)
(* with Tick and stops one past the timeout, where no comparison can tell  *)
(* it from a larger one.  The worker's hashrate, min_chunk_keys and        *)
(* chunk_quantum_keys appear only as the run length it is entitled to.     *)
(* Puzzles have been seeded, so that ensureAllocatorForPuzzle finds        *)
(* nothing to do (PuzzleRegistry has the seeding).  A puzzle of the legacy *)
(* strategy is measured in keys, as if each were a virtual chunk.          *)
(***************************************************************************)
EXTENDS VchunkAllocator, SectorAllocator, Sequences

CONSTANTS
    Workers,         \* worker names
    Puzzles,         \* rows of the puzzles table
    LegacyPuzzles,   \* those of the legacy_random_shards_v1 strategy
    VchunkCount,     \* [Puzzles -> Nat]: virtual_chunk_count_hex, or the keys
                     \* of a legacy puzzle
    Perm,            \* [Puzzles -> permutation of 0..VchunkCount[p]-1]
    MaxRun,          \* longest run a worker's hashrate can ask for
    TimeoutMinutes,  \* cfg.timeoutMinutes
    Keys,            \* private keys a worker may report
    TestRanges,      \* key ranges an admin may set as the test chunk
    ImportSets,      \* sets of virtual chunks an admin may import as blocked
    MaxTestChunks,   \* bound: no new test range once this many test rows exist
    NoWorker, NoKey, NoRange   \* SQL NULL in the three columns

ReactivateMinutes == TimeoutMinutes

Vchunks(p) == 0 .. (VchunkCount[p] - 1)

ASSUME PuzzlesAssumption ==
    /\ Puzzles \subseteq Nat
    /\ LegacyPuzzles \subseteq Puzzles
    /\ \A p \in Puzzles : /\ VchunkCount[p] \in Nat \ {0}
                          /\ Perm[p] \in [Vchunks(p) -> Vchunks(p)]

ASSUME ScalarsAssumption ==
    /\ MaxRun \in Nat \ {0}
    /\ TimeoutMinutes \in Nat
    /\ MaxTestChunks \in Nat
    /\ TestRanges \subseteq Nat \X Nat
    /\ ImportSets \subseteq SUBSET Nat

ASSUME NullsAssumption ==
    /\ NoWorker \notin Workers \cup Nat   \* Nat: last_seen may be NULL too
    /\ NoKey \notin Keys
    /\ NoRange \notin TestRanges

VARIABLES
    chunks,     \* the chunks table; the row id is the index
    lastSeen,   \* age of workers.last_seen, or NoWorker without a row
    active,     \* the puzzle with active = 1
    testRange,  \* per puzzle, test_start_hex and test_end_hex
    cursor,     \* per puzzle, alloc_cursor_hex
    stage,      \* per puzzle, bootstrap_stage
    reached,    \* per legacy puzzle and sector, current_hex
    blocked,    \* per puzzle, the virtual chunks of blocked_vchunk_ranges
    findings    \* rows <<chunk_id, worker_name, found_key>> of findings

puzzleVars == <<active, testRange, cursor, stage, reached, blocked>>
vars == <<chunks, lastSeen, puzzleVars, findings>>

-----------------------------------------------------------------------------
(* Types *)

Statuses == {"assigned", "reclaimed", "completed", "FOUND"}
Ages == 0 .. (TimeoutMinutes + 1)

Chunk == [puzzle : Puzzles,
          lo     : Nat,               \* the run is [lo, hi)
          hi     : Nat,
          isTest : BOOLEAN,
          status : Statuses,
          worker : Workers \cup {NoWorker},
          prev   : Workers \cup {NoWorker},
          age    : Ages,              \* of heartbeat_at, while assigned
          key    : Keys \cup {NoKey}]

\* Rows and columns keep their types.  The stage of a puzzle never passes 3
\* and its cursor is always a position of the permutation.
TypeOK ==
    /\ chunks \in Seq(Chunk)
    /\ lastSeen \in [Workers -> Ages \cup {NoWorker}]
    /\ active \in Puzzles
    /\ testRange \in [Puzzles -> TestRanges \cup {NoRange}]
    /\ cursor \in [Puzzles -> Nat]
    /\ \A p \in Puzzles : cursor[p] \in Vchunks(p)
    /\ stage \in [Puzzles -> 0 .. 3]
    /\ reached \in [LegacyPuzzles ->
                      UNION {[Sectors(VchunkCount[p]) -> Nat] : p \in LegacyPuzzles}]
    /\ \A p \in LegacyPuzzles : DOMAIN reached[p] = Sectors(VchunkCount[p])
    /\ blocked \in [Puzzles -> SUBSET Nat]
    /\ findings \in SUBSET (Nat \X Workers \X Keys)

-----------------------------------------------------------------------------
(* The chunk table *)

Rows(tbl) == DOMAIN tbl

RunOf(c) == c.lo .. (c.hi - 1)

NewChunk(p, lo, hi, isTest, w) ==
    [puzzle |-> p, lo |-> lo, hi |-> hi, isTest |-> isTest,
     status |-> "assigned", worker |-> w, prev |-> NoWorker,
     age |-> 0, key |-> NoKey]

\* Deviation: prev_worker_name is not written.
ReleaseForgetful(c) ==
    [c EXCEPT !.status = "reclaimed", !.worker = NoWorker, !.age = 0]

\* The UPDATE ... SET status = 'reclaimed' that four handlers share.
Release(c) ==
    [c EXCEPT !.status = "reclaimed", !.prev = c.worker, !.worker = NoWorker,
              !.age = 0]

Released(tbl, S) ==
    [i \in DOMAIN tbl |-> IF i \in S THEN Release(tbl[i]) ELSE tbl[i]]

\* A reclaimed row is handed out again; prev_worker_name stays.
Grant(c, w) == [c EXCEPT !.status = "assigned", !.worker = w, !.age = 0]

Granted(tbl, i, w) == [tbl EXCEPT ![i] = Grant(tbl[i], w)]

Complete(c) == [c EXCEPT !.status = "completed", !.age = 0]

AssignedTo(tbl, w) ==
    {i \in Rows(tbl) : tbl[i].worker = w /\ tbl[i].status = "assigned"}

NormalRows(tbl, p) == {i \in Rows(tbl) : tbl[i].puzzle = p /\ ~tbl[i].isTest}

TestRows(tbl, p, status) ==
    {i \in Rows(tbl) : /\ tbl[i].puzzle = p
                       /\ tbl[i].isTest
                       /\ <<tbl[i].lo, tbl[i].hi>> = testRange[p]
                       /\ tbl[i].status = status}

\* Every normal row occupies its run, whatever its status.
Occupied(tbl, p) == UNION {RunOf(tbl[i]) : i \in NormalRows(tbl, p)}

\* Deviation: the blocked ranges are forgotten.
TakenUnblocked(tbl, p) == Occupied(tbl, p)

Taken(tbl, p) == Occupied(tbl, p) \cup blocked[p]

-----------------------------------------------------------------------------
(* /work: PoolService::handleWork, WorkService::assignWork *)

Inactive(w) == lastSeen[w] # NoWorker /\ lastSeen[w] > ReactivateMinutes

\* Deviation: a returning worker loses its finished jobs too.
TableLosingResults(w) ==
    IF Inactive(w)
    THEN Released(chunks, {i \in Rows(chunks) : chunks[i].worker = w})
    ELSE chunks

\* A worker away for too long loses every job it holds before it gets one.
TableFor(w) ==
    IF Inactive(w) THEN Released(chunks, AssignedTo(chunks, w)) ELSE chunks

\* Deviation: a job past its timeout is not seen as held.
HasFreshJob(w, tbl) ==
    \E i \in AssignedTo(tbl, w) :
        tbl[i].puzzle = active /\ tbl[i].age <= TimeoutMinutes

HasJob(w, tbl) == \E i \in AssignedTo(tbl, w) : tbl[i].puzzle = active

\* Deviation: nobody looks whether the test chunk is out already.
TestChunkAlwaysOffered(tbl) == testRange[active] # NoRange

TestChunkOffered(tbl) ==
    testRange[active] # NoRange /\ TestRows(tbl, active, "assigned") = {}

\* Deviation: a job past its timeout is handed on without being reclaimed.
ReclaimableOrStale(tbl) ==
    {i \in NormalRows(tbl, active) :
        \/ tbl[i].status = "reclaimed"
        \/ tbl[i].status = "assigned" /\ tbl[i].age > TimeoutMinutes}

Reclaimable(tbl) ==
    {i \in NormalRows(tbl, active) : tbl[i].status = "reclaimed"}

ReturnExisting(w, tbl) ==
    /\ HasJob(w, tbl)
    /\ chunks' = tbl
    /\ UNCHANGED <<cursor, stage, reached>>

ReissueTestChunk(w, tbl) ==
    /\ ~HasJob(w, tbl)
    /\ TestChunkOffered(tbl)
    /\ \E i \in TestRows(tbl, active, "reclaimed") : chunks' = Granted(tbl, i, w)
    /\ UNCHANGED <<cursor, stage, reached>>

IssueTestChunk(w, tbl) ==
    /\ ~HasJob(w, tbl)
    /\ TestChunkOffered(tbl)
    /\ TestRows(tbl, active, "reclaimed") = {}
    /\ chunks' = Append(tbl, NewChunk(active, testRange[active][1],
                                      testRange[active][2], TRUE, w))
    /\ UNCHANGED <<cursor, stage, reached>>

\* The oldest reclaimed job; a reactivating worker is not offered one.
ReissueReclaimed(w, tbl) ==
    /\ ~HasJob(w, tbl)
    /\ ~TestChunkOffered(tbl)
    /\ ~Inactive(w)
    /\ \E i \in Reclaimable(tbl) :
          /\ \A j \in Reclaimable(tbl) : i <= j
          /\ chunks' = Granted(tbl, i, w)
    /\ UNCHANGED <<cursor, stage, reached>>

NeedsFreshRun(w, tbl) ==
    /\ ~HasJob(w, tbl)
    /\ ~TestChunkOffered(tbl)
    /\ Inactive(w) \/ Reclaimable(tbl) = {}

NeedsVchunks(w, tbl) == NeedsFreshRun(w, tbl) /\ active \notin LegacyPuzzles

NeedsKeys(w, tbl) == NeedsFreshRun(w, tbl) /\ active \in LegacyPuzzles

InsertRun(w, tbl, lo, n) ==
    chunks' = Append(tbl, NewChunk(active, lo, lo + n, FALSE, w))

Bootstrapping(tbl) ==
    Cardinality(NormalRows(tbl, active)) < 3 /\ stage[active] < 3

FreeAnchors(tbl, n) ==
    AnchorHits(stage[active], VchunkCount[active], Taken(tbl, active), n)

FreeProbes(tbl, n) ==
    ProbeHits(Perm[active], VchunkCount[active], cursor[active],
              Taken(tbl, active), n)

Needed(requested) == Smaller(requested, VchunkCount[active])

\* Both searches insert the longest run, up to the length needed, that they
\* can place at all, at the first place in their order.
IssueAnchor(w, tbl, requested) ==
    /\ NeedsVchunks(w, tbl)
    /\ Bootstrapping(tbl)
    /\ \E n \in 1 .. Needed(requested) : \E k \in FreeAnchors(tbl, n) :
          /\ \A longer \in (n + 1) .. Needed(requested) : FreeAnchors(tbl, longer) = {}
          /\ \A other \in FreeAnchors(tbl, n) : k <= other
          /\ InsertRun(w, tbl, AnchorStart(stage[active], VchunkCount[active], n, k), n)
    /\ stage' = [stage EXCEPT ![active] = @ + 1]
    /\ UNCHANGED <<cursor, reached>>

NoAnchor(tbl, requested) ==
    Bootstrapping(tbl) =>
        \A n \in 1 .. Needed(requested) : FreeAnchors(tbl, n) = {}

IssueProbed(w, tbl, requested) ==
    /\ NeedsVchunks(w, tbl)
    /\ NoAnchor(tbl, requested)
    /\ \E n \in 1 .. Needed(requested) : \E o \in FreeProbes(tbl, n) :
          /\ \A longer \in (n + 1) .. Needed(requested) : FreeProbes(tbl, longer) = {}
          /\ \A other \in FreeProbes(tbl, n) : o <= other
          /\ InsertRun(w, tbl,
                ProbeStart(Perm[active], VchunkCount[active], cursor[active], n, o), n)
          /\ cursor' = [cursor EXCEPT ![active] =
                            NextCursor(VchunkCount[active], @, o)]
    /\ stage' = [stage EXCEPT ![active] = 3]
    /\ UNCHANGED reached

\* assignLegacyRandomChunk: the next keys of one sector.
IssueKeys(w, tbl, requested) ==
    /\ NeedsKeys(w, tbl)
    /\ \E s \in OfferedSectors(VchunkCount[active], reached[active],
                                NormalRows(tbl, active) = {}) :
          LET lo == reached[active][s]
              hi == CutEnd(VchunkCount[active], lo, s, requested)
          IN  /\ InsertRun(w, tbl, lo, hi - lo)
              /\ reached' = [reached EXCEPT ![active][s] = hi]
    /\ UNCHANGED <<cursor, stage>>

NoVchunks(w, tbl, requested) ==
    /\ NeedsVchunks(w, tbl)
    /\ NoAnchor(tbl, requested)
    /\ \A n \in 1 .. Needed(requested) : FreeProbes(tbl, n) = {}

NoKeys(w, tbl) ==
    NeedsKeys(w, tbl) /\ OpenSectors(VchunkCount[active], reached[active]) = {}

Exhausted(w, tbl, requested) == NoVchunks(w, tbl, requested) \/ NoKeys(w, tbl)

\* Deviation: the stage the failed bootstrap has advanced is not rolled back.
NoWorkAdvancing(w, tbl, requested) ==
    /\ Exhausted(w, tbl, requested)
    /\ chunks' = tbl
    /\ stage' = IF NeedsVchunks(w, tbl) /\ Bootstrapping(tbl)
                THEN [stage EXCEPT ![active] = @ + 1] ELSE stage
    /\ UNCHANGED <<cursor, reached>>

\* "All keyspace has been assigned": the allocator's transaction rolls back,
\* a reactivation that came before it stays.
NoWork(w, tbl, requested) ==
    /\ Exhausted(w, tbl, requested)
    /\ chunks' = tbl
    /\ UNCHANGED <<cursor, stage, reached>>

Work(w, requested) ==
    /\ lastSeen' = [lastSeen EXCEPT ![w] = 0]
    /\ \/ ReturnExisting(w, TableFor(w))
       \/ ReissueTestChunk(w, TableFor(w))
       \/ IssueTestChunk(w, TableFor(w))
       \/ ReissueReclaimed(w, TableFor(w))
       \/ IssueAnchor(w, TableFor(w), requested)
       \/ IssueProbed(w, TableFor(w), requested)
       \/ IssueKeys(w, TableFor(w), requested)
       \/ NoWork(w, TableFor(w), requested)
    /\ UNCHANGED <<active, testRange, blocked, findings>>

-----------------------------------------------------------------------------
(* /heartbeat: WorkService::heartbeat.  Job 0 stands for an unknown id. *)

Refreshed(c) == [c EXCEPT !.age = 0]

\* Deviation: the worker's own row is left alone.
HeartbeatUnseen(w, i) ==
    /\ chunks' = IF i \in AssignedTo(chunks, w)
                 THEN [chunks EXCEPT ![i] = Refreshed(chunks[i])]
                 ELSE chunks
    /\ UNCHANGED <<lastSeen, puzzleVars, findings>>

Heartbeat(w, i) ==
    /\ lastSeen' = [lastSeen EXCEPT ![w] = 0]
    /\ chunks' = IF i \in AssignedTo(chunks, w)
                 THEN [chunks EXCEPT ![i] = Refreshed(chunks[i])]
                 ELSE chunks
    /\ UNCHANGED <<puzzleVars, findings>>

-----------------------------------------------------------------------------
(* The reclaimer thread and POST /admin/reclaim: reclaimTimedOutChunks *)

\* Deviation: the is_test filter is the wrong way round.
TimedOutTests ==
    {i \in Rows(chunks) : /\ chunks[i].status = "assigned"
                          /\ chunks[i].isTest
                          /\ chunks[i].age > TimeoutMinutes}

TimedOut ==
    {i \in Rows(chunks) : /\ chunks[i].status = "assigned"
                          /\ ~chunks[i].isTest
                          /\ chunks[i].age > TimeoutMinutes}

ReclaimTimedOut ==
    /\ TimedOut # {}
    /\ chunks' = Released(chunks, TimedOut)
    /\ UNCHANGED <<lastSeen, puzzleVars, findings>>

\* Deviation: an age never gets past the timeout.
OlderAtMost(age) == Smaller(age + 1, TimeoutMinutes)

Older(age) == Smaller(age + 1, TimeoutMinutes + 1)

Aged(c) == [c EXCEPT !.age = Older(c.age)]

Tick ==
    /\ chunks' = [i \in Rows(chunks) |->
                    IF chunks[i].status = "assigned"
                    THEN Aged(chunks[i])
                    ELSE chunks[i]]
    /\ lastSeen' = [w \in Workers |-> IF lastSeen[w] = NoWorker
                                      THEN NoWorker ELSE Older(lastSeen[w])]
    /\ UNCHANGED <<puzzleVars, findings>>

-----------------------------------------------------------------------------
(* /submit: SubmissionService::submitDone and submitFound *)

\* clearTestChunkIfNeeded, run after the submission is committed.
TestRangeAfter(i) ==
    LET c == chunks[i] IN
    IF c.isTest /\ testRange[c.puzzle] = <<c.lo, c.hi>>
    THEN [testRange EXCEPT ![c.puzzle] = NoRange]
    ELSE testRange

RefuseDone(w, i) ==
    /\ i \notin AssignedTo(chunks, w)
    /\ UNCHANGED vars

\* keys_scanned below the size of the chunk.
ReturnIncomplete(w, i) ==
    /\ i \in AssignedTo(chunks, w)
    /\ chunks' = Released(chunks, {i})
    /\ UNCHANGED <<lastSeen, puzzleVars, findings>>

AcceptDone(w, i) ==
    /\ i \in AssignedTo(chunks, w)
    /\ chunks' = [chunks EXCEPT ![i] = Complete(chunks[i])]
    /\ testRange' = TestRangeAfter(i)
    /\ UNCHANGED <<lastSeen, active, cursor, stage, reached, blocked, findings>>

SubmitDone(w, i) ==
    RefuseDone(w, i) \/ ReturnIncomplete(w, i) \/ AcceptDone(w, i)

\* COALESCE(found_key, primary)
FinalKey(c, primary) == IF c.key = NoKey THEN primary ELSE c.key

Recorded(i, w, keys) == findings \cup {<<i, w, k>> : k \in keys}

AlreadyRecorded(w, i, primary) == <<i, w, primary>> \in findings

\* Deviation: the late path accepts a finished chunk.
LateHolderAnyStatus(w, i) == chunks[i].prev = w

\* The late path: the chunk was taken from w, and is not finished since.
LateHolder(w, i) ==
    chunks[i].prev = w /\ chunks[i].status \in {"assigned", "reclaimed"}

FoundAccepted(w, i, primary) ==
    \/ i \in AssignedTo(chunks, w)
    \/ AlreadyRecorded(w, i, primary)
    \/ LateHolder(w, i)

\* Deviation: the late path does not credit the finder.
CreditNobody(c, w, primary) ==
    [c EXCEPT !.status = "FOUND", !.key = FinalKey(c, primary), !.age = 0]

Credit(c, w, primary) ==
    [c EXCEPT !.status = "FOUND", !.worker = w, !.key = FinalKey(c, primary),
              !.age = 0]

\* The row after an accepted FOUND; a repeated one leaves it as it is.
FoundRow(w, i, primary) ==
    IF i \in AssignedTo(chunks, w) \/ ~AlreadyRecorded(w, i, primary)
    THEN Credit(chunks[i], w, primary)
    ELSE chunks[i]

AcceptFound(w, i, primary, keys) ==
    /\ FoundAccepted(w, i, primary)
    /\ chunks' = [chunks EXCEPT ![i] = FoundRow(w, i, primary)]
    /\ findings' = Recorded(i, w, keys)
    /\ testRange' = TestRangeAfter(i)
    /\ UNCHANGED <<lastSeen, active, cursor, stage, reached, blocked>>

RefuseFound(w, i, primary) ==
    /\ ~FoundAccepted(w, i, primary)
    /\ UNCHANGED vars

SubmitFound(w, i, primary, keys) ==
    AcceptFound(w, i, primary, keys) \/ RefuseFound(w, i, primary)

-----------------------------------------------------------------------------
(* The admin handlers *)

ActivatePuzzle(p) ==
    /\ active' = p
    /\ UNCHANGED <<chunks, lastSeen, testRange, cursor, stage, reached, blocked,
                   findings>>

SetTestChunk(r) ==
    /\ r # NoRange =>
         Cardinality({i \in Rows(chunks) : chunks[i].isTest}) < MaxTestChunks
    /\ testRange' = [testRange EXCEPT ![active] = r]
    /\ UNCHANGED <<chunks, lastSeen, active, cursor, stage, reached, blocked,
                   findings>>

\* A legacy puzzle has no virtual chunks to block.
ImportRanges(p, S) ==
    /\ p \notin LegacyPuzzles
    /\ blocked' = [blocked EXCEPT ![p] = @ \cup (S \cap Vchunks(p))]
    /\ UNCHANGED <<chunks, lastSeen, active, testRange, cursor, stage, reached,
                   findings>>

-----------------------------------------------------------------------------
Init ==
    /\ chunks = <<>>
    /\ lastSeen = [w \in Workers |-> NoWorker]
    /\ active \in Puzzles /\ \A p \in Puzzles : active <= p
    /\ testRange = [p \in Puzzles |-> NoRange]
    /\ cursor = [p \in Puzzles |-> 0]
    /\ stage = [p \in Puzzles |-> 0]
    /\ reached = [p \in LegacyPuzzles |->
                    [s \in Sectors(VchunkCount[p]) |-> SectorStart(VchunkCount[p], s)]]
    /\ blocked = [p \in Puzzles |-> {}]
    /\ findings = {}

WorkerNext(w) ==
    \/ \E requested \in 1 .. MaxRun : Work(w, requested)
    \/ \E i \in Rows(chunks) \cup {0} : Heartbeat(w, i)
    \/ \E i \in Rows(chunks) : SubmitDone(w, i)
    \/ \E i \in Rows(chunks), keys \in SUBSET Keys : \E primary \in keys :
          SubmitFound(w, i, primary, keys)

AdminNext ==
    \/ \E p \in Puzzles : ActivatePuzzle(p)
    \/ \E r \in TestRanges \cup {NoRange} : SetTestChunk(r)
    \/ \E p \in Puzzles, S \in ImportSets : ImportRanges(p, S)

Next ==
    \/ \E w \in Workers : WorkerNext(w)
    \/ ReclaimTimedOut
    \/ Tick
    \/ AdminNext

Spec == Init /\ [][Next]_vars
-----------------------------------------------------------------------------
(* Safety *)

\* Two jobs of a puzzle never contain the same virtual chunk, whatever their
\* status: no key is handed out in two jobs, because the allocator avoids
\* every run it ever inserted (loadOccupiedRanges, rangeIsFree).
NoDoubleIssue ==
    \A p \in Puzzles : \A i, j \in NormalRows(chunks, p) :
        i # j => RunOf(chunks[i]) \cap RunOf(chunks[j]) = {}

\* Every job is a non-empty run inside its puzzle: shifting a run left at the
\* end of the keyspace and shrinking it never takes it out of bounds.
JobsInsideKeyspace ==
    \A p \in Puzzles : \A i \in NormalRows(chunks, p) :
        /\ chunks[i].lo < chunks[i].hi
        /\ RunOf(chunks[i]) \subseteq Vchunks(p)

\* A worker holds at most one job of each puzzle, so a repeated or retried
\* /work cannot collect jobs, even when the active puzzle changes and comes
\* back or the worker was away in between.
OneJobPerWorker ==
    \A w \in Workers : \A i, j \in AssignedTo(chunks, w) :
        chunks[i].puzzle = chunks[j].puzzle => i = j

\* A row has a worker unless it waits to be handed out again, and a row that
\* waits remembers who lost it: the late FOUND path depends on both columns.
LeaseShape ==
    \A i \in Rows(chunks) :
        /\ (chunks[i].worker = NoWorker) <=> (chunks[i].status = "reclaimed")
        /\ chunks[i].status = "reclaimed" => chunks[i].prev # NoWorker

\* The findings table and the chunk table agree: a chunk is FOUND exactly when
\* it has findings, all by the worker it is credited to, and the key in the
\* chunk row is one of them (two tables, written by three paths of /submit).
FindingsMatchChunks ==
    /\ \A f \in findings : /\ f[1] \in Rows(chunks)
                            /\ chunks[f[1]].status = "FOUND"
                            /\ chunks[f[1]].worker = f[2]
    /\ \A i \in Rows(chunks) :
          chunks[i].status = "FOUND" =>
              <<i, chunks[i].worker, chunks[i].key>> \in findings

\* While a puzzle bootstraps, its stage is the number of jobs it issued: anchors are
\* neither skipped nor repeated by reclaims and reissues, nor by a search that advanced
\* the stage, found nothing and was rolled back.
StageCountsJobs ==
    \A p \in Puzzles \ LegacyPuzzles :
        stage[p] < 3 => Cardinality(NormalRows(chunks, p)) = stage[p]

\* What is left of a sector of a legacy puzzle.
Left(p, s) == reached[p][s] .. (SectorEnd(VchunkCount[p], s) - 1)

SectorFree(tbl, p, s) ==
    /\ SectorStart(VchunkCount[p], s) <= reached[p][s]
    /\ reached[p][s] <= SectorEnd(VchunkCount[p], s)
    /\ \A i \in NormalRows(tbl, p) : RunOf(tbl[i]) \cap Left(p, s) = {}

\* The legacy allocator looks at no job when it cuts the next one: it relies on
\* current_hex alone, so what a sector has left must be in no job, whatever
\* became of the jobs cut from it, and nothing may ever be blocked in it.
SectorsFree ==
    \A p \in LegacyPuzzles :
        /\ blocked[p] = {}
        /\ \A s \in Sectors(VchunkCount[p]) : SectorFree(chunks, p, s)

\* At most one worker at a time is asked to scan the test range of a puzzle
\* ("Second worker should NOT receive the test chunk", docs/testing.md).
OneTestChunkOut ==
    \A p \in Puzzles : Cardinality(TestRows(chunks, p, "assigned")) <= 1

\* "All keyspace has been assigned" is said only when as many virtual chunks as the
\* search may probe are in jobs or blocked: all of them, unless the limit is below their
\* number; in a legacy puzzle always all.  It depends on the cursor, the permutation,
\* the fallback lengths and the limit.
ExhaustedMeansSearched ==
    \A w \in Workers, requested \in 1 .. MaxRun :
        Exhausted(w, TableFor(w), requested) =>
            Cardinality(Vchunks(active) \cap Taken(chunks, active)) >=
                IF active \in LegacyPuzzles THEN VchunkCount[active]
                ELSE Smaller(VchunkCount[active], MaxAllocProbes)

\* "server accepts FOUND if submitter matches prev_worker_name ... regardless
\* of current assignee" (docs/architecture.md): a worker whose job was handed
\* to somebody else can still report the key it found in it.
LateFoundHeard ==
    \A i \in Rows(chunks), k \in Keys :
        (chunks[i].prev # NoWorker /\ chunks[i].status \in {"assigned", "completed"}
            /\ chunks[i].worker # chunks[i].prev) =>
                FoundAccepted(chunks[i].prev, i, k)

-----------------------------------------------------------------------------
(* What a step may never do *)

\* A finished chunk is never touched again: no reclaim, no late or repeated
\* submission, no reissue changes a completed or FOUND row.
FinishedIsFinal ==
    [][\A i \in Rows(chunks) :
         chunks[i].status \in {"completed", "FOUND"} =>
             /\ i \in Rows(chunks')
             /\ chunks'[i] = chunks[i]]_chunks

\* A job never goes from one worker straight to another: it is reclaimed in
\* between, or ends as FOUND credited to the worker it was last taken from.
NoDirectHandover ==
    [][\A i \in Rows(chunks) :
         (chunks[i].status = "assigned" /\ chunks'[i].worker # chunks[i].worker) =>
             \/ /\ chunks'[i].status = "reclaimed"
                /\ chunks'[i].prev = chunks[i].worker
             \/ /\ chunks'[i].status = "FOUND"
                /\ chunks'[i].worker = chunks[i].prev]_chunks

\* A fresh job never contains a virtual chunk that was blocked when it was
\* issued, on the bootstrap path or on the probe path.
FreshJobsAvoidBlocked ==
    [][\A i \in Rows(chunks') \ Rows(chunks) :
         ~chunks'[i].isTest =>
             RunOf(chunks'[i]) \cap blocked[chunks'[i].puzzle] = {}]_chunks

=============================================================================

------------------------- MODULE VisualizationCache -------------------------
(***************************************************************************)
(* The cache of the heatmap, hilbert and allocator pictures                *)
(* (src/service_visualization.cpp, src/service.cpp), on top of ChunkPool.  *)
(*                                                                         *)
(* A request looks in the cache under the shared lock, reads the database  *)
(* without the lock (through a read-only connection of its own), and       *)
(* stores what it built under the unique lock if the revision of the       *)
(* puzzle did not change meanwhile; otherwise it starts over.  Handlers    *)
(* that change a puzzle raise its revision and drop its cache entry.       *)
(*                                                                         *)
(* A picture is abstracted to what it is drawn from: the status of every   *)
(* normal row and the blocked virtual chunks, read by two statements       *)
(* (loadVisualPoints).  A reader is never shown the middle of a handler    *)
(* here: only the path of /work that answers 503 commits more than once    *)
(* without raising a revision, and its last commit changes no row.         *)
(***************************************************************************)
EXTENDS ChunkPool

CONSTANTS
    Readers,      \* requests that can be under way at the same time
    Views,        \* "heatmap", "hilbert", "allocator"
    NoView,       \* a null picture
    MaxRevision   \* bound: a handler that invalidates waits below it

ASSUME CacheAssumption == MaxRevision \in Nat \ {0}

VARIABLES
    revision,   \* visRevisions_, 0 for a puzzle without an entry
    cache,      \* visCache_: per puzzle its revision and its pictures
    reader,     \* the requests under way
    recent      \* history: what each puzzle showed since its last invalidation

cacheVars == <<revision, cache, reader, recent>>
allVars == <<vars, cacheVars>>

Absent == [revision |-> 0, pic |-> [v \in Views |-> NoView]]

Idle == [at |-> "idle", puzzle |-> CHOOSE p \in Puzzles : TRUE,
         view |-> CHOOSE v \in Views : TRUE, revision |-> 0,
         rows |-> NoView, blocked |-> NoView]

\* What a picture of puzzle p is drawn from.
RowsShown(p) == [i \in NormalRows(chunks, p) |-> chunks[i].status]

Showing(p) == [rows |-> {RowsShown(p)}, blocked |-> {blocked[p]}]

\* Revisions start at 1, whoever asks first: visualizationRevisionLocked.
Revision(p) == IF revision[p] = 0 THEN 1 ELSE revision[p]

-----------------------------------------------------------------------------
(* The handlers of ChunkPool, with the invalidation each of them does *)

\* Deviation: the revision rises and the entry stays.
InvalidateKeeping(S) ==
    /\ \A p \in S : revision[p] < MaxRevision
    /\ revision' = [p \in Puzzles |->
                        IF p \in S THEN Revision(p) + 1 ELSE revision[p]]
    /\ UNCHANGED cache

\* invalidateVisualizationLocked for the puzzles S.
Invalidate(S) ==
    /\ \A p \in S : revision[p] < MaxRevision
    /\ revision' = [p \in Puzzles |->
                        IF p \in S THEN Revision(p) + 1 ELSE revision[p]]
    /\ cache' = [p \in Puzzles |-> IF p \in S THEN Absent ELSE cache[p]]

\* invalidateAllVisualizationsLocked: a puzzle nobody asked for only gets its
\* first revision.
InvalidateAll ==
    /\ \A p \in Puzzles : revision[p] < MaxRevision
    /\ revision' = [p \in Puzzles |-> revision[p] + 1]
    /\ cache' = [p \in Puzzles |-> Absent]

Quiet == UNCHANGED <<revision, cache>>

WorkHandler(w, requested) ==
    /\ Work(w, requested)
    /\ IF Exhausted(w, TableFor(w), requested) THEN Quiet ELSE Invalidate({active})

\* The incomplete submission returns before the invalidation.
SubmitHandler(w, i) ==
    \/ ReturnIncomplete(w, i) /\ Quiet
    \/ /\ RefuseDone(w, i) \/ AcceptDone(w, i)
       /\ Invalidate({chunks[i].puzzle})
    \/ \E keys \in SUBSET Keys : \E primary \in keys :
          /\ SubmitFound(w, i, primary, keys)
          /\ Invalidate({chunks[i].puzzle})

Handlers ==
    \/ \E w \in Workers :
          \/ \E requested \in 1 .. MaxRun : WorkHandler(w, requested)
          \/ \E i \in Rows(chunks) \cup {0} : Heartbeat(w, i) /\ Quiet
          \/ \E i \in Rows(chunks) : SubmitHandler(w, i)
    \/ ReclaimTimedOut /\ InvalidateAll
    \/ Tick /\ Quiet
    \/ \E p \in Puzzles : ActivatePuzzle(p) /\ Invalidate({p})
    \/ \E r \in TestRanges \cup {NoRange} : SetTestChunk(r) /\ Quiet
    \/ \E p \in Puzzles, S \in ImportSets : ImportRanges(p, S) /\ Invalidate({p})

\* A handler, as the pictures see it.
HandlerStep ==
    /\ Handlers
    /\ recent' = [p \in Puzzles |->
            IF revision'[p] # revision[p]
            THEN Showing(p)'
            ELSE [rows    |-> recent[p].rows \cup {RowsShown(p)'},
                  blocked |-> recent[p].blocked \cup {blocked'[p]}]]
    /\ UNCHANGED reader

-----------------------------------------------------------------------------
(* A request for one picture *)

Hit(p, v) == cache[p].revision = Revision(p) /\ cache[p].pic[v] # NoView

\* A hit answers at once and changes at most the missing revision.
Lookup(r, p, v) ==
    /\ reader[r].at = "idle"
    /\ revision' = [revision EXCEPT ![p] = Revision(p)]
    /\ reader' = IF Hit(p, v) THEN reader
                 ELSE [reader EXCEPT ![r] =
                        [at |-> "rows", puzzle |-> p, view |-> v,
                         revision |-> Revision(p),
                         rows |-> NoView, blocked |-> NoView]]
    /\ UNCHANGED <<vars, cache, recent>>

ReadRows(r) ==
    /\ reader[r].at = "rows"
    /\ reader' = [reader EXCEPT ![r].at = "blocked",
                                ![r].rows = RowsShown(reader[r].puzzle)]
    /\ UNCHANGED <<vars, revision, cache, recent>>

ReadBlocked(r) ==
    /\ reader[r].at = "blocked"
    /\ reader' = [reader EXCEPT ![r].at = "built",
                                ![r].blocked = blocked[reader[r].puzzle]]
    /\ UNCHANGED <<vars, revision, cache, recent>>

Built(r) == [rows |-> reader[r].rows, blocked |-> reader[r].blocked]

\* A picture somebody else stored meanwhile is kept.
Stored(entry, r) ==
    IF entry.revision = reader[r].revision /\ entry.pic[reader[r].view] # NoView
    THEN entry
    ELSE [revision |-> reader[r].revision,
          pic      |-> [entry.pic EXCEPT ![reader[r].view] = Built(r)]]

\* Back to the loop's start: the revision moved on.
Retry(r) ==
    /\ reader[r].at = "built"
    /\ revision[reader[r].puzzle] # reader[r].revision
    /\ reader' = [reader EXCEPT ![r] = Idle]
    /\ UNCHANGED <<vars, revision, cache, recent>>

Store(r) ==
    /\ reader[r].at = "built"
    /\ revision[reader[r].puzzle] = reader[r].revision
    /\ cache' = [cache EXCEPT ![reader[r].puzzle] = Stored(@, r)]
    /\ reader' = [reader EXCEPT ![r] = Idle]
    /\ UNCHANGED <<vars, revision, recent>>

ReaderStep(r) ==
    \/ \E p \in Puzzles, v \in Views : Lookup(r, p, v)
    \/ ReadRows(r)
    \/ ReadBlocked(r)
    \/ Retry(r)
    \/ Store(r)

-----------------------------------------------------------------------------
CacheInit ==
    /\ Init
    /\ revision = [p \in Puzzles |-> 0]
    /\ cache = [p \in Puzzles |-> Absent]
    /\ reader = [r \in Readers |-> Idle]
    /\ recent = [p \in Puzzles |-> Showing(p)]

CacheNext == HandlerStep \/ \E r \in Readers : ReaderStep(r)

CacheSpec == CacheInit /\ [][CacheNext]_allVars
-----------------------------------------------------------------------------
Pictures(p) ==
    {cache[p].pic[v] : v \in {u \in Views : cache[p].pic[u] # NoView}}

\* A picture that would be served was drawn entirely from states the puzzle
\* had since its last invalidation: a build that overlaps an invalidation is
\* never stored, and an old picture never comes back under a new revision
\* that another view of the same puzzle brought in.
ServedSinceInvalidation ==
    \A p \in Puzzles :
        cache[p].revision = Revision(p) =>
            \A pic \in Pictures(p) : /\ pic.rows \in recent[p].rows
                                     /\ pic.blocked \in recent[p].blocked

=============================================================================

---------------------- MODULE VisualizationCacheProofs ----------------------
(***************************************************************************)
(* Proof that the cache serves nothing older than the last invalidation,   *)
(* for any number of requests under way, any views and any revisions.  The *)
(* argument: an entry is either absent or of the current revision of its   *)
(* puzzle, and what a request has read so far is recent as long as the     *)
(* puzzle still has the revision the request began with (CacheInv).  A     *)
(* handler either invalidates a puzzle, which drops its entry and leaves   *)
(* every request behind the revision, or only adds to what is recent.      *)
(***************************************************************************)
EXTENDS VisualizationCache, TLAPS

-----------------------------------------------------------------------------
(* The inductive invariant *)

\* A request under way: a record whose revision its puzzle has or had.
UnderWay(x, rev) ==
    /\ x \in [at : {"rows", "blocked", "built"}, puzzle : Puzzles, view : Views,
              revision : Nat \ {0}, rows : {x.rows}, blocked : {x.blocked}]
    /\ x.revision <= rev[x.puzzle]

\* What it has read was shown since the last invalidation, if there was none since
\* it began.
ReadIsRecent(x, rev, rec) ==
    x.revision = rev[x.puzzle] =>
        /\ x.at \in {"blocked", "built"} => x.rows \in rec[x.puzzle].rows
        /\ x.at = "built" => x.blocked \in rec[x.puzzle].blocked

RequestOK(x, rev, rec) ==
    x.at # "idle" => UnderWay(x, rev) /\ ReadIsRecent(x, rev, rec)

ReadersOK ==
    /\ reader = [r \in Readers |-> reader[r]]
    /\ \A r \in Readers : RequestOK(reader[r], revision, recent)

IsEntry(e) == e = [revision |-> e.revision, pic |-> [v \in Views |-> e.pic[v]]]

\* An entry of a puzzle with revision rev and recent sources rec.
EntryOK(e, rev, rec) ==
    /\ IsEntry(e)
    /\ e = Absent \/ (e.revision = rev /\ rev > 0)
    /\ \A v \in Views :
          e.pic[v] # NoView => /\ e.pic[v].rows \in rec.rows
                               /\ e.pic[v].blocked \in rec.blocked

CacheInv ==
    /\ revision \in [Puzzles -> Nat]
    /\ cache = [p \in Puzzles |-> cache[p]]
    /\ \A p \in Puzzles : EntryOK(cache[p], revision[p], recent[p])
    /\ ReadersOK
    /\ \A p \in Puzzles : /\ RowsShown(p) \in recent[p].rows
                          /\ blocked[p] \in recent[p].blocked

-----------------------------------------------------------------------------
(* Handlers *)

\* What a handler does to the revision and the entry of a puzzle.
Untouched(p) == revision'[p] = revision[p] /\ cache'[p] = cache[p]

Invalidated(p) == revision'[p] > revision[p] /\ cache'[p] = Absent

LEMMA HandlerKinds ==
    ASSUME Handlers
    PROVE  Quiet \/ (\E S : Invalidate(S)) \/ InvalidateAll
<1>1. ASSUME NEW w \in Workers, NEW requested \in 1 .. MaxRun, WorkHandler(w, requested)
      PROVE  Quiet \/ \E S : Invalidate(S)
  BY <1>1 DEF WorkHandler
<1>2. ASSUME NEW w \in Workers, NEW i \in Rows(chunks), SubmitHandler(w, i)
      PROVE  Quiet \/ \E S : Invalidate(S)
  BY <1>2 DEF SubmitHandler
<1> QED
  BY <1>1, <1>2 DEF Handlers

LEMMA HandlerEffect ==
    ASSUME CacheInv, Handlers
    PROVE  /\ revision' \in [Puzzles -> Nat]
           /\ cache' = [p \in Puzzles |-> cache'[p]]
           /\ \A p \in Puzzles : Untouched(p) \/ Invalidated(p)
<1>1. CASE Quiet
  BY <1>1 DEF Quiet, Untouched, CacheInv
<1>2. ASSUME NEW S, Invalidate(S)
      PROVE  /\ revision' \in [Puzzles -> Nat]
             /\ cache' = [p \in Puzzles |-> cache'[p]]
             /\ \A p \in Puzzles : Untouched(p) \/ Invalidated(p)
  <2>1. \A p \in Puzzles : revision[p] \in Nat
    BY DEF CacheInv
  <2>2. \A p \in Puzzles : Revision(p) \in Nat /\ Revision(p) >= revision[p]
    BY <2>1 DEF Revision
  <2> QED
    BY <1>2, <2>1, <2>2 DEF Invalidate, Untouched, Invalidated
<1>3. CASE InvalidateAll
  BY <1>3 DEF InvalidateAll, Invalidated, CacheInv
<1> QED
  BY <1>1, <1>2, <1>3, HandlerKinds

\* The absent entry of a puzzle without pictures.
LEMMA AbsentEntry ==
    /\ Absent = [revision |-> Absent.revision,
                 pic |-> [v \in Views |-> Absent.pic[v]]]
    /\ \A v \in Views : Absent.pic[v] = NoView
    /\ Absent.revision = 0
BY DEF Absent

\* What was recent stays so, unless the puzzle was invalidated.
LEMMA RecentGrows ==
    ASSUME CacheInv, HandlerStep, NEW p \in Puzzles
    PROVE  /\ RowsShown(p)' \in recent'[p].rows /\ blocked'[p] \in recent'[p].blocked
           /\ revision'[p] = revision[p] =>
                 /\ recent[p].rows \subseteq recent'[p].rows
                 /\ recent[p].blocked \subseteq recent'[p].blocked
<1>1. recent'[p] = IF revision'[p] # revision[p] THEN Showing(p)'
                   ELSE [rows    |-> recent[p].rows \cup {RowsShown(p)'},
                         blocked |-> recent[p].blocked \cup {blocked'[p]}]
  BY DEF HandlerStep
<1>2. Showing(p)' = [rows |-> {RowsShown(p)'}, blocked |-> {blocked'[p]}]
  BY DEF Showing
<1> QED
  BY <1>1, <1>2

LEMMA HandlerKeeps ==
    ASSUME CacheInv, HandlerStep
    PROVE  CacheInv'
<1>1. /\ revision' \in [Puzzles -> Nat]
      /\ cache' = [p \in Puzzles |-> cache'[p]]
      /\ \A p \in Puzzles : Untouched(p) \/ Invalidated(p)
  BY HandlerEffect DEF HandlerStep
<1>2. reader' = reader
  BY DEF HandlerStep
<1>3. \A p \in Puzzles : revision[p] \in Nat /\ revision'[p] \in Nat
  BY <1>1 DEF CacheInv
<1>4. ASSUME NEW p \in Puzzles
      PROVE  EntryOK(cache'[p], revision'[p], recent'[p])
  <2>1. CASE Untouched(p)
    BY <2>1, RecentGrows DEF EntryOK, CacheInv, Untouched
  <2>2. CASE Invalidated(p)
    BY <2>2, AbsentEntry DEF EntryOK, IsEntry, Invalidated
  <2> QED
    BY <1>1, <2>1, <2>2
<1>5. ASSUME NEW r \in Readers, reader[r].at # "idle"
      PROVE  RequestOK(reader[r], revision', recent')
  <2> DEFINE x == reader[r]
  <2>1. UnderWay(x, revision) /\ ReadIsRecent(x, revision, recent)
    BY <1>5 DEF CacheInv, ReadersOK, RequestOK
  <2>3. x.puzzle \in Puzzles /\ x.revision \in Nat
    BY <2>1 DEF UnderWay
  <2> HIDE DEF x
  <2>4. CASE Untouched(x.puzzle)
    BY <2>1, <2>3, <2>4, RecentGrows DEF RequestOK, UnderWay, ReadIsRecent, Untouched, x
  <2>5. CASE Invalidated(x.puzzle)
    <3>1. x.revision < revision'[x.puzzle]
      BY <1>3, <2>1, <2>3, <2>5 DEF UnderWay, Invalidated
    <3> QED
      BY <1>3, <2>1, <2>3, <3>1 DEF RequestOK, UnderWay, ReadIsRecent, x
  <2> QED
    BY <1>1, <2>3, <2>4, <2>5
<1>6. ReadersOK'
  BY <1>2, <1>5 DEF ReadersOK, RequestOK, CacheInv
<1> QED
  BY <1>1, <1>4, <1>6, RecentGrows DEF CacheInv

-----------------------------------------------------------------------------
(* Requests *)

\* A request changes nothing that pictures are drawn from.
LEMMA SameSources ==
    ASSUME UNCHANGED vars
    PROVE  \A p \in Puzzles : RowsShown(p)' = RowsShown(p) /\ blocked'[p] = blocked[p]
BY DEF vars, puzzleVars, RowsShown, NormalRows, Rows

LEMMA LookupKeeps ==
    ASSUME CacheInv, NEW r \in Readers, NEW p \in Puzzles, NEW v \in Views,
           Lookup(r, p, v)
    PROVE  CacheInv'
<1>1. /\ revision' = [revision EXCEPT ![p] = Revision(p)]
      /\ UNCHANGED <<vars, cache, recent>>
  BY DEF Lookup
<1>2. Revision(p) \in Nat \ {0} /\ revision[p] \in Nat
      /\ (revision[p] > 0 => Revision(p) = revision[p])
  BY DEF Revision, CacheInv
<1>3. /\ revision' \in [Puzzles -> Nat]
      /\ \A q \in Puzzles : revision'[q] = revision[q]
                            \/ (revision[q] = 0 /\ revision'[q] > 0)
  BY <1>1, <1>2 DEF CacheInv
<1>4. ASSUME NEW q \in Puzzles
      PROVE  EntryOK(cache'[q], revision'[q], recent'[q])
  BY <1>1, <1>3 DEF EntryOK, CacheInv
<1> DEFINE n == Revision(p)
           x == [at |-> "rows", puzzle |-> p, view |-> v, revision |-> n,
                 rows |-> NoView, blocked |-> NoView]
<1>5. \/ reader' = reader
      \/ reader' = [reader EXCEPT ![r] = x]
  BY DEF Lookup
<1>6. RequestOK(x, revision', recent')
  <2>1. n \in Nat \ {0} /\ revision'[p] = n
    BY <1>1, <1>2 DEF CacheInv
  <2> HIDE DEF n
  <2> QED
    BY <2>1 DEF RequestOK, UnderWay, ReadIsRecent
<1> HIDE DEF x
<1>7. ASSUME NEW s \in Readers
      PROVE  RequestOK(reader[s], revision', recent')
  <2> DEFINE y == reader[s]
  <2> SUFFICES ASSUME y.at # "idle"
               PROVE  UnderWay(y, revision') /\ ReadIsRecent(y, revision', recent')
    BY DEF RequestOK
  <2>1. UnderWay(y, revision) /\ ReadIsRecent(y, revision, recent)
    BY DEF CacheInv, ReadersOK, RequestOK
  <2>2. y.puzzle \in Puzzles /\ y.revision \in Nat \ {0} /\ revision[y.puzzle] \in Nat
    BY <2>1 DEF UnderWay, CacheInv
  <2>3. revision'[y.puzzle] = revision[y.puzzle]
    BY <1>3, <2>1, <2>2 DEF UnderWay
  <2> QED
    BY <1>1, <2>1, <2>3 DEF UnderWay, ReadIsRecent
<1>8. ReadersOK'
  BY <1>5, <1>6, <1>7 DEF ReadersOK, CacheInv
<1> QED
  BY <1>1, <1>3, <1>4, <1>8, SameSources DEF CacheInv

\* A step that only moves one request on.
LEMMA ReaderMoves ==
    ASSUME CacheInv, UNCHANGED <<vars, revision, cache, recent>>,
           NEW r \in Readers, NEW x, reader' = [reader EXCEPT ![r] = x],
           RequestOK(x, revision, recent)
    PROVE  CacheInv'
<1>1. ReadersOK'
  BY DEF ReadersOK, CacheInv
<1> QED
  BY <1>1, SameSources DEF CacheInv

LEMMA ReadRowsKeeps ==
    ASSUME CacheInv, NEW r \in Readers, ReadRows(r)
    PROVE  CacheInv'
<1> DEFINE y == reader[r]
           shown == RowsShown(y.puzzle)
           x == [y EXCEPT !.at = "blocked", !.rows = shown]
<1>1. UnderWay(y, revision) /\ y.at = "rows"
  BY DEF ReadRows, CacheInv, ReadersOK, RequestOK
<1>2. shown \in recent[y.puzzle].rows
  BY <1>1 DEF CacheInv, UnderWay
<1>3. reader' = [reader EXCEPT ![r] = x] /\ UNCHANGED <<vars, revision, cache, recent>>
  BY DEF ReadRows, CacheInv, ReadersOK
<1> HIDE DEF shown, y
<1>4. RequestOK(x, revision, recent)
  BY <1>1, <1>2 DEF RequestOK, UnderWay, ReadIsRecent
<1> QED
  BY <1>3, <1>4, ReaderMoves

LEMMA ReadBlockedKeeps ==
    ASSUME CacheInv, NEW r \in Readers, ReadBlocked(r)
    PROVE  CacheInv'
<1> DEFINE y == reader[r]
           shown == blocked[y.puzzle]
           x == [y EXCEPT !.at = "built", !.blocked = shown]
<1>1. /\ UnderWay(y, revision) /\ ReadIsRecent(y, revision, recent)
      /\ y.at = "blocked"
  BY DEF ReadBlocked, CacheInv, ReadersOK, RequestOK
<1>2. shown \in recent[y.puzzle].blocked
  BY <1>1 DEF CacheInv, UnderWay
<1>3. reader' = [reader EXCEPT ![r] = x] /\ UNCHANGED <<vars, revision, cache, recent>>
  BY DEF ReadBlocked, CacheInv, ReadersOK
<1> HIDE DEF shown, y
<1>4. RequestOK(x, revision, recent)
  BY <1>1, <1>2 DEF RequestOK, UnderWay, ReadIsRecent
<1> QED
  BY <1>3, <1>4, ReaderMoves

LEMMA RetryKeeps ==
    ASSUME CacheInv, NEW r \in Readers, Retry(r)
    PROVE  CacheInv'
<1>1. RequestOK(Idle, revision, recent)
  BY DEF RequestOK, Idle
<1> QED
  BY <1>1, ReaderMoves DEF Retry

\* A picture is stored only under the revision it was read at, into an entry that is
\* absent or of that revision.
LEMMA StoreKeeps ==
    ASSUME CacheInv, NEW r \in Readers, Store(r)
    PROVE  CacheInv'
<1> DEFINE y == reader[r]
           p == y.puzzle
           entry == cache[p]
           new == [revision |-> y.revision,
                   pic      |-> [entry.pic EXCEPT ![y.view] = Built(r)]]
<1>1. /\ UnderWay(y, revision) /\ ReadIsRecent(y, revision, recent)
      /\ y.at = "built" /\ y.revision = revision[p]
  BY DEF Store, CacheInv, ReadersOK, RequestOK
<1>2. /\ p \in Puzzles /\ y.view \in Views /\ y.revision \in Nat \ {0}
      /\ Built(r) = [rows |-> y.rows, blocked |-> y.blocked]
      /\ y.rows \in recent[p].rows /\ y.blocked \in recent[p].blocked
  BY <1>1 DEF UnderWay, ReadIsRecent, Built
<1>3. /\ UNCHANGED <<vars, revision, recent>>
      /\ reader' = [reader EXCEPT ![r] = Idle]
      /\ cache' = [cache EXCEPT ![p] = entry] \/ cache' = [cache EXCEPT ![p] = new]
  BY DEF Store, Stored
<1>4. /\ EntryOK(entry, revision[p], recent[p])
      /\ entry.revision = y.revision \/ entry = Absent
  BY <1>1, <1>2 DEF CacheInv, EntryOK
<1> HIDE DEF p, y
<1>5. EntryOK(new, revision[p], recent[p])
  <2> DEFINE pics == [v \in Views |-> IF v = y.view THEN Built(r) ELSE entry.pic[v]]
  <2>1. new = [revision |-> y.revision, pic |-> pics]
    <3>1. entry.pic = [v \in Views |-> entry.pic[v]]
      BY <1>4 DEF EntryOK, IsEntry
    <3> QED
      BY <1>2, <3>1
  <2>2. \A v \in Views :
          pics[v] # NoView => /\ pics[v].rows \in recent[p].rows
                              /\ pics[v].blocked \in recent[p].blocked
    BY <1>2, <1>4 DEF EntryOK
  <2>3. pics = [v \in Views |-> pics[v]]
    OBVIOUS
  <2> HIDE DEF pics, new
  <2>4. y.revision = revision[p] /\ revision[p] > 0
    BY <1>1, <1>2 DEF p
  <2> QED
    BY <2>1, <2>2, <2>3, <2>4 DEF EntryOK, IsEntry
<1>6. PICK e \in {entry, new} : cache' = [cache EXCEPT ![p] = e]
  BY <1>3
<1>7. EntryOK(e, revision[p], recent[p])
  BY <1>4, <1>5
<1> HIDE DEF entry, new
<1>8. /\ cache' = [q \in Puzzles |-> cache'[q]]
      /\ \A q \in Puzzles : EntryOK(cache'[q], revision[q], recent[q])
  BY <1>2, <1>6, <1>7 DEF CacheInv
<1>9. RequestOK(Idle, revision, recent)
  BY DEF RequestOK, Idle
<1>10. ReadersOK'
  BY <1>3, <1>9 DEF ReadersOK, CacheInv
<1> QED
  BY <1>3, <1>8, <1>10, SameSources DEF CacheInv

-----------------------------------------------------------------------------
(* The theorems *)

\* Entries are absent or current, and no request that could still store its picture
\* has read anything from before the last invalidation.
THEOREM CacheInvariant == CacheSpec => []CacheInv
<1>1. CacheInit => CacheInv
  <2> SUFFICES ASSUME CacheInit
               PROVE  CacheInv
    OBVIOUS
  <2>1. ReadersOK
    <3>1. RequestOK(Idle, revision, recent)
      BY DEF RequestOK, Idle
    <3> QED
      BY <3>1 DEF CacheInit, ReadersOK
  <2>2. \A p \in Puzzles : EntryOK(cache[p], revision[p], recent[p])
    BY AbsentEntry DEF CacheInit, EntryOK, IsEntry
  <2>3. \A p \in Puzzles : /\ RowsShown(p) \in recent[p].rows
                           /\ blocked[p] \in recent[p].blocked
    BY DEF CacheInit, Showing
  <2> QED
    BY <2>1, <2>2, <2>3 DEF CacheInit, CacheInv
<1>2. CacheInv /\ [CacheNext]_allVars => CacheInv'
  <2> SUFFICES ASSUME CacheInv, [CacheNext]_allVars
               PROVE  CacheInv'
    OBVIOUS
  <2>1. CASE HandlerStep
    BY <2>1, HandlerKeeps
  <2>2. ASSUME NEW r \in Readers, ReaderStep(r)
        PROVE  CacheInv'
    BY <2>2, LookupKeeps, ReadRowsKeeps, ReadBlockedKeeps, RetryKeeps, StoreKeeps
       DEF ReaderStep
  <2>3. CASE UNCHANGED allVars
    <3>1. UNCHANGED <<vars, revision, cache, reader, recent>>
      BY <2>3 DEF allVars, cacheVars
    <3> QED
      BY <3>1, SameSources DEF CacheInv, ReadersOK
  <2> QED
    BY <2>1, <2>2, <2>3 DEF CacheNext
<1> QED
  BY <1>1, <1>2, PTL DEF CacheSpec

\* A picture that would be served was drawn from states the puzzle had since its last
\* invalidation, however requests and handlers interleave
\* (service_visualization.cpp, PoolService::visualizationRevisionLocked).
THEOREM ServedSinceInvalidationCorrect == CacheSpec => []ServedSinceInvalidation
<1>1. CacheInv => ServedSinceInvalidation
  BY DEF CacheInv, EntryOK, ServedSinceInvalidation, Pictures
<1> QED
  BY <1>1, CacheInvariant, PTL

=============================================================================

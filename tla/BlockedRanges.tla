--------------------------- MODULE BlockedRanges ---------------------------
(***************************************************************************)
(* POST /admin/import-ranges for one puzzle, down to the rows it keeps:    *)
(* key ranges searched elsewhere become intervals of virtual chunks        *)
(* (service_admin.cpp), which are folded into the rows of the same source  *)
(* (insertOrMergeBlockedRange).  ChunkPool knows only the set of virtual   *)
(* chunks the rows cover.                                                  *)
(*                                                                         *)
(* The handler holds the unique lock and commits once.  The allocator      *)
(* reads the rows into its list on every /work before it searches          *)
(* (ensureAllocatorForPuzzle), so the list is a function of the rows.      *)
(***************************************************************************)
EXTENDS IntervalIndex, FiniteSetsExt

CONSTANTS
    Sources,                 \* names of services ranges are imported from
    PuzzleStart, PuzzleEnd,  \* the keys of the puzzle, end exclusive
    VchunkSize,              \* virtual_chunk_size_keys
    Bases, Steps, RangeIds,  \* values of base_hex, step and range_ids
    MaxIds                   \* bound on the length of range_ids

ASSUME BoundsAssumption ==
    /\ PuzzleStart \in Nat /\ PuzzleEnd \in Nat /\ PuzzleStart < PuzzleEnd
    /\ VchunkSize \in Nat \ {0}
    /\ Bases \subseteq Nat /\ Steps \subseteq Nat \ {0} /\ RangeIds \subseteq Int
    /\ MaxIds \in Nat

VARIABLES
    rows,    \* blocked_vchunk_ranges of the puzzle
    asked    \* history: the keys of the puzzle in some imported range

blockedVars == <<rows, asked>>

CeilDiv(a, b) == (a + b - 1) \div b

Smallest(a, b) == IF a <= b THEN a ELSE b

-----------------------------------------------------------------------------
(* From range ids to intervals of virtual chunks *)

KeyRange(base, step, id) ==
    [s |-> base + id * step, e |-> base + id * step + step]

\* The ids the handler counts as invalid lie outside the puzzle.
InPuzzle(k) == k.e > PuzzleStart /\ k.s < PuzzleEnd

\* Deviation: the end is rounded down like the start.
ToVchunksFloor(k) ==
    [s |-> (Larger(k.s, PuzzleStart) - PuzzleStart) \div VchunkSize,
     e |-> (Smallest(k.e, PuzzleEnd) - PuzzleStart) \div VchunkSize]

\* Clipped to the puzzle; a virtual chunk that is touched at all is blocked.
ToVchunks(k) ==
    [s |-> (Larger(k.s, PuzzleStart) - PuzzleStart) \div VchunkSize,
     e |-> CeilDiv(Smallest(k.e, PuzzleEnd) - PuzzleStart, VchunkSize)]

Imported(base, step, ids) ==
    {k \in {KeyRange(base, step, id) : id \in ids} : InPuzzle(k)}

-----------------------------------------------------------------------------
(* Folding an interval into the rows of its source *)

Row(source, s, e) == [source |-> source, s |-> s, e |-> e]

\* Deviation: rows that only touch the interval are left beside it.
TouchingOverlapOnly(tbl, source, iv) ==
    {r \in tbl : r.source = source /\ r.s < iv.e /\ r.e > iv.s}

Touching(tbl, source, iv) ==
    {r \in tbl : r.source = source /\ r.s <= iv.e /\ r.e >= iv.s}

\* Deviation: the rows that gave way are not deleted.
InsertBeside(tbl, source, iv) ==
    LET old == Touching(tbl, source, iv)
        s   == Min({r.s : r \in old} \cup {iv.s})
        e   == Max({r.e : r \in old} \cup {iv.e})
    IN  tbl \cup {Row(source, s, e)}

\* The rows that overlap or touch the interval give way to one that spans
\* them all; a single row that covers it stays, which is the same.
InsertOrMerge(tbl, source, iv) ==
    LET old == Touching(tbl, source, iv)
        s   == Min({r.s : r \in old} \cup {iv.s})
        e   == Max({r.e : r \in old} \cup {iv.e})
    IN  (tbl \ old) \cup {Row(source, s, e)}

\* One interval of the list after the other.
InsertAll(tbl, source, list) ==
    LET after[n \in 0 .. Len(list)] ==
            IF n = 0 THEN tbl ELSE InsertOrMerge(after[n - 1], source, list[n])
    IN  after[Len(list)]

Import(source, base, step, ids) ==
    LET keys == Imported(base, step, ids)
    IN  /\ rows' = InsertAll(rows, source, Merged({ToVchunks(k) : k \in keys}))
        /\ asked' = asked \cup
                UNION {Points(k) \cap PuzzleStart .. (PuzzleEnd - 1) : k \in keys}

BlockedInit == rows = {} /\ asked = {}

BlockedNext ==
    \E source \in Sources, base \in Bases, step \in Steps, ids \in SUBSET RangeIds :
        /\ IsFiniteSet(ids) /\ Cardinality(ids) <= MaxIds
        /\ Import(source, base, step, ids)

BlockedSpec == BlockedInit /\ [][BlockedNext]_blockedVars

-----------------------------------------------------------------------------
(* What the rows stand for *)

\* The list the allocator searches, and the dashboard's blocked_vchunk_count.
Index == Merged({[s |-> r.s, e |-> r.e] : r \in rows})

BlockedCount == Total(Index)

BlockedBy(tbl, source) ==
    UNION {Points(r) : r \in {x \in tbl : x.source = source}}

AllBlocked == UNION {BlockedBy(rows, source) : source \in Sources}

\* A virtual chunk is blocked exactly when some imported range holds one of
\* its keys, after any sequence of imports of any step and alignment, with a
\* short last virtual chunk: nothing searched elsewhere is handed out, and
\* nothing else is withheld.
BlocksExactly ==
    AllBlocked = {(k - PuzzleStart) \div VchunkSize : k \in asked}

\* Rows of one source neither overlap nor touch: an import that bridges
\* several of them leaves one.
RowsApart ==
    \A r, q \in rows :
        (r.source = q.source /\ r # q) => (r.e < q.s \/ q.e < r.s)

\* The binary search finds an overlap exactly when there is one, with rows of
\* several sources that overlap each other and meet the run at its ends.
IndexExact ==
    \A lo, hi \in 0 .. CeilDiv(PuzzleEnd - PuzzleStart, VchunkSize) :
        lo < hi =>
            (Overlaps(Index, lo, hi) <=> Points([s |-> lo, e |-> hi]) \cap AllBlocked # {})

\* The dashboard counts a virtual chunk once, however many sources block it.
CountedOnce == BlockedCount = Cardinality(AllBlocked)

\* "The endpoint is idempotent" (docs/api.md): an import that blocks nothing
\* its source had not blocked leaves every row as it was, whichever ids and
\* steps it came with.
ReimportChangesNothing ==
    [][(\A source \in Sources : BlockedBy(rows', source) = BlockedBy(rows, source))
         => rows' = rows]_blockedVars

=============================================================================

-------------------------- MODULE ChunkPoolProofs --------------------------
(***************************************************************************)
(* Proofs about ChunkPool for every number of workers, puzzles, virtual    *)
(* chunks and keys.  The argument: a handler either keeps the run of every *)
(* row, or appends one row whose run is free (StepKinds).  What the        *)
(* theorems say of the runs follows from that alone.  The virtual-chunk    *)
(* allocator looks whether a run is free; the legacy one does not, and     *)
(* there it takes an invariant: the keys a sector has left are in no job   *)
(* (SectorsFree).                                                          *)
(***************************************************************************)
EXTENDS ChunkPool, AffinePermutation, SequenceTheorems, FiniteSetTheorems,
        WellFoundedInduction, TLAPS

-----------------------------------------------------------------------------
(* The sectors of a legacy puzzle, for every range, sector size and target *)

LEMMA SectorNumbers ==
    ASSUME NEW range \in Nat \ {0}
    PROVE  /\ NumSectors(range) \in 1 .. range
           /\ SectorSize(range) \in Nat \ {0}
           /\ NumSectors(range) * SectorSize(range) <= range
<1> DEFINE full == range \div MinSectorSize
           n    == NumSectors(range)
<1>1. full \in Nat /\ full <= range
  BY SectorsAssumption
<1>2. n = (IF full < 1 THEN 1 ELSE IF full > TargetSectors THEN TargetSectors ELSE full)
  BY <1>1, SectorsAssumption DEF NumSectors
<1>3. n \in 1 .. range
  <2> HIDE DEF full, n
  <2> QED
    BY <1>1, <1>2, SectorsAssumption
<1> HIDE DEF n, full
<1>4. range \div n \in Nat \ {0} /\ n * (range \div n) <= range
  BY <1>3
<1> QED
  BY <1>3, <1>4 DEF SectorSize, n

\* Bounds of multiples of the sector size.
LEMMA Multiples ==
    ASSUME NEW a \in Nat, NEW b \in Nat, NEW size \in Nat, a <= b
    PROVE  a * size \in Nat /\ b * size \in Nat /\ a * size <= b * size
OBVIOUS

LEMMA SectorBounds ==
    ASSUME NEW range \in Nat \ {0}, NEW s \in Sectors(range)
    PROVE  /\ SectorStart(range, s) \in Nat
           /\ SectorEnd(range, s) \in Nat
           /\ SectorStart(range, s) < SectorEnd(range, s)
           /\ SectorEnd(range, s) <= range
<1> DEFINE n == NumSectors(range)
           size == SectorSize(range)
<1>1. n \in 1 .. range /\ size \in Nat \ {0} /\ n * size <= range
  BY SectorNumbers
<1>2. s \in 1 .. n
  BY DEF Sectors
<1> HIDE DEF n, size
<1>3. /\ (s - 1) * size \in Nat
      /\ s * size = (s - 1) * size + size
      /\ s * size \in Nat
  BY <1>1, <1>2
<1>4. s * size <= n * size
  BY <1>1, <1>2, Multiples
<1> QED
  BY <1>1, <1>2, <1>3, <1>4 DEF SectorStart, SectorEnd, n, size

LEMMA SectorsApart ==
    ASSUME NEW range \in Nat \ {0}, NEW s \in Sectors(range), NEW t \in Sectors(range),
           s < t
    PROVE  SectorEnd(range, s) <= SectorStart(range, t)
<1> DEFINE n == NumSectors(range)
           size == SectorSize(range)
<1>1. n \in 1 .. range /\ size \in Nat \ {0}
  BY SectorNumbers
<1>2. s \in 1 .. n /\ t \in 1 .. n
  BY DEF Sectors
<1> HIDE DEF n, size
<1>3. s * size <= (t - 1) * size
  BY <1>1, <1>2, Multiples
<1> QED
  BY <1>1, <1>2, <1>3 DEF SectorStart, SectorEnd, n, size

\* Every key of the puzzle is in exactly one sector.
THEOREM SectorsPartition ==
    ASSUME NEW range \in Nat \ {0}, NEW key \in 0 .. (range - 1)
    PROVE  \E s \in Sectors(range) :
              /\ SectorStart(range, s) <= key /\ key < SectorEnd(range, s)
              /\ \A t \in Sectors(range) :
                    SectorStart(range, t) <= key /\ key < SectorEnd(range, t) => t = s
<1> DEFINE n == NumSectors(range)
           size == SectorSize(range)
           full == key \div size + 1
           s == IF full <= n THEN full ELSE n
<1>1. n \in 1 .. range /\ size \in Nat \ {0} /\ n * size <= range
  BY SectorNumbers
<1>2. Sectors(range) = 1 .. n
  BY DEF Sectors
<1>3. s \in 1 .. n /\ SectorStart(range, s) <= key /\ key < SectorEnd(range, s)
  <2> HIDE DEF n, size
  <2>1. /\ full \in Nat \ {0}
        /\ (full - 1) * size <= key
        /\ key < full * size
    BY <1>1
  <2>2. SectorStart(range, s) = (s - 1) * size
    BY DEF SectorStart, size
  <2>3. SectorEnd(range, s) = IF s = n THEN range ELSE s * size
    BY DEF SectorEnd, n, size
  <2> HIDE DEF full
  <2>4. CASE full <= n
    BY <1>1, <2>1, <2>2, <2>3, <2>4
  <2>5. CASE full > n
    <3>1. (n - 1) * size <= (full - 1) * size
      BY <1>1, <2>1, <2>5, Multiples
    <3>2. (n - 1) * size \in Nat /\ (full - 1) * size \in Nat
      BY <1>1, <2>1
    <3> QED
      BY <1>1, <2>1, <2>2, <2>3, <2>5, <3>1, <3>2
  <2> QED
    BY <1>1, <2>1, <2>4, <2>5
<1> HIDE DEF s
<1>4. ASSUME NEW t \in 1 .. n, SectorStart(range, t) <= key, key < SectorEnd(range, t)
      PROVE  t = s
  <2>0. /\ s \in Sectors(range) /\ t \in Sectors(range)
        /\ SectorStart(range, s) \in Nat /\ SectorEnd(range, s) \in Nat
        /\ SectorStart(range, t) \in Nat /\ SectorEnd(range, t) \in Nat
    BY <1>2, <1>3, <1>4, SectorBounds
  <2>1. ~(t < s)
    <3>1. t < s => SectorEnd(range, t) <= SectorStart(range, s)
      BY <2>0, SectorsApart
    <3> QED
      BY <1>3, <1>4, <2>0, <3>1
  <2>2. ~(s < t)
    <3>1. s < t => SectorEnd(range, s) <= SectorStart(range, t)
      BY <2>0, SectorsApart
    <3> QED
      BY <1>3, <1>4, <2>0, <3>1
  <2> QED
    BY <1>1, <1>3, <2>1, <2>2
<1> QED
  BY <1>2, <1>3, <1>4

-----------------------------------------------------------------------------
(* Rows *)

SameRun(c, d) ==
    /\ d.puzzle = c.puzzle
    /\ d.lo = c.lo
    /\ d.hi = c.hi
    /\ d.isTest = c.isTest

LEMMA ReleaseRow ==
    ASSUME NEW c \in Chunk
    PROVE  Release(c) \in Chunk /\ SameRun(c, Release(c))
<1>1. 0 \in Ages /\ "reclaimed" \in Statuses
  BY ScalarsAssumption DEF Ages, Statuses
<1> QED
  BY <1>1 DEF Release, Chunk, SameRun

LEMMA GrantRow ==
    ASSUME NEW c \in Chunk, NEW w \in Workers
    PROVE  Grant(c, w) \in Chunk /\ SameRun(c, Grant(c, w))
<1>1. 0 \in Ages /\ "assigned" \in Statuses
  BY ScalarsAssumption DEF Ages, Statuses
<1> QED
  BY <1>1 DEF Grant, Chunk, SameRun

LEMMA CompleteRow ==
    ASSUME NEW c \in Chunk
    PROVE  Complete(c) \in Chunk /\ SameRun(c, Complete(c))
<1>1. 0 \in Ages /\ "completed" \in Statuses
  BY ScalarsAssumption DEF Ages, Statuses
<1> QED
  BY <1>1 DEF Complete, Chunk, SameRun

LEMMA RefreshedRow ==
    ASSUME NEW c \in Chunk
    PROVE  Refreshed(c) \in Chunk /\ SameRun(c, Refreshed(c))
<1>1. 0 \in Ages
  BY ScalarsAssumption DEF Ages
<1> QED
  BY <1>1 DEF Refreshed, Chunk, SameRun

LEMMA OlderAge ==
    ASSUME NEW a \in Ages
    PROVE  Older(a) \in Ages
BY ScalarsAssumption DEF Ages, Older, Smaller

LEMMA AgedRow ==
    ASSUME NEW c \in Chunk
    PROVE  Aged(c) \in Chunk /\ SameRun(c, Aged(c))
<1>1. Older(c.age) \in Ages
  BY OlderAge DEF Chunk
<1> QED
  BY <1>1 DEF Aged, Chunk, SameRun

LEMMA CreditRow ==
    ASSUME NEW c \in Chunk, NEW w \in Workers, NEW k \in Keys
    PROVE  Credit(c, w, k) \in Chunk /\ SameRun(c, Credit(c, w, k))
<1>1. 0 \in Ages /\ "FOUND" \in Statuses
  BY ScalarsAssumption DEF Ages, Statuses
<1>2. FinalKey(c, k) \in Keys \cup {NoKey}
  BY DEF FinalKey, Chunk
<1> QED
  BY <1>1, <1>2 DEF Credit, Chunk, SameRun

LEMMA NewTestRow ==
    ASSUME NEW p \in Puzzles, NEW lo \in Nat, NEW hi \in Nat, NEW w \in Workers
    PROVE  NewChunk(p, lo, hi, TRUE, w) \in Chunk /\ NewChunk(p, lo, hi, TRUE, w).isTest
<1>1. 0 \in Ages /\ "assigned" \in Statuses
  BY ScalarsAssumption DEF Ages, Statuses
<1> QED
  BY <1>1 DEF NewChunk, Chunk

-----------------------------------------------------------------------------
(* Tables *)

SameRuns(t, u) ==
    /\ DOMAIN u = DOMAIN t
    /\ \A i \in DOMAIN t : SameRun(t[i], u[i])

LEMMA TableIsFunction ==
    ASSUME NEW tbl \in Seq(Chunk)
    PROVE  /\ Len(tbl) \in Nat
           /\ DOMAIN tbl = 1 .. Len(tbl)
           /\ tbl \in [1 .. Len(tbl) -> Chunk]
           /\ \A i \in DOMAIN tbl : tbl[i] \in Chunk
<1>1. /\ Len(tbl) \in Nat
      /\ tbl \in [1 .. Len(tbl) -> Chunk]
      /\ DOMAIN tbl = 1 .. Len(tbl)
  BY LenProperties
<1> QED
  BY <1>1

LEMMA MappedTable ==
    ASSUME NEW tbl \in Seq(Chunk), NEW new, new = [i \in DOMAIN tbl |-> new[i]],
           \A i \in DOMAIN tbl : new[i] \in Chunk /\ SameRun(tbl[i], new[i])
    PROVE  new \in Seq(Chunk) /\ SameRuns(tbl, new)
<1>1. new \in [1 .. Len(tbl) -> Chunk]
  BY TableIsFunction
<1>2. new \in Seq(Chunk)
  BY <1>1, SeqDef, TableIsFunction
<1> QED
  BY <1>1, <1>2, TableIsFunction DEF SameRuns

LEMMA ReplacedRow ==
    ASSUME NEW tbl \in Seq(Chunk), NEW i \in DOMAIN tbl, NEW c \in Chunk,
           SameRun(tbl[i], c)
    PROVE  /\ [tbl EXCEPT ![i] = c] \in Seq(Chunk)
           /\ SameRuns(tbl, [tbl EXCEPT ![i] = c])
<1>1. [tbl EXCEPT ![i] = c] \in Seq(Chunk)
  BY TableIsFunction, ExceptSeq
<1> QED
  BY <1>1 DEF SameRuns, SameRun

LEMMA ReleasedTable ==
    ASSUME NEW tbl \in Seq(Chunk), NEW S
    PROVE  Released(tbl, S) \in Seq(Chunk) /\ SameRuns(tbl, Released(tbl, S))
<1> DEFINE new == Released(tbl, S)
<1>1. new = [i \in DOMAIN tbl |-> new[i]]
  BY DEF Released
<1>2. ASSUME NEW i \in DOMAIN tbl
      PROVE  new[i] \in Chunk /\ SameRun(tbl[i], new[i])
  <2>1. tbl[i] \in Chunk
    BY TableIsFunction
  <2>2. new[i] = Release(tbl[i]) \/ new[i] = tbl[i]
    BY DEF Released
  <2> QED
    BY <2>1, <2>2, ReleaseRow DEF SameRun
<1> QED
  BY <1>1, <1>2, MappedTable

LEMMA AppendedRows ==
    ASSUME NEW t \in Seq(Chunk), NEW c \in Chunk
    PROVE  LET u == Append(t, c) IN
           /\ u \in Seq(Chunk)
           /\ Rows(u) = Rows(t) \cup {Len(t) + 1}
           /\ Len(t) + 1 \notin Rows(t)
           /\ \A j \in Rows(t) : u[j] = t[j]
           /\ u[Len(t) + 1] = c
<1>1. Append(t, c) \in Seq(Chunk) /\ Len(Append(t, c)) = Len(t) + 1
  BY AppendProperties
<1>2. /\ Len(t) \in Nat
      /\ DOMAIN t = 1 .. Len(t)
      /\ DOMAIN Append(t, c) = 1 .. (Len(t) + 1)
  BY <1>1, TableIsFunction
<1> QED
  BY <1>1, <1>2, AppendProperties DEF Rows

LEMMA AppendedIsChunk ==
    ASSUME NEW t \in Seq(Chunk), NEW c, Append(t, c) \in Seq(Chunk)
    PROVE  c \in Chunk
<1>1. /\ Len(Append(t, c)) = Len(t) + 1
      /\ Append(t, c)[Len(t) + 1] = c
      /\ Len(t) \in Nat
  BY LenProperties
<1> QED
  BY <1>1, LenProperties

LEMMA TableForRuns ==
    ASSUME TypeOK, NEW w \in Workers
    PROVE  TableFor(w) \in Seq(Chunk) /\ SameRuns(chunks, TableFor(w))
<1>1. chunks \in Seq(Chunk)
  BY DEF TypeOK
<1>2. SameRuns(chunks, chunks)
  BY DEF SameRuns, SameRun
<1> QED
  BY <1>1, <1>2, ReleasedTable DEF TableFor

-----------------------------------------------------------------------------
(* The allocator: a hit is a free run inside the keyspace *)

LEMMA ShiftedRun ==
    ASSUME NEW total \in Nat \ {0}, NEW n \in 1 .. total,
           NEW candidate \in Int, candidate <= total
    PROVE  /\ NormalizeRunStart(candidate, n, total) \in Int
           /\ NormalizeRunStart(candidate, n, total) + n <= total
BY DEF NormalizeRunStart

LEMMA ProbeHit ==
    ASSUME NEW p \in Puzzles, NEW cur \in Nat, NEW taken,
           NEW n \in 1 .. VchunkCount[p],
           NEW o \in ProbeHits(Perm[p], VchunkCount[p], cur, taken, n)
    PROVE  LET lo == ProbeStart(Perm[p], VchunkCount[p], cur, n, o)
           IN  /\ lo \in Nat
               /\ lo + n <= VchunkCount[p]
               /\ Run(lo, n) \cap taken = {}
               /\ NextCursor(VchunkCount[p], cur, o) \in Vchunks(p)
<1> DEFINE total == VchunkCount[p]
           lo == ProbeStart(Perm[p], total, cur, n, o)
<1>1. total \in Nat \ {0} /\ Perm[p] \in [0 .. (total - 1) -> 0 .. (total - 1)]
  BY PuzzlesAssumption DEF Vchunks
<1>2. o \in Nat
  BY <1>1, MaxAllocProbesAssumption DEF ProbeHits, ProbeCount, Smaller
<1>3. (cur + o) % total \in 0 .. (total - 1)
  BY <1>1, <1>2
<1>4. Perm[p][(cur + o) % total] \in 0 .. (total - 1)
  BY <1>1, <1>3
<1>5. lo \in Int /\ lo + n <= total
  <2> DEFINE candidate == Perm[p][(cur + o) % total]
  <2>1. candidate \in Int /\ candidate <= total
    BY <1>1, <1>4
  <2>2. lo = NormalizeRunStart(candidate, n, total)
    BY DEF ProbeStart
  <2> HIDE DEF candidate, lo, total
  <2>3. n \in 1 .. total
    BY DEF total
  <2> QED
    BY <1>1, <2>1, <2>2, <2>3, ShiftedRun
<1>6. lo >= 0 /\ Run(lo, n) \cap taken = {}
  BY DEF ProbeHits, RangeIsFree
<1>7. NextCursor(total, cur, o) \in 0 .. (total - 1)
  <2>1. ((cur + o) % total) + 1 \in Nat
    BY <1>3
  <2> QED
    BY <1>1, <2>1 DEF NextCursor
<1> QED
  BY <1>5, <1>6, <1>7 DEF Vchunks

LEMMA AnchorHit ==
    ASSUME NEW p \in Puzzles, NEW st \in 0 .. 2, NEW taken,
           NEW n \in 1 .. VchunkCount[p],
           NEW k \in AnchorHits(st, VchunkCount[p], taken, n)
    PROVE  LET lo == AnchorStart(st, VchunkCount[p], n, k)
           IN  /\ lo \in Nat
               /\ lo + n <= VchunkCount[p]
               /\ Run(lo, n) \cap taken = {}
<1> DEFINE total == VchunkCount[p]
           lo == AnchorStart(st, total, n, k)
<1>1. total \in Nat \ {0}
  BY PuzzlesAssumption
<1>2. k \in AnchorAttempts(st, total, n) /\ lo >= 0 /\ Run(lo, n) \cap taken = {}
  BY DEF AnchorHits, RangeIsFree
<1>3. lo \in Int /\ lo + n <= total
  <2>1. CASE st = 0
    <3>1. k \in Nat /\ k \in MidAttempts(total)
      BY <1>1, <1>2, <2>1, MaxAllocProbesAssumption
         DEF AnchorAttempts, MidAttempts, ProbeCount, Smaller
    <3> DEFINE offset == IF k % 2 = 0 THEN -(k \div 2) ELSE k \div 2
    <3>2. offset \in Int /\ (total \div 2) + offset <= total
      BY <1>1, <3>1 DEF MidAttempts
    <3>3. lo = NormalizeRunStart((total \div 2) + offset, n, total)
      BY <2>1 DEF AnchorStart, MidStart
    <3> QED
      BY <1>1, <3>2, <3>3, ShiftedRun
  <2>2. CASE st \in {1, 2}
    <3>1. k \in Int /\ 0 <= k /\ k <= total - n
      BY <1>1, <1>2, <2>2, MaxAllocProbesAssumption
         DEF AnchorAttempts, EdgeAttempts, Smaller
    <3> QED
      BY <1>1, <2>2, <3>1 DEF AnchorStart
  <2> QED
    BY <2>1, <2>2
<1> QED
  BY <1>2, <1>3

-----------------------------------------------------------------------------
(* What a step does to the table *)

FreshRow(tbl, c) ==
    \/ c.isTest
    \/ /\ c.lo < c.hi
       /\ c.hi <= VchunkCount[c.puzzle]
       /\ RunOf(c) \cap Taken(tbl, c.puzzle) = {}

KeepsRuns == chunks' \in Seq(Chunk) /\ SameRuns(chunks, chunks')

(* A new row is none of a sector, or is cut from the front of one. *)
CutsNone(c) == reached' = reached /\ (c.isTest \/ c.puzzle \notin LegacyPuzzles)

CutsSector(c) ==
    \E s \in Sectors(VchunkCount[c.puzzle]) :
        /\ c.puzzle \in LegacyPuzzles
        /\ ~c.isTest
        /\ c.lo = reached[c.puzzle][s]
        /\ c.lo < c.hi
        /\ c.hi <= SectorEnd(VchunkCount[c.puzzle], s)
        /\ reached' = [reached EXCEPT ![c.puzzle][s] = c.hi]

AddsRow ==
    \E tbl \in Seq(Chunk), c \in Chunk :
        /\ SameRuns(chunks, tbl)
        /\ FreshRow(tbl, c)
        /\ chunks' = Append(tbl, c)
        /\ CutsNone(c) \/ CutsSector(c)

LEMMA InsertedRun ==
    ASSUME TypeOK, NEW w \in Workers, NEW tbl \in Seq(Chunk), SameRuns(chunks, tbl),
           NEW lo \in Nat, NEW n \in Nat \ {0}, lo + n <= VchunkCount[active],
           Run(lo, n) \cap Taken(tbl, active) = {},
           InsertRun(w, tbl, lo, n),
           LET c == NewChunk(active, lo, lo + n, FALSE, w)
           IN  CutsNone(c) \/ CutsSector(c)
    PROVE  AddsRow /\ chunks' \in Seq(Chunk)
<1> DEFINE hi == lo + n
           c == NewChunk(active, lo, hi, FALSE, w)
<1>1. active \in Puzzles /\ hi \in Nat /\ lo < hi
  BY DEF TypeOK
<1>2. c \in Chunk /\ c.puzzle = active /\ c.lo = lo /\ c.hi = hi
  <2>1. 0 \in Ages /\ "assigned" \in Statuses
    BY ScalarsAssumption DEF Ages, Statuses
  <2> HIDE DEF hi
  <2> QED
    BY <1>1, <2>1 DEF NewChunk, Chunk
<1>3. chunks' = Append(tbl, c)
  BY DEF InsertRun
<1>4. CutsNone(c) \/ CutsSector(c)
  OBVIOUS
<1> HIDE DEF c
<1>5. RunOf(c) = Run(lo, n)
  BY <1>2 DEF RunOf, Run
<1>6. FreshRow(tbl, c)
  BY <1>1, <1>2, <1>5 DEF FreshRow
<1>7. AddsRow
  BY <1>2, <1>3, <1>4, <1>6 DEF AddsRow
<1> QED
  BY <1>2, <1>3, <1>7, AppendProperties

LEMMA WorkStep ==
    ASSUME TypeOK, SectorsFree, NEW w \in Workers, NEW requested \in 1 .. MaxRun,
           Work(w, requested)
    PROVE  TypeOK' /\ ((KeepsRuns /\ UNCHANGED reached) \/ AddsRow)
<1> DEFINE tbl == TableFor(w)
           TableOK == /\ chunks' \in Seq(Chunk)
                      /\ (KeepsRuns /\ UNCHANGED reached) \/ AddsRow
           ReachedOK ==
             /\ reached' \in [LegacyPuzzles ->
                  UNION {[Sectors(VchunkCount[p]) -> Nat] : p \in LegacyPuzzles}]
             /\ \A p \in LegacyPuzzles : DOMAIN reached'[p] = Sectors(VchunkCount[p])
           CursorOK == /\ cursor' \in [Puzzles -> Nat]
                       /\ \A p \in Puzzles : cursor'[p] \in Vchunks(p)
           StageOK == stage' \in [Puzzles -> 0 .. 3]
<1>1. tbl \in Seq(Chunk) /\ SameRuns(chunks, tbl)
  BY TableForRuns
<1>2. active \in Puzzles /\ VchunkCount[active] \in Nat \ {0}
  BY PuzzlesAssumption DEF TypeOK
<1>3. /\ cursor \in [Puzzles -> Nat] /\ \A p \in Puzzles : cursor[p] \in Vchunks(p)
      /\ stage \in [Puzzles -> 0 .. 3]
  BY DEF TypeOK
<1>4. ASSUME NEW n \in 1 .. Needed(requested)
      PROVE  n \in 1 .. VchunkCount[active] /\ n \in Nat \ {0}
  BY <1>2, ScalarsAssumption DEF Needed, Smaller
<1> HIDE DEF tbl
<1>r. ASSUME UNCHANGED reached
      PROVE  ReachedOK
  BY <1>r DEF TypeOK
<1>5. ASSUME chunks' = tbl, UNCHANGED reached
      PROVE  TableOK
  BY <1>1, <1>5 DEF KeepsRuns
<1>6. ASSUME NEW i \in DOMAIN tbl, chunks' = Granted(tbl, i, w), UNCHANGED reached
      PROVE  TableOK
  <2>1. tbl[i] \in Chunk
    BY <1>1, TableIsFunction
  <2>2. chunks' \in Seq(Chunk) /\ SameRuns(tbl, chunks')
    BY <1>1, <1>6, <2>1, GrantRow, ReplacedRow DEF Granted
  <2> QED
    BY <1>1, <1>6, <2>2 DEF KeepsRuns, SameRuns, SameRun
<1> HIDE DEF ReachedOK
<1>7. TableOK /\ CursorOK /\ StageOK /\ ReachedOK
  <2>1. CASE ReturnExisting(w, tbl)
    BY <1>3, <1>5, <1>r, <2>1 DEF ReturnExisting
  <2>2. CASE ReissueTestChunk(w, tbl)
    <3>1. PICK i \in TestRows(tbl, active, "reclaimed") : chunks' = Granted(tbl, i, w)
      BY <2>2 DEF ReissueTestChunk
    <3>2. i \in DOMAIN tbl
      BY DEF TestRows, Rows
    <3> QED
      BY <1>3, <1>6, <1>r, <2>2, <3>1, <3>2 DEF ReissueTestChunk
  <2>3. CASE IssueTestChunk(w, tbl)
    <3> DEFINE c == NewChunk(active, testRange[active][1], testRange[active][2], TRUE, w)
    <3>1. testRange[active] \in TestRanges
      BY <1>2, <2>3 DEF IssueTestChunk, TestChunkOffered, TypeOK
    <3>2. testRange[active][1] \in Nat /\ testRange[active][2] \in Nat
      BY <3>1, ScalarsAssumption
    <3>3. c \in Chunk /\ c.isTest
      BY <1>2, <3>2, NewTestRow
    <3>4. chunks' = Append(tbl, c)
      BY <2>3 DEF IssueTestChunk
    <3> HIDE DEF c
    <3>5. AddsRow
      BY <1>1, <2>3, <3>3, <3>4 DEF AddsRow, FreshRow, CutsNone, IssueTestChunk
    <3>6. TableOK
      BY <1>1, <3>3, <3>4, <3>5, AppendProperties
    <3> QED
      BY <1>3, <1>r, <2>3, <3>6 DEF IssueTestChunk
  <2>4. CASE ReissueReclaimed(w, tbl)
    <3>1. PICK i \in Reclaimable(tbl) : chunks' = Granted(tbl, i, w)
      BY <2>4 DEF ReissueReclaimed
    <3>2. i \in DOMAIN tbl
      BY DEF Reclaimable, NormalRows, Rows
    <3> QED
      BY <1>3, <1>6, <1>r, <2>4, <3>1, <3>2 DEF ReissueReclaimed
  <2>5. CASE IssueAnchor(w, tbl, requested)
    <3>a. PICK n \in 1 .. Needed(requested) : \E k \in FreeAnchors(tbl, n) :
             InsertRun(w, tbl, AnchorStart(stage[active], VchunkCount[active], n, k), n)
      BY <2>5 DEF IssueAnchor
    <3>1. PICK k \in FreeAnchors(tbl, n) :
             InsertRun(w, tbl, AnchorStart(stage[active], VchunkCount[active], n, k), n)
      BY <3>a
    <3>2. stage[active] \in 0 .. 2
      BY <1>2, <1>3, <2>5 DEF IssueAnchor, Bootstrapping
    <3>3. k \in AnchorHits(stage[active], VchunkCount[active], Taken(tbl, active), n)
      BY DEF FreeAnchors
    <3> DEFINE lo == AnchorStart(stage[active], VchunkCount[active], n, k)
    <3>4. /\ lo \in Nat
          /\ lo + n <= VchunkCount[active]
          /\ Run(lo, n) \cap Taken(tbl, active) = {}
      BY <1>2, <1>4, <3>2, <3>3, AnchorHit
    <3>5. InsertRun(w, tbl, lo, n)
      BY <3>1
    <3> HIDE DEF lo
    <3>c. CutsNone(NewChunk(active, lo, lo + n, FALSE, w))
      BY <2>5 DEF CutsNone, NewChunk, IssueAnchor, NeedsVchunks
    <3>6. TableOK
      BY <1>1, <1>4, <3>4, <3>5, <3>c, InsertedRun
    <3>7. stage' \in [Puzzles -> 0 .. 3]
      BY <1>2, <1>3, <2>5, <3>2 DEF IssueAnchor
    <3> QED
      BY <1>3, <1>r, <2>5, <3>6, <3>7 DEF IssueAnchor
  <2>6. CASE IssueProbed(w, tbl, requested)
    <3>a. PICK n \in 1 .. Needed(requested) : \E o \in FreeProbes(tbl, n) :
             /\ InsertRun(w, tbl, ProbeStart(Perm[active], VchunkCount[active],
                                             cursor[active], n, o), n)
             /\ cursor' = [cursor EXCEPT ![active] =
                               NextCursor(VchunkCount[active], cursor[active], o)]
      BY <2>6 DEF IssueProbed
    <3>1. PICK o \in FreeProbes(tbl, n) :
             /\ InsertRun(w, tbl, ProbeStart(Perm[active], VchunkCount[active],
                                             cursor[active], n, o), n)
             /\ cursor' = [cursor EXCEPT ![active] =
                               NextCursor(VchunkCount[active], cursor[active], o)]
      BY <3>a
    <3>2. o \in ProbeHits(Perm[active], VchunkCount[active], cursor[active],
                          Taken(tbl, active), n)
      BY DEF FreeProbes
    <3>3. cursor[active] \in Nat
      BY <1>2, <1>3
    <3> DEFINE lo == ProbeStart(Perm[active], VchunkCount[active], cursor[active], n, o)
    <3>4. /\ lo \in Nat
          /\ lo + n <= VchunkCount[active]
          /\ Run(lo, n) \cap Taken(tbl, active) = {}
          /\ NextCursor(VchunkCount[active], cursor[active], o) \in Vchunks(active)
      BY <1>2, <1>4, <3>2, <3>3, ProbeHit
    <3>5. InsertRun(w, tbl, lo, n)
      BY <3>1
    <3>6. CursorOK
      BY <1>2, <1>3, <3>1, <3>4 DEF Vchunks
    <3>7. StageOK
      BY <1>2, <1>3, <2>6 DEF IssueProbed
    <3> HIDE DEF lo
    <3>c. CutsNone(NewChunk(active, lo, lo + n, FALSE, w))
      BY <2>6 DEF CutsNone, NewChunk, IssueProbed, NeedsVchunks
    <3>8. TableOK
      BY <1>1, <1>4, <3>4, <3>5, <3>c, InsertedRun
    <3>9. ReachedOK
      BY <1>r, <2>6 DEF IssueProbed
    <3> QED
      BY <3>6, <3>7, <3>8, <3>9
  <2>8. CASE IssueKeys(w, tbl, requested)
    <3> DEFINE range == VchunkCount[active]
    <3>1. PICK s \in OfferedSectors(range, reached[active], NormalRows(tbl, active) = {}) :
             LET lo == reached[active][s]
                 hi == CutEnd(range, lo, s, requested)
             IN  /\ InsertRun(w, tbl, lo, hi - lo)
                 /\ reached' = [reached EXCEPT ![active][s] = hi]
      BY <2>8 DEF IssueKeys
    <3>2. /\ s \in Sectors(range)
          /\ reached[active][s] < SectorEnd(range, s)
      BY <3>1 DEF OfferedSectors, OpenSectors
    <3>3. active \in LegacyPuzzles
      BY <2>8 DEF IssueKeys, NeedsKeys
    <3>4. reached[active] \in [Sectors(range) -> Nat]
      BY <3>3 DEF TypeOK
    <3> DEFINE lo == reached[active][s]
               hi == CutEnd(range, lo, s, requested)
               n  == hi - lo
    <3>5. /\ lo \in Nat
          /\ SectorEnd(range, s) \in Nat /\ SectorEnd(range, s) <= range
      BY <1>2, <3>2, <3>4, SectorBounds
    <3>6. /\ hi \in Nat
          /\ lo < hi
          /\ hi <= SectorEnd(range, s)
      BY <3>2, <3>5, ScalarsAssumption DEF CutEnd
    <3>7. Run(lo, n) \cap Taken(tbl, active) = {}
      <4>1. SectorFree(chunks, active, s) /\ blocked[active] = {}
        BY <3>2, <3>3 DEF SectorsFree
      <4>2. Run(lo, n) \subseteq Left(active, s)
        BY <3>5, <3>6 DEF Run, Left
      <4>3. ASSUME NEW i \in NormalRows(tbl, active)
            PROVE  RunOf(tbl[i]) \cap Left(active, s) = {}
        BY <1>1, <4>1 DEF SectorFree, NormalRows, Rows, SameRuns, SameRun, RunOf
      <4> QED
        BY <4>1, <4>2, <4>3 DEF Taken, Occupied
    <3>8. InsertRun(w, tbl, lo, n) /\ reached' = [reached EXCEPT ![active][s] = hi]
      BY <3>1
    <3>9. n \in Nat \ {0} /\ lo + n = hi /\ lo + n <= range
      BY <1>2, <3>5, <3>6
    <3>10. CutsSector(NewChunk(active, lo, hi, FALSE, w))
      BY <3>2, <3>3, <3>6, <3>8 DEF CutsSector, NewChunk
    <3>11. ReachedOK
      <4>1. [reached[active] EXCEPT ![s] = hi] \in [Sectors(range) -> Nat]
        BY <3>4, <3>6
      <4>2. reached' = [reached EXCEPT ![active] = [reached[active] EXCEPT ![s] = hi]]
        BY <3>8
      <4> HIDE DEF hi
      <4> QED
        BY <3>3, <4>1, <4>2 DEF TypeOK, ReachedOK
    <3> HIDE DEF lo, hi, n
    <3>12. TableOK
      BY <1>1, <3>5, <3>7, <3>8, <3>9, <3>10, InsertedRun
    <3> QED
      BY <1>3, <2>8, <3>11, <3>12 DEF IssueKeys
  <2>7. CASE NoWork(w, tbl, requested)
    BY <1>3, <1>5, <1>r, <2>7 DEF NoWork
  <2> QED
    BY <2>1, <2>2, <2>3, <2>4, <2>5, <2>6, <2>7, <2>8 DEF Work, tbl
<1>8. lastSeen' \in [Workers -> Ages \cup {NoWorker}]
  BY ScalarsAssumption DEF Work, TypeOK, Ages
<1>9. UNCHANGED <<active, testRange, blocked, findings>>
  BY DEF Work
<1> QED
  BY <1>7, <1>8, <1>9 DEF TypeOK, ReachedOK

\* The handlers that change one row in place.
LEMMA RowStep ==
    ASSUME TypeOK, NEW i \in Rows(chunks), NEW c \in Chunk, SameRun(chunks[i], c),
           chunks' = [chunks EXCEPT ![i] = c]
    PROVE  KeepsRuns
<1>1. chunks \in Seq(Chunk) /\ i \in DOMAIN chunks
  BY DEF TypeOK, Rows
<1> QED
  BY <1>1, ReplacedRow DEF KeepsRuns

LEMMA HeartbeatStep ==
    ASSUME TypeOK, NEW w \in Workers, NEW i, Heartbeat(w, i)
    PROVE  TypeOK' /\ KeepsRuns
<1>1. KeepsRuns
  <2>1. CASE i \in AssignedTo(chunks, w)
    <3>1. i \in Rows(chunks) /\ chunks[i] \in Chunk
      BY <2>1, TableIsFunction DEF AssignedTo, Rows, TypeOK
    <3> QED
      BY <2>1, <3>1, RefreshedRow, RowStep DEF Heartbeat
  <2>2. CASE i \notin AssignedTo(chunks, w)
    BY <2>2 DEF Heartbeat, TypeOK, KeepsRuns, SameRuns, SameRun
  <2> QED
    BY <2>1, <2>2
<1>2. lastSeen' \in [Workers -> Ages \cup {NoWorker}]
  BY ScalarsAssumption DEF Heartbeat, TypeOK, Ages
<1> QED
  BY <1>1, <1>2 DEF Heartbeat, TypeOK, KeepsRuns, puzzleVars

LEMMA ReclaimStep ==
    ASSUME TypeOK, ReclaimTimedOut
    PROVE  TypeOK' /\ KeepsRuns
<1>1. KeepsRuns
  BY ReleasedTable DEF ReclaimTimedOut, TypeOK, KeepsRuns
<1> QED
  BY <1>1 DEF ReclaimTimedOut, TypeOK, KeepsRuns, puzzleVars

LEMMA TickStep ==
    ASSUME TypeOK, Tick
    PROVE  TypeOK' /\ KeepsRuns
<1>1. chunks \in Seq(Chunk)
  BY DEF TypeOK
<1>2. chunks' = [i \in DOMAIN chunks |-> chunks'[i]]
  BY DEF Tick, Rows
<1>3. ASSUME NEW i \in DOMAIN chunks
      PROVE  chunks'[i] \in Chunk /\ SameRun(chunks[i], chunks'[i])
  <2>1. chunks[i] \in Chunk
    BY <1>1, TableIsFunction
  <2>2. chunks'[i] = Aged(chunks[i]) \/ chunks'[i] = chunks[i]
    BY DEF Tick, Rows
  <2> QED
    BY <2>1, <2>2, AgedRow DEF SameRun
<1>4. KeepsRuns
  BY <1>1, <1>2, <1>3, MappedTable DEF KeepsRuns
<1>5. ASSUME NEW w \in Workers
      PROVE  lastSeen'[w] \in Ages \cup {NoWorker}
  BY OlderAge DEF Tick, TypeOK
<1>6. lastSeen' \in [Workers -> Ages \cup {NoWorker}]
  BY <1>5 DEF Tick
<1> QED
  BY <1>4, <1>6 DEF Tick, TypeOK, KeepsRuns, puzzleVars

LEMMA TestRangeAfterType ==
    ASSUME TypeOK, NEW i \in Rows(chunks)
    PROVE  TestRangeAfter(i) \in [Puzzles -> TestRanges \cup {NoRange}]
BY DEF TypeOK, TestRangeAfter

LEMMA DoneStep ==
    ASSUME TypeOK, NEW w \in Workers, NEW i \in Rows(chunks), SubmitDone(w, i)
    PROVE  TypeOK' /\ KeepsRuns
<1>1. CASE RefuseDone(w, i)
  BY <1>1 DEF RefuseDone, vars, puzzleVars, TypeOK, KeepsRuns, SameRuns, SameRun
<1>2. CASE ReturnIncomplete(w, i)
  <2>1. KeepsRuns
    BY <1>2, ReleasedTable DEF ReturnIncomplete, TypeOK, KeepsRuns
  <2> QED
    BY <1>2, <2>1 DEF ReturnIncomplete, TypeOK, KeepsRuns, puzzleVars
<1>3. CASE AcceptDone(w, i)
  <2>1. chunks[i] \in Chunk
    BY TableIsFunction DEF TypeOK, Rows
  <2>2. KeepsRuns
    BY <1>3, <2>1, CompleteRow, RowStep DEF AcceptDone
  <2>3. testRange' \in [Puzzles -> TestRanges \cup {NoRange}]
    BY <1>3, TestRangeAfterType DEF AcceptDone
  <2> QED
    BY <1>3, <2>2, <2>3 DEF AcceptDone, TypeOK, KeepsRuns
<1> QED
  BY <1>1, <1>2, <1>3 DEF SubmitDone

LEMMA FoundStep ==
    ASSUME TypeOK, NEW w \in Workers, NEW i \in Rows(chunks),
           NEW keys \in SUBSET Keys, NEW primary \in keys,
           SubmitFound(w, i, primary, keys)
    PROVE  TypeOK' /\ KeepsRuns
<1>1. CASE RefuseFound(w, i, primary)
  BY <1>1 DEF RefuseFound, vars, puzzleVars, TypeOK, KeepsRuns, SameRuns, SameRun
<1>2. CASE AcceptFound(w, i, primary, keys)
  <2>1. chunks \in Seq(Chunk) /\ chunks[i] \in Chunk /\ i \in Nat
    BY TableIsFunction DEF TypeOK, Rows
  <2>2. FoundRow(w, i, primary) \in Chunk
        /\ SameRun(chunks[i], FoundRow(w, i, primary))
    BY <2>1, CreditRow DEF FoundRow, SameRun
  <2>3. KeepsRuns
    BY <1>2, <2>2, RowStep DEF AcceptFound
  <2>4. testRange' \in [Puzzles -> TestRanges \cup {NoRange}]
    BY <1>2, TestRangeAfterType DEF AcceptFound
  <2>5. findings' \in SUBSET (Nat \X Workers \X Keys)
    BY <1>2, <2>1 DEF AcceptFound, Recorded, TypeOK
  <2> QED
    BY <1>2, <2>3, <2>4, <2>5 DEF AcceptFound, TypeOK, KeepsRuns
<1> QED
  BY <1>1, <1>2 DEF SubmitFound

LEMMA AdminStep ==
    ASSUME TypeOK, AdminNext
    PROVE  TypeOK' /\ KeepsRuns
<1>1. ASSUME UNCHANGED chunks
      PROVE  KeepsRuns
  BY <1>1 DEF TypeOK, KeepsRuns, SameRuns, SameRun
<1>2. ASSUME NEW p \in Puzzles, ActivatePuzzle(p)
      PROVE  TypeOK' /\ KeepsRuns
  BY <1>1, <1>2 DEF ActivatePuzzle, TypeOK
<1>3. ASSUME NEW r \in TestRanges \cup {NoRange}, SetTestChunk(r)
      PROVE  TypeOK' /\ KeepsRuns
  BY <1>1, <1>3 DEF SetTestChunk, TypeOK
<1>4. ASSUME NEW p \in Puzzles, NEW S \in ImportSets, ImportRanges(p, S)
      PROVE  TypeOK' /\ KeepsRuns
  <2>1. blocked \in [Puzzles -> SUBSET Nat]
    BY DEF TypeOK
  <2>2. Vchunks(p) \subseteq Nat
    BY PuzzlesAssumption DEF Vchunks
  <2>3. blocked' \in [Puzzles -> SUBSET Nat]
    BY <1>4, <2>1, <2>2 DEF ImportRanges
  <2> QED
    BY <1>1, <1>4, <2>3 DEF ImportRanges, TypeOK
<1> QED
  BY <1>2, <1>3, <1>4 DEF AdminNext

\* Only /work cuts sectors, and no range is ever blocked in a legacy puzzle.
KeepsSectors == UNCHANGED reached /\ \A p \in LegacyPuzzles : blocked'[p] = blocked[p]

LEMMA OtherStep ==
    ASSUME TypeOK, [Next]_vars
    PROVE  \/ KeepsSectors
           \/ \E w \in Workers, requested \in 1 .. MaxRun : Work(w, requested)
<1>1. CASE UNCHANGED vars
  BY <1>1 DEF vars, puzzleVars, KeepsSectors
<1>2. ASSUME NEW w \in Workers, WorkerNext(w),
             ~ \E requested \in 1 .. MaxRun : Work(w, requested)
      PROVE  KeepsSectors
  BY <1>2 DEF WorkerNext, Heartbeat, SubmitDone, RefuseDone, ReturnIncomplete,
              AcceptDone, SubmitFound, AcceptFound, RefuseFound, vars, puzzleVars,
              KeepsSectors
<1>3. CASE ReclaimTimedOut \/ Tick
  BY <1>3 DEF ReclaimTimedOut, Tick, puzzleVars, KeepsSectors
<1>4. CASE AdminNext
  <2>1. CASE \E p \in Puzzles, S \in ImportSets : ImportRanges(p, S)
    <3>1. PICK p \in Puzzles, S \in ImportSets : ImportRanges(p, S)
      BY <2>1
    <3>2. blocked \in [Puzzles -> SUBSET Nat]
      BY DEF TypeOK
    <3> QED
      BY <3>1, <3>2, PuzzlesAssumption DEF ImportRanges, KeepsSectors
  <2> QED
    BY <1>4, <2>1 DEF AdminNext, ActivatePuzzle, SetTestChunk, KeepsSectors
<1> QED
  BY <1>1, <1>2, <1>3, <1>4 DEF Next

\* Every handler but /work keeps the runs.
LEMMA NoWorkStep ==
    ASSUME TypeOK, [Next]_vars,
           ~ \E w \in Workers, requested \in 1 .. MaxRun : Work(w, requested)
    PROVE  TypeOK' /\ KeepsRuns
<1>1. ASSUME NEW w \in Workers, WorkerNext(w)
      PROVE  TypeOK' /\ KeepsRuns
  <2>1. CASE \E i \in Rows(chunks) \cup {0} : Heartbeat(w, i)
    BY <2>1, HeartbeatStep
  <2>2. CASE \E i \in Rows(chunks) : SubmitDone(w, i)
    BY <2>2, DoneStep
  <2>3. CASE \E i \in Rows(chunks), keys \in SUBSET Keys : \E primary \in keys :
               SubmitFound(w, i, primary, keys)
    BY <2>3, FoundStep
  <2> QED
    BY <1>1, <2>1, <2>2, <2>3 DEF WorkerNext
<1>2. CASE UNCHANGED vars
  BY <1>2 DEF vars, puzzleVars, TypeOK, KeepsRuns, SameRuns, SameRun
<1> QED
  BY <1>1, <1>2, ReclaimStep, TickStep, AdminStep DEF Next

LEMMA StepKinds ==
    ASSUME TypeOK, SectorsFree, [Next]_vars
    PROVE  /\ TypeOK'
           /\ (KeepsRuns /\ KeepsSectors) \/ AddsRow
           /\ \A p \in LegacyPuzzles : blocked'[p] = blocked[p]
<1>1. ASSUME NEW w \in Workers, NEW requested \in 1 .. MaxRun, Work(w, requested)
      PROVE  /\ TypeOK'
             /\ (KeepsRuns /\ UNCHANGED reached) \/ AddsRow
             /\ UNCHANGED blocked
  BY <1>1, WorkStep DEF Work
<1>2. CASE \E w \in Workers, requested \in 1 .. MaxRun : Work(w, requested)
  BY <1>1, <1>2 DEF KeepsSectors
<1>3. CASE ~ \E w \in Workers, requested \in 1 .. MaxRun : Work(w, requested)
  BY <1>3, NoWorkStep, OtherStep DEF KeepsSectors
<1> QED
  BY <1>2, <1>3

-----------------------------------------------------------------------------
(* The theorems *)

LEMMA InitTypeOK ==
    ASSUME Init
    PROVE  TypeOK
<1>1. chunks \in Seq(Chunk)
  BY EmptySeq DEF Init
<1>2. ASSUME NEW p \in Puzzles
      PROVE  0 \in Vchunks(p)
  <2>1. VchunkCount[p] \in Nat \ {0}
    BY PuzzlesAssumption
  <2> QED
    BY <2>1 DEF Vchunks
<1>3. ASSUME NEW p \in LegacyPuzzles
      PROVE  reached[p] \in [Sectors(VchunkCount[p]) -> Nat]
  <2>1. VchunkCount[p] \in Nat \ {0}
    BY PuzzlesAssumption
  <2>2. \A s \in Sectors(VchunkCount[p]) : SectorStart(VchunkCount[p], s) \in Nat
    BY <2>1, SectorBounds
  <2> QED
    BY <2>2 DEF Init
<1>4. /\ reached \in [LegacyPuzzles ->
                        UNION {[Sectors(VchunkCount[p]) -> Nat] : p \in LegacyPuzzles}]
      /\ \A p \in LegacyPuzzles : DOMAIN reached[p] = Sectors(VchunkCount[p])
  BY <1>3 DEF Init
<1>5. findings \in SUBSET (Nat \X Workers \X Keys)
  BY DEF Init
<1>6. /\ lastSeen \in [Workers -> Ages \cup {NoWorker}]
      /\ active \in Puzzles
      /\ testRange \in [Puzzles -> TestRanges \cup {NoRange}]
      /\ blocked \in [Puzzles -> SUBSET Nat]
  BY DEF Init
<1>7. /\ cursor \in [Puzzles -> Nat]
      /\ \A p \in Puzzles : cursor[p] \in Vchunks(p)
      /\ stage \in [Puzzles -> 0 .. 3]
  BY <1>2 DEF Init
<1> QED
  BY <1>1, <1>4, <1>5, <1>6, <1>7 DEF TypeOK

LEMMA InitSectorsFree ==
    ASSUME Init
    PROVE  SectorsFree
<1>1. ASSUME NEW p \in LegacyPuzzles
      PROVE  /\ p \in Puzzles
             /\ NormalRows(chunks, p) = {}
  BY PuzzlesAssumption DEF Init, NormalRows, Rows
<1>2. ASSUME NEW p \in LegacyPuzzles, NEW s \in Sectors(VchunkCount[p])
      PROVE  SectorFree(chunks, p, s)
  <2>1. VchunkCount[p] \in Nat \ {0}
    BY PuzzlesAssumption
  <2>2. reached[p][s] = SectorStart(VchunkCount[p], s)
    BY DEF Init
  <2> QED
    BY <1>1, <2>1, <2>2, SectorBounds DEF SectorFree
<1> QED
  BY <1>1, <1>2 DEF Init, SectorsFree

(* A sector keeps its free keys when rows keep their runs, and when a row is *)
(* added that has none of them.                                              *)

LEMMA KeptSector ==
    ASSUME NEW t, NEW u, SameRuns(t, u), NEW p, NEW s, SectorFree(t, p, s)
    PROVE  SectorFree(u, p, s)
<1>1. ASSUME NEW i \in NormalRows(u, p)
      PROVE  i \in NormalRows(t, p) /\ RunOf(u[i]) = RunOf(t[i])
  BY DEF NormalRows, Rows, RunOf, SameRuns, SameRun
<1> QED
  BY <1>1 DEF SectorFree

LEMMA AddedNormalRow ==
    ASSUME NEW t \in Seq(Chunk), NEW c \in Chunk, NEW p,
           NEW i \in NormalRows(Append(t, c), p)
    PROVE  \/ i \in NormalRows(t, p) /\ Append(t, c)[i] = t[i]
           \/ Append(t, c)[i] = c /\ c.puzzle = p /\ ~c.isTest
<1> DEFINE u == Append(t, c)
<1>1. u \in Seq(Chunk) /\ Len(u) = Len(t) + 1 /\ Len(t) \in Nat
  BY AppendProperties, LenProperties
<1>2. DOMAIN t = 1 .. Len(t) /\ DOMAIN u = 1 .. (Len(t) + 1)
  BY <1>1, TableIsFunction
<1>3. (\A k \in DOMAIN t : u[k] = t[k]) /\ u[Len(t) + 1] = c
  BY <1>2, AppendProperties
<1> HIDE DEF u
<1>4. i \in DOMAIN t \/ i = Len(t) + 1
  BY <1>1, <1>2 DEF NormalRows, Rows, u
<1>5. i \in DOMAIN u /\ u[i].puzzle = p /\ ~u[i].isTest
  BY DEF NormalRows, Rows, u
<1> QED
  BY <1>3, <1>4, <1>5 DEF NormalRows, Rows, u

\* What has to be shown of a sector after a row c is appended.
LEMMA AddedToSector ==
    ASSUME TypeOK, SectorsFree, NEW p \in LegacyPuzzles,
           NEW s \in Sectors(VchunkCount[p]),
           NEW tbl \in Seq(Chunk), NEW c \in Chunk,
           SameRuns(chunks, tbl), chunks' = Append(tbl, c),
           SectorStart(VchunkCount[p], s) <= reached'[p][s],
           reached'[p][s] <= SectorEnd(VchunkCount[p], s),
           reached'[p][s] \in Nat, reached[p][s] \in Nat,
           reached[p][s] <= reached'[p][s],
           c.puzzle = p /\ ~c.isTest => RunOf(c) \cap Left(p, s)' = {}
    PROVE  SectorFree(chunks, p, s)'
<1>1. SectorFree(tbl, p, s)
  BY KeptSector DEF SectorsFree
<1>2. SectorEnd(VchunkCount[p], s) \in Nat
  BY PuzzlesAssumption, SectorBounds
<1>3. Left(p, s)' \subseteq Left(p, s)
  BY <1>2 DEF Left
<1>4. ASSUME NEW i \in NormalRows(chunks', p)
      PROVE  RunOf(chunks'[i]) \cap Left(p, s)' = {}
  <2>1. \/ i \in NormalRows(tbl, p) /\ chunks'[i] = tbl[i]
        \/ chunks'[i] = c /\ c.puzzle = p /\ ~c.isTest
    <3>1. i \in NormalRows(Append(tbl, c), p)
      BY <1>4
    <3>2. \/ i \in NormalRows(tbl, p) /\ Append(tbl, c)[i] = tbl[i]
          \/ Append(tbl, c)[i] = c /\ c.puzzle = p /\ ~c.isTest
      BY <3>1, AddedNormalRow, Zenon
    <3> QED
      BY <3>2
  <2> QED
    BY <1>1, <1>3, <2>1 DEF SectorFree
<1> QED
  BY <1>4 DEF SectorFree

LEMMA SectorsStep ==
    ASSUME TypeOK, SectorsFree, [Next]_vars
    PROVE  SectorsFree'
<1>1. \A p \in LegacyPuzzles : blocked'[p] = {}
  BY StepKinds DEF SectorsFree
<1>2. ASSUME NEW p \in LegacyPuzzles, NEW s \in Sectors(VchunkCount[p])
      PROVE  SectorFree(chunks, p, s)'
  <2>0. /\ VchunkCount[p] \in Nat \ {0}
        /\ reached[p] \in [Sectors(VchunkCount[p]) -> Nat]
        /\ SectorFree(chunks, p, s)
    <3>1. VchunkCount[p] \in Nat \ {0}
      BY PuzzlesAssumption
    <3>2. reached[p] \in [Sectors(VchunkCount[p]) -> Nat]
      BY DEF TypeOK
    <3>3. SectorFree(chunks, p, s)
      BY DEF SectorsFree
    <3> QED
      BY <3>1, <3>2, <3>3
  <2>1. CASE KeepsRuns /\ KeepsSectors
    <3>0. SameRuns(chunks, chunks')
      BY <2>1 DEF KeepsRuns
    <3>1. SectorFree(chunks', p, s)
      BY <2>0, <3>0, KeptSector
    <3> QED
      BY <2>1, <3>1 DEF SectorFree, Left, KeepsSectors
  <2>2. CASE AddsRow
    <3>1. PICK tbl \in Seq(Chunk), c \in Chunk :
             /\ SameRuns(chunks, tbl)
             /\ chunks' = Append(tbl, c)
             /\ CutsNone(c) \/ CutsSector(c)
      BY <2>2 DEF AddsRow
    <3>2. CASE CutsNone(c)
      <4>1. reached' = reached /\ ~(c.puzzle = p /\ ~c.isTest)
        BY <3>2 DEF CutsNone
      <4>2. reached[p][s] \in Nat /\ reached[p][s] <= reached[p][s]
        BY <2>0
      <4> QED
        BY <2>0, <3>1, <4>1, <4>2, AddedToSector DEF SectorFree
    <3>3. CASE CutsSector(c)
      <4>1. PICK t \in Sectors(VchunkCount[c.puzzle]) :
               /\ c.puzzle \in LegacyPuzzles
               /\ c.lo = reached[c.puzzle][t]
               /\ c.lo < c.hi
               /\ c.hi <= SectorEnd(VchunkCount[c.puzzle], t)
               /\ reached' = [reached EXCEPT ![c.puzzle][t] = c.hi]
        BY <3>3 DEF CutsSector
      <4>2. c.lo \in Nat /\ c.hi \in Nat
        BY DEF Chunk
      <4>3. DOMAIN reached = LegacyPuzzles /\ DOMAIN reached[p] = Sectors(VchunkCount[p])
        BY DEF TypeOK
      <4>4. CASE c.puzzle # p
        <5>1. reached'[p] = reached[p]
          BY <4>1, <4>3, <4>4
        <5>2. reached[p][s] \in Nat /\ reached[p][s] <= reached[p][s]
          BY <2>0
        <5> QED
          BY <2>0, <3>1, <4>4, <5>1, <5>2, AddedToSector DEF SectorFree
      <4>5. CASE c.puzzle = p /\ t # s
        <5>1. reached'[p][s] = reached[p][s]
          BY <4>1, <4>3, <4>5
        <5>2. reached[p][s] \in Nat /\ reached[p][s] <= reached[p][s]
          BY <2>0
        <5>3. /\ SectorFree(chunks, p, t)
              /\ t \in Sectors(VchunkCount[p]) /\ s \in Nat /\ t \in Nat
          BY <4>1, <4>5 DEF SectorsFree, Sectors
        <5>4. \/ SectorEnd(VchunkCount[p], s) <= SectorStart(VchunkCount[p], t)
              \/ SectorEnd(VchunkCount[p], t) <= SectorStart(VchunkCount[p], s)
          BY <2>0, <4>5, <5>3, SectorsApart
        <5>5. /\ SectorEnd(VchunkCount[p], s) \in Nat
              /\ SectorStart(VchunkCount[p], s) \in Nat
              /\ SectorEnd(VchunkCount[p], t) \in Nat
              /\ SectorStart(VchunkCount[p], t) \in Nat
          BY <2>0, <5>3, SectorBounds
        <5>6. c.lo >= SectorStart(VchunkCount[p], t) /\ c.hi <= SectorEnd(VchunkCount[p], t)
          BY <4>1, <4>5, <5>3 DEF SectorFree
        <5>7. reached[p][s] >= SectorStart(VchunkCount[p], s)
          BY <2>0 DEF SectorFree
        <5>8. RunOf(c) \cap Left(p, s)' = {}
          BY <4>2, <5>1, <5>2, <5>4, <5>5, <5>6, <5>7 DEF RunOf, Left
        <5> QED
          BY <2>0, <3>1, <5>1, <5>2, <5>8, AddedToSector DEF SectorFree
      <4>6. CASE c.puzzle = p /\ t = s
        <5>1. reached'[p][s] = c.hi /\ reached[p][s] = c.lo
          BY <4>1, <4>3, <4>6
        <5>2. c.hi <= SectorEnd(VchunkCount[p], s) /\ c.lo < c.hi
          BY <4>1, <4>6
        <5>3. SectorStart(VchunkCount[p], s) \in Nat /\ SectorEnd(VchunkCount[p], s) \in Nat
          BY <2>0, SectorBounds
        <5>4. SectorStart(VchunkCount[p], s) <= c.lo
          BY <2>0, <5>1 DEF SectorFree
        <5>5. RunOf(c) \cap Left(p, s)' = {}
          BY <4>2, <5>1, <5>2, <5>3 DEF RunOf, Left
        <5>6. SectorStart(VchunkCount[p], s) <= c.hi /\ c.lo <= c.hi
          BY <4>2, <5>2, <5>3, <5>4
        <5> QED
          BY <3>1, <4>2, <5>1, <5>2, <5>5, <5>6, AddedToSector
      <4> QED
        BY <4>4, <4>5, <4>6
    <3> QED
      BY <3>1, <3>2, <3>3
  <2> QED
    BY <2>1, <2>2, StepKinds
<1> QED
  BY <1>1, <1>2 DEF SectorsFree

\* Rows and columns keep their types over every handler, and what a sector
\* of a legacy puzzle has left is in no job: the two together are inductive.
LEMMA Inductive == Spec => [](TypeOK /\ SectorsFree)
<1>1. Init => TypeOK /\ SectorsFree
  BY InitTypeOK, InitSectorsFree
<1>2. TypeOK /\ SectorsFree /\ [Next]_vars => TypeOK' /\ SectorsFree'
  BY StepKinds, SectorsStep
<1> QED
  BY <1>1, <1>2, PTL DEF Spec

\* Rows and columns keep their types over every handler, for any number of
\* workers, puzzles and virtual chunks.
THEOREM TypeCorrect == Spec => []TypeOK
BY Inductive, PTL

\* What a sector of a legacy puzzle has left is in no job, whatever happens to
\* the jobs cut from it: current_hex is enough to never hand out a key twice.
THEOREM SectorsFreeCorrect == Spec => []SectorsFree
BY Inductive, PTL

(* NoDoubleIssue and JobsInsideKeyspace of any table. *)

RunsDisjoint(tbl) ==
    \A p \in Puzzles : \A i, j \in NormalRows(tbl, p) :
        i # j => RunOf(tbl[i]) \cap RunOf(tbl[j]) = {}

RunsInside(tbl) ==
    \A p \in Puzzles : \A i \in NormalRows(tbl, p) :
        /\ tbl[i].lo < tbl[i].hi
        /\ tbl[i].hi <= VchunkCount[p]

RunsOK(tbl) == RunsDisjoint(tbl) /\ RunsInside(tbl)

LEMMA KeptRuns ==
    ASSUME NEW t, NEW u, SameRuns(t, u), RunsOK(t)
    PROVE  RunsOK(u)
<1>1. ASSUME NEW p \in Puzzles
      PROVE  NormalRows(u, p) = NormalRows(t, p)
  BY DEF NormalRows, Rows, SameRuns, SameRun
<1>2. ASSUME NEW p \in Puzzles, NEW i \in NormalRows(u, p)
      PROVE  /\ i \in NormalRows(t, p)
             /\ u[i].lo = t[i].lo
             /\ u[i].hi = t[i].hi
             /\ RunOf(u[i]) = RunOf(t[i])
  BY <1>1, <1>2 DEF NormalRows, Rows, RunOf, SameRuns, SameRun
<1>3. RunsDisjoint(u)
  BY <1>2 DEF RunsDisjoint, RunsOK
<1>4. RunsInside(u)
  BY <1>2 DEF RunsInside, RunsOK
<1> QED
  BY <1>3, <1>4 DEF RunsOK

LEMMA AddedRun ==
    ASSUME NEW t \in Seq(Chunk), NEW c \in Chunk, FreshRow(t, c), RunsOK(t)
    PROVE  RunsOK(Append(t, c))
<1> DEFINE u == Append(t, c)
           new == Len(t) + 1
<1>1. /\ Len(t) \in Nat
      /\ DOMAIN t = 1 .. Len(t)
      /\ DOMAIN u = 1 .. new
      /\ \A i \in DOMAIN t : u[i] = t[i]
      /\ u[new] = c
  <2>1. u \in Seq(Chunk) /\ Len(u) = new
    BY AppendProperties
  <2> QED
    BY <2>1, AppendProperties, TableIsFunction
<1> HIDE DEF u
<1>2. ASSUME NEW p \in Puzzles, NEW i \in NormalRows(u, p), i # new
      PROVE  i \in NormalRows(t, p) /\ u[i] = t[i]
  BY <1>1, <1>2 DEF NormalRows, Rows
<1>3. ASSUME NEW p \in Puzzles, new \in NormalRows(u, p)
      PROVE  /\ c.lo < c.hi
             /\ c.hi <= VchunkCount[p]
             /\ \A i \in NormalRows(t, p) : RunOf(c) \cap RunOf(t[i]) = {}
  BY <1>1, <1>3 DEF FreshRow, Taken, Occupied, NormalRows, Rows
<1>4. RunsDisjoint(u)
  <2> SUFFICES ASSUME NEW p \in Puzzles,
                      NEW i \in NormalRows(u, p), NEW j \in NormalRows(u, p), i # j
               PROVE  RunOf(u[i]) \cap RunOf(u[j]) = {}
    BY DEF RunsDisjoint
  <2>1. CASE i # new /\ j # new
    BY <1>2, <2>1 DEF RunsOK, RunsDisjoint
  <2>2. CASE i = new
    BY <1>1, <1>2, <1>3, <2>2
  <2>3. CASE j = new
    BY <1>1, <1>2, <1>3, <2>3
  <2> QED
    BY <2>1, <2>2, <2>3
<1>5. RunsInside(u)
  BY <1>1, <1>2, <1>3 DEF RunsOK, RunsInside
<1> QED
  BY <1>4, <1>5 DEF RunsOK, u

LEMMA RunsStep ==
    ASSUME TypeOK, SectorsFree, [Next]_vars, RunsOK(chunks)
    PROVE  RunsOK(chunks')
<1>1. CASE KeepsRuns
  BY <1>1, KeptRuns DEF KeepsRuns
<1>2. CASE AddsRow
  BY <1>2, KeptRuns, AddedRun DEF AddsRow
<1> QED
  BY <1>1, <1>2, StepKinds

\* Both facts about runs that the next two theorems state.
THEOREM RunsCorrect == Spec => []RunsOK(chunks)
<1>1. Init => RunsOK(chunks)
  BY DEF Init, RunsOK, RunsDisjoint, RunsInside, NormalRows, Rows
<1>2. TypeOK /\ SectorsFree /\ RunsOK(chunks) /\ [Next]_vars => RunsOK(chunks)'
  BY RunsStep
<1> QED
  BY <1>1, <1>2, Inductive, PTL DEF Spec

\* No virtual chunk is ever in two jobs, whatever happens to the jobs: the
\* search of the allocator avoids every run that was ever inserted.
THEOREM NoDoubleIssueCorrect == Spec => []NoDoubleIssue
<1>1. RunsOK(chunks) => NoDoubleIssue
  BY DEF RunsOK, RunsDisjoint, NoDoubleIssue
<1> QED
  BY <1>1, RunsCorrect, PTL

\* Every job is a non-empty run inside its puzzle, on the bootstrap path and
\* on the probe path, for every run length a worker may ask for.
THEOREM JobsInsideKeyspaceCorrect == Spec => []JobsInsideKeyspace
<1>1. TypeOK /\ RunsOK(chunks) => JobsInsideKeyspace
  <2> SUFFICES ASSUME TypeOK, RunsOK(chunks),
                      NEW p \in Puzzles, NEW i \in NormalRows(chunks, p)
               PROVE  /\ chunks[i].lo < chunks[i].hi
                      /\ RunOf(chunks[i]) \subseteq Vchunks(p)
    BY DEF JobsInsideKeyspace
  <2>1. chunks[i] \in Chunk
    BY TableIsFunction DEF TypeOK, NormalRows, Rows
  <2>2. chunks[i].lo < chunks[i].hi /\ chunks[i].hi <= VchunkCount[p]
    BY DEF RunsOK, RunsInside
  <2>3. chunks[i].lo \in Nat /\ chunks[i].hi \in Nat /\ VchunkCount[p] \in Nat
    BY <2>1, PuzzlesAssumption DEF Chunk
  <2> QED
    BY <2>2, <2>3 DEF RunOf, Vchunks
<1> QED
  BY <1>1, TypeCorrect, RunsCorrect, PTL

\* A fresh job avoids what was blocked when it was issued.
THEOREM FreshJobsAvoidBlockedCorrect == Spec => FreshJobsAvoidBlocked
<1>1. ASSUME TypeOK, SectorsFree, [Next]_vars, NEW i \in Rows(chunks') \ Rows(chunks),
             ~chunks'[i].isTest
      PROVE  RunOf(chunks'[i]) \cap blocked[chunks'[i].puzzle] = {}
  <2>1. CASE KeepsRuns
    BY <1>1, <2>1 DEF KeepsRuns, SameRuns, Rows
  <2>2. CASE AddsRow
    <3>1. PICK tbl \in Seq(Chunk), c \in Chunk :
             /\ SameRuns(chunks, tbl)
             /\ FreshRow(tbl, c)
             /\ chunks' = Append(tbl, c)
      BY <2>2 DEF AddsRow
    <3>2. DOMAIN chunks = 1 .. Len(tbl) /\ Len(tbl) \in Nat
      BY <3>1, TableIsFunction DEF SameRuns
    <3>3. DOMAIN chunks' = 1 .. (Len(tbl) + 1) /\ chunks'[Len(tbl) + 1] = c
      BY <3>1, AppendProperties, TableIsFunction
    <3>4. chunks'[i] = c
      BY <1>1, <3>2, <3>3 DEF Rows
    <3> QED
      BY <1>1, <3>1, <3>4 DEF FreshRow, Taken
  <2> QED
    BY <1>1, <2>1, <2>2, StepKinds
<1>2. TypeOK /\ SectorsFree /\ [Next]_vars =>
        [\A i \in Rows(chunks') \ Rows(chunks) :
            ~chunks'[i].isTest =>
                RunOf(chunks'[i]) \cap blocked[chunks'[i].puzzle] = {}]_chunks
  BY <1>1
<1> QED
  BY <1>2, Inductive, PTL DEF Spec, FreshJobsAvoidBlocked

-----------------------------------------------------------------------------
(* The bootstrap stage *)

StageCounts(p) == stage[p] < 3 => Cardinality(NormalRows(chunks, p)) = stage[p]

LEMMA SameNormalRows ==
    ASSUME NEW t, NEW u, SameRuns(t, u), NEW p
    PROVE  NormalRows(u, p) = NormalRows(t, p)
BY DEF NormalRows, Rows, SameRuns, SameRun

LEMMA NormalRowsFinite ==
    ASSUME NEW t \in Seq(Chunk), NEW p
    PROVE  IsFiniteSet(NormalRows(t, p))
<1>1. IsFiniteSet(1 .. Len(t))
  BY TableIsFunction, FS_Interval
<1>2. NormalRows(t, p) \subseteq 1 .. Len(t)
  BY TableIsFunction DEF NormalRows, Rows
<1> QED
  BY <1>1, <1>2, FS_Subset

LEMMA AppendedNormalRows ==
    ASSUME NEW t \in Seq(Chunk), NEW c \in Chunk, NEW p
    PROVE  LET u == Append(t, c) IN
           /\ (c.isTest \/ c.puzzle # p) => NormalRows(u, p) = NormalRows(t, p)
           /\ (~c.isTest /\ c.puzzle = p) =>
                 Cardinality(NormalRows(u, p)) = Cardinality(NormalRows(t, p)) + 1
<1> DEFINE u == Append(t, c)
           new == Len(t) + 1
<1>1. /\ Rows(u) = Rows(t) \cup {new}
      /\ new \notin Rows(t)
      /\ \A j \in Rows(t) : u[j] = t[j]
      /\ u[new] = c
  BY AppendedRows
<1> HIDE DEF u, new
<1>2. (c.isTest \/ c.puzzle # p) => NormalRows(u, p) = NormalRows(t, p)
  BY <1>1 DEF NormalRows
<1>3. ASSUME ~c.isTest, c.puzzle = p
      PROVE  Cardinality(NormalRows(u, p)) = Cardinality(NormalRows(t, p)) + 1
  <2>1. /\ NormalRows(u, p) = NormalRows(t, p) \cup {new}
        /\ new \notin NormalRows(t, p)
    BY <1>1, <1>3 DEF NormalRows
  <2> QED
    BY <2>1, NormalRowsFinite, FS_AddElement
<1> QED
  BY <1>2, <1>3 DEF u

\* A row inserted by /work counts for its own puzzle only.
LEMMA InsertCounts ==
    ASSUME TypeOK, TypeOK', NEW t \in Seq(Chunk), SameRuns(chunks, t), NEW p,
           NEW c, chunks' = Append(t, c)
    PROVE  /\ (c.isTest \/ c.puzzle # p) => NormalRows(chunks', p) = NormalRows(chunks, p)
           /\ (~c.isTest /\ c.puzzle = p) =>
                 Cardinality(NormalRows(chunks', p)) = Cardinality(NormalRows(chunks, p)) + 1
<1>1. c \in Chunk
  BY AppendedIsChunk DEF TypeOK
<1>2. NormalRows(t, p) = NormalRows(chunks, p)
  BY SameNormalRows
<1> QED
  BY <1>1, <1>2, AppendedNormalRows

LEMMA WorkCounts ==
    ASSUME TypeOK, TypeOK', NEW w \in Workers, NEW requested \in 1 .. MaxRun,
           Work(w, requested), NEW p \in Puzzles \ LegacyPuzzles, StageCounts(p)
    PROVE  StageCounts(p)'
<1> DEFINE t == TableFor(w)
<1>1. t \in Seq(Chunk) /\ SameRuns(chunks, t)
  BY TableForRuns
<1>2. stage \in [Puzzles -> 0 .. 3] /\ active \in Puzzles
  BY DEF TypeOK
<1> HIDE DEF t
<1>3. ASSUME NormalRows(chunks', p) = NormalRows(chunks, p), UNCHANGED stage
      PROVE  StageCounts(p)'
  BY <1>3 DEF StageCounts
<1>4. ASSUME chunks' = t, UNCHANGED stage
      PROVE  StageCounts(p)'
  BY <1>1, <1>3, <1>4, SameNormalRows
<1>5. ASSUME NEW i \in Rows(t), chunks' = Granted(t, i, w), UNCHANGED stage
      PROVE  StageCounts(p)'
  <2>1. t[i] \in Chunk
    BY <1>1, TableIsFunction DEF Rows
  <2>2. SameRuns(t, chunks')
    BY <1>1, <1>5, <2>1, GrantRow, ReplacedRow DEF Granted, Rows
  <2> QED
    BY <1>1, <1>3, <1>5, <2>2, SameNormalRows
<1>6. CASE ReturnExisting(w, t) \/ NoWork(w, t, requested)
  BY <1>4, <1>6 DEF ReturnExisting, NoWork
<1>7. CASE ReissueTestChunk(w, t)
  BY <1>5, <1>7 DEF ReissueTestChunk, TestRows
<1>8. CASE IssueTestChunk(w, t)
  <2> DEFINE c == NewChunk(active, testRange[active][1], testRange[active][2], TRUE, w)
  <2>1. chunks' = Append(t, c) /\ UNCHANGED stage
    BY <1>8 DEF IssueTestChunk
  <2>2. c.isTest
    BY DEF NewChunk
  <2> HIDE DEF c
  <2> QED
    BY <1>1, <1>3, <2>1, <2>2, InsertCounts
<1>9. CASE ReissueReclaimed(w, t)
  BY <1>5, <1>9 DEF ReissueReclaimed, Reclaimable, NormalRows
<1>10. ASSUME NEW lo, NEW n, InsertRun(w, t, lo, n)
       PROVE  /\ active # p => NormalRows(chunks', p) = NormalRows(chunks, p)
              /\ active = p =>
                   Cardinality(NormalRows(chunks', p)) = Cardinality(NormalRows(chunks, p)) + 1
  <2> DEFINE c == NewChunk(active, lo, lo + n, FALSE, w)
  <2>1. chunks' = Append(t, c)
    BY <1>10 DEF InsertRun
  <2>2. c.isTest = FALSE /\ c.puzzle = active
    BY DEF NewChunk
  <2> HIDE DEF c
  <2> QED
    BY <1>1, <2>1, <2>2, InsertCounts
<1>11. CASE IssueAnchor(w, t, requested)
  <2>1. /\ \E lo, n : InsertRun(w, t, lo, n)
        /\ stage' = [stage EXCEPT ![active] = @ + 1]
        /\ stage[active] < 3
    BY <1>11 DEF IssueAnchor, Bootstrapping
  <2>2. CASE active = p
    BY <1>2, <1>10, <2>1, <2>2 DEF StageCounts
  <2>3. CASE active # p
    BY <1>2, <1>10, <2>1, <2>3 DEF StageCounts
  <2> QED
    BY <2>2, <2>3
<1>12. CASE IssueProbed(w, t, requested)
  <2>1. (\E lo, n : InsertRun(w, t, lo, n)) /\ stage' = [stage EXCEPT ![active] = 3]
    BY <1>12 DEF IssueProbed
  <2>2. CASE active = p
    BY <1>2, <2>1, <2>2 DEF StageCounts
  <2>3. CASE active # p
    BY <1>2, <1>10, <2>1, <2>3 DEF StageCounts
  <2> QED
    BY <2>2, <2>3
<1>13. CASE IssueKeys(w, t, requested)
  <2>1. (\E lo, n : InsertRun(w, t, lo, n)) /\ UNCHANGED stage /\ active # p
    BY <1>13 DEF IssueKeys, NeedsKeys
  <2> QED
    BY <1>3, <1>10, <2>1
<1> QED
  BY <1>6, <1>7, <1>8, <1>9, <1>11, <1>12, <1>13 DEF Work, t

LEMMA OtherStages ==
    ASSUME [Next]_vars
    PROVE  \/ UNCHANGED stage
           \/ \E w \in Workers, requested \in 1 .. MaxRun : Work(w, requested)
<1>1. ASSUME NEW w \in Workers, WorkerNext(w),
             ~ \E requested \in 1 .. MaxRun : Work(w, requested)
      PROVE  UNCHANGED stage
  BY <1>1 DEF WorkerNext, Heartbeat, SubmitDone, RefuseDone, ReturnIncomplete,
              AcceptDone, SubmitFound, AcceptFound, RefuseFound, vars, puzzleVars
<1>2. CASE ReclaimTimedOut \/ Tick \/ UNCHANGED vars
  BY <1>2 DEF ReclaimTimedOut, Tick, vars, puzzleVars
<1>3. CASE AdminNext
  BY <1>3 DEF AdminNext, ActivatePuzzle, SetTestChunk, ImportRanges
<1> QED
  BY <1>1, <1>2, <1>3 DEF Next

\* While a puzzle bootstraps, its stage is the number of jobs it issued: no reclaim,
\* reissue, test chunk or switch of puzzles skips an anchor or repeats one.
THEOREM StageCountsJobsCorrect == Spec => []StageCountsJobs
<1>1. Init => StageCountsJobs
  <2> SUFFICES ASSUME Init, NEW p \in Puzzles \ LegacyPuzzles
               PROVE  Cardinality(NormalRows(chunks, p)) = stage[p]
    BY DEF StageCountsJobs
  <2>1. NormalRows(chunks, p) = {} /\ stage[p] = 0
    BY DEF Init, NormalRows, Rows
  <2> QED
    BY <2>1, FS_EmptySet
<1>2. ASSUME TypeOK, TypeOK', StageCountsJobs, [Next]_vars
      PROVE  StageCountsJobs'
  <2>1. ASSUME NEW p \in Puzzles \ LegacyPuzzles
        PROVE  StageCounts(p)'
    <3>1. StageCounts(p)
      BY <1>2 DEF StageCountsJobs, StageCounts
    <3>2. CASE \E w \in Workers, requested \in 1 .. MaxRun : Work(w, requested)
      BY <1>2, <3>1, <3>2, WorkCounts
    <3>3. CASE ~ \E w \in Workers, requested \in 1 .. MaxRun : Work(w, requested)
      <4>1. UNCHANGED stage /\ KeepsRuns
        BY <1>2, <3>3, OtherStages, NoWorkStep
      <4>2. NormalRows(chunks', p) = NormalRows(chunks, p)
        BY <4>1, SameNormalRows DEF KeepsRuns
      <4> QED
        BY <3>1, <4>1, <4>2 DEF StageCounts
    <3> QED
      BY <3>2, <3>3
  <2> QED
    BY <2>1 DEF StageCountsJobs, StageCounts
<1> QED
  BY <1>1, <1>2, TypeCorrect, PTL DEF Spec

-----------------------------------------------------------------------------
(* "All keyspace has been assigned" *)

\* The keys of sector s that jobs were cut from.
CutKeys(p, s) == SectorStart(VchunkCount[p], s) .. (reached[p][s] - 1)

\* What a sector has behind it is in jobs: the legacy allocator skips no key.
SectorsCut ==
    \A p \in LegacyPuzzles : \A s \in Sectors(VchunkCount[p]) :
        CutKeys(p, s) \subseteq Occupied(chunks, p)

LEMMA SameOccupied ==
    ASSUME NEW t, NEW u, SameRuns(t, u), NEW p
    PROVE  Occupied(u, p) = Occupied(t, p)
<1>1. NormalRows(u, p) = NormalRows(t, p)
  BY SameNormalRows
<1>2. \A i \in NormalRows(t, p) : RunOf(u[i]) = RunOf(t[i])
  BY DEF NormalRows, Rows, SameRuns, SameRun, RunOf
<1> QED
  BY <1>1, <1>2 DEF Occupied

LEMMA GrownOccupied ==
    ASSUME NEW t \in Seq(Chunk), NEW c \in Chunk, NEW p
    PROVE  /\ Occupied(t, p) \subseteq Occupied(Append(t, c), p)
           /\ c.puzzle = p /\ ~c.isTest => RunOf(c) \subseteq Occupied(Append(t, c), p)
<1> DEFINE u == Append(t, c)
<1>1. /\ Rows(u) = Rows(t) \cup {Len(t) + 1}
      /\ \A j \in Rows(t) : u[j] = t[j]
      /\ u[Len(t) + 1] = c
  BY AppendedRows
<1> HIDE DEF u
<1>2. \A i \in NormalRows(t, p) : i \in NormalRows(u, p) /\ u[i] = t[i]
  BY <1>1 DEF NormalRows
<1>3. c.puzzle = p /\ ~c.isTest => Len(t) + 1 \in NormalRows(u, p)
  BY <1>1 DEF NormalRows
<1>4. Occupied(t, p) \subseteq Occupied(u, p)
  BY <1>2 DEF Occupied
<1>5. c.puzzle = p /\ ~c.isTest => RunOf(c) \subseteq Occupied(u, p)
  BY <1>1, <1>3 DEF Occupied
<1> QED
  BY <1>4, <1>5 DEF u

LEMMA SectorsCutStep ==
    ASSUME TypeOK, SectorsFree, SectorsCut, [Next]_vars
    PROVE  SectorsCut'
<1> SUFFICES ASSUME NEW p \in LegacyPuzzles, NEW s \in Sectors(VchunkCount[p])
             PROVE  CutKeys(p, s)' \subseteq Occupied(chunks', p)
  BY DEF SectorsCut
<1>1. CutKeys(p, s) \subseteq Occupied(chunks, p)
  BY DEF SectorsCut
<1>2. CASE KeepsRuns /\ KeepsSectors
  BY <1>1, <1>2, SameOccupied DEF KeepsRuns, KeepsSectors, CutKeys
<1>3. CASE AddsRow
  <2>1. PICK tbl \in Seq(Chunk), c \in Chunk :
           /\ SameRuns(chunks, tbl)
           /\ chunks' = Append(tbl, c)
           /\ CutsNone(c) \/ CutsSector(c)
    BY <1>3 DEF AddsRow
  <2>2. /\ CutKeys(p, s) \subseteq Occupied(chunks', p)
        /\ c.puzzle = p /\ ~c.isTest => RunOf(c) \subseteq Occupied(chunks', p)
    BY <1>1, <2>1, SameOccupied, GrownOccupied
  <2>3. CASE CutsNone(c)
    BY <2>2, <2>3 DEF CutsNone, CutKeys
  <2>4. CASE CutsSector(c)
    <3>1. PICK t \in Sectors(VchunkCount[c.puzzle]) :
             /\ c.puzzle \in LegacyPuzzles
             /\ ~c.isTest
             /\ c.lo = reached[c.puzzle][t]
             /\ c.lo < c.hi
             /\ reached' = [reached EXCEPT ![c.puzzle][t] = c.hi]
      BY <2>4 DEF CutsSector
    <3>2. DOMAIN reached = LegacyPuzzles /\ DOMAIN reached[p] = Sectors(VchunkCount[p])
      BY DEF TypeOK
    <3>3. CASE c.puzzle = p /\ t = s
      <4>1. reached'[p][s] = c.hi /\ reached[p][s] = c.lo
        BY <3>1, <3>2, <3>3
      <4>2. c.lo \in Nat /\ c.hi \in Nat /\ SectorStart(VchunkCount[p], s) \in Nat
        BY PuzzlesAssumption, SectorBounds DEF Chunk
      <4>3. CutKeys(p, s)' \subseteq CutKeys(p, s) \cup RunOf(c)
        BY <4>1, <4>2 DEF CutKeys, RunOf
      <4> QED
        BY <2>2, <3>1, <3>3, <4>3
    <3>4. CASE ~(c.puzzle = p /\ t = s)
      <4>1. reached'[p][s] = reached[p][s]
        BY <3>1, <3>2, <3>4
      <4> QED
        BY <2>2, <4>1 DEF CutKeys
    <3> QED
      BY <3>3, <3>4
  <2> QED
    BY <2>1, <2>3, <2>4
<1> QED
  BY <1>2, <1>3, StepKinds

LEMMA InitSectorsCut ==
    ASSUME Init
    PROVE  SectorsCut
<1> SUFFICES ASSUME NEW p \in LegacyPuzzles, NEW s \in Sectors(VchunkCount[p])
             PROVE  CutKeys(p, s) = {}
  BY DEF SectorsCut
<1>1. SectorStart(VchunkCount[p], s) \in Nat
  BY PuzzlesAssumption, SectorBounds
<1>2. reached[p][s] = SectorStart(VchunkCount[p], s)
  BY DEF Init
<1> QED
  BY <1>1, <1>2 DEF CutKeys

\* The order visits every virtual chunk of a puzzle (see Permutation).
OrdersVisitAll ==
    \A p \in Puzzles \ LegacyPuzzles :
        \A v \in Vchunks(p) : \E x \in Vchunks(p) : Perm[p][x] = v

LEMMA WrapsOnce ==
    ASSUME NEW total \in Nat \ {0}, NEW cur \in 0 .. (total - 1), NEW o \in 0 .. (total - 1)
    PROVE  /\ (cur + o) % total \in 0 .. (total - 1)
           /\ (cur + o) % total = IF cur + o < total THEN cur + o ELSE cur + o - total
<1>1. CASE cur + o < total
  BY <1>1
<1>2. CASE ~ (cur + o < total)
  <2> DEFINE r == cur + o - total
  <2>1. r \in 0 .. (total - 1) /\ r + total = cur + o /\ r % total = r
    BY <1>2
  <2> HIDE DEF r
  <2>2. (r + total) % total = r
    BY <2>1
  <2> QED
    BY <1>2, <2>1, <2>2 DEF r
<1> QED
  BY <1>1, <1>2

\* Hence no two probes of a search look at the same position.
LEMMA ProbesDiffer ==
    ASSUME NEW total \in Nat \ {0}, NEW cur \in 0 .. (total - 1),
           NEW o \in 0 .. (total - 1), NEW u \in 0 .. (total - 1),
           (cur + o) % total = (cur + u) % total
    PROVE  o = u
<1>1. /\ (cur + o) % total = IF cur + o < total THEN cur + o ELSE cur + o - total
      /\ (cur + u) % total = IF cur + u < total THEN cur + u ELSE cur + u - total
  BY WrapsOnce
<1>2. (IF cur + o < total THEN cur + o ELSE cur + o - total)
        = IF cur + u < total THEN cur + u ELSE cur + u - total
  BY <1>1
<1> QED
  BY <1>2

\* An order that visits every virtual chunk visits none twice.
LEMMA OrderInjective ==
    ASSUME OrdersVisitAll, NEW p \in Puzzles \ LegacyPuzzles
    PROVE  Perm[p] \in Injection(Vchunks(p), Vchunks(p))
<1>1. Perm[p] \in [Vchunks(p) -> Vchunks(p)] /\ VchunkCount[p] \in Nat \ {0}
  BY PuzzlesAssumption
<1>2. Perm[p] \in Surjection(Vchunks(p), Vchunks(p))
  BY <1>1 DEF OrdersVisitAll, Surjection
<1>3. IsFiniteSet(Vchunks(p))
  BY <1>1, FS_Interval DEF Vchunks
<1> QED
  BY <1>2, <1>3, FS_SurjSameCardinalityImpliesInj

\* A search for one virtual chunk that fails has seen as many taken virtual chunks as it
\* made probes.
LEMMA MissMeansProbed ==
    ASSUME OrdersVisitAll, NEW p \in Puzzles \ LegacyPuzzles, NEW cur \in Vchunks(p),
           NEW taken, ProbeHits(Perm[p], VchunkCount[p], cur, taken, 1) = {}
    PROVE  Cardinality(Vchunks(p) \cap taken) >= Smaller(VchunkCount[p], MaxAllocProbes)
<1> DEFINE total  == VchunkCount[p]
           count  == ProbeCount(total)
           Probes == 0 .. (count - 1)
           seen   == [o \in Probes |-> Perm[p][(cur + o) % total]]
<1>1. /\ total \in Nat \ {0} /\ Vchunks(p) = 0 .. (total - 1)
      /\ Perm[p] \in [0 .. (total - 1) -> 0 .. (total - 1)]
  BY PuzzlesAssumption DEF Vchunks
<1>2. count \in 1 .. total /\ count = Smaller(total, MaxAllocProbes)
  BY <1>1, MaxAllocProbesAssumption DEF ProbeCount, Smaller
<1>3. Perm[p] \in Injection(0 .. (total - 1), 0 .. (total - 1))
  BY <1>1, OrderInjective
<1>4. Probes \subseteq 0 .. (total - 1)
  BY <1>1, <1>2
<1>5. ASSUME NEW o \in Probes
      PROVE  seen[o] \in Vchunks(p) \cap taken
  <2>1. (cur + o) % total \in 0 .. (total - 1)
    BY <1>1, <1>4, WrapsOnce
  <2>2. seen[o] = Perm[p][(cur + o) % total] /\ seen[o] \in 0 .. (total - 1)
    BY <1>1, <2>1
  <2> HIDE DEF seen
  <2>3. ProbeStart(Perm[p], total, cur, 1, o) = seen[o]
    BY <1>1, <2>2 DEF ProbeStart, NormalizeRunStart
  <2>4. ~RangeIsFree(taken, seen[o], 1)
    BY <2>3 DEF ProbeHits
  <2>5. seen[o] >= 0 /\ Run(seen[o], 1) = {seen[o]}
    BY <1>1, <2>2 DEF Run
  <2> QED
    BY <1>1, <2>2, <2>4, <2>5 DEF RangeIsFree
<1>6. ASSUME NEW o \in Probes, NEW u \in Probes, seen[o] = seen[u]
      PROVE  o = u
  <2>1. (cur + o) % total \in 0 .. (total - 1) /\ (cur + u) % total \in 0 .. (total - 1)
    BY <1>1, <1>4, WrapsOnce
  <2>2. Perm[p][(cur + o) % total] = Perm[p][(cur + u) % total]
    BY <1>6
  <2>3. (cur + o) % total = (cur + u) % total
    BY <1>3, <2>1, <2>2 DEF Injection, IsInjective
  <2> QED
    BY <1>1, <1>4, <2>3, ProbesDiffer
<1>7. seen \in Injection(Probes, Vchunks(p) \cap taken)
  <2>1. seen \in [Probes -> Vchunks(p) \cap taken]
    BY <1>5
  <2> QED
    BY <1>6, <2>1 DEF Injection, IsInjective
<1>8. IsFiniteSet(Vchunks(p) \cap taken)
  <2>1. IsFiniteSet(Vchunks(p))
    BY <1>1, FS_Interval
  <2>2. Vchunks(p) \cap taken \in SUBSET Vchunks(p)
    OBVIOUS
  <2> QED
    BY <2>1, <2>2, FS_Subset
<1>9. Cardinality(Probes) = count
  BY <1>1, <1>2, FS_Interval
<1>10. Cardinality(Vchunks(p) \cap taken) \in Nat
  BY <1>8, FS_CardinalityType
<1> HIDE DEF seen, Probes, count, total
<1>11. Cardinality(Probes) <= Cardinality(Vchunks(p) \cap taken)
  BY <1>7, <1>8, FS_Injection
<1>12. count <= Cardinality(Vchunks(p) \cap taken)
  BY <1>9, <1>11
<1>13. count \in Nat /\ count = Smaller(VchunkCount[p], MaxAllocProbes)
  BY <1>2 DEF total
<1> QED
  BY <1>10, <1>12, <1>13

\* "All keyspace has been assigned" is said only when as many virtual chunks are in jobs or
\* blocked as the search may probe, however large the keyspace and whatever the cursor and
\* the rows; in a legacy puzzle only when all are.
THEOREM ExhaustedMeansSearchedCorrect ==
    ASSUME OrdersVisitAll
    PROVE  Spec => []ExhaustedMeansSearched
<1>1. Init => SectorsCut
  BY InitSectorsCut
<1>2. TypeOK /\ SectorsFree /\ SectorsCut /\ [Next]_vars => SectorsCut'
  BY SectorsCutStep
<1>3. ASSUME TypeOK, SectorsFree, SectorsCut
      PROVE  ExhaustedMeansSearched
  <2> SUFFICES ASSUME NEW w \in Workers, NEW requested \in 1 .. MaxRun,
                      Exhausted(w, TableFor(w), requested)
               PROVE  Cardinality(Vchunks(active) \cap Taken(chunks, active)) >=
                        IF active \in LegacyPuzzles THEN VchunkCount[active]
                        ELSE Smaller(VchunkCount[active], MaxAllocProbes)
    BY DEF ExhaustedMeansSearched
  <2>1. active \in Puzzles /\ VchunkCount[active] \in Nat \ {0}
    BY <1>3, PuzzlesAssumption DEF TypeOK
  <2>2. Taken(TableFor(w), active) = Taken(chunks, active)
    BY <1>3, TableForRuns, SameOccupied DEF Taken
  <2>3. CASE NoVchunks(w, TableFor(w), requested)
    <3>1. active \notin LegacyPuzzles /\ cursor[active] \in Vchunks(active)
      BY <1>3, <2>1, <2>3 DEF NoVchunks, NeedsVchunks, TypeOK
    <3>2. 1 \in 1 .. Needed(requested)
      BY <2>1, ScalarsAssumption DEF Needed, Smaller
    <3>3. ProbeHits(Perm[active], VchunkCount[active], cursor[active],
                    Taken(TableFor(w), active), 1) = {}
      BY <2>3, <3>2 DEF NoVchunks, FreeProbes
    <3>4. Cardinality(Vchunks(active) \cap Taken(TableFor(w), active))
            >= Smaller(VchunkCount[active], MaxAllocProbes)
      BY <2>1, <3>1, <3>3, MissMeansProbed
    <3> QED
      BY <2>2, <3>1, <3>4
  <2>4. CASE NoKeys(w, TableFor(w))
    <3>1. active \in LegacyPuzzles
      BY <2>4 DEF NoKeys, NeedsKeys
    <3>2. ASSUME NEW v \in Vchunks(active)
          PROVE  v \in Occupied(chunks, active)
      <4>1. PICK s \in Sectors(VchunkCount[active]) :
               SectorStart(VchunkCount[active], s) <= v /\ v < SectorEnd(VchunkCount[active], s)
        BY <2>1, SectorsPartition DEF Vchunks
      <4>2. ~(reached[active][s] < SectorEnd(VchunkCount[active], s))
        BY <2>4 DEF NoKeys, OpenSectors
      <4>3. /\ SectorStart(VchunkCount[active], s) \in Nat
            /\ SectorEnd(VchunkCount[active], s) \in Nat
            /\ reached[active][s] \in Nat /\ v \in Nat
        BY <1>3, <2>1, <3>1, SectorBounds DEF TypeOK, Vchunks
      <4>4. v \in CutKeys(active, s)
        BY <4>1, <4>2, <4>3 DEF CutKeys
      <4> QED
        BY <1>3, <3>1, <4>4 DEF SectorsCut
    <3>3. Vchunks(active) \cap Taken(chunks, active) = Vchunks(active)
      BY <3>2 DEF Taken
    <3>4. Cardinality(Vchunks(active)) = VchunkCount[active]
      <4> DEFINE last == VchunkCount[active] - 1
      <4>1. last \in Nat /\ VchunkCount[active] = last + 1 /\ Vchunks(active) = 0 .. last
        BY <2>1 DEF Vchunks
      <4> HIDE DEF last
      <4>2. Cardinality(0 .. last) = last + 1
        BY <4>1, FS_Interval
      <4> QED
        BY <4>1, <4>2
    <3>5. Cardinality(Vchunks(active) \cap Taken(chunks, active)) = VchunkCount[active]
      BY <3>3, <3>4, Zenon
    <3>6. VchunkCount[active] >= VchunkCount[active]
      BY <2>1
    <3> QED
      BY <3>1, <3>5, <3>6, Zenon
  <2> QED
    BY <2>3, <2>4 DEF Exhausted
<1> QED
  BY <1>1, <1>2, <1>3, Inductive, PTL DEF Spec

-----------------------------------------------------------------------------
(* PERMUTATION_MODE=affine: every virtual chunk has a position in the order *)

LEMMA LeastNumber ==
    ASSUME NEW T \in SUBSET Nat, T # {}
    PROVE  \E x \in T : \A y \in T : x <= y
<1>1. PICK x \in T : \A y \in T : ~ (<<y, x>> \in OpToRel(<, Nat))
  BY NatLessThanWellFounded, WFMin
<1>2. ASSUME NEW y \in T
      PROVE  x <= y
  <2>1. x \in Nat /\ y \in Nat
    OBVIOUS
  <2>2. ~ (y < x)
    BY <1>1, <2>1 DEF OpToRel
  <2> QED
    BY <2>1, <2>2
<1> QED
  BY <1>2

\* Quotient and remainder, and that they are the only ones.
LEMMA Remainder ==
    ASSUME NEW m \in Int, NEW n \in Nat \ {0}
    PROVE  /\ m \div n \in Int /\ m % n \in 0 .. (n - 1)
           /\ m = n * (m \div n) + (m % n)
<1>1. m \div n \in Int /\ m % n \in 0 .. (n - 1)
  OBVIOUS
<1>2. m = n * (m \div n) + (m % n)
  OBVIOUS
<1> QED
  BY <1>1, <1>2

LEMMA OnlyRemainder ==
    ASSUME NEW n \in Nat \ {0}, NEW k \in Int, NEW r \in 0 .. (n - 1), NEW m \in Int,
           m = n * k + r
    PROVE  m % n = r
<1> DEFINE q == m \div n
           s == m % n
<1>1. q \in Int /\ s \in 0 .. (n - 1) /\ m = n * q + s
  BY Remainder
<1> HIDE DEF q, s
<1>2. n * (k - q) = s - r
  BY <1>1
<1>3. ~ (k - q >= 1)
  <2> SUFFICES ASSUME k - q >= 1 PROVE FALSE
    OBVIOUS
  <2>1. n * (k - q) >= n
    BY <1>1
  <2> QED
    BY <1>1, <1>2, <2>1
<1>4. ~ (k - q <= -1)
  <2> SUFFICES ASSUME k - q <= -1 PROVE FALSE
    OBVIOUS
  <2>1. n * (k - q) <= -n
    BY <1>1
  <2> QED
    BY <1>1, <1>2, <2>1
<1>5. k - q = 0
  BY <1>1, <1>3, <1>4
<1>6. s = r
  BY <1>1, <1>2, <1>5
<1> QED
  BY <1>6 DEF s

(* gcdBigInt is Euclid's algorithm.  The greatest common divisor satisfies its        *)
(* equations, so there is a function that does.                                       *)

Divides(d, m) == \E k \in Int : m = d * k

CommonDivisors(a, b) == {d \in Nat \ {0} : Divides(d, a) /\ Divides(d, b)}

Gcd(a, b) ==
    IF a = 0 /\ b = 0 THEN 0
    ELSE CHOOSE d \in CommonDivisors(a, b) : \A c \in CommonDivisors(a, b) : c <= d

LEMMA SameDivisors ==
    ASSUME NEW a \in Nat, NEW b \in Nat \ {0}
    PROVE  CommonDivisors(a, b) = CommonDivisors(b, a % b)
<1> DEFINE q == a \div b
           r == a % b
<1>1. q \in Int /\ r \in Nat /\ a = b * q + r
  BY Remainder
<1> HIDE DEF q, r
<1>2. ASSUME NEW d \in Nat \ {0}, Divides(d, a), Divides(d, b)
      PROVE  Divides(d, r)
  <2>1. PICK k \in Int : a = d * k
    BY <1>2 DEF Divides
  <2>2. PICK l \in Int : b = d * l
    BY <1>2 DEF Divides
  <2>3. r = d * (k - l * q)
    BY <1>1, <2>1, <2>2
  <2>4. k - l * q \in Int
    BY <1>1
  <2> QED
    BY <2>3, <2>4 DEF Divides
<1>3. ASSUME NEW d \in Nat \ {0}, Divides(d, r), Divides(d, b)
      PROVE  Divides(d, a)
  <2>1. PICK k \in Int : r = d * k
    BY <1>3 DEF Divides
  <2>2. PICK l \in Int : b = d * l
    BY <1>3 DEF Divides
  <2>3. a = d * (l * q + k)
    BY <1>1, <2>1, <2>2
  <2>4. l * q + k \in Int
    BY <1>1
  <2> QED
    BY <2>3, <2>4 DEF Divides
<1>4. CommonDivisors(a, b) = CommonDivisors(b, r)
  BY <1>2, <1>3 DEF CommonDivisors
<1> QED
  BY <1>4 DEF r

LEMMA GcdWithZero ==
    ASSUME NEW a \in Nat
    PROVE  Gcd(a, 0) = a
<1>1. CASE a = 0
  BY <1>1 DEF Gcd
<1>2. CASE a # 0
  <2>1. a \in CommonDivisors(a, 0)
    <3>1. Divides(a, a)
      <4>1. a = a * 1
        OBVIOUS
      <4> QED
        BY <4>1 DEF Divides
    <3>2. Divides(a, 0)
      <4>1. 0 = a * 0
        OBVIOUS
      <4> QED
        BY <4>1 DEF Divides
    <3> QED
      BY <1>2, <3>1, <3>2 DEF CommonDivisors
  <2>2. ASSUME NEW c \in CommonDivisors(a, 0)
        PROVE  c <= a
    <3>1. c \in Nat \ {0}
      BY DEF CommonDivisors
    <3>2. PICK k \in Int : a = c * k
      BY DEF CommonDivisors, Divides
    <3>3. k >= 1
      <4> SUFFICES ASSUME k <= 0 PROVE FALSE
        BY <3>2
      <4>1. c * k <= 0
        BY <3>1
      <4> QED
        BY <1>2, <3>2, <4>1
    <3>4. c * k >= c
      BY <3>1, <3>3
    <3> QED
      BY <3>1, <3>2, <3>4
  <2>3. \A d \in CommonDivisors(a, 0) :
           (\A c \in CommonDivisors(a, 0) : c <= d) => d = a
    <3>1. CommonDivisors(a, 0) \subseteq Nat
      BY DEF CommonDivisors
    <3> QED
      BY <2>1, <2>2, <3>1
  <2>4. Gcd(a, 0) = CHOOSE d \in CommonDivisors(a, 0) : \A c \in CommonDivisors(a, 0) : c <= d
    BY <1>2 DEF Gcd
  <2> QED
    BY <2>1, <2>2, <2>3, <2>4
<1> QED
  BY <1>1, <1>2

EuclidStep(g, ab) == IF ab[2] = 0 THEN ab[1] ELSE g[<<ab[2], ab[1] % ab[2]>>]

LEMMA GcdUnfolds ==
    ASSUME NEW a \in Nat, NEW b \in Nat
    PROVE  gcdBigInt[<<a, b>>] = IF b = 0 THEN a ELSE gcdBigInt[<<b, a % b>>]
<1> DEFINE g == [ab \in Nat \X Nat |-> Gcd(ab[1], ab[2])]
<1>1. ASSUME NEW ab \in Nat \X Nat
      PROVE  g[ab] = EuclidStep(g, ab)
  <2>1. PICK x \in Nat, y \in Nat : ab = <<x, y>>
    OBVIOUS
  <2>2. g[ab] = Gcd(x, y)
    BY <2>1
  <2>3. CASE y = 0
    BY <2>1, <2>2, <2>3, GcdWithZero DEF EuclidStep
  <2>4. CASE y # 0
    <3>1. x % y \in Nat
      BY <2>4
    <3>2. Gcd(x, y) = Gcd(y, x % y)
      <4>1. CommonDivisors(x, y) = CommonDivisors(y, x % y)
        BY <2>4, SameDivisors
      <4>2. ~ (x = 0 /\ y = 0) /\ ~ (y = 0 /\ x % y = 0)
        BY <2>4
      <4>3. Gcd(x, y) = CHOOSE d \in CommonDivisors(x, y) :
                           \A c \in CommonDivisors(x, y) : c <= d
        BY <4>2 DEF Gcd
      <4>4. Gcd(y, x % y) = CHOOSE d \in CommonDivisors(y, x % y) :
                               \A c \in CommonDivisors(y, x % y) : c <= d
        BY <4>2 DEF Gcd
      <4> QED
        BY <4>1, <4>3, <4>4
    <3>3. g[<<y, x % y>>] = Gcd(y, x % y)
      BY <3>1
    <3> HIDE DEF g
    <3>4. EuclidStep(g, ab) = g[<<y, x % y>>]
      BY <2>1, <2>4 DEF EuclidStep
    <3> QED
      BY <2>2, <3>2, <3>3, <3>4
  <2> QED
    BY <2>3, <2>4
<1>2. g = [ab \in Nat \X Nat |-> EuclidStep(g, ab)]
  <2>1. g = [ab \in Nat \X Nat |-> g[ab]]
    OBVIOUS
  <2> HIDE DEF g
  <2> QED
    BY <1>1, <2>1
<1>3. gcdBigInt = [ab \in Nat \X Nat |-> EuclidStep(gcdBigInt, ab)]
  <2> HIDE DEF g
  <2> QED
    BY <1>2, Zenon DEF gcdBigInt, EuclidStep
<1>4. <<a, b>> \in Nat \X Nat
  OBVIOUS
<1>5. gcdBigInt[<<a, b>>] = EuclidStep(gcdBigInt, <<a, b>>)
  BY <1>3, <1>4
<1> QED
  BY <1>5 DEF EuclidStep

\* Numbers without a common factor combine to one.
LEMMA Bezout ==
    ASSUME NEW a \in Nat, NEW n \in Nat, gcdBigInt[<<a, n>>] = 1
    PROVE  \E u, v \in Int : u * a + v * n = 1
<1> DEFINE Combines(x, y) == \E u, v \in Int : u * x + v * y = 1
           Wrong == {y \in Nat : \E x \in Nat : gcdBigInt[<<x, y>>] = 1 /\ ~ Combines(x, y)}
<1>1. SUFFICES ASSUME Wrong # {} PROVE FALSE
  OBVIOUS
<1>2. PICK y \in Wrong : \A z \in Wrong : y <= z
  BY <1>1, LeastNumber
<1>3. PICK x \in Nat : gcdBigInt[<<x, y>>] = 1 /\ ~ Combines(x, y)
  OBVIOUS
<1>4. y # 0
  <2> SUFFICES ASSUME y = 0 PROVE FALSE
    OBVIOUS
  <2>1. x = 1
    BY <1>3, GcdUnfolds
  <2>2. 1 * x + 0 * y = 1
    BY <2>1
  <2> QED
    BY <1>3, <2>2
<1> DEFINE r == x % y
           q == x \div y
<1>5. q \in Int /\ r \in 0 .. (y - 1) /\ x = y * q + r
  BY <1>4, Remainder
<1>6. gcdBigInt[<<y, r>>] = 1
  BY <1>3, <1>4, GcdUnfolds
<1> HIDE DEF r, q
<1>7. Combines(y, r)
  <2>1. r \in Nat /\ ~ (y <= r)
    BY <1>5
  <2>2. r \notin Wrong
    BY <1>2, <2>1
  <2> HIDE DEF Combines
  <2> QED
    BY <1>6, <2>1, <2>2
<1>8. PICK u, v \in Int : u * y + v * r = 1
  BY <1>7
<1>9. v * x + (u - v * q) * y = 1
  <2>1. v * x = v * (y * q) + v * r
    BY <1>5
  <2>2. (u - v * q) * y = u * y - v * (y * q)
    BY <1>5
  <2>3. v * x \in Int /\ u * y \in Int /\ v * (y * q) \in Int /\ v * r \in Int
    BY <1>5
  <2> QED
    BY <1>8, <2>1, <2>2, <2>3
<1>10. u - v * q \in Int
  BY <1>5
<1> QED
  BY <1>3, <1>9, <1>10

\* Every virtual chunk has a position in the affine order, whatever the digests: no
\* part of a keyspace is out of the allocator's reach.
THEOREM AffineOrderVisitsAll ==
    ASSUME NEW n \in Nat \ {0}, NEW a \in Multipliers(n), NEW b \in Addends(n),
           NEW z \in Positions(n)
    PROVE  \E x \in Positions(n) : AffineOrder(n, a, b)[x] = z
<1>1. a \in Nat /\ b \in Nat /\ z \in Nat /\ z < n
  BY DEF Multipliers, Multiplier, Addends, Positions
<1>2. CASE n = 1
  <2>1. z = 0 /\ 0 \in Positions(n)
    BY <1>2 DEF Positions
  <2>2. (a * 0 + b) % n = 0
    BY <1>1, <1>2
  <2> QED
    BY <2>1, <2>2 DEF AffineOrder, permuteIndexAffine
<1>3. CASE n # 1
  <2>1. gcdBigInt[<<a, n>>] = 1
    BY <1>3 DEF Multipliers
  <2>2. PICK u, v \in Int : u * a + v * n = 1
    BY <1>1, <2>1, Bezout
  <2> DEFINE t == u * (z - b)
             x == t % n
             q == t \div n
  <2>3. t \in Int /\ q \in Int /\ x \in 0 .. (n - 1) /\ t = n * q + x
    <3>1. t \in Int
      BY <1>1
    <3> HIDE DEF t
    <3> QED
      BY <3>1, Remainder
  <2>4. a * t = (z - b) - n * (v * (z - b))
    <3>1. u * a = 1 - v * n
      BY <1>1, <2>2
    <3>2. a * t = (u * a) * (z - b)
      BY <1>1
    <3>3. (1 - v * n) * (z - b) = (z - b) - n * (v * (z - b))
      BY <1>1
    <3> HIDE DEF t
    <3> QED
      BY <3>1, <3>2, <3>3
  <2> HIDE DEF x, q, t
  <2> DEFINE k == -(v * (z - b)) - a * q
  <2>5. a * x + b = n * k + z
    <3>1. a * t = a * (n * q) + a * x
      BY <1>1, <2>3
    <3>2. a * (n * q) = n * (a * q)
      BY <1>1, <2>3
    <3>3. /\ v * (z - b) \in Int /\ a * q \in Int /\ a * x \in Int /\ a * t \in Int
          /\ n * (v * (z - b)) \in Int /\ n * (a * q) \in Int
      BY <1>1, <2>3
    <3>4. n * k = -(n * (v * (z - b))) - n * (a * q)
      BY <3>3
    <3> HIDE DEF k
    <3> QED
      BY <1>1, <2>4, <3>1, <3>2, <3>3, <3>4
  <2>6. k \in Int /\ a * x + b \in Int
    BY <1>1, <2>3
  <2>7. (a * x + b) % n = z
    <3> HIDE DEF k
    <3> DEFINE m == a * x + b
    <3>1. z \in 0 .. (n - 1)
      BY <1>1
    <3>2. m \in Int /\ m = n * k + z
      BY <2>5, <2>6
    <3> HIDE DEF m
    <3>3. m % n = z
      BY <2>6, <3>1, <3>2, OnlyRemainder
    <3> QED
      BY <3>3 DEF m
  <2> QED
    BY <2>3, <2>7 DEF AffineOrder, permuteIndexAffine, Positions
<1> QED
  BY <1>2, <1>3

\* Hence with the affine order, for keyspaces of any size, "all keyspace has been assigned"
\* is said only after a search that found as many virtual chunks taken as it may probe.
THEOREM AffineSearchedCorrect ==
    ASSUME \A p \in Puzzles \ LegacyPuzzles :
              \E a \in Multipliers(VchunkCount[p]), b \in Addends(VchunkCount[p]) :
                 Perm[p] = AffineOrder(VchunkCount[p], a, b)
    PROVE  Spec => []ExhaustedMeansSearched
<1>1. OrdersVisitAll
  <2> SUFFICES ASSUME NEW p \in Puzzles \ LegacyPuzzles, NEW v \in Vchunks(p)
               PROVE  \E x \in Vchunks(p) : Perm[p][x] = v
    BY DEF OrdersVisitAll
  <2>1. VchunkCount[p] \in Nat \ {0} /\ Vchunks(p) = Positions(VchunkCount[p])
    BY PuzzlesAssumption DEF Vchunks, Positions
  <2>2. PICK a \in Multipliers(VchunkCount[p]), b \in Addends(VchunkCount[p]) :
           Perm[p] = AffineOrder(VchunkCount[p], a, b)
    OBVIOUS
  <2> QED
    BY <2>1, <2>2, AffineOrderVisitsAll
<1> QED
  BY <1>1, ExhaustedMeansSearchedCorrect
=============================================================================

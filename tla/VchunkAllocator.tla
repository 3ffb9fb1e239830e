-------------------------- MODULE VchunkAllocator --------------------------
(***************************************************************************)
(* The search of the virtual-chunk allocator (src/allocator.cpp) as pure   *)
(* operators.  A puzzle's keyspace is cut into virtual chunks 0..total-1;  *)
(* a job is a run of consecutive virtual chunks.  Nothing here changes     *)
(* state: ChunkPool applies the result.                                    *)
(*                                                                         *)
(* "taken" is the set of virtual chunks a new run must avoid: the occupied *)
(* ones (loadOccupiedRanges) and the blocked ones (loadBlockedRanges).     *)
(* The code keeps both as sorted disjoint intervals and tests overlap by   *)
(* binary search; IntervalIndex models that, and BlockedRangesProofs shows *)
(* that the search is the set test used here.                              *)
(*                                                                         *)
(* Here and in the other modules a definition whose comment starts with    *)
(* "Deviation" belongs to no specification: it is a plausible slip in the  *)
(* definition after it, and README.md says which property notices it.      *)
(***************************************************************************)
EXTENDS Integers, FiniteSets

CONSTANT MaxAllocProbes   \* cfg.maxAllocProbes, at least 1 (config.cpp)

ASSUME MaxAllocProbesAssumption == MaxAllocProbes \in Nat \ {0}

Smaller(a, b) == IF a <= b THEN a ELSE b

\* The virtual chunks of the half-open run [start, start + n).
Run(start, n) == start .. (start + n - 1)

RangeIsFree(taken, start, n) ==
    /\ start >= 0
    /\ n > 0
    /\ Run(start, n) \cap taken = {}

\* Deviation: a run at the end of the keyspace is not shifted.
StartUnshifted(candidate, n, total) == IF n >= total THEN 0 ELSE candidate

\* A run that would pass the end of the keyspace is shifted left to fit.
NormalizeRunStart(candidate, n, total) ==
    IF n >= total THEN 0
    ELSE IF candidate + n > total THEN total - n
    ELSE candidate

(***************************************************************************)
(* The main search.  Probe o looks at the virtual chunk the permutation    *)
(* puts at position cursor + o.  The code remembers the starts it already  *)
(* tried; a repeated start fails again, so the first hit is the same.      *)
(***************************************************************************)
\* Deviation: the last position is never probed.
ProbeCountShort(total) == Smaller(total, MaxAllocProbes) - 1

ProbeCount(total) == Smaller(total, MaxAllocProbes)

ProbeStart(perm, total, cursor, n, o) ==
    NormalizeRunStart(perm[(cursor + o) % total], n, total)

ProbeHits(perm, total, cursor, taken, n) ==
    {o \in 0 .. (ProbeCount(total) - 1) :
        RangeIsFree(taken, ProbeStart(perm, total, cursor, n, o), n)}

\* Deviation: the cursor does not wrap.
CursorUnwrapped(total, cursor, o) == ((cursor + o) % total) + 1

\* Position in the order that follows the probe that hit.
NextCursor(total, cursor, o) == (((cursor + o) % total) + 1) % total

(***************************************************************************)
(* The bootstrap search: the first three jobs of a puzzle are anchored at  *)
(* the middle (stage 0), the beginning (1) and the end (2).  Attempt k of  *)
(* the middle search is at distance k \div 2, left for an even k, right    *)
(* for an odd one.                                                         *)
(***************************************************************************)
MidAttempts(total) ==
    {k \in 0 .. (2 * ProbeCount(total) - 1) :
        \/ k % 2 = 0 /\ total \div 2 >= k \div 2
        \/ k % 2 = 1 /\ k \div 2 >= 1 /\ (total \div 2) + (k \div 2) < total}

MidStart(total, n, k) ==
    LET offset == IF k % 2 = 0 THEN -(k \div 2) ELSE k \div 2
    IN  NormalizeRunStart((total \div 2) + offset, n, total)

EdgeAttempts(total, n) == 0 .. (Smaller(total - n + 1, MaxAllocProbes) - 1)

AnchorAttempts(stage, total, n) ==
    IF stage = 0 THEN MidAttempts(total) ELSE EdgeAttempts(total, n)

AnchorStart(stage, total, n, k) ==
    CASE stage = 0 -> MidStart(total, n, k)
      [] stage = 1 -> k
      [] stage = 2 -> (total - n) - k

AnchorHits(stage, total, taken, n) ==
    {k \in AnchorAttempts(stage, total, n) :
        RangeIsFree(taken, AnchorStart(stage, total, n, k), n)}

=============================================================================

--------------------------- MODULE IntervalIndex ---------------------------
(***************************************************************************)
(* The sorted lists of intervals behind rangeIsFree and the dashboard's    *)
(* counts (src/allocator.cpp).  A list is built from rows sorted by start  *)
(* and is searched with lower_bound.  The three places that build one      *)
(* (loadBlockedRanges, loadOccupiedRanges, service_stats.cpp) do the same. *)
(***************************************************************************)
EXTENDS Integers, Sequences

Larger(a, b) == IF a >= b THEN a ELSE b

\* A half-open interval.
Interval == [s : Int, e : Int]

Points(iv) == iv.s .. (iv.e - 1)

Covered(list) == UNION {Points(list[i]) : i \in DOMAIN list}

\* Deviation: the end of the later interval wins.
AbsorbReplacing(list, iv) ==
    IF list = <<>> \/ iv.s > list[Len(list)].e
    THEN Append(list, iv)
    ELSE [list EXCEPT ![Len(list)].e = iv.e]

\* The next interval extends the last one when it overlaps or touches it.
Absorb(list, iv) ==
    IF list = <<>> \/ iv.s > list[Len(list)].e
    THEN Append(list, iv)
    ELSE [list EXCEPT ![Len(list)].e = Larger(list[Len(list)].e, iv.e)]

\* What a query sorted by start returns last.
LastByStart(S) == CHOOSE iv \in S : \A other \in S : other.s <= iv.s

\* The loop over a set of intervals sorted by start.
Merged(S) ==
    LET merged[T \in SUBSET S] ==
            IF T = {} THEN <<>>
            ELSE Absorb(merged[T \ {LastByStart(T)}], LastByStart(T))
    IN  merged[S]

\* How many points a list of separate intervals covers.
Total(list) ==
    LET total[n \in 0 .. Len(list)] ==
            IF n = 0 THEN 0 ELSE total[n - 1] + (list[n].e - list[n].s)
    IN  total[Len(list)]

\* The first position whose interval does not start before start.
LowerBound(list, start) ==
    CHOOSE pos \in 1 .. (Len(list) + 1) :
        /\ \A i \in 1 .. (pos - 1) : list[i].s < start
        /\ \A i \in pos .. Len(list) : list[i].s >= start

\* Deviation: the interval before the position found is not looked at.
OverlapsNextOnly(list, start, end) ==
    LET pos == LowerBound(list, start)
    IN  pos <= Len(list) /\ list[pos].s < end

Overlaps(list, start, end) ==
    LET pos == LowerBound(list, start)
    IN  \/ pos > 1 /\ list[pos - 1].e > start
        \/ pos <= Len(list) /\ list[pos].s < end

\* Ascending, and with a gap after every interval.
Apart(list) ==
    \A i, j \in DOMAIN list : i < j => list[i].e < list[j].s

NoneEmpty(list) == \A i \in DOMAIN list : list[i].s < list[i].e

=============================================================================

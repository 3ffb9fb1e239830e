------------------------- MODULE BlockedRangesProofs -------------------------
(***************************************************************************)
(* What imports do to the blocked ranges, for every puzzle, source, step   *)
(* and list of range ids.  Three loops are involved: the one that merges   *)
(* intervals sorted by start, the one that folds the merged ones into the  *)
(* table, and the one that adds up their lengths.  Each is a recursive     *)
(* function; what it computes is proved by looking at the least set, or    *)
(* the least number, for which it would be wrong.                          *)
(***************************************************************************)
EXTENDS BlockedRanges, FiniteSetTheorems, SequenceTheorems, WellFoundedInduction, TLAPS

\* Every non-empty set of natural numbers has a least element.
LEMMA Least ==
    ASSUME NEW T \in SUBSET Nat, T # {}
    PROVE  \E x \in T : \A y \in T : x <= y
<1>1. PICK x \in T : \A y \in T : ~ (<<y, x>> \in OpToRel(<, Nat))
  BY NatLessThanWellFounded, WFMin
<1>2. ASSUME NEW y \in T
      PROVE  x <= y
  <2>1. x \in Nat /\ y \in Nat
    OBVIOUS
  <2>2. ~ (y < x)
    BY <1>1, <2>1 DEF OpToRel
  <2> QED
    BY <2>1, <2>2
<1> QED
  BY <1>2

\* The intervals of a list and their ends.
LEMMA EntryTypes ==
    ASSUME NEW list \in Seq(Interval), NEW i \in DOMAIN list
    PROVE  list[i] \in Interval /\ list[i].s \in Int /\ list[i].e \in Int
<1>1. list[i] \in Interval
  OBVIOUS
<1> QED
  BY <1>1 DEF Interval

\* In a list that is apart lower_bound has a position to return: that of the
\* first interval that does not start before the run.
LEMMA LowerBoundExists ==
    ASSUME NEW list \in Seq(Interval), Apart(list), NoneEmpty(list),
           NEW start \in Int
    PROVE  \E pos \in 1 .. (Len(list) + 1) :
              /\ \A i \in 1 .. (pos - 1) : list[i].s < start
              /\ \A i \in pos .. Len(list) : list[i].s >= start
<1> DEFINE T == {i \in 1 .. (Len(list) + 1) :
                    i = Len(list) + 1 \/ list[i].s >= start}
<1>1. Len(list) \in Nat /\ DOMAIN list = 1 .. Len(list)
  OBVIOUS
<1>2. \A i \in DOMAIN list : list[i].s \in Int /\ list[i].e \in Int
  BY EntryTypes
<1>3. T \in SUBSET Nat /\ Len(list) + 1 \in T
  BY <1>1
<1>4. PICK pos \in T : \A i \in T : pos <= i
  BY <1>3, Least
<1>5. pos \in 1 .. (Len(list) + 1)
  OBVIOUS
<1>6. ASSUME NEW i \in 1 .. (pos - 1)
      PROVE  list[i].s < start
  <2>1. i \in DOMAIN list /\ i \notin T
    BY <1>1, <1>4, <1>5
  <2> QED
    BY <1>1, <1>2, <2>1
<1>7. ASSUME NEW i \in pos .. Len(list)
      PROVE  list[i].s >= start
  <2>1. /\ pos \in DOMAIN list
        /\ i \in DOMAIN list
        /\ list[pos].s >= start
    BY <1>1, <1>5
  <2>2. list[pos].s < list[pos].e /\ (pos < i => list[pos].e < list[i].s)
    BY <2>1 DEF Apart, NoneEmpty
  <2> QED
    BY <1>1, <1>2, <1>5, <2>1, <2>2
<1> QED
  BY <1>5, <1>6, <1>7

\* What the search may use of the position it gets.
LEMMA LowerBoundSplits ==
    ASSUME NEW list \in Seq(Interval), Apart(list), NoneEmpty(list),
           NEW start \in Int
    PROVE  /\ LowerBound(list, start) \in 1 .. (Len(list) + 1)
           /\ \A i \in 1 .. (LowerBound(list, start) - 1) : list[i].s < start
           /\ \A i \in LowerBound(list, start) .. Len(list) : list[i].s >= start
BY LowerBoundExists DEF LowerBound

\* overlapsOccupiedInMemory and overlapsBlockedInMemory look at two intervals
\* of the list and answer for all of them: a run overlaps the list exactly
\* when it has a point in it.
THEOREM OverlapsIsSetTest ==
    ASSUME NEW list \in Seq(Interval), Apart(list), NoneEmpty(list),
           NEW start \in Int, NEW end \in Int, start < end
    PROVE  Overlaps(list, start, end) <=> (start .. (end - 1)) \cap Covered(list) # {}
<1> DEFINE pos == LowerBound(list, start)
<1>1. Len(list) \in Nat /\ DOMAIN list = 1 .. Len(list)
  OBVIOUS
<1>2. \A i \in DOMAIN list : /\ list[i].s \in Int /\ list[i].e \in Int
                             /\ list[i].s < list[i].e
  BY EntryTypes DEF NoneEmpty
<1>3. /\ pos \in 1 .. (Len(list) + 1)
      /\ \A i \in 1 .. (pos - 1) : list[i].s < start
      /\ \A i \in pos .. Len(list) : list[i].s >= start
  BY LowerBoundSplits
<1> HIDE DEF pos
<1>4. Overlaps(list, start, end) <=>
        \/ pos > 1 /\ list[pos - 1].e > start
        \/ pos <= Len(list) /\ list[pos].s < end
  BY DEF Overlaps, pos
<1>5. ASSUME pos > 1, list[pos - 1].e > start
      PROVE  start \in Covered(list)
  <2>1. pos - 1 \in DOMAIN list /\ list[pos - 1].s < start
    BY <1>1, <1>3, <1>5
  <2>2. start \in Points(list[pos - 1])
    BY <1>2, <1>5, <2>1 DEF Points
  <2> QED
    BY <2>1, <2>2 DEF Covered
<1>6. ASSUME pos <= Len(list), list[pos].s < end
      PROVE  list[pos].s \in (start .. (end - 1)) \cap Covered(list)
  <2>1. pos \in DOMAIN list /\ list[pos].s >= start
    BY <1>1, <1>3, <1>6
  <2>2. list[pos].s \in Points(list[pos])
    BY <1>2, <2>1 DEF Points
  <2> QED
    BY <1>2, <1>6, <2>1, <2>2 DEF Covered
<1>7. ASSUME NEW x \in (start .. (end - 1)) \cap Covered(list)
      PROVE  Overlaps(list, start, end)
  <2>1. PICK i \in DOMAIN list : x \in Points(list[i])
    BY <1>7 DEF Covered
  <2>2. /\ x \in Int /\ start <= x /\ x < end
        /\ list[i].s <= x /\ x < list[i].e
    BY <1>2, <2>1 DEF Points
  <2>3. CASE i < pos
    <3>1. pos > 1 /\ pos - 1 \in DOMAIN list
      BY <1>1, <1>3, <2>3
    <3>2. list[i].e <= list[pos - 1].e
      <4>1. CASE i = pos - 1
        BY <4>1, <1>2
      <4>2. CASE i < pos - 1
        <5>1. list[i].e < list[pos - 1].s
          BY <3>1, <4>2 DEF Apart
        <5> QED
          BY <1>2, <3>1, <5>1
      <4> QED
        BY <1>1, <1>3, <2>3, <4>1, <4>2
    <3> QED
      BY <1>2, <1>4, <2>2, <3>1, <3>2
  <2>4. CASE i >= pos
    <3>1. pos <= Len(list) /\ pos \in DOMAIN list
      BY <1>1, <1>3, <2>4
    <3>2. list[pos].s <= list[i].s
      <4>1. CASE i = pos
        BY <4>1, <1>2
      <4>2. CASE pos < i
        <5>1. list[pos].e < list[i].s
          BY <3>1, <4>2 DEF Apart
        <5> QED
          BY <1>2, <3>1, <5>1
      <4> QED
        BY <1>1, <1>3, <2>4, <4>1, <4>2
    <3> QED
      BY <1>2, <1>4, <2>2, <3>1, <3>2
  <2> QED
    BY <1>1, <1>3, <2>3, <2>4
<1>8. start \in start .. (end - 1)
  OBVIOUS
<1> QED
  BY <1>4, <1>5, <1>6, <1>7, <1>8

\* One step of the loop that builds a list: it stays apart, none of its
\* intervals becomes empty, and it covers the new interval besides what it
\* covered, provided the intervals come sorted by start.
THEOREM AbsorbKeepsApart ==
    ASSUME NEW list \in Seq(Interval), Apart(list), NoneEmpty(list),
           NEW iv \in Interval, iv.s < iv.e,
           \A i \in DOMAIN list : list[i].s <= iv.s
    PROVE  /\ Absorb(list, iv) \in Seq(Interval)
           /\ Apart(Absorb(list, iv))
           /\ NoneEmpty(Absorb(list, iv))
           /\ Covered(Absorb(list, iv)) = Covered(list) \cup Points(iv)
<1> DEFINE n == Len(list)
           new == Absorb(list, iv)
<1>1. /\ n \in Nat /\ DOMAIN list = 1 .. n
      /\ iv.s \in Int /\ iv.e \in Int
  BY DEF Interval
<1>2. \A i \in DOMAIN list : /\ list[i] \in Interval
                             /\ list[i].s \in Int /\ list[i].e \in Int
                             /\ list[i].s < list[i].e
  BY EntryTypes DEF NoneEmpty
<1>3. CASE list = <<>> \/ iv.s > list[n].e
  <2>1. new = Append(list, iv)
    BY <1>3 DEF Absorb
  <2>2. /\ new \in Seq(Interval)
        /\ DOMAIN new = 1 .. (n + 1)
        /\ new[n + 1] = iv
        /\ \A i \in 1 .. n : new[i] = list[i]
    BY <2>1, <1>1
  <2>3. \A i \in 1 .. n : list[i].e < iv.s
    <3> SUFFICES ASSUME NEW i \in 1 .. n PROVE list[i].e < iv.s
      OBVIOUS
    <3>1. n \in DOMAIN list /\ list[n].e < iv.s
      BY <1>1, <1>2, <1>3
    <3>2. CASE i = n
      BY <3>1, <3>2
    <3>3. CASE i < n
      <4>1. list[i].e < list[n].s
        BY <1>1, <3>1, <3>3 DEF Apart
      <4> QED
        BY <1>1, <1>2, <3>1, <4>1
    <3>4. i = n \/ i < n
      BY <1>1
    <3> QED
      BY <3>2, <3>3, <3>4
  <2>4. Apart(new)
    BY <1>1, <2>2, <2>3 DEF Apart
  <2>5. NoneEmpty(new)
    BY <1>1, <1>2, <2>2 DEF NoneEmpty
  <2>6. Covered(new) = Covered(list) \cup Points(iv)
    BY <1>1, <2>2 DEF Covered
  <2> QED
    BY <2>2, <2>4, <2>5, <2>6
<1>4. CASE list # <<>> /\ ~(iv.s > list[n].e)
  <2> DEFINE last == [list[n] EXCEPT !.e = Larger(list[n].e, iv.e)]
  <2>1. n \in DOMAIN list /\ n \in 1 .. n
    BY <1>1, <1>4
  <2>2. /\ last \in Interval
        /\ last.s = list[n].s
        /\ last.e = Larger(list[n].e, iv.e)
        /\ last.s < last.e
        /\ Points(last) = Points(list[n]) \cup Points(iv)
    BY <1>1, <1>2, <1>4, <2>1 DEF Interval, Larger, Points
  <2>3. new = [list EXCEPT ![n] = last]
    BY <1>4, <2>1 DEF Absorb
  <2> HIDE DEF last
  <2>4. /\ new \in Seq(Interval)
        /\ DOMAIN new = 1 .. n
        /\ new[n] = last
        /\ \A i \in 1 .. (n - 1) : new[i] = list[i]
    BY <1>1, <2>1, <2>2, <2>3
  <2>5. Apart(new)
    BY <1>1, <2>1, <2>2, <2>4 DEF Apart
  <2>6. NoneEmpty(new)
    BY <1>1, <1>2, <2>2, <2>4 DEF NoneEmpty
  <2>7. Covered(new) = Covered(list) \cup Points(iv)
    BY <1>1, <2>1, <2>2, <2>4 DEF Covered
  <2> QED
    BY <2>4, <2>5, <2>6, <2>7
<1> QED
  BY <1>3, <1>4

-----------------------------------------------------------------------------
(* Largest and smallest elements                                           *)

\* A finite non-empty set of integers has a largest element.
LEMMA Largest ==
    ASSUME NEW T \in SUBSET Int, IsFiniteSet(T), T # {}
    PROVE  \E x \in T : \A y \in T : y <= x
<1> DEFINE Wrong(n) == \E U \in SUBSET Int : /\ IsFiniteSet(U) /\ Cardinality(U) = n /\ U # {}
                                             /\ ~ \E x \in U : \A y \in U : y <= x
           Sizes == {n \in Nat : Wrong(n)}
<1>1. SUFFICES ASSUME Sizes # {} PROVE FALSE
  BY FS_CardinalityType
<1>2. PICK n \in Sizes : \A m \in Sizes : n <= m
  <2> HIDE DEF Wrong
  <2> QED
    BY <1>1, Least
<1>3. PICK U \in SUBSET Int : /\ IsFiniteSet(U) /\ Cardinality(U) = n /\ U # {}
                              /\ ~ \E x \in U : \A y \in U : y <= x
  BY <1>2
<1>4. PICK u \in U : TRUE
  BY <1>3
<1>5. /\ IsFiniteSet(U \ {u}) /\ Cardinality(U \ {u}) = n - 1 /\ n - 1 \in Nat
      /\ n \in Nat
  <2>1. IsFiniteSet(U \ {u}) /\ Cardinality(U \ {u}) = Cardinality(U) - 1
    BY <1>3, <1>4, FS_RemoveElement
  <2>2. Cardinality(U \ {u}) \in Nat /\ Cardinality(U) \in Nat
    BY <1>3, <2>1, FS_CardinalityType
  <2> QED
    BY <1>3, <2>1, <2>2
<1>6. n - 1 \notin Sizes
  <2> HIDE DEF Sizes
  <2>1. n - 1 \in Sizes => n <= n - 1
    BY <1>2
  <2> QED
    BY <1>5, <2>1
<1>7. U \ {u} # {} => \E x \in U \ {u} : \A y \in U \ {u} : y <= x
  BY <1>5, <1>6
<1>8. CASE U \ {u} = {}
  <2>1. U = {u}
    BY <1>4, <1>8
  <2> QED
    BY <1>3, <1>4, <2>1
<1>9. CASE U \ {u} # {}
  <2>1. PICK x \in U \ {u} : \A y \in U \ {u} : y <= x
    BY <1>7, <1>9
  <2>2. u \in Int /\ x \in Int
    BY <1>3, <1>4, <2>1
  <2>3. CASE u <= x
    <3>1. \A y \in U : y <= x
      BY <2>1, <2>3
    <3> QED
      BY <1>3, <2>1, <3>1
  <2>4. CASE x < u
    <3>1. \A y \in U : y <= u
      <4> TAKE y \in U
      <4>1. y \in Int
        BY <1>3
      <4>2. CASE y = u
        BY <2>2, <4>2
      <4>3. CASE y # u
        BY <2>1, <2>2, <2>4, <4>1, <4>3
      <4> QED
        BY <4>2, <4>3
    <3> QED
      BY <1>3, <1>4, <3>1
  <2> QED
    BY <2>2, <2>3, <2>4
<1> QED
  BY <1>8, <1>9

\* The image of a finite set under a function is finite.
LEMMA FiniteImage ==
    ASSUME NEW S, IsFiniteSet(S), NEW f, DOMAIN f = S, f = [x \in S |-> f[x]]
    PROVE  IsFiniteSet({f[x] : x \in S})
<1> DEFINE T == {f[x] : x \in S}
<1>1. f \in Surjection(S, T)
  BY DEF Surjection
<1> QED
  BY <1>1, FS_Surjection

\* The greatest and the least of a finite set, as FiniteSetsExt picks them.
LEMMA MaxIsLargest ==
    ASSUME NEW T \in SUBSET Int, IsFiniteSet(T), T # {}
    PROVE  Max(T) \in T /\ \A y \in T : y <= Max(T)
<1>1. PICK x \in T : \A y \in T : y <= x
  BY Largest
<1>2. \A y \in T : x >= y
  BY <1>1
<1>3. Max(T) \in T /\ \A y \in T : Max(T) >= y
  BY <1>2, Zenon DEF Max
<1> QED
  BY <1>3

LEMMA MinIsSmallest ==
    ASSUME NEW T \in SUBSET Int, IsFiniteSet(T), T # {}
    PROVE  Min(T) \in T /\ \A y \in T : Min(T) <= y
<1> DEFINE neg == [y \in T |-> -y]
           N == {neg[y] : y \in T}
<1>1. IsFiniteSet(N)
  BY FiniteImage
<1>2. N \in SUBSET Int /\ N # {}
  <2>1. \A y \in T : neg[y] = -y /\ -y \in Int
    OBVIOUS
  <2> HIDE DEF neg
  <2> QED
    BY <2>1
<1>3. PICK z \in N : \A y \in N : y <= z
  <2> HIDE DEF N
  <2> QED
    BY <1>1, <1>2, Largest
<1>4. PICK x \in T : z = -x
  BY <1>3
<1>5. \A y \in T : x <= y
  <2> TAKE y \in T
  <2>1. -y \in N /\ y \in Int /\ x \in Int
    OBVIOUS
  <2>2. -y <= z
    BY <1>3, <2>1
  <2> QED
    BY <1>4, <2>1, <2>2
<1>6. Min(T) \in T /\ \A y \in T : Min(T) <= y
  BY <1>5, Zenon DEF Min
<1> QED
  BY <1>6

-----------------------------------------------------------------------------
(* The loop that merges                                                    *)

\* What the queries sorted by start, and the sort of the handler, have to work on.
Sortable(S) ==
    /\ S \subseteq Interval
    /\ IsFiniteSet(S)
    /\ \A iv \in S : iv.s < iv.e

LEMMA SubsetSortable ==
    ASSUME NEW S, Sortable(S), NEW T \in SUBSET S
    PROVE  Sortable(T)
BY FS_Subset DEF Sortable

LEMMA LastIsThere ==
    ASSUME NEW S, Sortable(S), S # {}
    PROVE  LastByStart(S) \in S /\ \A other \in S : other.s <= LastByStart(S).s
<1> DEFINE start == [iv \in S |-> iv.s]
           T == {start[iv] : iv \in S}
<1>1. IsFiniteSet(T)
  BY FiniteImage DEF Sortable
<1>2. T \in SUBSET Int /\ T # {}
  BY DEF Sortable, Interval
<1>3. PICK x \in T : \A y \in T : y <= x
  <2> HIDE DEF T
  <2> QED
    BY <1>1, <1>2, Largest
<1>4. PICK iv \in S : \A other \in S : other.s <= iv.s
  BY <1>3
<1> QED
  BY <1>4, Zenon DEF LastByStart

\* One turn of the loop, given what it makes of smaller sets.
MergeStep(m, T) ==
    IF T = {} THEN <<>> ELSE Absorb(m[T \ {LastByStart(T)}], LastByStart(T))

\* A function that merges the subsets of S of up to n intervals.
Merges(m, S, n) == m = [T \in {U \in SUBSET S : Cardinality(U) <= n} |-> MergeStep(m, T)]

LEMMA SmallerByOne ==
    ASSUME NEW S, Sortable(S), NEW T \in SUBSET S, T # {}
    PROVE  /\ T \ {LastByStart(T)} \in SUBSET S
           /\ LastByStart(T) \in T
           /\ Cardinality(T) \in Nat \ {0}
           /\ Cardinality(T \ {LastByStart(T)}) = Cardinality(T) - 1
<1>1. Sortable(T)
  BY SubsetSortable
<1>2. LastByStart(T) \in T
  BY <1>1, LastIsThere
<1>3. IsFiniteSet(T)
  BY <1>1 DEF Sortable
<1>4. Cardinality(T) \in Nat /\ Cardinality(T) # 0
  BY <1>3, FS_CardinalityType, FS_EmptySet
<1> QED
  BY <1>2, <1>3, <1>4, FS_RemoveElement

LEMMA MergesExists ==
    ASSUME NEW S, Sortable(S), NEW n \in Nat
    PROVE  \E m : Merges(m, S, n)
<1> DEFINE Wrong == {k \in Nat : ~ \E m : Merges(m, S, k)}
           Small(k) == {U \in SUBSET S : Cardinality(U) <= k}
<1>1. SUFFICES ASSUME Wrong # {} PROVE FALSE
  OBVIOUS
<1>2. PICK k \in Wrong : \A j \in Wrong : k <= j
  BY <1>1, Least
<1>3. CASE k = 0
  <2> DEFINE m == [T \in Small(0) |-> <<>>]
  <2>1. \A T \in Small(0) : T = {}
    <3> TAKE T \in Small(0)
    <3>1. IsFiniteSet(T)
      BY SubsetSortable DEF Sortable
    <3>2. Cardinality(T) \in Nat /\ Cardinality(T) <= 0
      BY <3>1, FS_CardinalityType
    <3> QED
      BY <3>1, <3>2, FS_EmptySet
  <2>2. \A T \in Small(0) : MergeStep(m, T) = <<>>
    BY <2>1 DEF MergeStep
  <2>3. m = [T \in Small(0) |-> MergeStep(m, T)]
    <3> HIDE DEF Small
    <3> QED
      BY <2>2
  <2>4. Merges(m, S, 0)
    BY <2>3, Zenon DEF Merges
  <2> QED
    BY <1>2, <1>3, <2>4
<1>4. CASE k > 0
  <2>1. PICK m : Merges(m, S, k - 1)
    BY <1>2, <1>4
  <2>2. m = [T \in Small(k - 1) |-> MergeStep(m, T)]
    BY <2>1, Zenon DEF Merges
  <2> DEFINE more == [T \in Small(k) |-> IF T \in Small(k - 1) THEN m[T] ELSE MergeStep(m, T)]
  <2>3. ASSUME NEW T \in Small(k) PROVE more[T] = MergeStep(more, T)
    <3>1. more[T] = MergeStep(m, T)
      <4> HIDE DEF Small
      <4> QED
        BY <2>2
    <3>2. CASE T = {}
      BY <3>1, <3>2 DEF MergeStep
    <3>3. CASE T # {}
      <4> DEFINE U == T \ {LastByStart(T)}
      <4>1. U \in SUBSET S /\ Cardinality(U) = Cardinality(T) - 1 /\ Cardinality(T) \in Nat
        BY <3>3, SmallerByOne
      <4>2. U \in Small(k - 1) /\ U \in Small(k)
        BY <1>2, <4>1
      <4>3. more[U] = m[U]
        <5> HIDE DEF Small, U
        <5> QED
          BY <4>2
      <4> HIDE DEF more
      <4> QED
        BY <3>1, <3>3, <4>3 DEF MergeStep
    <3> QED
      BY <3>2, <3>3
  <2>4. more = [T \in Small(k) |-> MergeStep(more, T)]
    <3>1. more = [T \in Small(k) |-> more[T]]
      OBVIOUS
    <3> HIDE DEF more, Small
    <3> QED
      BY <2>3, <3>1
  <2>5. Merges(more, S, k)
    <3> HIDE DEF more
    <3> QED
      BY <2>4, Zenon DEF Merges
  <2> QED
    BY <1>2, <2>5
<1> QED
  BY <1>2, <1>3, <1>4

\* The function Merged is defined by.
Merger(S) == CHOOSE m : m = [T \in SUBSET S |-> MergeStep(m, T)]

LEMMA MergedUnfolds ==
    ASSUME NEW S, Sortable(S)
    PROVE  /\ Merged(S) = Merger(S)[S]
           /\ \A T \in SUBSET S : Merger(S)[T] = MergeStep(Merger(S), T)
<1>1. Cardinality(S) \in Nat
  BY FS_CardinalityType DEF Sortable
<1>2. PICK m : Merges(m, S, Cardinality(S))
  BY <1>1, MergesExists
<1>3. {U \in SUBSET S : Cardinality(U) <= Cardinality(S)} = SUBSET S
  BY FS_Subset DEF Sortable
<1>4. m = [T \in SUBSET S |-> MergeStep(m, T)]
  BY <1>2, <1>3 DEF Merges
<1>5. Merger(S) = [T \in SUBSET S |-> MergeStep(Merger(S), T)]
  BY <1>4, Zenon DEF Merger
<1>6. Merged(S) = Merger(S)[S]
  BY Zenon DEF Merged, Merger, MergeStep
<1> QED
  BY <1>5, <1>6

\* What a list is to be, made of a set of intervals.
MergeOf(list, T) ==
    /\ list \in Seq(Interval)
    /\ Apart(list)
    /\ NoneEmpty(list)
    /\ Covered(list) = UNION {Points(iv) : iv \in T}
    /\ \A i \in DOMAIN list : \E iv \in T : list[i].s = iv.s

LEMMA MergeStepCorrect ==
    ASSUME NEW list, NEW T, MergeOf(list, T), NEW last \in Interval, last.s < last.e,
           \A iv \in T : iv.s <= last.s
    PROVE  MergeOf(Absorb(list, last), T \cup {last})
<1> DEFINE new == Absorb(list, last)
<1>1. \A i \in DOMAIN list : list[i].s <= last.s
  BY DEF MergeOf
<1>2. /\ new \in Seq(Interval) /\ Apart(new) /\ NoneEmpty(new)
      /\ Covered(new) = Covered(list) \cup Points(last)
  BY <1>1, AbsorbKeepsApart DEF MergeOf
<1>3. UNION {Points(iv) : iv \in T \cup {last}} = (UNION {Points(iv) : iv \in T}) \cup Points(last)
  OBVIOUS
<1>4. \A i \in DOMAIN new : \E iv \in T \cup {last} : new[i].s = iv.s
  <2>1. list \in Seq(Interval) /\ Len(list) \in Nat /\ DOMAIN list = 1 .. Len(list)
    BY DEF MergeOf
  <2>2. CASE list = <<>> \/ last.s > list[Len(list)].e
    <3>1. new = Append(list, last)
      BY <2>2 DEF Absorb
    <3>2. \A i \in DOMAIN new : new[i] = last \/ (i \in DOMAIN list /\ new[i] = list[i])
      BY <2>1, <3>1
    <3> QED
      BY <3>2 DEF MergeOf
  <2>3. CASE ~(list = <<>> \/ last.s > list[Len(list)].e)
    <3>1. new = [list EXCEPT ![Len(list)].e = Larger(list[Len(list)].e, last.e)]
      BY <2>3 DEF Absorb
    <3>2. \A i \in DOMAIN new : i \in DOMAIN list /\ new[i].s = list[i].s
      <4>1. \A i \in DOMAIN list : list[i] \in Interval
        BY <2>1
      <4> QED
        BY <3>1, <4>1 DEF Interval
    <3> QED
      BY <3>2 DEF MergeOf
  <2> QED
    BY <2>2, <2>3
<1> HIDE DEF new
<1> QED
  BY <1>2, <1>3, <1>4 DEF MergeOf, new

\* Merging rows sorted by start gives a list of separate, non-empty intervals that
\* covers what the rows cover, for every finite set of rows: so do loadBlockedRanges,
\* loadOccupiedRanges, handleImportRanges and the statistics.
THEOREM MergedIsMergeOf ==
    ASSUME NEW S, Sortable(S)
    PROVE  MergeOf(Merged(S), S)
<1> DEFINE m == Merger(S)
           Wrong == {n \in Nat : \E T \in SUBSET S : Cardinality(T) = n /\ ~MergeOf(m[T], T)}
<1>1. \A T \in SUBSET S : m[T] = MergeStep(m, T)
  BY MergedUnfolds
<1> HIDE DEF m
<1>2. ASSUME Wrong # {} PROVE FALSE
  <2>1. PICK n \in Wrong : \A k \in Wrong : n <= k
    BY <1>2, Least
  <2>2. PICK T \in SUBSET S : Cardinality(T) = n /\ ~MergeOf(m[T], T)
    BY <2>1
  <2>3. CASE T = {}
    <3>1. m[T] = <<>>
      BY <1>1, <2>3 DEF MergeStep
    <3>2. PICK list \in Seq(Interval) : list = <<>>
      BY EmptySeq
    <3>a. DOMAIN list = {}
      BY <3>2
    <3>3. MergeOf(list, {})
      BY <3>a DEF MergeOf, Apart, NoneEmpty, Covered
    <3> QED
      BY <2>2, <2>3, <3>1, <3>2, <3>3
  <2>4. CASE T # {}
    <3> DEFINE last == LastByStart(T)
               U == T \ {last}
    <3>1. /\ U \in SUBSET S /\ last \in T
          /\ Cardinality(T) \in Nat \ {0} /\ Cardinality(U) = Cardinality(T) - 1
      BY <2>4, SmallerByOne
    <3>2. \A iv \in U : iv.s <= last.s
      BY <2>4, SubsetSortable, LastIsThere
    <3>3. last \in Interval /\ last.s < last.e
      BY <3>1 DEF Sortable
    <3>4. m[T] = Absorb(m[U], last)
      BY <1>1, <2>4 DEF MergeStep
    <3>5. U \cup {last} = T
      BY <3>1
    <3> HIDE DEF last, U
    <3>6. MergeOf(m[U], U)
      <4>1. n - 1 \in Nat /\ Cardinality(U) = n - 1
        BY <2>2, <3>1
      <4>2. n - 1 \notin Wrong
        <5> HIDE DEF Wrong
        <5>1. n - 1 \in Wrong => n <= n - 1
          BY <2>1
        <5>2. n \in Nat
          BY <2>2, <3>1
        <5> QED
          BY <5>1, <5>2
      <4> QED
        BY <3>1, <4>1, <4>2
    <3>7. MergeOf(m[T], T)
      BY <3>2, <3>3, <3>4, <3>5, <3>6, MergeStepCorrect
    <3> QED
      BY <2>2, <3>7
  <2> QED
    BY <2>3, <2>4
<1>3. Cardinality(S) \in Nat
  BY FS_CardinalityType DEF Sortable
<1>4. MergeOf(m[S], S)
  BY <1>2, <1>3
<1> QED
  BY <1>4, MergedUnfolds DEF m

-----------------------------------------------------------------------------
(* Folding into the table                                                  *)

TableRow == [source : Sources, s : Int, e : Int]

ApartIn(tbl) ==
    \A r, q \in tbl : (r.source = q.source /\ r # q) => (r.e < q.s \/ q.e < r.s)

Table(tbl) ==
    /\ tbl \subseteq TableRow
    /\ IsFiniteSet(tbl)
    /\ \A r \in tbl : r.s < r.e
    /\ ApartIn(tbl)

Cover(tbl) == UNION {Points(r) : r \in tbl}

\* Folding one interval in keeps the rows of a source apart and blocks exactly the
\* interval besides (insertOrMergeBlockedRange).
THEOREM InsertOrMergeCorrect ==
    ASSUME NEW tbl, Table(tbl), NEW source \in Sources, NEW iv \in Interval, iv.s < iv.e
    PROVE  /\ Table(InsertOrMerge(tbl, source, iv))
           /\ Cover(InsertOrMerge(tbl, source, iv)) = Cover(tbl) \cup Points(iv)
<1> DEFINE old == Touching(tbl, source, iv)
           starts == {r.s : r \in old} \cup {iv.s}
           ends == {r.e : r \in old} \cup {iv.e}
           s == Min(starts)
           e == Max(ends)
           row == Row(source, s, e)
<1>1. old \subseteq TableRow /\ IsFiniteSet(old) /\ iv.s \in Int /\ iv.e \in Int
  BY FS_Subset DEF Touching, Table, Interval
<1>2. IsFiniteSet(starts) /\ IsFiniteSet(ends)
  <2> DEFINE start == [r \in old |-> r.s]
             end == [r \in old |-> r.e]
  <2> HIDE DEF old
  <2>1. IsFiniteSet({start[r] : r \in old}) /\ IsFiniteSet({end[r] : r \in old})
    BY <1>1, FiniteImage
  <2>2. {start[r] : r \in old} = {r.s : r \in old} /\ {end[r] : r \in old} = {r.e : r \in old}
    OBVIOUS
  <2>3. IsFiniteSet({r.s : r \in old}) /\ IsFiniteSet({r.e : r \in old})
    BY <2>1, <2>2
  <2> QED
    BY <2>3, FS_AddElement
<1>3. /\ s \in Int /\ e \in Int /\ s <= iv.s /\ iv.e <= e
      /\ s = iv.s \/ \E r \in old : s = r.s
      /\ e = iv.e \/ \E r \in old : e = r.e
      /\ \A r \in old : s <= r.s /\ r.e <= e
  <2>1. starts \in SUBSET Int /\ starts # {} /\ ends \in SUBSET Int /\ ends # {}
    <3> HIDE DEF old
    <3> QED
      BY <1>1 DEF TableRow
  <2>2. s \in starts /\ \A y \in starts : s <= y
    <3> HIDE DEF starts
    <3> QED
      BY <1>2, <2>1, MinIsSmallest
  <2>3. e \in ends /\ \A y \in ends : y <= e
    <3> HIDE DEF ends
    <3> QED
      BY <1>2, <2>1, MaxIsLargest
  <2> HIDE DEF s, e
  <2>4. s \in Int /\ e \in Int
    <3> HIDE DEF starts, ends
    <3> QED
      BY <2>1, <2>2, <2>3
  <2> HIDE DEF old
  <2> QED
    BY <2>2, <2>3, <2>4
<1>4. InsertOrMerge(tbl, source, iv) = (tbl \ old) \cup {row}
  BY DEF InsertOrMerge
<1>5. old \subseteq tbl
  BY DEF Touching
<1>6. \A r \in tbl : /\ r \in TableRow /\ r.s \in Int /\ r.e \in Int /\ r.s < r.e
                     /\ r \in old <=> (r.source = source /\ r.s <= iv.e /\ r.e >= iv.s)
  BY DEF Table, TableRow, Touching
<1> HIDE DEF old, starts, ends, s, e
<1>7. /\ row \in TableRow /\ row.source = source /\ row.s = s /\ row.e = e
      /\ s < e /\ iv.s \in Int /\ iv.e \in Int
  BY <1>1, <1>3 DEF Row, TableRow
<1> HIDE DEF row
<1>8. ASSUME NEW q \in tbl \ old, q.source = source
      PROVE  q.e < s \/ e < q.s
  <2>0. q \in tbl /\ q.s \in Int /\ q.e \in Int /\ q.s < q.e
    BY <1>6
  <2>1. CASE q.s > iv.e
    <3>1. CASE e = iv.e
      BY <2>1, <3>1
    <3>2. CASE \E r \in old : e = r.e
      <4>1. PICK r \in old : e = r.e
        BY <3>2
      <4>2. /\ r \in tbl /\ r.source = source /\ r # q /\ r.s <= iv.e
            /\ r.s \in Int /\ r.e \in Int
        BY <1>6, <1>5, <4>1
      <4>3. r.e < q.s \/ q.e < r.s
        BY <1>8, <2>0, <4>2 DEF Table, ApartIn
      <4> QED
        BY <1>7, <2>0, <2>1, <4>1, <4>2, <4>3
    <3> QED
      BY <1>3, <3>1, <3>2
  <2>2. CASE q.e < iv.s
    <3>1. CASE s = iv.s
      BY <2>2, <3>1
    <3>2. CASE \E r \in old : s = r.s
      <4>1. PICK r \in old : s = r.s
        BY <3>2
      <4>2. /\ r \in tbl /\ r.source = source /\ r # q /\ r.e >= iv.s
            /\ r.s \in Int /\ r.e \in Int
        BY <1>6, <1>5, <4>1
      <4>3. r.e < q.s \/ q.e < r.s
        BY <1>8, <2>0, <4>2 DEF Table, ApartIn
      <4> QED
        BY <1>7, <2>0, <2>2, <4>1, <4>2, <4>3
    <3> QED
      BY <1>3, <3>1, <3>2
  <2> QED
    BY <1>7, <1>6, <1>8, <2>0, <2>1, <2>2
<1>9. ApartIn((tbl \ old) \cup {row})
  <2> SUFFICES ASSUME NEW r \in (tbl \ old) \cup {row}, NEW q \in (tbl \ old) \cup {row},
                      r.source = q.source, r # q
               PROVE  r.e < q.s \/ q.e < r.s
    BY DEF ApartIn
  <2>1. CASE r \in tbl \ old /\ q \in tbl \ old
    BY <2>1 DEF Table, ApartIn
  <2>2. CASE r = row /\ q \in tbl \ old
    BY <1>7, <1>8, <2>2
  <2>3. CASE r \in tbl \ old /\ q = row
    BY <1>7, <1>8, <2>3
  <2> QED
    BY <2>1, <2>2, <2>3
<1>10. Table((tbl \ old) \cup {row})
  <2>1. IsFiniteSet((tbl \ old) \cup {row})
    BY FS_Subset, FS_AddElement DEF Table
  <2>2. \A r \in (tbl \ old) \cup {row} : r \in TableRow /\ r.s < r.e
    BY <1>7, <1>6
  <2> QED
    BY <1>9, <2>1, <2>2 DEF Table
<1>11. ASSUME NEW x \in Points(row)
       PROVE  x \in Cover(tbl) \cup Points(iv)
  <2>1. x \in Int /\ s <= x /\ x < e
    BY <1>3, <1>7, <1>11 DEF Points
  <2>2. CASE iv.s <= x /\ x < iv.e
    BY <1>7, <2>1, <2>2 DEF Points
  <2>3. CASE x < iv.s
    <3>1. PICK r \in old : s = r.s
      BY <1>3, <1>7, <2>1, <2>3
    <3>2. r \in tbl /\ r.s \in Int /\ r.e \in Int /\ r.e >= iv.s
      BY <1>6, <1>5
    <3>3. x \in Points(r)
      BY <1>7, <2>1, <2>3, <3>1, <3>2 DEF Points
    <3> QED
      BY <3>2, <3>3 DEF Cover
  <2>4. CASE iv.e <= x
    <3>1. PICK r \in old : e = r.e
      BY <1>3, <1>7, <2>1, <2>4
    <3>2. r \in tbl /\ r.s \in Int /\ r.e \in Int /\ r.s <= iv.e
      BY <1>6, <1>5
    <3>3. x \in Points(r)
      BY <1>7, <2>1, <2>4, <3>1, <3>2 DEF Points
    <3> QED
      BY <3>2, <3>3 DEF Cover
  <2> QED
    BY <1>7, <2>1, <2>2, <2>3, <2>4
<1>12. Points(iv) \subseteq Points(row)
  BY <1>3, <1>7 DEF Points
<1>13. \A r \in old : Points(r) \subseteq Points(row)
  BY <1>3, <1>7, <1>6, <1>5 DEF Points
<1>14. Cover((tbl \ old) \cup {row}) = Cover(tbl) \cup Points(iv)
  <2>1. \A x \in Cover((tbl \ old) \cup {row}) : x \in Cover(tbl) \cup Points(iv)
    BY <1>11 DEF Cover
  <2>2. \A x \in Cover(tbl) : x \in Cover((tbl \ old) \cup {row})
    BY <1>13 DEF Cover
  <2>3. \A x \in Points(iv) : x \in Cover((tbl \ old) \cup {row})
    BY <1>12 DEF Cover
  <2> QED
    BY <2>1, <2>2, <2>3
<1> QED
  BY <1>4, <1>10, <1>14

-----------------------------------------------------------------------------
(* The loop over the merged intervals *)

InsertStep(f, tbl, source, list, n) ==
    IF n = 0 THEN tbl ELSE InsertOrMerge(f[n - 1], source, list[n])

Inserts(f, tbl, source, list, k) ==
    f = [n \in 0 .. k |-> InsertStep(f, tbl, source, list, n)]

LEMMA InsertsExists ==
    ASSUME NEW tbl, NEW source, NEW list, NEW n \in Nat
    PROVE  \E f : Inserts(f, tbl, source, list, n)
<1> DEFINE Wrong == {k \in Nat : ~ \E f : Inserts(f, tbl, source, list, k)}
<1>1. SUFFICES ASSUME Wrong # {} PROVE FALSE
  OBVIOUS
<1>2. PICK k \in Wrong : \A j \in Wrong : k <= j
  BY <1>1, Least
<1>3. CASE k = 0
  <2> DEFINE f == [i \in 0 .. 0 |-> tbl]
  <2>1. f = [i \in 0 .. 0 |-> InsertStep(f, tbl, source, list, i)]
    BY DEF InsertStep
  <2>2. Inserts(f, tbl, source, list, 0)
    BY <2>1, Zenon DEF Inserts
  <2> QED
    BY <1>2, <1>3, <2>2
<1>4. CASE k > 0
  <2>1. PICK f : Inserts(f, tbl, source, list, k - 1)
    BY <1>2, <1>4
  <2>2. f = [i \in 0 .. (k - 1) |-> InsertStep(f, tbl, source, list, i)]
    BY <2>1, Zenon DEF Inserts
  <2> DEFINE more == [i \in 0 .. k |-> IF i = k THEN InsertStep(f, tbl, source, list, i) ELSE f[i]]
  <2>3. ASSUME NEW i \in 0 .. k PROVE more[i] = InsertStep(more, tbl, source, list, i)
    <3>1. more[i] = InsertStep(f, tbl, source, list, i)
      BY <1>2, <1>4, <2>2
    <3>2. i # 0 => i - 1 \in 0 .. k /\ i - 1 # k
      BY <1>2
    <3>3. i # 0 => more[i - 1] = f[i - 1]
      BY <3>2
    <3> HIDE DEF more
    <3> QED
      BY <3>1, <3>3 DEF InsertStep
  <2>4. more = [i \in 0 .. k |-> InsertStep(more, tbl, source, list, i)]
    <3>1. more = [i \in 0 .. k |-> more[i]]
      OBVIOUS
    <3> HIDE DEF more
    <3> QED
      BY <2>3, <3>1
  <2>5. Inserts(more, tbl, source, list, k)
    <3> HIDE DEF more
    <3> QED
      BY <2>4, Zenon DEF Inserts
  <2> QED
    BY <1>2, <2>5
<1> QED
  BY <1>2, <1>3, <1>4

\* The function InsertAll is defined by.
Inserter(tbl, source, list) ==
    CHOOSE f : f = [n \in 0 .. Len(list) |-> InsertStep(f, tbl, source, list, n)]

LEMMA InsertAllUnfolds ==
    ASSUME NEW tbl, NEW source, NEW list, Len(list) \in Nat
    PROVE  /\ InsertAll(tbl, source, list) = Inserter(tbl, source, list)[Len(list)]
           /\ \A n \in 0 .. Len(list) :
                 Inserter(tbl, source, list)[n] =
                     InsertStep(Inserter(tbl, source, list), tbl, source, list, n)
<1>1. PICK f : Inserts(f, tbl, source, list, Len(list))
  BY InsertsExists
<1>2. f = [n \in 0 .. Len(list) |-> InsertStep(f, tbl, source, list, n)]
  BY <1>1, Zenon DEF Inserts
<1>3. Inserter(tbl, source, list) =
          [n \in 0 .. Len(list) |-> InsertStep(Inserter(tbl, source, list), tbl, source, list, n)]
  BY <1>2, Zenon DEF Inserter
<1>4. InsertAll(tbl, source, list) = Inserter(tbl, source, list)[Len(list)]
  BY Zenon DEF InsertAll, Inserter, InsertStep
<1> QED
  BY <1>3, <1>4

\* Folding a whole list in keeps the table in order and blocks exactly what the list
\* covers besides (the transaction of handleImportRanges).
THEOREM InsertAllCorrect ==
    ASSUME NEW tbl, Table(tbl), NEW source \in Sources,
           NEW list \in Seq(Interval), NoneEmpty(list)
    PROVE  /\ Table(InsertAll(tbl, source, list))
           /\ Cover(InsertAll(tbl, source, list)) = Cover(tbl) \cup Covered(list)
<1> DEFINE f == Inserter(tbl, source, list)
           First(n) == UNION {Points(list[i]) : i \in 1 .. n}
           Right(n) == Table(f[n]) /\ Cover(f[n]) = Cover(tbl) \cup First(n)
           Wrong == {n \in 0 .. Len(list) : ~ Right(n)}
<1>1. Len(list) \in Nat /\ DOMAIN list = 1 .. Len(list)
  OBVIOUS
<1>2. /\ InsertAll(tbl, source, list) = f[Len(list)]
      /\ \A n \in 0 .. Len(list) : f[n] = InsertStep(f, tbl, source, list, n)
  BY <1>1, InsertAllUnfolds
<1> HIDE DEF f
<1>3. Right(0)
  <2>1. f[0] = tbl
    BY <1>1, <1>2 DEF InsertStep
  <2>2. First(0) = {}
    OBVIOUS
  <2> HIDE DEF First
  <2> QED
    BY <2>1, <2>2
<1>4. ASSUME NEW n \in 1 .. Len(list), Right(n - 1)
      PROVE  Right(n)
  <2>1. list[n] \in Interval /\ list[n].s < list[n].e
    BY <1>1 DEF NoneEmpty
  <2>2. f[n] = InsertOrMerge(f[n - 1], source, list[n])
    BY <1>1, <1>2 DEF InsertStep
  <2>3. Table(f[n]) /\ Cover(f[n]) = Cover(f[n - 1]) \cup Points(list[n])
    BY <1>4, <2>1, <2>2, InsertOrMergeCorrect
  <2>4. First(n) = First(n - 1) \cup Points(list[n])
    <3>1. 1 .. n = (1 .. (n - 1)) \cup {n}
      BY <1>1
    <3> QED
      BY <3>1
  <2> HIDE DEF First
  <2> QED
    BY <1>4, <2>3, <2>4
<1>5. Wrong = {}
  <2>1. SUFFICES ASSUME Wrong # {} PROVE FALSE
    OBVIOUS
  <2>2. Wrong \in SUBSET Nat
    BY <1>1
  <2>3. PICK n \in Wrong : \A j \in Wrong : n <= j
    <3> HIDE DEF Wrong
    <3> QED
      BY <2>1, <2>2, Least
  <2>4. n \in 0 .. Len(list) /\ ~ Right(n)
    OBVIOUS
  <2>5. n # 0
    BY <1>3, <2>4
  <2>6. n - 1 \in 0 .. Len(list) /\ n \in 1 .. Len(list) /\ ~ (n <= n - 1)
    BY <1>1, <2>4, <2>5
  <2>7. Right(n - 1)
    BY <2>3, <2>6
  <2> QED
    BY <1>4, <2>4, <2>6, <2>7
<1>6. Right(Len(list))
  BY <1>1, <1>5
<1>7. Covered(list) = First(Len(list))
  BY <1>1 DEF Covered
<1> QED
  BY <1>2, <1>6, <1>7

-----------------------------------------------------------------------------
(* The loop that adds up the lengths *)

TotalStep(f, list, n) == IF n = 0 THEN 0 ELSE f[n - 1] + (list[n].e - list[n].s)

Totals(f, list, k) == f = [n \in 0 .. k |-> TotalStep(f, list, n)]

LEMMA TotalsExists ==
    ASSUME NEW list, NEW n \in Nat
    PROVE  \E f : Totals(f, list, n)
<1> DEFINE Wrong == {k \in Nat : ~ \E f : Totals(f, list, k)}
<1>1. SUFFICES ASSUME Wrong # {} PROVE FALSE
  OBVIOUS
<1>2. PICK k \in Wrong : \A j \in Wrong : k <= j
  BY <1>1, Least
<1>3. CASE k = 0
  <2> DEFINE f == [i \in 0 .. 0 |-> 0]
  <2>1. f = [i \in 0 .. 0 |-> TotalStep(f, list, i)]
    BY DEF TotalStep
  <2>2. Totals(f, list, 0)
    BY <2>1, Zenon DEF Totals
  <2> QED
    BY <1>2, <1>3, <2>2
<1>4. CASE k > 0
  <2>1. PICK f : Totals(f, list, k - 1)
    BY <1>2, <1>4
  <2>2. f = [i \in 0 .. (k - 1) |-> TotalStep(f, list, i)]
    BY <2>1, Zenon DEF Totals
  <2> DEFINE more == [i \in 0 .. k |-> IF i = k THEN TotalStep(f, list, i) ELSE f[i]]
  <2>3. ASSUME NEW i \in 0 .. k PROVE more[i] = TotalStep(more, list, i)
    <3>1. more[i] = TotalStep(f, list, i)
      BY <1>2, <1>4, <2>2
    <3>2. i # 0 => i - 1 \in 0 .. k /\ i - 1 # k
      BY <1>2
    <3>3. i # 0 => more[i - 1] = f[i - 1]
      BY <3>2
    <3> HIDE DEF more
    <3> QED
      BY <3>1, <3>3 DEF TotalStep
  <2>4. more = [i \in 0 .. k |-> TotalStep(more, list, i)]
    <3>1. more = [i \in 0 .. k |-> more[i]]
      OBVIOUS
    <3> HIDE DEF more
    <3> QED
      BY <2>3, <3>1
  <2>5. Totals(more, list, k)
    <3> HIDE DEF more
    <3> QED
      BY <2>4, Zenon DEF Totals
  <2> QED
    BY <1>2, <2>5
<1> QED
  BY <1>2, <1>3, <1>4

\* The function Total is defined by.
Adder(list) == CHOOSE f : f = [n \in 0 .. Len(list) |-> TotalStep(f, list, n)]

LEMMA TotalUnfolds ==
    ASSUME NEW list, Len(list) \in Nat
    PROVE  /\ Total(list) = Adder(list)[Len(list)]
           /\ \A n \in 0 .. Len(list) : Adder(list)[n] = TotalStep(Adder(list), list, n)
<1>1. PICK f : Totals(f, list, Len(list))
  BY TotalsExists
<1>2. f = [n \in 0 .. Len(list) |-> TotalStep(f, list, n)]
  BY <1>1, Zenon DEF Totals
<1>3. Adder(list) = [n \in 0 .. Len(list) |-> TotalStep(Adder(list), list, n)]
  BY <1>2, Zenon DEF Adder
<1>4. Total(list) = Adder(list)[Len(list)]
  BY Zenon DEF Total, Adder, TotalStep
<1> QED
  BY <1>3, <1>4

\* The lengths of separate intervals add up to the number of points they cover.
THEOREM TotalIsCardinality ==
    ASSUME NEW list \in Seq(Interval), Apart(list), NoneEmpty(list)
    PROVE  IsFiniteSet(Covered(list)) /\ Total(list) = Cardinality(Covered(list))
<1> DEFINE f == Adder(list)
           First(n) == UNION {Points(list[i]) : i \in 1 .. n}
           Right(n) == IsFiniteSet(First(n)) /\ f[n] = Cardinality(First(n))
           Wrong == {n \in 0 .. Len(list) : ~ Right(n)}
<1>1. Len(list) \in Nat /\ DOMAIN list = 1 .. Len(list)
  OBVIOUS
<1>2. /\ Total(list) = f[Len(list)]
      /\ \A n \in 0 .. Len(list) : f[n] = TotalStep(f, list, n)
  BY <1>1, TotalUnfolds
<1> HIDE DEF f
<1>3. Right(0)
  <2>1. f[0] = 0
    BY <1>1, <1>2 DEF TotalStep
  <2>2. First(0) = {}
    OBVIOUS
  <2> HIDE DEF First
  <2> QED
    BY <2>1, <2>2, FS_EmptySet
<1>4. ASSUME NEW n \in 1 .. Len(list), Right(n - 1)
      PROVE  Right(n)
  <2>1. list[n].s \in Int /\ list[n].e \in Int /\ list[n].s < list[n].e
    BY <1>1, EntryTypes DEF NoneEmpty
  <2>2. f[n] = f[n - 1] + (list[n].e - list[n].s)
    BY <1>1, <1>2 DEF TotalStep
  <2>3. First(n) = First(n - 1) \cup Points(list[n])
    <3>1. 1 .. n = (1 .. (n - 1)) \cup {n}
      BY <1>1
    <3> QED
      BY <3>1
  <2>4. First(n - 1) \cap Points(list[n]) = {}
    <3> SUFFICES ASSUME NEW i \in 1 .. (n - 1), NEW x \in Points(list[i]), x \in Points(list[n])
                 PROVE  FALSE
      OBVIOUS
    <3>1. i \in DOMAIN list /\ n \in DOMAIN list /\ i < n
      BY <1>1
    <3>2. list[i].e < list[n].s /\ list[i].s \in Int /\ list[i].e \in Int
      BY <3>1, EntryTypes DEF Apart
    <3>3. x < list[i].e /\ list[n].s <= x /\ x \in Int
      BY <2>1, <3>2 DEF Points
    <3> QED
      BY <2>1, <3>2, <3>3
  <2>5. IsFiniteSet(Points(list[n])) /\ Cardinality(Points(list[n])) = list[n].e - list[n].s
    <3>1. /\ IsFiniteSet(list[n].s .. (list[n].e - 1))
          /\ Cardinality(list[n].s .. (list[n].e - 1)) =
                IF list[n].s > list[n].e - 1 THEN 0 ELSE (list[n].e - 1) - list[n].s + 1
      <4>1. list[n].s \in Int /\ list[n].e - 1 \in Int
        BY <2>1
      <4> QED
        BY <4>1, FS_Interval
    <3>2. Points(list[n]) = list[n].s .. (list[n].e - 1)
      BY DEF Points
    <3>3. ~ (list[n].s > list[n].e - 1) /\ (list[n].e - 1) - list[n].s + 1 = list[n].e - list[n].s
      BY <2>1
    <3> QED
      BY <3>1, <3>2, <3>3
  <2> HIDE DEF First
  <2>6. IsFiniteSet(First(n)) /\
        Cardinality(First(n)) =
            Cardinality(First(n - 1)) + Cardinality(Points(list[n]))
              - Cardinality(First(n - 1) \cap Points(list[n]))
    BY <1>4, <2>3, <2>5, FS_Union
  <2>7. Cardinality(First(n - 1) \cap Points(list[n])) = 0
    BY <2>4, FS_EmptySet
  <2>8. Cardinality(First(n - 1)) \in Nat
    BY <1>4, FS_CardinalityType
  <2> QED
    BY <1>4, <2>1, <2>2, <2>5, <2>6, <2>7, <2>8
<1>5. Wrong = {}
  <2>1. SUFFICES ASSUME Wrong # {} PROVE FALSE
    OBVIOUS
  <2>2. Wrong \in SUBSET Nat
    BY <1>1
  <2>3. PICK n \in Wrong : \A j \in Wrong : n <= j
    <3> HIDE DEF Wrong
    <3> QED
      BY <2>1, <2>2, Least
  <2>4. n \in 0 .. Len(list) /\ ~ Right(n)
    OBVIOUS
  <2>5. n # 0
    BY <1>3, <2>4
  <2>6. n - 1 \in 0 .. Len(list) /\ n \in 1 .. Len(list) /\ ~ (n <= n - 1)
    BY <1>1, <2>4, <2>5
  <2>7. Right(n - 1)
    BY <2>3, <2>6
  <2> QED
    BY <1>4, <2>4, <2>6, <2>7
<1>6. Right(Len(list))
  <2>1. Len(list) \in 0 .. Len(list)
    BY <1>1
  <2> HIDE DEF Right
  <2> QED
    BY <1>5, <2>1
<1>7. Covered(list) = First(Len(list))
  BY <1>1 DEF Covered
<1>8. IsFiniteSet(First(Len(list))) /\ f[Len(list)] = Cardinality(First(Len(list)))
  BY <1>6
<1> HIDE DEF First
<1> QED
  BY <1>2, <1>7, <1>8

-----------------------------------------------------------------------------
(* From keys to virtual chunks *)

LEMMA Multiples ==
    ASSUME NEW a \in Nat, NEW b \in Nat, NEW size \in Nat, a <= b
    PROVE  a * size \in Nat /\ b * size \in Nat /\ a * size <= b * size
OBVIOUS

LEMMA Rounding ==
    ASSUME NEW a \in Nat, NEW size \in Nat \ {0}
    PROVE  /\ a \div size \in Nat
           /\ (a \div size) * size <= a
           /\ a < (a \div size + 1) * size
OBVIOUS

\* One number is the quotient.
LEMMA Quotient ==
    ASSUME NEW a \in Nat, NEW q \in Nat, NEW size \in Nat \ {0},
           q * size <= a, a < (q + 1) * size
    PROVE  a \div size = q
<1> DEFINE p == a \div size
<1>1. p \in Nat /\ p * size <= a /\ a < (p + 1) * size
  BY Rounding
<1> HIDE DEF p
<1>2. ~ (p + 1 <= q)
  <2> SUFFICES ASSUME p + 1 <= q PROVE FALSE
    OBVIOUS
  <2>1. (p + 1) * size <= q * size /\ (p + 1) * size \in Nat /\ q * size \in Nat
    BY <1>1, Multiples
  <2> QED
    BY <1>1, <2>1
<1>3. ~ (q + 1 <= p)
  <2> SUFFICES ASSUME q + 1 <= p PROVE FALSE
    OBVIOUS
  <2>1. (q + 1) * size <= p * size /\ (q + 1) * size \in Nat /\ p * size \in Nat
    BY <1>1, Multiples
  <2> QED
    BY <1>1, <2>1
<1>4. p = q
  BY <1>1, <1>2, <1>3
<1> QED
  BY <1>4 DEF p

LEMMA RoundingUp ==
    ASSUME NEW a \in Nat, NEW size \in Nat \ {0}
    PROVE  /\ CeilDiv(a, size) \in Nat
           /\ a <= CeilDiv(a, size) * size
           /\ \A q \in Nat : q < CeilDiv(a, size) => q * size < a
<1> DEFINE c == CeilDiv(a, size)
<1>1. a + size - 1 \in Nat /\ c = (a + size - 1) \div size
  BY DEF CeilDiv
<1>2. c \in Nat /\ c * size <= a + size - 1 /\ a + size - 1 < (c + 1) * size
  BY <1>1, Rounding
<1> HIDE DEF c
<1>3. c * size \in Nat /\ (c + 1) * size = c * size + size
  BY <1>2
<1>4. a <= c * size
  BY <1>2, <1>3
<1>5. ASSUME NEW q \in Nat, q < c
      PROVE  q * size < a
  <2>1. (q + 1) * size <= c * size
    BY <1>2, <1>5, Multiples
  <2>2. q * size \in Nat /\ (q + 1) * size = q * size + size
    OBVIOUS
  <2> QED
    BY <1>2, <1>3, <2>1, <2>2
<1> QED
  BY <1>2, <1>4, <1>5 DEF c

\* Rounding the start of a run of keys down and its end up gives the virtual chunks
\* that hold one of its keys.
LEMMA TouchedChunks ==
    ASSUME NEW lo \in Nat, NEW hi \in Nat, lo < hi, NEW size \in Nat \ {0}
    PROVE  /\ lo \div size < CeilDiv(hi, size)
           /\ {y \div size : y \in lo .. (hi - 1)} = (lo \div size) .. (CeilDiv(hi, size) - 1)
<1> DEFINE p == lo \div size
           c == CeilDiv(hi, size)
<1>1. p \in Nat /\ p * size <= lo /\ lo < (p + 1) * size
  BY Rounding
<1>2. c \in Nat /\ hi <= c * size /\ \A q \in Nat : q < c => q * size < hi
  BY RoundingUp
<1> HIDE DEF p, c
<1>3. ASSUME NEW y \in lo .. (hi - 1)
      PROVE  y \div size \in p .. (c - 1)
  <2> DEFINE q == y \div size
  <2>1. q \in Nat /\ q * size <= y /\ y < (q + 1) * size
    BY Rounding
  <2> HIDE DEF q
  <2>2. ~ (q + 1 <= p)
    <3> SUFFICES ASSUME q + 1 <= p PROVE FALSE
      OBVIOUS
    <3>1. (q + 1) * size <= p * size /\ (q + 1) * size \in Nat /\ p * size \in Nat
      BY <1>1, <2>1, Multiples
    <3> QED
      BY <1>1, <2>1, <3>1
  <2>3. ~ (c <= q)
    <3> SUFFICES ASSUME c <= q PROVE FALSE
      OBVIOUS
    <3>1. c * size <= q * size /\ c * size \in Nat /\ q * size \in Nat
      BY <1>2, <2>1, Multiples
    <3> QED
      BY <1>2, <2>1, <3>1
  <2>4. q \in p .. (c - 1)
    BY <1>1, <1>2, <2>1, <2>2, <2>3
  <2> QED
    BY <2>4 DEF q
<1>4. ASSUME NEW q \in p .. (c - 1)
      PROVE  \E y \in lo .. (hi - 1) : y \div size = q
  <2>1. q \in Nat /\ p <= q /\ q < c
    BY <1>1, <1>2
  <2>2. q * size < hi /\ q * size \in Nat /\ (q + 1) * size = q * size + size
    BY <1>2, <2>1
  <2>3. CASE q = p
    <3>1. lo \div size = q /\ lo \in lo .. (hi - 1)
      BY <2>3 DEF p
    <3> QED
      BY <3>1
  <2>4. CASE q # p
    <3>1. (p + 1) * size <= q * size /\ (p + 1) * size \in Nat
      BY <1>1, <2>1, <2>4, Multiples
    <3>2. q * size \in lo .. (hi - 1)
      BY <1>1, <2>2, <3>1
    <3>3. (q * size) \div size = q
      BY <2>1, <2>2, Quotient
    <3> QED
      BY <3>2, <3>3
  <2> QED
    BY <2>3, <2>4
<1>5. p < c
  <2>1. lo \in lo .. (hi - 1)
    OBVIOUS
  <2>2. p \in p .. (c - 1)
    BY <1>3, <2>1 DEF p
  <2> QED
    BY <1>1, <1>2, <2>2
<1>6. {y \div size : y \in lo .. (hi - 1)} = p .. (c - 1)
  BY <1>3, <1>4
<1> QED
  BY <1>5, <1>6 DEF p, c

\* The keys of the puzzle in a range, and the virtual chunks that hold one of them.
Kept(k) == Points(k) \cap PuzzleStart .. (PuzzleEnd - 1)

ChunkOf(key) == (key - PuzzleStart) \div VchunkSize

LEMMA RangeToChunks ==
    ASSUME NEW k \in Interval, k.s < k.e, InPuzzle(k)
    PROVE  /\ ToVchunks(k) \in Interval
           /\ ToVchunks(k).s < ToVchunks(k).e
           /\ Points(ToVchunks(k)) = {ChunkOf(x) : x \in Kept(k)}
<1> DEFINE lo == Larger(k.s, PuzzleStart) - PuzzleStart
           hi == Smallest(k.e, PuzzleEnd) - PuzzleStart
           c  == CeilDiv(hi, VchunkSize)
<1>1. k.s \in Int /\ k.e \in Int /\ k.s < k.e /\ k.e > PuzzleStart /\ k.s < PuzzleEnd
  BY DEF Interval, InPuzzle
<1>2. lo \in Nat /\ hi \in Nat /\ lo < hi
  BY <1>1, BoundsAssumption DEF Larger, Smallest
<1>3. Points(k) \cap PuzzleStart .. (PuzzleEnd - 1) = (lo + PuzzleStart) .. (hi + PuzzleStart - 1)
  BY <1>1, BoundsAssumption DEF Points, Larger, Smallest
<1>4. ToVchunks(k) = [s |-> lo \div VchunkSize, e |-> c]
  BY DEF ToVchunks
<1> HIDE DEF lo, hi
<1>5. VchunkSize \in Nat \ {0} /\ PuzzleStart \in Nat
  BY BoundsAssumption
<1>6. /\ lo \div VchunkSize < c
      /\ {y \div VchunkSize : y \in lo .. (hi - 1)} = (lo \div VchunkSize) .. (c - 1)
  BY <1>2, <1>5, TouchedChunks
<1>7. lo \div VchunkSize \in Int /\ c \in Int
  BY <1>2, <1>5, Rounding, RoundingUp
<1> HIDE DEF c
<1>8. Points(ToVchunks(k)) = {y \div VchunkSize : y \in lo .. (hi - 1)}
  BY <1>4, <1>6 DEF Points
<1>9. {y \div VchunkSize : y \in lo .. (hi - 1)} = {ChunkOf(x) : x \in Kept(k)}
  <2>1. ASSUME NEW y \in lo .. (hi - 1)
        PROVE  y + PuzzleStart \in Kept(k) /\ ChunkOf(y + PuzzleStart) = y \div VchunkSize
    <3>1. y + PuzzleStart \in (lo + PuzzleStart) .. (hi + PuzzleStart - 1)
      BY <1>2, <1>5
    <3>2. (y + PuzzleStart) - PuzzleStart = y
      BY <1>2, <1>5
    <3> QED
      BY <1>3, <3>1, <3>2 DEF Kept, ChunkOf
  <2>2. ASSUME NEW x \in Kept(k)
        PROVE  x - PuzzleStart \in lo .. (hi - 1)
    <3>1. x \in (lo + PuzzleStart) .. (hi + PuzzleStart - 1)
      BY <1>3 DEF Kept
    <3> QED
      BY <1>2, <1>5, <3>1
  <2> QED
    BY <2>1, <2>2 DEF ChunkOf
<1> QED
  BY <1>4, <1>6, <1>7, <1>8, <1>9 DEF Interval

LEMMA ImportedRanges ==
    ASSUME NEW base \in Bases, NEW step \in Steps, NEW ids \in SUBSET RangeIds,
           IsFiniteSet(ids)
    PROVE  /\ IsFiniteSet(Imported(base, step, ids))
           /\ \A k \in Imported(base, step, ids) :
                 k \in Interval /\ k.s < k.e /\ InPuzzle(k)
<1>1. base \in Nat /\ step \in Nat \ {0}
  BY BoundsAssumption
<1>2. ASSUME NEW id \in ids
      PROVE  /\ KeyRange(base, step, id) \in Interval
             /\ KeyRange(base, step, id).s < KeyRange(base, step, id).e
  <2>1. id \in Int
    BY BoundsAssumption
  <2>2. base + id * step \in Int
    BY <1>1, <2>1
  <2> QED
    BY <1>1, <2>2 DEF KeyRange, Interval
<1> DEFINE range == [id \in ids |-> KeyRange(base, step, id)]
<1>3. IsFiniteSet({range[id] : id \in ids})
  <2>1. DOMAIN range = ids /\ range = [id \in ids |-> range[id]]
    OBVIOUS
  <2> HIDE DEF range
  <2> QED
    BY <2>1, FiniteImage
<1>4. {range[id] : id \in ids} = {KeyRange(base, step, id) : id \in ids}
  OBVIOUS
<1>5. Imported(base, step, ids) \subseteq {KeyRange(base, step, id) : id \in ids}
  BY DEF Imported
<1>6. IsFiniteSet(Imported(base, step, ids))
  BY <1>3, <1>4, <1>5, FS_Subset
<1> QED
  BY <1>2, <1>6 DEF Imported

-----------------------------------------------------------------------------
(* The inductive invariant: the rows of a source stay apart, and together they cover  *)
(* the virtual chunks of the keys that were ever imported.                            *)

BlockedInv ==
    /\ Table(rows)
    /\ asked \subseteq PuzzleStart .. (PuzzleEnd - 1)
    /\ Cover(rows) = {ChunkOf(k) : k \in asked}

LEMMA BlockedInvInit == BlockedInit => BlockedInv
<1> SUFFICES ASSUME BlockedInit PROVE BlockedInv
  OBVIOUS
<1>1. rows = {} /\ asked = {}
  BY DEF BlockedInit
<1>2. Table({})
  BY FS_EmptySet DEF Table, ApartIn
<1>3. Cover({}) = {}
  BY DEF Cover
<1> QED
  BY <1>1, <1>2, <1>3 DEF BlockedInv

LEMMA ImportKeepsInv ==
    ASSUME BlockedInv, NEW source \in Sources, NEW base \in Bases, NEW step \in Steps,
           NEW ids \in SUBSET RangeIds, IsFiniteSet(ids), Import(source, base, step, ids)
    PROVE  BlockedInv'
<1> DEFINE keys == Imported(base, step, ids)
           S == {ToVchunks(k) : k \in keys}
           list == Merged(S)
<1>1. rows' = InsertAll(rows, source, list)
  BY DEF Import
<1>2. asked' = asked \cup UNION {Kept(k) : k \in keys}
  BY DEF Import, Kept
<1>3. /\ IsFiniteSet(keys)
      /\ \A k \in keys : k \in Interval /\ k.s < k.e /\ InPuzzle(k)
  BY ImportedRanges
<1> HIDE DEF keys
<1>4. \A k \in keys : /\ ToVchunks(k) \in Interval
                      /\ ToVchunks(k).s < ToVchunks(k).e
                      /\ Points(ToVchunks(k)) = {ChunkOf(x) : x \in Kept(k)}
  BY <1>3, RangeToChunks
<1>5. Sortable(S)
  <2> DEFINE chunked == [k \in keys |-> ToVchunks(k)]
  <2>1. IsFiniteSet({chunked[k] : k \in keys})
    <3>1. DOMAIN chunked = keys /\ chunked = [k \in keys |-> chunked[k]]
      OBVIOUS
    <3> HIDE DEF chunked
    <3> QED
      BY <1>3, <3>1, FiniteImage
  <2>2. {chunked[k] : k \in keys} = S
    OBVIOUS
  <2> QED
    BY <1>4, <2>1, <2>2 DEF Sortable
<1>6. MergeOf(list, S)
  <2> HIDE DEF S
  <2> QED
    BY <1>5, MergedIsMergeOf
<1>7. UNION {Points(iv) : iv \in S} = {ChunkOf(x) : x \in UNION {Kept(k) : k \in keys}}
  <2>1. \A z \in UNION {Points(iv) : iv \in S} :
           \E x \in UNION {Kept(k) : k \in keys} : z = ChunkOf(x)
    BY <1>4
  <2>2. \A x \in UNION {Kept(k) : k \in keys} : ChunkOf(x) \in UNION {Points(iv) : iv \in S}
    <3> TAKE x \in UNION {Kept(k) : k \in keys}
    <3>1. PICK k \in keys : x \in Kept(k)
      OBVIOUS
    <3>2. ChunkOf(x) \in Points(ToVchunks(k))
      BY <1>4, <3>1
    <3> QED
      BY <3>2
  <2> QED
    BY <2>1, <2>2
<1> HIDE DEF S, list
<1>8. /\ Table(rows')
      /\ Cover(rows') = Cover(rows) \cup Covered(list)
  BY <1>1, <1>6, InsertAllCorrect DEF BlockedInv, MergeOf
<1>9. Covered(list) = {ChunkOf(x) : x \in UNION {Kept(k) : k \in keys}}
  BY <1>6, <1>7 DEF MergeOf
<1>10. Cover(rows') = {ChunkOf(x) : x \in asked'}
  BY <1>2, <1>8, <1>9 DEF BlockedInv
<1>11. asked' \subseteq PuzzleStart .. (PuzzleEnd - 1)
  BY <1>2 DEF BlockedInv, Kept
<1> QED
  BY <1>8, <1>10, <1>11 DEF BlockedInv

LEMMA BlockedInvStep == BlockedInv /\ [BlockedNext]_blockedVars => BlockedInv'
<1> SUFFICES ASSUME BlockedInv, [BlockedNext]_blockedVars PROVE BlockedInv'
  OBVIOUS
<1>1. CASE BlockedNext
  BY <1>1, ImportKeepsInv DEF BlockedNext
<1>2. CASE UNCHANGED blockedVars
  BY <1>2 DEF BlockedInv, blockedVars
<1> QED
  BY <1>1, <1>2

\* The table, the keys asked for and the coverage stay as described, for every puzzle.
THEOREM BlockedInvariant == BlockedSpec => []BlockedInv
BY BlockedInvInit, BlockedInvStep, PTL DEF BlockedSpec

-----------------------------------------------------------------------------
(* The properties *)

LEMMA AllBlockedIsCover ==
    ASSUME Table(rows)
    PROVE  AllBlocked = Cover(rows)
<1>1. \A r \in rows : r.source \in Sources
  BY DEF Table, TableRow
<1>2. \A z \in AllBlocked : z \in Cover(rows)
  BY DEF AllBlocked, BlockedBy, Cover
<1>3. \A z \in Cover(rows) : z \in AllBlocked
  <2> TAKE z \in Cover(rows)
  <2>1. PICK r \in rows : z \in Points(r)
    BY DEF Cover
  <2>2. z \in BlockedBy(rows, r.source)
    BY <2>1 DEF BlockedBy
  <2> QED
    BY <1>1, <2>2 DEF AllBlocked
<1> QED
  BY <1>2, <1>3

\* The list is separate, non-empty intervals that cover what the rows cover.
LEMMA IndexOfRows ==
    ASSUME Table(rows)
    PROVE  /\ Index \in Seq(Interval) /\ Apart(Index) /\ NoneEmpty(Index)
           /\ Covered(Index) = Cover(rows)
<1> DEFINE S == {[s |-> r.s, e |-> r.e] : r \in rows}
           iv == [r \in rows |-> [s |-> r.s, e |-> r.e]]
<1>1. \A r \in rows : r.s \in Int /\ r.e \in Int /\ r.s < r.e
  BY DEF Table, TableRow
<1>2. IsFiniteSet({iv[r] : r \in rows})
  <2>1. DOMAIN iv = rows /\ iv = [r \in rows |-> iv[r]] /\ IsFiniteSet(rows)
    BY DEF Table
  <2> HIDE DEF iv
  <2> QED
    BY <2>1, FiniteImage
<1>3. \A r \in rows : /\ iv[r] \in Interval /\ iv[r].s < iv[r].e
                     /\ Points(iv[r]) = Points(r)
  BY <1>1 DEF Interval, Points
<1>4. S = {iv[r] : r \in rows}
  OBVIOUS
<1> HIDE DEF iv
<1>5. Sortable(S)
  BY <1>2, <1>3, <1>4 DEF Sortable
<1>6. UNION {Points(i) : i \in S} = Cover(rows)
  <2>1. UNION {Points(i) : i \in {iv[r] : r \in rows}} = UNION {Points(r) : r \in rows}
    BY <1>3
  <2> QED
    BY <1>4, <2>1 DEF Cover
<1>7. Index = Merged(S)
  BY DEF Index
<1> HIDE DEF S
<1>8. MergeOf(Merged(S), S)
  BY <1>5, MergedIsMergeOf
<1> QED
  BY <1>6, <1>7, <1>8 DEF MergeOf

\* Whatever is imported, the virtual chunks blocked are those that hold an imported key:
\* the allocator skips no more and no less.
THEOREM BlocksExactlyCorrect == BlockedSpec => []BlocksExactly
<1>1. BlockedInv => BlocksExactly
  BY AllBlockedIsCover DEF BlockedInv, BlocksExactly, ChunkOf
<1> QED
  BY <1>1, BlockedInvariant, PTL

\* Rows of one source never overlap or touch.
THEOREM RowsApartCorrect == BlockedSpec => []RowsApart
<1>1. BlockedInv => RowsApart
  BY DEF BlockedInv, RowsApart, Table, ApartIn
<1> QED
  BY <1>1, BlockedInvariant, PTL

\* The two intervals the binary search looks at always decide whether a run is blocked.
THEOREM IndexExactCorrect == BlockedSpec => []IndexExact
<1>1. BlockedInv => IndexExact
  <2> SUFFICES ASSUME BlockedInv,
                      NEW lo \in 0 .. CeilDiv(PuzzleEnd - PuzzleStart, VchunkSize),
                      NEW hi \in 0 .. CeilDiv(PuzzleEnd - PuzzleStart, VchunkSize),
                      lo < hi
               PROVE  Overlaps(Index, lo, hi) <=>
                         Points([s |-> lo, e |-> hi]) \cap AllBlocked # {}
    BY DEF IndexExact
  <2>1. /\ Index \in Seq(Interval) /\ Apart(Index) /\ NoneEmpty(Index)
        /\ Covered(Index) = AllBlocked
    BY IndexOfRows, AllBlockedIsCover DEF BlockedInv
  <2>2. lo \in Int /\ hi \in Int
    OBVIOUS
  <2>3. Points([s |-> lo, e |-> hi]) = lo .. (hi - 1)
    BY DEF Points
  <2> QED
    BY <2>1, <2>2, <2>3, OverlapsIsSetTest
<1> QED
  BY <1>1, BlockedInvariant, PTL

\* The dashboard's blocked_vchunk_count is the number of virtual chunks blocked.
THEOREM CountedOnceCorrect == BlockedSpec => []CountedOnce
<1>1. BlockedInv => CountedOnce
  <2> SUFFICES ASSUME BlockedInv PROVE BlockedCount = Cardinality(AllBlocked)
    BY DEF CountedOnce
  <2>1. /\ Index \in Seq(Interval) /\ Apart(Index) /\ NoneEmpty(Index)
        /\ Covered(Index) = AllBlocked
    BY IndexOfRows, AllBlockedIsCover DEF BlockedInv
  <2> QED
    BY <2>1, TotalIsCardinality DEF BlockedCount
<1> QED
  BY <1>1, BlockedInvariant, PTL

-----------------------------------------------------------------------------
(* Rows that are apart are determined by what they cover *)

\* Right before and right after a row there is nothing of its source.
LEMMA EdgesFree ==
    ASSUME NEW tbl, Table(tbl), NEW r \in tbl, NEW q \in tbl, q.source = r.source
    PROVE  r.e \notin Points(q) /\ r.s - 1 \notin Points(q)
<1>1. /\ r.s \in Int /\ r.e \in Int /\ r.s < r.e
      /\ q.s \in Int /\ q.e \in Int /\ q.s < q.e
  BY DEF Table, TableRow
<1>2. CASE q = r
  BY <1>1, <1>2 DEF Points
<1>3. CASE q # r
  <2>1. r.e < q.s \/ q.e < r.s
    BY <1>3 DEF Table, ApartIn
  <2> QED
    BY <1>1, <2>1 DEF Points
<1> QED
  BY <1>2, <1>3

LEMMA SameCoverSameRows ==
    ASSUME NEW t, NEW u, Table(t), Table(u),
           \A source \in Sources : BlockedBy(u, source) = BlockedBy(t, source)
    PROVE  t \subseteq u
<1> SUFFICES ASSUME NEW r \in t PROVE r \in u
  OBVIOUS
<1>1. r \in TableRow /\ r.source \in Sources /\ r.s \in Int /\ r.e \in Int /\ r.s < r.e
  BY DEF Table, TableRow
<1> DEFINE here == BlockedBy(t, r.source)
<1>2. here = BlockedBy(u, r.source)
  BY <1>1
<1>3. /\ \A z \in here : \E q \in t : q.source = r.source /\ z \in Points(q)
      /\ \A q \in t : q.source = r.source => Points(q) \subseteq here
  BY DEF BlockedBy
<1>4. /\ \A z \in here : \E q \in u : q.source = r.source /\ z \in Points(q)
      /\ \A q \in u : q.source = r.source => Points(q) \subseteq here
  <2>1. /\ \A z \in BlockedBy(u, r.source) : \E q \in u : q.source = r.source /\ z \in Points(q)
        /\ \A q \in u : q.source = r.source => Points(q) \subseteq BlockedBy(u, r.source)
    BY DEF BlockedBy
  <2> HIDE DEF here
  <2> QED
    BY <1>2, <2>1
<1> HIDE DEF here
<1>5. r.s \in Points(r)
  BY <1>1 DEF Points
<1>6. PICK q \in u : q.source = r.source /\ r.s \in Points(q)
  BY <1>3, <1>4, <1>5
<1>7. q \in TableRow /\ q.s \in Int /\ q.e \in Int /\ q.s <= r.s /\ r.s < q.e
  BY <1>1, <1>6 DEF Table, TableRow, Points
<1>8. r.e \notin here /\ r.s - 1 \notin here
  BY <1>3, EdgesFree
<1>9. q.e \notin here
  BY <1>4, <1>6, EdgesFree
<1>10. Points(q) \subseteq here /\ Points(r) \subseteq here
  BY <1>3, <1>4, <1>6
<1>11. q.s = r.s
  <2>1. q.s < r.s => r.s - 1 \in Points(q)
    BY <1>1, <1>7 DEF Points
  <2> QED
    BY <1>1, <1>7, <1>8, <1>10, <2>1
<1>12. q.e = r.e
  <2>1. q.e < r.e => q.e \in Points(r)
    BY <1>1, <1>7 DEF Points
  <2>2. r.e < q.e => r.e \in Points(q)
    BY <1>1, <1>7 DEF Points
  <2> QED
    BY <1>1, <1>7, <1>8, <1>9, <1>10, <2>1, <2>2
<1>13. q = r
  BY <1>1, <1>6, <1>7, <1>11, <1>12 DEF TableRow
<1> QED
  BY <1>13

\* An import that blocks nothing new leaves every row as it was: the table is a
\* function of what each source blocks, not of the imports that led to it.
THEOREM ReimportChangesNothingCorrect == BlockedSpec => ReimportChangesNothing
<1>1. ASSUME BlockedInv, BlockedInv', [BlockedNext]_blockedVars
      PROVE  [(\A source \in Sources : BlockedBy(rows', source) = BlockedBy(rows, source))
                => rows' = rows]_blockedVars
  <2> SUFFICES ASSUME \A source \in Sources : BlockedBy(rows', source) = BlockedBy(rows, source)
               PROVE  rows' = rows
    OBVIOUS
  <2>1. Table(rows) /\ Table(rows')
    BY <1>1 DEF BlockedInv
  <2>2. rows \subseteq rows'
    BY <2>1, SameCoverSameRows
  <2>3. rows' \subseteq rows
    BY <2>1, SameCoverSameRows
  <2> QED
    BY <2>2, <2>3
<1> QED
  BY <1>1, BlockedInvariant, PTL DEF BlockedSpec, ReimportChangesNothing
=============================================================================

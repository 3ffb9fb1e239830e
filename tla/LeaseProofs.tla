---------------------------- MODULE LeaseProofs ----------------------------
(***************************************************************************)
(* Proofs about who holds which job: the columns status, worker, prev and  *)
(* key of the chunk table, and the findings table.  The argument: every    *)
(* handler first takes away some jobs (none, those of a worker that was    *)
(* away, those past their timeout, the one that was returned), and then    *)
(* does one thing: age rows, hand out a row, add a row, or finish a row    *)
(* (LeaseStep).  Each of these keeps the rows, the leases and the findings *)
(* in order (LeasesOK), which is inductive and gives the invariants; what  *)
(* a single row may go through (RowMove) gives the action properties and   *)
(* the refinement of KeyspaceLedger.                                       *)
(***************************************************************************)
EXTENDS ChunkPoolProofs, ChunkPoolLedger, PoolStats

-----------------------------------------------------------------------------
(* The inductive invariant, of any table t and findings F *)

AssignedRows(t) == {i \in Rows(t) : t[i].status = "assigned"}

\* Only a found row has a key: without this a late FOUND could be credited with
\* a key that is not among its findings.
RowOK(c) ==
    /\ (c.worker = NoWorker) <=> (c.status = "reclaimed")
    /\ c.status = "reclaimed" => c.prev # NoWorker
    /\ c.status # "FOUND" => c.key = NoKey

RowsOK(t) == \A i \in Rows(t) : RowOK(t[i])

SameJob(c, d) == c.worker = d.worker /\ c.puzzle = d.puzzle

OneJob(t) ==
    \A i, j \in AssignedRows(t) : SameJob(t[i], t[j]) => i = j

SameTest(c, d) ==
    /\ c.isTest /\ d.isTest
    /\ c.puzzle = d.puzzle
    /\ c.lo = d.lo
    /\ c.hi = d.hi

\* One lease of a test range, be it the one that is set or an earlier one, which
\* may be set again while the old job is still out.
OneTest(t) ==
    \A i, j \in AssignedRows(t) : SameTest(t[i], t[j]) => i = j

FindingsOK(t, F) ==
    /\ \A f \in F : /\ f[1] \in Rows(t)
                     /\ t[f[1]].status = "FOUND"
                     /\ t[f[1]].worker = f[2]
    /\ \A i \in Rows(t) :
          t[i].status = "FOUND" => <<i, t[i].worker, t[i].key>> \in F

LeasesOK(t, F) == RowsOK(t) /\ OneJob(t) /\ FindingsOK(t, F)

-----------------------------------------------------------------------------
(* The fields of a row after each update *)

LEMMA ReleaseFields ==
    ASSUME NEW c \in Chunk
    PROVE  /\ Release(c).status = "reclaimed"
           /\ Release(c).worker = NoWorker
           /\ Release(c).prev = c.worker
           /\ Release(c).key = c.key
           /\ Release(c).age = 0
BY DEF Release, Chunk

LEMMA GrantFields ==
    ASSUME NEW c \in Chunk, NEW w \in Workers
    PROVE  /\ Grant(c, w).status = "assigned"
           /\ Grant(c, w).worker = w
           /\ Grant(c, w).prev = c.prev
           /\ Grant(c, w).key = c.key
           /\ Grant(c, w).age = 0
BY DEF Grant, Chunk

LEMMA CompleteFields ==
    ASSUME NEW c \in Chunk
    PROVE  /\ Complete(c).status = "completed"
           /\ Complete(c).worker = c.worker
           /\ Complete(c).prev = c.prev
           /\ Complete(c).key = c.key
BY DEF Complete, Chunk

LEMMA CreditFields ==
    ASSUME NEW c \in Chunk, NEW w \in Workers, NEW k \in Keys
    PROVE  /\ Credit(c, w, k).status = "FOUND"
           /\ Credit(c, w, k).worker = w
           /\ Credit(c, w, k).prev = c.prev
           /\ Credit(c, w, k).key = FinalKey(c, k)
BY DEF Credit, Chunk

\* Only the age of an assigned row changes.
AgeOnly(c, d) ==
    /\ SameRun(c, d)
    /\ d.status = c.status
    /\ d.worker = c.worker
    /\ d.prev = c.prev
    /\ d.key = c.key
    /\ c.status = "assigned" \/ d = c

LEMMA RefreshedFields ==
    ASSUME NEW c \in Chunk, c.status = "assigned"
    PROVE  AgeOnly(c, Refreshed(c)) /\ AgeOnly(c, Aged(c)) /\ AgeOnly(c, c)
BY DEF AgeOnly, SameRun, Refreshed, Aged, Chunk

LEMMA NewFields ==
    ASSUME NEW p, NEW lo, NEW hi, NEW isTest, NEW w
    PROVE  LET c == NewChunk(p, lo, hi, isTest, w) IN
           /\ c.puzzle = p /\ c.lo = lo /\ c.hi = hi /\ c.isTest = isTest
           /\ c.status = "assigned" /\ c.worker = w /\ c.prev = NoWorker
           /\ c.age = 0 /\ c.key = NoKey
BY DEF NewChunk

-----------------------------------------------------------------------------
(* Leases of one table and the next *)

LEMMA FewerLeases ==
    ASSUME NEW t, NEW u, SameRuns(t, u),
           \A i \in AssignedRows(u) : i \in AssignedRows(t) /\ u[i].worker = t[i].worker
    PROVE  (OneJob(t) => OneJob(u)) /\ (OneTest(t) => OneTest(u))
<1>1. \A i \in AssignedRows(u) : SameRun(t[i], u[i])
  BY DEF SameRuns, AssignedRows, Rows
<1> QED
  BY <1>1 DEF OneJob, OneTest, SameJob, SameTest, SameRun

\* A lease that is new does no harm where nobody holds the same job.
LEMMA OneMoreLease ==
    ASSUME NEW t, NEW u, NEW i,
           \A j \in AssignedRows(u) :
              \/ j = i
              \/ j \in AssignedRows(t) /\ u[j].worker = t[j].worker /\ SameRun(t[j], u[j])
    PROVE  /\ (OneJob(t) /\ \A j \in AssignedRows(t) : ~SameJob(t[j], u[i]))
                 => OneJob(u)
           /\ (OneTest(t) /\ \A j \in AssignedRows(t) : ~SameTest(t[j], u[i]))
                 => OneTest(u)
BY DEF OneJob, OneTest, SameJob, SameTest, SameRun

\* The findings stay in order as long as the found rows stay as they are.
LEMMA SameFindings ==
    ASSUME NEW t, NEW u, NEW F, FindingsOK(t, F),
           Rows(t) \subseteq Rows(u),
           \A i \in Rows(u) :
              \/ /\ i \in Rows(t)
                 /\ u[i].status = "FOUND" <=> t[i].status = "FOUND"
                 /\ u[i].status = "FOUND" => u[i].worker = t[i].worker /\ u[i].key = t[i].key
              \/ i \notin Rows(t) /\ u[i].status # "FOUND"
    PROVE  FindingsOK(u, F)
BY DEF FindingsOK

-----------------------------------------------------------------------------
(* Each kind of update keeps the leases and the findings in order *)

LEMMA ReleasedRows ==
    ASSUME NEW t \in Seq(Chunk), NEW S \in SUBSET AssignedRows(t)
    PROVE  LET u == Released(t, S) IN
           /\ u \in Seq(Chunk)
           /\ SameRuns(t, u)
           /\ Rows(u) = Rows(t)
           /\ AssignedRows(u) = AssignedRows(t) \ S
           /\ \A i \in Rows(t) \ S : u[i] = t[i]
           /\ \A i \in S : u[i] = Release(t[i])
<1> DEFINE u == Released(t, S)
<1>1. u \in Seq(Chunk) /\ SameRuns(t, u)
  BY ReleasedTable
<1>2. /\ Rows(u) = Rows(t)
      /\ \A i \in Rows(t) \ S : u[i] = t[i]
      /\ \A i \in S : u[i] = Release(t[i])
  BY DEF Released, Rows, AssignedRows
<1>3. \A i \in S : u[i].status = "reclaimed"
  BY <1>2, ReleaseFields, TableIsFunction DEF AssignedRows, Rows
<1>4. AssignedRows(u) = AssignedRows(t) \ S
  BY <1>2, <1>3 DEF AssignedRows
<1> QED
  BY <1>1, <1>2, <1>4

LEMMA ReleasedLeases ==
    ASSUME NEW t \in Seq(Chunk), NEW S \in SUBSET AssignedRows(t), NEW F, LeasesOK(t, F)
    PROVE  /\ LeasesOK(Released(t, S), F)
           /\ OneTest(t) => OneTest(Released(t, S))
<1> DEFINE u == Released(t, S)
<1>1. /\ u \in Seq(Chunk)
      /\ SameRuns(t, u)
      /\ Rows(u) = Rows(t)
      /\ AssignedRows(u) = AssignedRows(t) \ S
      /\ \A i \in Rows(t) \ S : u[i] = t[i]
      /\ \A i \in S : u[i] = Release(t[i])
  BY ReleasedRows
<1>2. \A i \in S : i \in Rows(t) /\ t[i].status = "assigned"
  BY DEF AssignedRows
<1> HIDE DEF u
<1>3. ASSUME NEW i \in S
      PROVE  /\ u[i].status = "reclaimed"
             /\ u[i].worker = NoWorker
             /\ u[i].prev = t[i].worker
             /\ u[i].key = t[i].key
  BY <1>1, <1>2, ReleaseFields, TableIsFunction DEF Rows
<1>4. RowsOK(u)
  BY <1>1, <1>2, <1>3 DEF LeasesOK, RowsOK, RowOK
<1>5. FindingsOK(u, F)
  <2>1. \A i \in Rows(u) :
          /\ i \in Rows(t)
          /\ u[i].status = "FOUND" <=> t[i].status = "FOUND"
          /\ u[i].status = "FOUND" => u[i].worker = t[i].worker /\ u[i].key = t[i].key
    BY <1>1, <1>2, <1>3
  <2> QED
    BY <1>1, <2>1, SameFindings DEF LeasesOK
<1>6. OneJob(u) /\ (OneTest(t) => OneTest(u))
  BY <1>1, FewerLeases DEF LeasesOK, AssignedRows
<1> QED
  BY <1>4, <1>5, <1>6 DEF LeasesOK, u

AgesOnly(t, u) ==
    /\ u \in Seq(Chunk)
    /\ Rows(u) = Rows(t)
    /\ \A i \in Rows(t) : AgeOnly(t[i], u[i])

LEMMA AgedLeases ==
    ASSUME NEW t \in Seq(Chunk), NEW u, AgesOnly(t, u), NEW F, LeasesOK(t, F)
    PROVE  LeasesOK(u, F) /\ (OneTest(t) => OneTest(u))
<1>1. SameRuns(t, u)
  BY DEF AgesOnly, AgeOnly, SameRuns, Rows
<1>2. /\ Rows(u) = Rows(t)
      /\ \A i \in Rows(t) : /\ u[i].status = t[i].status
                            /\ u[i].worker = t[i].worker
                            /\ u[i].prev = t[i].prev
                            /\ u[i].key = t[i].key
  BY DEF AgesOnly, AgeOnly
<1>3. RowsOK(u)
  BY <1>2 DEF LeasesOK, RowsOK, RowOK
<1>4. FindingsOK(u, F)
  BY <1>2, SameFindings DEF LeasesOK
<1>5. OneJob(u) /\ (OneTest(t) => OneTest(u))
  BY <1>1, <1>2, FewerLeases DEF LeasesOK, AssignedRows
<1> QED
  BY <1>3, <1>4, <1>5 DEF LeasesOK

(* Row i of t may be handed to w, and a row like c may be added for w. *)
MayTake(t, c, w) ==
    /\ \A j \in AssignedRows(t) : t[j].worker = w => t[j].puzzle # c.puzzle
    /\ c.isTest => \A j \in AssignedRows(t) : ~SameTest(t[j], c)

LEMMA GrantedRows ==
    ASSUME NEW t \in Seq(Chunk), NEW w \in Workers, NEW i \in Rows(t)
    PROVE  LET u == Granted(t, i, w) IN
           /\ u \in Seq(Chunk)
           /\ SameRuns(t, u)
           /\ Rows(u) = Rows(t)
           /\ \A j \in Rows(t) \ {i} : u[j] = t[j]
           /\ u[i] = Grant(t[i], w)
<1>1. t[i] \in Chunk
  BY TableIsFunction DEF Rows
<1>2. Granted(t, i, w) \in Seq(Chunk) /\ SameRuns(t, Granted(t, i, w))
  BY <1>1, GrantRow, ReplacedRow DEF Granted, Rows
<1> QED
  BY <1>2 DEF Granted, Rows

LEMMA GrantedLease ==
    ASSUME NEW t \in Seq(Chunk), NEW w \in Workers, NEW i \in Rows(t),
           t[i].status = "reclaimed", MayTake(t, t[i], w), NEW F, LeasesOK(t, F)
    PROVE  /\ LeasesOK(Granted(t, i, w), F)
           /\ OneTest(t) => OneTest(Granted(t, i, w))
<1> DEFINE u == Granted(t, i, w)
<1>1. /\ u \in Seq(Chunk)
      /\ SameRuns(t, u)
      /\ Rows(u) = Rows(t)
      /\ \A j \in Rows(t) \ {i} : u[j] = t[j]
      /\ u[i] = Grant(t[i], w)
  BY GrantedRows
<1> HIDE DEF u
<1>2. t[i] \in Chunk
  BY TableIsFunction DEF Rows
<1>3. /\ u[i].status = "assigned"
      /\ u[i].worker = w
      /\ u[i].key = t[i].key
      /\ SameRun(t[i], u[i])
  BY <1>1, <1>2, GrantFields, GrantRow
<1>4. RowsOK(u)
  BY <1>1, <1>3, NullsAssumption DEF LeasesOK, RowsOK, RowOK
<1>5. FindingsOK(u, F)
  <2>1. \A j \in Rows(u) :
          /\ j \in Rows(t)
          /\ u[j].status = "FOUND" <=> t[j].status = "FOUND"
          /\ u[j].status = "FOUND" => u[j].worker = t[j].worker /\ u[j].key = t[j].key
    BY <1>1, <1>3
  <2> QED
    BY <1>1, <2>1, SameFindings DEF LeasesOK
<1>6. \A j \in AssignedRows(u) :
        \/ j = i
        \/ j \in AssignedRows(t) /\ u[j].worker = t[j].worker /\ SameRun(t[j], u[j])
  BY <1>1 DEF AssignedRows, SameRun
<1>7. /\ \A j \in AssignedRows(t) : ~SameJob(t[j], u[i])
      /\ \A j \in AssignedRows(t) : ~SameTest(t[j], u[i])
  BY <1>3 DEF MayTake, SameJob, SameTest, SameRun
<1> QED
  BY <1>4, <1>5, <1>6, <1>7, OneMoreLease DEF LeasesOK, u

LEMMA AppendedLease ==
    ASSUME NEW t \in Seq(Chunk), NEW c \in Chunk, c.status = "assigned",
           c.worker \in Workers, c.key = NoKey, MayTake(t, c, c.worker),
           NEW F, LeasesOK(t, F)
    PROVE  /\ LeasesOK(Append(t, c), F)
           /\ OneTest(t) => OneTest(Append(t, c))
<1> DEFINE u == Append(t, c)
           new == Len(t) + 1
<1>1. /\ Rows(u) = Rows(t) \cup {new}
      /\ new \notin Rows(t)
      /\ \A j \in Rows(t) : u[j] = t[j]
      /\ u[new] = c
  BY AppendedRows
<1> HIDE DEF u, new
<1>2. RowsOK(u)
  BY <1>1, NullsAssumption DEF LeasesOK, RowsOK, RowOK
<1>3. FindingsOK(u, F)
  <2>1. \A i \in Rows(u) :
              \/ /\ i \in Rows(t)
                 /\ u[i].status = "FOUND" <=> t[i].status = "FOUND"
                 /\ u[i].status = "FOUND" => u[i].worker = t[i].worker /\ u[i].key = t[i].key
              \/ i \notin Rows(t) /\ u[i].status # "FOUND"
    BY <1>1
  <2> QED
    BY <1>1, <2>1, SameFindings DEF LeasesOK
<1>4. \A j \in AssignedRows(u) :
        \/ j = new
        \/ j \in AssignedRows(t) /\ u[j].worker = t[j].worker /\ SameRun(t[j], u[j])
  BY <1>1 DEF AssignedRows, SameRun
<1>5. /\ \A j \in AssignedRows(t) : ~SameJob(t[j], u[new])
      /\ \A j \in AssignedRows(t) : ~SameTest(t[j], u[new])
  BY <1>1 DEF MayTake, SameJob, SameTest
<1> QED
  BY <1>2, <1>3, <1>4, <1>5, OneMoreLease DEF LeasesOK, u

\* A row that is finished in place takes a lease away, if any.
LEMMA FinishedRows ==
    ASSUME NEW t \in Seq(Chunk), NEW i \in Rows(t), NEW d \in Chunk,
           SameRun(t[i], d), d.status \in {"completed", "FOUND"}
    PROVE  LET u == [t EXCEPT ![i] = d] IN
           /\ u \in Seq(Chunk)
           /\ SameRuns(t, u)
           /\ Rows(u) = Rows(t)
           /\ \A j \in Rows(t) \ {i} : u[j] = t[j]
           /\ u[i] = d
           /\ AssignedRows(u) = AssignedRows(t) \ {i}
           /\ (OneJob(t) => OneJob(u)) /\ (OneTest(t) => OneTest(u))
<1> DEFINE u == [t EXCEPT ![i] = d]
<1>1. u \in Seq(Chunk) /\ SameRuns(t, u)
  BY ReplacedRow DEF Rows
<1>2. /\ Rows(u) = Rows(t)
      /\ \A j \in Rows(t) \ {i} : u[j] = t[j]
      /\ u[i] = d
  BY DEF Rows
<1> HIDE DEF u
<1>3. AssignedRows(u) = AssignedRows(t) \ {i}
  BY <1>2 DEF AssignedRows
<1>4. (OneJob(t) => OneJob(u)) /\ (OneTest(t) => OneTest(u))
  BY <1>1, <1>2, <1>3, FewerLeases DEF AssignedRows
<1> QED
  BY <1>1, <1>2, <1>3, <1>4 DEF u

LEMMA CompletedLease ==
    ASSUME NEW t \in Seq(Chunk), NEW i \in AssignedRows(t), NEW F, LeasesOK(t, F)
    PROVE  LET u == [t EXCEPT ![i] = Complete(t[i])] IN
           LeasesOK(u, F) /\ (OneTest(t) => OneTest(u))
<1> DEFINE u == [t EXCEPT ![i] = Complete(t[i])]
<1>1. i \in Rows(t) /\ t[i] \in Chunk /\ t[i].status = "assigned"
  BY TableIsFunction DEF AssignedRows, Rows
<1>2. /\ Complete(t[i]).status = "completed"
      /\ Complete(t[i]).worker = t[i].worker
      /\ Complete(t[i]).key = t[i].key
  BY <1>1, CompleteFields
<1>3. Complete(t[i]) \in Chunk /\ SameRun(t[i], Complete(t[i]))
  BY <1>1, CompleteRow
<1>4. /\ Rows(u) = Rows(t)
      /\ \A j \in Rows(t) \ {i} : u[j] = t[j]
      /\ u[i] = Complete(t[i])
      /\ (OneJob(t) => OneJob(u)) /\ (OneTest(t) => OneTest(u))
  BY <1>1, <1>2, <1>3, FinishedRows
<1> HIDE DEF u
<1>5. RowsOK(u)
  BY <1>1, <1>2, <1>4 DEF LeasesOK, RowsOK, RowOK
<1>6. FindingsOK(u, F)
  <2>1. \A j \in Rows(u) :
          /\ j \in Rows(t)
          /\ u[j].status = "FOUND" <=> t[j].status = "FOUND"
          /\ u[j].status = "FOUND" => u[j].worker = t[j].worker /\ u[j].key = t[j].key
    BY <1>1, <1>2, <1>4
  <2> QED
    BY <1>4, <2>1, SameFindings DEF LeasesOK
<1> QED
  BY <1>4, <1>5, <1>6 DEF LeasesOK, u

FindingsOf(i, w, keys) == {<<i, w, k>> : k \in keys}

\* An unfinished row becomes FOUND together with its findings: it had none.
LEMMA CreditedLease ==
    ASSUME NEW t \in Seq(Chunk), NEW i \in Rows(t), NEW w \in Workers,
           NEW keys \in SUBSET Keys, NEW primary \in keys,
           t[i].status # "FOUND", NEW F, LeasesOK(t, F)
    PROVE  LET u == [t EXCEPT ![i] = Credit(t[i], w, primary)] IN
           /\ LeasesOK(u, F \cup FindingsOf(i, w, keys))
           /\ OneTest(t) => OneTest(u)
<1> DEFINE u == [t EXCEPT ![i] = Credit(t[i], w, primary)]
           G == F \cup FindingsOf(i, w, keys)
<1>1. t[i] \in Chunk /\ t[i].key = NoKey
  BY TableIsFunction DEF Rows, LeasesOK, RowsOK, RowOK
<1>2. /\ Credit(t[i], w, primary).status = "FOUND"
      /\ Credit(t[i], w, primary).worker = w
      /\ Credit(t[i], w, primary).key = primary
  BY <1>1, CreditFields DEF FinalKey
<1>3. Credit(t[i], w, primary) \in Chunk /\ SameRun(t[i], Credit(t[i], w, primary))
  BY <1>1, CreditRow
<1>4. /\ Rows(u) = Rows(t)
      /\ \A j \in Rows(t) \ {i} : u[j] = t[j]
      /\ u[i] = Credit(t[i], w, primary)
      /\ (OneJob(t) => OneJob(u)) /\ (OneTest(t) => OneTest(u))
  BY <1>2, <1>3, FinishedRows
<1> HIDE DEF u
<1>5. RowsOK(u)
  BY <1>2, <1>4, NullsAssumption DEF LeasesOK, RowsOK, RowOK
<1>6. \A f \in G : /\ f[1] \in Rows(u)
                   /\ u[f[1]].status = "FOUND"
                   /\ u[f[1]].worker = f[2]
  <2>1. ASSUME NEW f \in F
        PROVE  f[1] \in Rows(t) \ {i} /\ t[f[1]].status = "FOUND" /\ t[f[1]].worker = f[2]
    BY DEF LeasesOK, FindingsOK
  <2>2. ASSUME NEW f \in FindingsOf(i, w, keys)
        PROVE  f[1] = i /\ f[2] = w
    BY DEF FindingsOf
  <2> QED
    BY <1>2, <1>4, <2>1, <2>2
<1>7. \A j \in Rows(u) : u[j].status = "FOUND" => <<j, u[j].worker, u[j].key>> \in G
  <2>1. ASSUME NEW j \in Rows(t) \ {i}, u[j].status = "FOUND"
        PROVE  <<j, u[j].worker, u[j].key>> \in F
    BY <1>4, <2>1 DEF LeasesOK, FindingsOK
  <2>2. <<i, w, primary>> \in FindingsOf(i, w, keys)
    BY DEF FindingsOf
  <2> QED
    BY <1>2, <1>4, <2>1, <2>2
<1> QED
  BY <1>4, <1>5, <1>6, <1>7 DEF LeasesOK, FindingsOK, u

\* A repeated report leaves the row alone and may add keys to its findings.
LEMMA RepeatedFinding ==
    ASSUME NEW t, NEW F, LeasesOK(t, F), NEW i, NEW w, NEW keys, NEW k,
           <<i, w, k>> \in F
    PROVE  LeasesOK(t, F \cup FindingsOf(i, w, keys))
<1>1. i \in Rows(t) /\ t[i].status = "FOUND" /\ t[i].worker = w
  BY DEF LeasesOK, FindingsOK
<1>2. \A f \in FindingsOf(i, w, keys) : f[1] = i /\ f[2] = w
  BY DEF FindingsOf
<1> QED
  BY <1>1, <1>2 DEF LeasesOK, FindingsOK

-----------------------------------------------------------------------------
(* What a step does to the leases *)

AgesStep == AgesOnly(chunks, chunks') /\ UNCHANGED findings

ReleaseStep ==
    /\ \E S \in SUBSET AssignedRows(chunks) : chunks' = Released(chunks, S)
    /\ UNCHANGED findings

\* A row is handed out to w again; only a test chunk that w has lost in the same
\* step can come back to it.
GrantStep(w, S, i) ==
    LET t == Released(chunks, S) IN
    /\ t[i].status = "reclaimed"
    /\ MayTake(t, t[i], w)
    /\ i \in S => t[i].isTest
    /\ chunks' = Granted(t, i, w)
    /\ UNCHANGED findings

\* A row is added for w.
AddStep(w, S, c) ==
    LET t == Released(chunks, S) IN
    /\ c.status = "assigned"
    /\ c.worker = w
    /\ c.prev = NoWorker
    /\ c.key = NoKey
    /\ c.age = 0
    /\ MayTake(t, c, w)
    /\ chunks' = Append(t, c)
    /\ UNCHANGED findings

IssueTo(w) ==
    \E S \in SUBSET AssignedTo(chunks, w) :
        \/ \E i \in Rows(chunks) : GrantStep(w, S, i)
        \/ \E c \in Chunk : AddStep(w, S, c)

IssueStep == \E w \in Workers : IssueTo(w)

CompleteStep ==
    /\ \E i \in AssignedRows(chunks) : chunks' = [chunks EXCEPT ![i] = Complete(chunks[i])]
    /\ UNCHANGED findings

\* By the worker that has the job, or that lost it last.
CreditStep ==
    \E w \in Workers, i \in Rows(chunks), keys \in SUBSET Keys : \E primary \in keys :
        /\ chunks[i].status \in {"assigned", "reclaimed"}
        /\ w \in {chunks[i].worker, chunks[i].prev}
        /\ chunks' = [chunks EXCEPT ![i] = Credit(chunks[i], w, primary)]
        /\ findings' = findings \cup FindingsOf(i, w, keys)

RepeatStep ==
    /\ UNCHANGED chunks
    /\ \E w \in Workers, i \in Rows(chunks), keys \in SUBSET Keys : \E primary \in keys :
          /\ <<i, w, primary>> \in findings
          /\ findings' = findings \cup FindingsOf(i, w, keys)

LeaseStep ==
    \/ AgesStep
    \/ ReleaseStep
    \/ IssueStep
    \/ CompleteStep
    \/ CreditStep
    \/ RepeatStep

\* The rows a reactivating worker loses; none, if it is not.
LostBy(w) == IF Inactive(w) THEN AssignedTo(chunks, w) ELSE {}

LEMMA TableForReleases ==
    ASSUME TypeOK, NEW w \in Workers
    PROVE  /\ TableFor(w) = Released(chunks, LostBy(w))
           /\ LostBy(w) \in SUBSET AssignedTo(chunks, w)
           /\ LostBy(w) \in SUBSET AssignedRows(chunks)
<1>1. Released(chunks, {}) = chunks
  <2>1. chunks \in [1 .. Len(chunks) -> Chunk]
    BY TableIsFunction DEF TypeOK
  <2> QED
    BY <2>1 DEF Released
<1> QED
  BY <1>1 DEF TableFor, LostBy, AssignedTo, AssignedRows

LEMMA NewJob ==
    ASSUME NEW t, NEW w, NEW c, ~HasJob(w, t), c.puzzle = active,
           c.isTest => /\ <<c.lo, c.hi>> = testRange[active]
                       /\ TestRows(t, active, "assigned") = {}
    PROVE  MayTake(t, c, w)
<1>1. \A j \in AssignedRows(t) : t[j].worker = w => t[j].puzzle # c.puzzle
  BY DEF AssignedRows, HasJob, AssignedTo
<1>2. ASSUME c.isTest, NEW j \in AssignedRows(t), SameTest(t[j], c)
      PROVE  FALSE
  <2>1. <<t[j].lo, t[j].hi>> = testRange[active] /\ t[j].puzzle = active /\ t[j].isTest
    BY <1>2 DEF SameTest
  <2>2. j \in TestRows(t, active, "assigned")
    BY <2>1 DEF TestRows, AssignedRows
  <2> QED
    BY <1>2, <2>2
<1> QED
  BY <1>1, <1>2 DEF MayTake

LEMMA InsertStep ==
    ASSUME TypeOK, TypeOK', NEW w \in Workers, NEW lo, NEW hi, NEW isTest,
           LET t == TableFor(w)
               c == NewChunk(active, lo, hi, isTest, w)
           IN  /\ MayTake(t, c, w)
               /\ chunks' = Append(t, c),
           UNCHANGED findings
    PROVE  IssueTo(w)
<1> DEFINE t == TableFor(w)
           c == NewChunk(active, lo, hi, isTest, w)
<1>1. /\ t = Released(chunks, LostBy(w))
      /\ LostBy(w) \in SUBSET AssignedTo(chunks, w)
      /\ LostBy(w) \in SUBSET AssignedRows(chunks)
  BY TableForReleases
<1>2. t \in Seq(Chunk)
  BY <1>1, ReleasedRows DEF TypeOK
<1>3. c \in Chunk
  BY <1>2, AppendedIsChunk DEF TypeOK
<1>4. /\ c.status = "assigned" /\ c.worker = w /\ c.prev = NoWorker
      /\ c.age = 0 /\ c.key = NoKey
  BY NewFields
<1>5. MayTake(t, c, w) /\ chunks' = Append(t, c)
  OBVIOUS
<1> HIDE DEF t, c
<1>6. AddStep(w, LostBy(w), c)
  BY <1>1, <1>4, <1>5 DEF AddStep
<1> QED
  BY <1>1, <1>3, <1>6 DEF IssueTo

LEMMA WorkLeases ==
    ASSUME TypeOK, TypeOK', NEW w \in Workers, NEW requested \in 1 .. MaxRun,
           Work(w, requested)
    PROVE  ReleaseStep \/ IssueTo(w)
<1> DEFINE t == TableFor(w)
<1>1. /\ t = Released(chunks, LostBy(w))
      /\ LostBy(w) \in SUBSET AssignedTo(chunks, w)
      /\ LostBy(w) \in SUBSET AssignedRows(chunks)
  BY TableForReleases
<1>2. UNCHANGED findings
  BY DEF Work
<1>3. t \in Seq(Chunk) /\ Rows(t) = Rows(chunks)
  BY <1>1, ReleasedRows DEF TypeOK
<1> HIDE DEF t
<1>4. ASSUME chunks' = t
      PROVE  ReleaseStep
  BY <1>1, <1>2, <1>4 DEF ReleaseStep
<1>5. ASSUME NEW i \in Rows(t), chunks' = Granted(t, i, w), MayTake(t, t[i], w),
             t[i].status = "reclaimed", i \in LostBy(w) => t[i].isTest
      PROVE  IssueTo(w)
  <2>1. GrantStep(w, LostBy(w), i)
    BY <1>1, <1>2, <1>5 DEF GrantStep
  <2> QED
    BY <1>1, <1>3, <1>5, <2>1 DEF IssueTo
<1>6. ASSUME NEW lo, NEW n, InsertRun(w, t, lo, n), ~HasJob(w, t)
      PROVE  IssueTo(w)
  <2> DEFINE c == NewChunk(active, lo, lo + n, FALSE, w)
  <2>1. c.puzzle = active /\ c.isTest = FALSE
    BY DEF NewChunk
  <2>2. MayTake(t, c, w)
    BY <1>6, <2>1, NewJob
  <2> QED
    BY <1>2, <1>6, <2>2, InsertStep DEF InsertRun, t
<1>7. CASE ReturnExisting(w, t)
  BY <1>4, <1>7 DEF ReturnExisting
<1>8. CASE ReissueTestChunk(w, t)
  <2>1. PICK i \in TestRows(t, active, "reclaimed") : chunks' = Granted(t, i, w)
    BY <1>8 DEF ReissueTestChunk
  <2>2. /\ i \in Rows(t) /\ t[i].status = "reclaimed" /\ t[i].isTest
        /\ t[i].puzzle = active /\ <<t[i].lo, t[i].hi>> = testRange[active]
    BY DEF TestRows
  <2>3. MayTake(t, t[i], w)
    BY <1>8, <2>2, NewJob DEF ReissueTestChunk, TestChunkOffered
  <2> QED
    BY <1>5, <2>1, <2>2, <2>3
<1>9. CASE IssueTestChunk(w, t)
  <2> DEFINE c == NewChunk(active, testRange[active][1], testRange[active][2], TRUE, w)
  <2>1. testRange[active] \in Nat \X Nat
    BY <1>9, ScalarsAssumption DEF IssueTestChunk, TestChunkOffered, TypeOK
  <2>2. c.puzzle = active /\ c.lo = testRange[active][1] /\ c.hi = testRange[active][2]
    BY DEF NewChunk
  <2>r. \A r \in Nat \X Nat : <<r[1], r[2]>> = r
    OBVIOUS
  <2>3. <<c.lo, c.hi>> = testRange[active]
    BY <2>1, <2>2, <2>r, Zenon
  <2>4. MayTake(t, c, w)
    BY <1>9, <2>2, <2>3, NewJob DEF IssueTestChunk, TestChunkOffered
  <2>5. chunks' = Append(t, c)
    BY <1>9 DEF IssueTestChunk
  <2> QED
    BY <1>2, <2>4, <2>5, InsertStep DEF t
<1>10. CASE ReissueReclaimed(w, t)
  <2>1. PICK i \in Reclaimable(t) : chunks' = Granted(t, i, w)
    BY <1>10 DEF ReissueReclaimed
  <2>2. /\ i \in Rows(t) /\ t[i].status = "reclaimed" /\ ~t[i].isTest
        /\ t[i].puzzle = active
    BY DEF Reclaimable, NormalRows
  <2>3. MayTake(t, t[i], w) /\ LostBy(w) = {}
    BY <1>10, <2>2, NewJob DEF ReissueReclaimed, LostBy
  <2> QED
    BY <1>5, <2>1, <2>2, <2>3
<1>11. CASE IssueAnchor(w, t, requested)
  <2>1. ~HasJob(w, t) /\ \E lo, n : InsertRun(w, t, lo, n)
    BY <1>11 DEF IssueAnchor, NeedsVchunks, NeedsFreshRun
  <2> QED
    BY <1>6, <2>1
<1>12. CASE IssueProbed(w, t, requested)
  <2>1. ~HasJob(w, t) /\ \E lo, n : InsertRun(w, t, lo, n)
    BY <1>12 DEF IssueProbed, NeedsVchunks, NeedsFreshRun
  <2> QED
    BY <1>6, <2>1
<1>13. CASE IssueKeys(w, t, requested)
  <2>1. ~HasJob(w, t) /\ \E lo, n : InsertRun(w, t, lo, n)
    BY <1>13 DEF IssueKeys, NeedsKeys, NeedsFreshRun
  <2> QED
    BY <1>6, <2>1
<1>14. CASE NoWork(w, t, requested)
  BY <1>4, <1>14 DEF NoWork
<1> QED
  BY <1>7, <1>8, <1>9, <1>10, <1>11, <1>12, <1>13, <1>14 DEF Work, t

LEMMA SameTableStep ==
    ASSUME TypeOK, UNCHANGED <<chunks, findings>>
    PROVE  AgesStep
<1>1. \A i \in Rows(chunks) : AgeOnly(chunks[i], chunks[i])
  BY DEF AgeOnly, SameRun
<1> QED
  BY <1>1 DEF AgesStep, AgesOnly, TypeOK

LEMMA HeartbeatLeases ==
    ASSUME TypeOK, NEW w \in Workers, NEW i, Heartbeat(w, i)
    PROVE  AgesStep
<1>1. CASE i \in AssignedTo(chunks, w)
  <2>1. i \in Rows(chunks) /\ chunks[i] \in Chunk /\ chunks[i].status = "assigned"
    BY <1>1, TableIsFunction DEF AssignedTo, Rows, TypeOK
  <2>2. chunks' = [chunks EXCEPT ![i] = Refreshed(chunks[i])] /\ UNCHANGED findings
    BY <1>1 DEF Heartbeat
  <2>3. chunks' \in Seq(Chunk) /\ SameRuns(chunks, chunks')
    BY <2>1, <2>2, RefreshedRow, ReplacedRow DEF TypeOK, Rows
  <2>4. AgeOnly(chunks[i], Refreshed(chunks[i]))
    BY <2>1, RefreshedFields
  <2>5. \A j \in Rows(chunks) : AgeOnly(chunks[j], chunks'[j])
    <3>1. \A j \in Rows(chunks) \ {i} : chunks'[j] = chunks[j]
      BY <2>2 DEF Rows
    <3>2. chunks'[i] = Refreshed(chunks[i])
      BY <2>1, <2>2 DEF Rows
    <3> QED
      BY <2>4, <3>1, <3>2 DEF AgeOnly, SameRun
  <2> QED
    BY <2>2, <2>3, <2>5 DEF AgesStep, AgesOnly, SameRuns, Rows
<1>2. CASE i \notin AssignedTo(chunks, w)
  BY <1>2, SameTableStep DEF Heartbeat
<1> QED
  BY <1>1, <1>2

LEMMA TickLeases ==
    ASSUME TypeOK, TypeOK', Tick
    PROVE  AgesStep
<1>1. Rows(chunks') = Rows(chunks) /\ chunks' \in Seq(Chunk) /\ UNCHANGED findings
  BY DEF Tick, Rows, TypeOK
<1>2. ASSUME NEW i \in Rows(chunks)
      PROVE  AgeOnly(chunks[i], chunks'[i])
  <2>1. chunks[i] \in Chunk
    BY TableIsFunction DEF TypeOK, Rows
  <2>2. CASE chunks[i].status = "assigned"
    BY <2>1, <2>2, RefreshedFields DEF Tick
  <2>3. CASE chunks[i].status # "assigned"
    BY <2>3 DEF Tick, AgeOnly, SameRun
  <2> QED
    BY <2>2, <2>3
<1> QED
  BY <1>1, <1>2 DEF AgesStep, AgesOnly

LEMMA ReclaimLeases ==
    ASSUME ReclaimTimedOut
    PROVE  ReleaseStep
BY DEF ReclaimTimedOut, TimedOut, ReleaseStep, AssignedRows

LEMMA DoneLeases ==
    ASSUME TypeOK, NEW w \in Workers, NEW i \in Rows(chunks), SubmitDone(w, i)
    PROVE  AgesStep \/ ReleaseStep \/ CompleteStep
<1>1. CASE RefuseDone(w, i)
  BY <1>1, SameTableStep DEF RefuseDone, vars
<1>2. CASE ReturnIncomplete(w, i)
  BY <1>2 DEF ReturnIncomplete, ReleaseStep, AssignedTo, AssignedRows
<1>3. CASE AcceptDone(w, i)
  BY <1>3 DEF AcceptDone, CompleteStep, AssignedTo, AssignedRows
<1> QED
  BY <1>1, <1>2, <1>3 DEF SubmitDone

LEMMA FoundLeases ==
    ASSUME TypeOK, NEW w \in Workers, NEW i \in Rows(chunks),
           NEW keys \in SUBSET Keys, NEW primary \in keys,
           SubmitFound(w, i, primary, keys)
    PROVE  UNCHANGED <<chunks, findings>> \/ CreditStep \/ RepeatStep
<1>1. CASE RefuseFound(w, i, primary)
  BY <1>1 DEF RefuseFound, vars
<1>2. CASE AcceptFound(w, i, primary, keys)
  <2>1. findings' = findings \cup FindingsOf(i, w, keys)
    BY <1>2 DEF AcceptFound, Recorded, FindingsOf
  <2>2. CASE i \in AssignedTo(chunks, w) \/ ~AlreadyRecorded(w, i, primary)
    <3>1. chunks' = [chunks EXCEPT ![i] = Credit(chunks[i], w, primary)]
      BY <1>2, <2>2 DEF AcceptFound, FoundRow
    <3>2. /\ chunks[i].status \in {"assigned", "reclaimed"}
          /\ w \in {chunks[i].worker, chunks[i].prev}
      BY <1>2, <2>2 DEF AcceptFound, FoundAccepted, AssignedTo, LateHolder
    <3> QED
      BY <2>1, <3>1, <3>2 DEF CreditStep
  <2>3. CASE ~(i \in AssignedTo(chunks, w) \/ ~AlreadyRecorded(w, i, primary))
    <3>1. chunks' = [chunks EXCEPT ![i] = chunks[i]]
      BY <1>2, <2>3 DEF AcceptFound, FoundRow
    <3>2. chunks \in [1 .. Len(chunks) -> Chunk]
      BY TableIsFunction DEF TypeOK
    <3>3. UNCHANGED chunks
      BY <3>1, <3>2
    <3> QED
      BY <2>1, <2>3, <3>3 DEF RepeatStep, AlreadyRecorded
  <2> QED
    BY <2>2, <2>3
<1> QED
  BY <1>1, <1>2 DEF SubmitFound

LEMMA EveryLeaseStep ==
    ASSUME TypeOK, TypeOK', [Next]_vars
    PROVE  LeaseStep
<1>1. CASE UNCHANGED <<chunks, findings>>
  BY <1>1, SameTableStep DEF LeaseStep
<1>2. ASSUME NEW w \in Workers, WorkerNext(w)
      PROVE  LeaseStep
  <2>1. CASE \E requested \in 1 .. MaxRun : Work(w, requested)
    BY <2>1, WorkLeases DEF LeaseStep, IssueStep
  <2>2. CASE \E i \in Rows(chunks) \cup {0} : Heartbeat(w, i)
    BY <2>2, HeartbeatLeases DEF LeaseStep
  <2>3. CASE \E i \in Rows(chunks) : SubmitDone(w, i)
    BY <2>3, DoneLeases DEF LeaseStep
  <2>4. CASE \E i \in Rows(chunks), keys \in SUBSET Keys : \E primary \in keys :
               SubmitFound(w, i, primary, keys)
    BY <2>4, FoundLeases, SameTableStep DEF LeaseStep
  <2> QED
    BY <1>2, <2>1, <2>2, <2>3, <2>4 DEF WorkerNext
<1>3. CASE ReclaimTimedOut \/ Tick
  BY <1>3, ReclaimLeases, TickLeases DEF LeaseStep
<1>4. CASE AdminNext \/ UNCHANGED vars
  BY <1>1, <1>4 DEF AdminNext, ActivatePuzzle, SetTestChunk, ImportRanges, vars
<1> QED
  BY <1>2, <1>3, <1>4 DEF Next

LEMMA LeasesStep ==
    ASSUME TypeOK, LeaseStep, LeasesOK(chunks, findings)
    PROVE  /\ LeasesOK(chunks', findings')
           /\ OneTest(chunks) => OneTest(chunks')
<1>0. chunks \in Seq(Chunk)
  BY DEF TypeOK
<1>1. CASE AgesStep
  BY <1>0, <1>1, AgedLeases DEF AgesStep
<1>2. CASE ReleaseStep
  BY <1>0, <1>2, ReleasedLeases DEF ReleaseStep
<1>3. CASE IssueStep
  <2>0. PICK w \in Workers : \E S \in SUBSET AssignedTo(chunks, w) :
           \/ \E i \in Rows(chunks) : GrantStep(w, S, i)
           \/ \E c \in Chunk : AddStep(w, S, c)
    BY <1>3 DEF IssueStep, IssueTo
  <2>1. PICK S \in SUBSET AssignedTo(chunks, w) :
           \/ \E i \in Rows(chunks) : GrantStep(w, S, i)
           \/ \E c \in Chunk : AddStep(w, S, c)
    BY <2>0
  <2> DEFINE t == Released(chunks, S)
  <2>2. S \in SUBSET AssignedRows(chunks)
    BY DEF AssignedTo, AssignedRows
  <2>3. /\ t \in Seq(Chunk)
        /\ Rows(t) = Rows(chunks)
        /\ LeasesOK(t, findings)
        /\ OneTest(chunks) => OneTest(t)
    BY <1>0, <2>2, ReleasedRows, ReleasedLeases
  <2>4. CASE \E i \in Rows(chunks) : GrantStep(w, S, i)
    <3>1. PICK i \in Rows(chunks) : GrantStep(w, S, i)
      BY <2>4
    <3>2. /\ t[i].status = "reclaimed" /\ MayTake(t, t[i], w)
          /\ chunks' = Granted(t, i, w) /\ UNCHANGED findings
      BY <3>1 DEF GrantStep
    <3> HIDE DEF t
    <3> QED
      BY <2>3, <3>2, GrantedLease
  <2>5. CASE \E c \in Chunk : AddStep(w, S, c)
    <3>1. PICK c \in Chunk : AddStep(w, S, c)
      BY <2>5
    <3>2. /\ c.status = "assigned" /\ c.worker = w /\ c.key = NoKey
          /\ MayTake(t, c, w) /\ chunks' = Append(t, c) /\ UNCHANGED findings
      BY <3>1 DEF AddStep
    <3> HIDE DEF t
    <3> QED
      BY <2>3, <3>2, AppendedLease
  <2> QED
    BY <2>1, <2>4, <2>5
<1>4. CASE CompleteStep
  BY <1>0, <1>4, CompletedLease DEF CompleteStep
<1>5. CASE CreditStep
  <2>1. PICK w \in Workers, i \in Rows(chunks), keys \in SUBSET Keys, primary \in Keys :
              /\ primary \in keys
              /\ chunks[i].status \in {"assigned", "reclaimed"}
              /\ chunks' = [chunks EXCEPT ![i] = Credit(chunks[i], w, primary)]
              /\ findings' = findings \cup FindingsOf(i, w, keys)
    BY <1>5 DEF CreditStep
  <2>2. chunks[i].status # "FOUND"
    BY <2>1
  <2> QED
    BY <1>0, <2>1, <2>2, CreditedLease
<1>6. CASE RepeatStep
  <2>1. PICK w \in Workers, i \in Rows(chunks), keys \in SUBSET Keys :
           \E primary \in keys :
              /\ <<i, w, primary>> \in findings
              /\ findings' = findings \cup FindingsOf(i, w, keys)
    BY <1>6 DEF RepeatStep
  <2>2. LeasesOK(chunks, findings \cup FindingsOf(i, w, keys))
    BY <2>1, RepeatedFinding
  <2> QED
    BY <1>6, <2>1, <2>2 DEF RepeatStep
<1> QED
  BY <1>1, <1>2, <1>3, <1>4, <1>5, <1>6 DEF LeaseStep

LEMMA InitLeases ==
    ASSUME Init
    PROVE  LeasesOK(chunks, findings) /\ OneTest(chunks)
<1>1. Rows(chunks) = {} /\ findings = {}
  BY DEF Init, Rows
<1> QED
  BY <1>1 DEF LeasesOK, RowsOK, OneJob, OneTest, FindingsOK, AssignedRows

-----------------------------------------------------------------------------
(* Who holds a job *)

\* The rows, the leases, the test ranges and the findings are in order after every
\* handler; this is the inductive invariant of the five theorems below.
THEOREM LeasesCorrect == Spec => [](LeasesOK(chunks, findings) /\ OneTest(chunks))
<1> DEFINE Inv == LeasesOK(chunks, findings) /\ OneTest(chunks)
<1>1. Init => Inv
  BY InitLeases
<1>2. TypeOK /\ TypeOK' /\ Inv /\ [Next]_vars => Inv'
  BY EveryLeaseStep, LeasesStep
<1> QED
  BY <1>1, <1>2, TypeCorrect, PTL DEF Spec

\* A row has a worker unless it waits to be handed out again, and a row that waits
\* remembers who lost it.
THEOREM LeaseShapeCorrect == Spec => []LeaseShape
<1>1. LeasesOK(chunks, findings) => LeaseShape
  BY DEF LeasesOK, RowsOK, RowOK, LeaseShape
<1> QED
  BY <1>1, LeasesCorrect, PTL

\* No worker ever holds two jobs of a puzzle, however often it asks and whatever
\* puzzles were active in between.
THEOREM OneJobPerWorkerCorrect == Spec => []OneJobPerWorker
<1>1. LeasesOK(chunks, findings) => OneJobPerWorker
  BY DEF LeasesOK, OneJob, SameJob, OneJobPerWorker, AssignedTo, AssignedRows
<1> QED
  BY <1>1, LeasesCorrect, PTL

\* The findings table and the chunk table agree, however the reports of a holder,
\* of a late finder and of a repeating client interleave.
THEOREM FindingsMatchChunksCorrect == Spec => []FindingsMatchChunks
<1>1. LeasesOK(chunks, findings) => FindingsMatchChunks
  BY DEF LeasesOK, FindingsOK, FindingsMatchChunks
<1> QED
  BY <1>1, LeasesCorrect, PTL

\* At most one worker at a time scans the test range of a puzzle, also after the
\* range was cleared and set again while an old test chunk is out.
THEOREM OneTestChunkOutCorrect == Spec => []OneTestChunkOut
<1>1. ASSUME TypeOK, OneTest(chunks)
      PROVE  OneTestChunkOut
  <2> SUFFICES ASSUME NEW p \in Puzzles
               PROVE  Cardinality(TestRows(chunks, p, "assigned")) <= 1
    BY DEF OneTestChunkOut
  <2> DEFINE T == TestRows(chunks, p, "assigned")
  <2>1. ASSUME NEW i \in T, NEW j \in T
        PROVE  i = j
    <3>1. /\ i \in AssignedRows(chunks) /\ j \in AssignedRows(chunks)
          /\ <<chunks[i].lo, chunks[i].hi>> = <<chunks[j].lo, chunks[j].hi>>
          /\ chunks[i].puzzle = chunks[j].puzzle
          /\ chunks[i].isTest /\ chunks[j].isTest
      BY DEF TestRows, AssignedRows
    <3> QED
      BY <1>1, <3>1 DEF OneTest, SameTest
  <2> HIDE DEF T
  <2>2. CASE T = {}
    BY <2>2, FS_EmptySet DEF T
  <2>3. CASE T # {}
    <3>1. \E i : T = {i}
      BY <2>1, <2>3
    <3>2. Cardinality(T) = 1
      BY <3>1, FS_Singleton
    <3> QED
      BY <3>2 DEF T
  <2> QED
    BY <2>2, <2>3
<1> QED
  BY <1>1, LeasesCorrect, TypeCorrect, PTL

-----------------------------------------------------------------------------
(* What may become of one row *)

TakenAway(c, d) ==
    /\ c.status = "assigned"
    /\ d.status = "reclaimed"
    /\ d.worker = NoWorker
    /\ d.prev = c.worker

GivenAgain(c, d) ==
    /\ c.status = "reclaimed"
    /\ d.status = "assigned"
    /\ d.worker \in Workers
    /\ d.prev = c.prev

\* A test chunk taken from a worker that was away, and handed to it again.
TestGivenBack(c, d) ==
    /\ c.isTest
    /\ c.status = "assigned"
    /\ d.status = "assigned"
    /\ d.worker = c.worker

Completed(c, d) ==
    /\ c.status = "assigned"
    /\ d.status = "completed"
    /\ d.worker = c.worker
    /\ d.prev = c.prev

Credited(c, d) ==
    /\ c.status \in {"assigned", "reclaimed"}
    /\ d.status = "FOUND"
    /\ d.worker \in {c.worker, c.prev} \cap Workers
    /\ d.prev = c.prev

RowMove(c, d) ==
    /\ SameRun(c, d)
    /\ \/ AgeOnly(c, d)
       \/ TakenAway(c, d)
       \/ GivenAgain(c, d)
       \/ TestGivenBack(c, d)
       \/ Completed(c, d)
       \/ Credited(c, d)

NewRow(d) == d.status = "assigned" /\ d.worker \in Workers /\ d.prev = NoWorker

RowMoves ==
    /\ Rows(chunks) \subseteq Rows(chunks')
    /\ \A i \in Rows(chunks) : RowMove(chunks[i], chunks'[i])
    /\ \A i \in Rows(chunks') \ Rows(chunks) : NewRow(chunks'[i])

LEMMA SameRow ==
    ASSUME NEW c
    PROVE  RowMove(c, c)
BY DEF RowMove, AgeOnly, SameRun

LEMMA ReleaseMove ==
    ASSUME NEW c \in Chunk, c.status = "assigned"
    PROVE  RowMove(c, Release(c))
BY ReleaseRow, ReleaseFields DEF RowMove, TakenAway

LEMMA CompleteMove ==
    ASSUME NEW c \in Chunk, c.status = "assigned"
    PROVE  RowMove(c, Complete(c))
BY CompleteRow, CompleteFields DEF RowMove, Completed

LEMMA CreditMove ==
    ASSUME NEW c \in Chunk, c.status \in {"assigned", "reclaimed"},
           NEW w \in Workers, w \in {c.worker, c.prev}, NEW k \in Keys
    PROVE  RowMove(c, Credit(c, w, k))
BY CreditRow, CreditFields DEF RowMove, Credited

\* One row of a table changes as RowMove allows, the others not at all.
LEMMA OneRowMoves ==
    ASSUME NEW t, NEW i \in Rows(t), NEW d, RowMove(t[i], d)
    PROVE  LET u == [t EXCEPT ![i] = d] IN
           /\ Rows(u) = Rows(t)
           /\ \A j \in Rows(t) : RowMove(t[j], u[j])
<1> DEFINE u == [t EXCEPT ![i] = d]
<1>1. /\ Rows(u) = Rows(t)
      /\ u[i] = d
      /\ \A j \in Rows(t) \ {i} : u[j] = t[j]
  BY DEF Rows
<1>2. \A j \in Rows(t) : RowMove(t[j], u[j])
  BY <1>1, SameRow
<1> QED
  BY <1>1, <1>2

\* What is done to a row after it was taken or left alone.
LEMMA ReleasedMoves ==
    ASSUME TypeOK, NEW S \in SUBSET AssignedRows(chunks)
    PROVE  LET t == Released(chunks, S) IN
           /\ t \in Seq(Chunk)
           /\ Rows(t) = Rows(chunks)
           /\ \A i \in Rows(chunks) : RowMove(chunks[i], t[i])
<1> DEFINE t == Released(chunks, S)
<1>1. /\ t \in Seq(Chunk)
      /\ Rows(t) = Rows(chunks)
      /\ \A i \in Rows(chunks) \ S : t[i] = chunks[i]
      /\ \A i \in S : t[i] = Release(chunks[i])
  BY ReleasedRows DEF TypeOK
<1>2. \A i \in S : i \in Rows(chunks) /\ chunks[i].status = "assigned"
  BY DEF AssignedRows
<1> HIDE DEF t
<1>3. ASSUME NEW i \in S
      PROVE  RowMove(chunks[i], t[i])
  BY <1>1, <1>2, ReleaseMove, TableIsFunction DEF TypeOK, Rows
<1>4. \A i \in Rows(chunks) : RowMove(chunks[i], t[i])
  BY <1>1, <1>3, SameRow
<1> QED
  BY <1>1, <1>4 DEF t

LEMMA GrantMoves ==
    ASSUME TypeOK, NEW w \in Workers, NEW S \in SUBSET AssignedTo(chunks, w),
           NEW i \in Rows(chunks), GrantStep(w, S, i)
    PROVE  RowMoves
<1> DEFINE t == Released(chunks, S)
<1>1. S \in SUBSET AssignedRows(chunks)
  BY DEF AssignedTo, AssignedRows
<1>2. /\ t \in Seq(Chunk)
      /\ Rows(t) = Rows(chunks)
      /\ \A j \in Rows(chunks) : RowMove(chunks[j], t[j])
  BY <1>1, ReleasedMoves
<1>3. /\ \A j \in Rows(chunks) \ S : t[j] = chunks[j]
      /\ SameRuns(chunks, t)
  BY <1>1, ReleasedRows DEF TypeOK
<1>4. t[i].status = "reclaimed" /\ (i \in S => t[i].isTest) /\ chunks' = Granted(t, i, w)
  BY DEF GrantStep
<1> HIDE DEF t
<1>5. /\ Rows(chunks') = Rows(chunks)
      /\ \A j \in Rows(chunks) \ {i} : chunks'[j] = t[j]
      /\ chunks'[i] = Grant(t[i], w)
  BY <1>2, <1>4, GrantedRows
<1>6. t[i] \in Chunk
  BY <1>2, TableIsFunction DEF Rows
<1>7. /\ chunks'[i].status = "assigned"
      /\ chunks'[i].worker = w
      /\ chunks'[i].prev = t[i].prev
      /\ SameRun(t[i], chunks'[i])
  BY <1>5, <1>6, GrantFields, GrantRow
<1>8. RowMove(chunks[i], chunks'[i])
  <2>1. CASE i \in S
    <3>1. chunks[i].status = "assigned" /\ chunks[i].worker = w
      BY <2>1 DEF AssignedTo
    <3>2. SameRun(chunks[i], t[i])
      BY <1>3 DEF SameRuns, Rows
    <3> QED
      BY <1>4, <1>7, <2>1, <3>1, <3>2 DEF RowMove, TestGivenBack, SameRun
  <2>2. CASE i \notin S
    <3>1. t[i] = chunks[i]
      BY <1>3, <2>2
    <3> QED
      BY <1>4, <1>7, <3>1 DEF RowMove, GivenAgain
  <2> QED
    BY <2>1, <2>2
<1> QED
  BY <1>2, <1>5, <1>8 DEF RowMoves

LEMMA AddMoves ==
    ASSUME TypeOK, NEW w \in Workers, NEW S \in SUBSET AssignedTo(chunks, w),
           NEW c \in Chunk, AddStep(w, S, c)
    PROVE  RowMoves
<1> DEFINE t == Released(chunks, S)
<1>1. S \in SUBSET AssignedRows(chunks)
  BY DEF AssignedTo, AssignedRows
<1>2. /\ t \in Seq(Chunk)
      /\ Rows(t) = Rows(chunks)
      /\ \A j \in Rows(chunks) : RowMove(chunks[j], t[j])
  BY <1>1, ReleasedMoves
<1>3. chunks' = Append(t, c) /\ NewRow(c)
  BY DEF AddStep, NewRow
<1> HIDE DEF t
<1>4. /\ Rows(Append(t, c)) = Rows(t) \cup {Len(t) + 1}
      /\ \A j \in Rows(t) : Append(t, c)[j] = t[j]
      /\ Append(t, c)[Len(t) + 1] = c
  BY <1>2, AppendedRows
<1>5. /\ Rows(chunks') = Rows(chunks) \cup {Len(t) + 1}
      /\ \A j \in Rows(chunks) : chunks'[j] = t[j]
      /\ chunks'[Len(t) + 1] = c
  BY <1>2, <1>3, <1>4
<1> QED
  BY <1>2, <1>3, <1>5 DEF RowMoves

LEMMA EveryRowMoves ==
    ASSUME TypeOK, LeaseStep
    PROVE  RowMoves
<1>1. CASE AgesStep
  BY <1>1 DEF AgesStep, AgesOnly, RowMoves, RowMove, AgeOnly
<1>2. CASE ReleaseStep
  BY <1>2, ReleasedMoves DEF ReleaseStep, RowMoves
<1>3. CASE IssueStep
  BY <1>3, GrantMoves, AddMoves DEF IssueStep, IssueTo
<1>4. CASE CompleteStep
  <2>1. PICK i \in AssignedRows(chunks) :
           chunks' = [chunks EXCEPT ![i] = Complete(chunks[i])]
    BY <1>4 DEF CompleteStep
  <2>2. i \in Rows(chunks) /\ chunks[i].status = "assigned" /\ chunks[i] \in Chunk
    BY TableIsFunction DEF AssignedRows, Rows, TypeOK
  <2> QED
    BY <2>1, <2>2, CompleteMove, OneRowMoves DEF RowMoves
<1>5. CASE CreditStep
  <2>1. PICK w \in Workers, i \in Rows(chunks), primary \in Keys :
           /\ chunks[i].status \in {"assigned", "reclaimed"}
           /\ w \in {chunks[i].worker, chunks[i].prev}
           /\ chunks' = [chunks EXCEPT ![i] = Credit(chunks[i], w, primary)]
    BY <1>5 DEF CreditStep
  <2>2. chunks[i] \in Chunk
    BY TableIsFunction DEF Rows, TypeOK
  <2> QED
    BY <2>1, <2>2, CreditMove, OneRowMoves DEF RowMoves
<1>6. CASE RepeatStep
  BY <1>6, SameRow DEF RepeatStep, RowMoves
<1> QED
  BY <1>1, <1>2, <1>3, <1>4, <1>5, <1>6 DEF LeaseStep

\* A finished chunk is never touched again, by no handler and for any number of
\* workers, late finders and puzzles.
THEOREM FinishedIsFinalCorrect == Spec => FinishedIsFinal
<1>1. ASSUME RowMoves, NEW i \in Rows(chunks), chunks[i].status \in {"completed", "FOUND"}
      PROVE  i \in Rows(chunks') /\ chunks'[i] = chunks[i]
  BY <1>1 DEF RowMoves, RowMove, AgeOnly, TakenAway, GivenAgain, TestGivenBack, Completed,
              Credited
<1>2. TypeOK /\ TypeOK' /\ [Next]_vars =>
        [\A i \in Rows(chunks) :
           chunks[i].status \in {"completed", "FOUND"} =>
             /\ i \in Rows(chunks')
             /\ chunks'[i] = chunks[i]]_chunks
  BY <1>1, EveryLeaseStep, EveryRowMoves
<1> QED
  BY <1>2, TypeCorrect, PTL DEF Spec, FinishedIsFinal

\* A job is taken from its worker before another one gets it, or it ends as FOUND
\* credited to the worker it was last taken from.
THEOREM NoDirectHandoverCorrect == Spec => NoDirectHandover
<1>1. ASSUME RowMoves, NEW i \in Rows(chunks), chunks[i].status = "assigned",
             chunks'[i].worker # chunks[i].worker
      PROVE  \/ /\ chunks'[i].status = "reclaimed"
                /\ chunks'[i].prev = chunks[i].worker
             \/ /\ chunks'[i].status = "FOUND"
                /\ chunks'[i].worker = chunks[i].prev
  BY <1>1 DEF RowMoves, RowMove, AgeOnly, TakenAway, GivenAgain, TestGivenBack, Completed,
              Credited
<1>2. TypeOK /\ TypeOK' /\ [Next]_vars =>
        [\A i \in Rows(chunks) :
           (chunks[i].status = "assigned" /\ chunks'[i].worker # chunks[i].worker) =>
             \/ /\ chunks'[i].status = "reclaimed"
                /\ chunks'[i].prev = chunks[i].worker
             \/ /\ chunks'[i].status = "FOUND"
                /\ chunks'[i].worker = chunks[i].prev]_chunks
  BY <1>1, EveryLeaseStep, EveryRowMoves
<1> QED
  BY <1>2, TypeCorrect, PTL DEF Spec, NoDirectHandover

-----------------------------------------------------------------------------
(* The chunk table implements the ledger *)

EntryOfRow(c) == [phase |-> PhaseOf(c.status), holder |-> c.worker, last |-> c.prev]

Unissued == [phase |-> "unissued", holder |-> NoWorker, last |-> NoWorker]

\* A unit is in at most one normal row.
LEMMA OneRowPerUnit ==
    ASSUME NEW t \in Seq(Chunk), RunsOK(t), NEW p \in Puzzles, NEW v \in Nat,
           NEW i \in NormalRows(t, p), NEW j \in NormalRows(t, p),
           t[i].lo <= v, v < t[i].hi, t[j].lo <= v, v < t[j].hi
    PROVE  i = j
<1>1. t[i] \in Chunk /\ t[j] \in Chunk
  BY TableIsFunction DEF NormalRows, Rows
<1>2. v \in RunOf(t[i]) /\ v \in RunOf(t[j])
  BY <1>1 DEF RunOf, Chunk
<1> QED
  BY <1>2 DEF RunsOK, RunsDisjoint

\* What the ledger says of the units of a row changes as the ledger allows.
LEMMA RowMoveIsLedgerMove ==
    ASSUME NEW c \in Chunk, NEW d \in Chunk, RowOK(c), ~c.isTest, RowMove(c, d)
    PROVE  Ledger!Move(EntryOfRow(c), EntryOfRow(d))
<1>1. CASE AgeOnly(c, d)
  BY <1>1 DEF AgeOnly, EntryOfRow, Ledger!Move
<1>2. CASE TakenAway(c, d)
  BY <1>2 DEF TakenAway, EntryOfRow, PhaseOf, Ledger!Move, Ledger!Release, Ledger!Entry
<1>3. CASE GivenAgain(c, d)
  BY <1>3 DEF GivenAgain, EntryOfRow, PhaseOf, Ledger!Move, Ledger!Lease, Ledger!Entry
<1>4. CASE Completed(c, d)
  <2>1. c.worker # NoWorker
    BY <1>4 DEF Completed, RowOK
  <2> QED
    BY <1>4, <2>1 DEF Completed, EntryOfRow, PhaseOf, Ledger!Move, Ledger!Finish,
                      Ledger!Entry
<1>5. CASE Credited(c, d)
  <2>1. d.worker # NoWorker
    BY <1>5, NullsAssumption DEF Credited
  <2> QED
    BY <1>5, <2>1 DEF Credited, EntryOfRow, PhaseOf, Ledger!Move, Ledger!Finish,
                      Ledger!Entry
<1> QED
  BY <1>1, <1>2, <1>3, <1>4, <1>5 DEF RowMove, TestGivenBack

LEMMA NewRowIsLease ==
    ASSUME NEW c, NewRow(c)
    PROVE  Ledger!Move(Unissued, EntryOfRow(c))
BY DEF NewRow, Unissued, EntryOfRow, PhaseOf, Ledger!Move, Ledger!Lease, Ledger!Entry

LEMMA EntryOfOneRow ==
    ASSUME NEW i
    PROVE  EntryOf({i}) = EntryOfRow(chunks[i]) /\ EntryOf({}) = Unissued
<1>1. (CHOOSE j \in {i} : TRUE) = i
  OBVIOUS
<1> QED
  BY <1>1 DEF EntryOf, EntryOfRow, Unissued

LEMMA EntryOfOneRowNext ==
    ASSUME NEW i
    PROVE  EntryOf({i})' = EntryOfRow(chunks'[i]) /\ EntryOf({})' = Unissued
<1>1. (CHOOSE j \in {i} : TRUE) = i
  OBVIOUS
<1> QED
  BY <1>1 DEF EntryOf, EntryOfRow, Unissued

LEMMA UnitMoves ==
    ASSUME TypeOK, TypeOK', RunsOK(chunks), RunsOK(chunks'),
           LeasesOK(chunks, findings), RowMoves, NEW u \in Units
    PROVE  Ledger!Move(EntryOf(RowsOf(u)), EntryOf(RowsOf(u))')
<1>1. u[1] \in Puzzles /\ u[2] \in Nat
  BY PuzzlesAssumption DEF Units, Vchunks
<1>2. chunks \in Seq(Chunk) /\ chunks' \in Seq(Chunk)
  BY DEF TypeOK
<1>3. ASSUME NEW i \in RowsOf(u), NEW j \in RowsOf(u)
      PROVE  i = j
  BY <1>1, <1>2, OneRowPerUnit DEF RowsOf, NormalRows
<1>4. ASSUME NEW i \in RowsOf(u)', NEW j \in RowsOf(u)'
      PROVE  i = j
  BY <1>1, <1>2, OneRowPerUnit DEF RowsOf, NormalRows
<1>5. ASSUME NEW i \in Rows(chunks)
      PROVE  /\ i \in Rows(chunks')
             /\ RowMove(chunks[i], chunks'[i])
             /\ i \in RowsOf(u) <=> i \in RowsOf(u)'
  BY DEF RowMoves, RowMove, RowsOf, SameRun
<1>6. CASE RowsOf(u) # {}
  <2>1. PICK i : i \in RowsOf(u)
    BY <1>6
  <2>2. i \in Rows(chunks) /\ ~chunks[i].isTest
    BY <2>1 DEF RowsOf
  <2>3. RowsOf(u) = {i} /\ RowsOf(u)' = {i}
    BY <1>3, <1>4, <1>5, <2>1, <2>2
  <2>4. chunks[i] \in Chunk /\ chunks'[i] \in Chunk /\ RowOK(chunks[i])
    BY <1>2, <1>5, <2>2, TableIsFunction DEF Rows, LeasesOK, RowsOK
  <2>5. /\ EntryOf(RowsOf(u)) = EntryOfRow(chunks[i])
        /\ EntryOf(RowsOf(u))' = EntryOfRow(chunks'[i])
    BY <2>3, EntryOfOneRow, EntryOfOneRowNext
  <2> QED
    BY <1>5, <2>2, <2>4, <2>5, RowMoveIsLedgerMove
<1>7. CASE RowsOf(u) = {} /\ RowsOf(u)' # {}
  <2>1. PICK i : i \in RowsOf(u)'
    BY <1>7
  <2>2. i \in Rows(chunks') \ Rows(chunks)
    BY <1>5, <1>7, <2>1 DEF RowsOf
  <2>3. RowsOf(u)' = {i}
    BY <1>4, <2>1
  <2>4. NewRow(chunks'[i])
    BY <2>2 DEF RowMoves
  <2>5. EntryOf(RowsOf(u)) = Unissued /\ EntryOf(RowsOf(u))' = EntryOfRow(chunks'[i])
    BY <1>7, <2>3, EntryOfOneRow, EntryOfOneRowNext
  <2> QED
    BY <2>4, <2>5, NewRowIsLease
<1>8. CASE RowsOf(u) = {} /\ RowsOf(u)' = {}
  <2>1. EntryOf(RowsOf(u)) = Unissued /\ EntryOf(RowsOf(u))' = Unissued
    BY <1>8, EntryOfOneRow, EntryOfOneRowNext
  <2> QED
    BY <2>1 DEF Ledger!Move
<1> QED
  BY <1>6, <1>7, <1>8

\* ChunkPool implements KeyspaceLedger: every handler moves every virtual chunk only
\* along the lifecycle unissued, leased, released, finished.  It takes that a unit is
\* in one row (RunsOK), that the columns of the row agree (LeasesOK), and that rows
\* change only as RowMove allows.
THEOREM ImplementsLedgerCorrect == Spec => ImplementsLedger
<1>1. ASSUME Init
      PROVE  Ledger!Init
  <2>1. ASSUME NEW u \in Units
        PROVE  EntryOf(RowsOf(u)) = Unissued
    <3>1. RowsOf(u) = {}
      BY <1>1 DEF Init, RowsOf, Rows
    <3> QED
      BY <3>1, EntryOfOneRow
  <2> QED
    BY <2>1 DEF Ledger!Init, ledgerNow, Ledger!Entry, Unissued
<1>2. ASSUME TypeOK, TypeOK', RunsOK(chunks), RunsOK(chunks)', LeasesOK(chunks, findings),
             [Next]_vars
      PROVE  [Ledger!Next]_ledgerNow
  <2>1. RowMoves
    BY <1>2, EveryLeaseStep, EveryRowMoves
  <2>2. ASSUME NEW u \in Units
        PROVE  Ledger!Move(ledgerNow[u], ledgerNow'[u])
    <3>1. ledgerNow[u] = EntryOf(RowsOf(u)) /\ ledgerNow'[u] = EntryOf(RowsOf(u))'
      BY DEF ledgerNow
    <3> QED
      BY <1>2, <2>1, <3>1, UnitMoves
  <2> QED
    BY <2>2 DEF Ledger!Next
<1> QED
  BY <1>1, <1>2, TypeCorrect, RunsCorrect, LeasesCorrect, PTL
     DEF Spec, ImplementsLedger, Ledger!Spec

-----------------------------------------------------------------------------
(* A worker is seen whenever its job is refreshed *)

\* The holder of a job has been seen, and not before the job was last refreshed.
SeenSince(t, seen) ==
    \A i \in AssignedRows(t) :
        seen[t[i].worker] \in Ages /\ seen[t[i].worker] <= t[i].age

\* Each job is as it was, or its worker was seen just now.
LEMMA StillSeen ==
    ASSUME NEW t, NEW u \in Seq(Chunk), NEW seen, NEW now, SeenSince(t, seen),
           \A i \in AssignedRows(u) :
              \/ now[u[i].worker] = 0
              \/ /\ i \in AssignedRows(t)
                 /\ u[i].worker = t[i].worker
                 /\ u[i].age = t[i].age,
           \A v \in Workers : now[v] = seen[v] \/ now[v] = 0,
           \A i \in AssignedRows(u) : u[i].worker \in Workers
    PROVE  SeenSince(u, now)
<1> SUFFICES ASSUME NEW i \in AssignedRows(u)
             PROVE  now[u[i].worker] \in Ages /\ now[u[i].worker] <= u[i].age
  BY DEF SeenSince
<1>1. u[i].age \in Ages
  <2>1. u[i] \in Chunk
    BY TableIsFunction DEF AssignedRows, Rows
  <2> QED
    BY <2>1 DEF Chunk
<1>r. 0 \in Ages /\ \A a \in Ages : a \in Nat
  BY ScalarsAssumption DEF Ages
<1>2. CASE now[u[i].worker] = 0
  <2>1. 0 <= u[i].age
    BY <1>1, <1>r
  <2> QED
    BY <1>2, <1>r, <2>1
<1>3. CASE now[u[i].worker] # 0
  BY <1>3 DEF SeenSince
<1> QED
  BY <1>2, <1>3

\* Rows that are taken, completed or credited are no jobs any more.
LEMMA FewerSeen ==
    ASSUME NEW t, NEW u \in Seq(Chunk), NEW seen, NEW now, SeenSince(t, seen),
           \A i \in AssignedRows(u) : i \in AssignedRows(t) /\ u[i] = t[i],
           \A v \in Workers : now[v] = seen[v] \/ now[v] = 0,
           RowsOK(u)
    PROVE  SeenSince(u, now)
<1> SUFFICES ASSUME NEW i \in AssignedRows(u)
             PROVE  now[u[i].worker] \in Ages /\ now[u[i].worker] <= u[i].age
  BY DEF SeenSince
<1>1. /\ u[i] = t[i]
      /\ seen[u[i].worker] \in Ages
      /\ seen[u[i].worker] <= u[i].age
  BY DEF SeenSince
<1>2. u[i].worker \in Workers
  BY TableIsFunction DEF AssignedRows, Rows, RowsOK, RowOK, Chunk
<1>3. u[i].age \in Ages
  BY TableIsFunction DEF AssignedRows, Rows, Chunk
<1>4. 0 \in Ages /\ \A a \in Ages : a \in Nat
  BY ScalarsAssumption DEF Ages
<1>5. now[u[i].worker] = seen[u[i].worker] \/ now[u[i].worker] = 0
  BY <1>2
<1> QED
  BY <1>1, <1>3, <1>4, <1>5

\* In a table whose rows are in order, jobs have workers.
LEMMA JobsHaveWorkers ==
    ASSUME NEW t \in Seq(Chunk), RowsOK(t), NEW i \in AssignedRows(t)
    PROVE  i \in Rows(t) /\ t[i] \in Chunk /\ t[i].worker \in Workers
BY TableIsFunction DEF AssignedRows, Rows, RowsOK, RowOK, Chunk

LEMMA WorkSeen ==
    ASSUME TypeOK, TypeOK', RowsOK(chunks), RowsOK(chunks'), SeenSince(chunks, lastSeen),
           NEW w \in Workers, NEW requested \in 1 .. MaxRun, Work(w, requested)
    PROVE  SeenSince(chunks', lastSeen')
<1>1. lastSeen' = [lastSeen EXCEPT ![w] = 0] /\ lastSeen \in [Workers -> Ages \cup {NoWorker}]
  BY DEF Work, TypeOK
<1>2. lastSeen'[w] = 0 /\ \A v \in Workers : lastSeen'[v] = lastSeen[v] \/ lastSeen'[v] = 0
  BY <1>1
<1>3. chunks \in Seq(Chunk) /\ chunks' \in Seq(Chunk)
  BY DEF TypeOK
<1>4. ASSUME NEW S \in SUBSET AssignedRows(chunks)
      PROVE  /\ Released(chunks, S) \in Seq(Chunk)
             /\ Rows(Released(chunks, S)) = Rows(chunks)
             /\ \A i \in AssignedRows(Released(chunks, S)) :
                   i \in AssignedRows(chunks) /\ Released(chunks, S)[i] = chunks[i]
  <2>1. /\ Released(chunks, S) \in Seq(Chunk)
        /\ Rows(Released(chunks, S)) = Rows(chunks)
        /\ AssignedRows(Released(chunks, S)) = AssignedRows(chunks) \ S
        /\ \A i \in Rows(chunks) \ S : Released(chunks, S)[i] = chunks[i]
    BY <1>3, ReleasedRows
  <2> QED
    BY <2>1 DEF AssignedRows
<1>5. ASSUME \A i \in AssignedRows(chunks') :
                \/ lastSeen'[chunks'[i].worker] = 0
                \/ i \in AssignedRows(chunks) /\ chunks'[i] = chunks[i]
      PROVE  SeenSince(chunks', lastSeen')
  BY <1>2, <1>3, <1>5, JobsHaveWorkers, StillSeen
<1>6. CASE ReleaseStep
  BY <1>4, <1>5, <1>6 DEF ReleaseStep
<1>7. CASE IssueTo(w)
  <2>1. PICK S \in SUBSET AssignedTo(chunks, w) :
           \/ \E i \in Rows(chunks) : GrantStep(w, S, i)
           \/ \E c \in Chunk : AddStep(w, S, c)
    BY <1>7 DEF IssueTo
  <2> DEFINE t == Released(chunks, S)
  <2>2. /\ t \in Seq(Chunk)
        /\ Rows(t) = Rows(chunks)
        /\ \A i \in AssignedRows(t) : i \in AssignedRows(chunks) /\ t[i] = chunks[i]
    BY <1>4 DEF AssignedTo, AssignedRows
  <2>3. CASE \E i \in Rows(chunks) : GrantStep(w, S, i)
    <3>1. PICK i \in Rows(chunks) : chunks' = Granted(t, i, w)
      BY <2>3 DEF GrantStep
    <3> HIDE DEF t
    <3>2. /\ Rows(chunks') = Rows(t)
          /\ \A j \in Rows(t) \ {i} : chunks'[j] = t[j]
          /\ chunks'[i] = Grant(t[i], w)
      BY <2>2, <3>1, GrantedRows
    <3>3. t[i] \in Chunk
      BY <2>2, TableIsFunction DEF Rows
    <3>4. chunks'[i].worker = w
      BY <3>2, <3>3, GrantFields
    <3>5. \A j \in AssignedRows(chunks') : j = i \/ (j \in AssignedRows(t) /\ chunks'[j] = t[j])
      BY <3>2 DEF AssignedRows
    <3> QED
      BY <1>2, <1>5, <2>2, <3>4, <3>5
  <2>4. CASE \E c \in Chunk : AddStep(w, S, c)
    <3>1. PICK c \in Chunk : chunks' = Append(t, c) /\ c.worker = w
      BY <2>4 DEF AddStep
    <3> HIDE DEF t
    <3>a. t \in Seq(Chunk)
      BY <2>2
    <3>b. /\ Rows(Append(t, c)) = Rows(t) \cup {Len(t) + 1}
          /\ \A j \in Rows(t) : Append(t, c)[j] = t[j]
          /\ Append(t, c)[Len(t) + 1] = c
      BY <3>a, AppendedRows
    <3>2. /\ Rows(chunks') = Rows(t) \cup {Len(t) + 1}
          /\ \A j \in Rows(t) : chunks'[j] = t[j]
          /\ chunks'[Len(t) + 1] = c
      BY <3>1, <3>b
    <3>3. \A j \in AssignedRows(chunks') :
             j = Len(t) + 1 \/ (j \in AssignedRows(t) /\ chunks'[j] = t[j])
      BY <3>2 DEF AssignedRows
    <3> QED
      BY <1>2, <1>5, <2>2, <3>1, <3>2, <3>3
  <2> QED
    BY <2>1, <2>3, <2>4
<1> QED
  BY <1>6, <1>7, WorkLeases

LEMMA HeartbeatSeen ==
    ASSUME TypeOK, TypeOK', RowsOK(chunks), RowsOK(chunks'), SeenSince(chunks, lastSeen),
           NEW w \in Workers, NEW i, Heartbeat(w, i)
    PROVE  SeenSince(chunks', lastSeen')
<1>1. lastSeen' = [lastSeen EXCEPT ![w] = 0] /\ lastSeen \in [Workers -> Ages \cup {NoWorker}]
  BY DEF Heartbeat, TypeOK
<1>2. lastSeen'[w] = 0 /\ \A v \in Workers : lastSeen'[v] = lastSeen[v] \/ lastSeen'[v] = 0
  BY <1>1
<1>3. chunks \in Seq(Chunk) /\ chunks' \in Seq(Chunk)
  BY DEF TypeOK
<1>4. \A j \in AssignedRows(chunks') :
        \/ lastSeen'[chunks'[j].worker] = 0
        \/ j \in AssignedRows(chunks) /\ chunks'[j] = chunks[j]
  <2>1. CASE i \in AssignedTo(chunks, w)
    <3>1. i \in Rows(chunks) /\ chunks[i] \in Chunk /\ chunks[i].worker = w
      BY <2>1, TableIsFunction DEF AssignedTo, Rows, TypeOK
    <3>2. chunks' = [chunks EXCEPT ![i] = Refreshed(chunks[i])]
      BY <2>1 DEF Heartbeat
    <3>3. chunks'[i].worker = w
      BY <3>1, <3>2 DEF Refreshed, Chunk, Rows
    <3>4. Rows(chunks') = Rows(chunks) /\ \A j \in Rows(chunks) \ {i} : chunks'[j] = chunks[j]
      BY <3>2 DEF Rows
    <3> QED
      BY <1>2, <3>3, <3>4 DEF AssignedRows
  <2>2. CASE i \notin AssignedTo(chunks, w)
    BY <2>2 DEF Heartbeat
  <2> QED
    BY <2>1, <2>2
<1> QED
  BY <1>2, <1>3, <1>4, JobsHaveWorkers, StillSeen

LEMMA TickSeen ==
    ASSUME TypeOK, RowsOK(chunks), SeenSince(chunks, lastSeen), Tick
    PROVE  SeenSince(chunks', lastSeen')
<1> SUFFICES ASSUME NEW i \in AssignedRows(chunks')
             PROVE  /\ lastSeen'[chunks'[i].worker] \in Ages
                    /\ lastSeen'[chunks'[i].worker] <= chunks'[i].age
  BY DEF SeenSince
<1>1. i \in AssignedRows(chunks) /\ chunks'[i] = Aged(chunks[i])
  BY DEF Tick, AssignedRows, Rows
<1>2. /\ i \in Rows(chunks) /\ chunks[i] \in Chunk /\ chunks[i].worker \in Workers
  BY <1>1, JobsHaveWorkers DEF TypeOK
<1>3. chunks'[i].worker = chunks[i].worker /\ chunks'[i].age = Older(chunks[i].age)
  BY <1>1, <1>2 DEF Aged, Chunk
<1> DEFINE seen == lastSeen[chunks[i].worker]
<1>4. seen \in Ages /\ seen <= chunks[i].age /\ chunks[i].age \in Ages
  BY <1>1, <1>2 DEF SeenSince, Chunk
<1>5. seen # NoWorker
  BY <1>4, ScalarsAssumption, NullsAssumption DEF Ages
<1>6. lastSeen'[chunks[i].worker] = Older(seen)
  BY <1>2, <1>5 DEF Tick
<1> HIDE DEF seen
<1>7. Older(seen) <= Older(chunks[i].age) /\ Older(seen) \in Ages
  BY <1>4, ScalarsAssumption DEF Older, Smaller, Ages
<1> QED
  BY <1>3, <1>6, <1>7

\* The other handlers only take jobs away.
LEMMA OtherSeen ==
    ASSUME TypeOK, TypeOK', RowsOK(chunks'), SeenSince(chunks, lastSeen),
           ReleaseStep \/ CompleteStep \/ CreditStep \/ UNCHANGED chunks,
           UNCHANGED lastSeen
    PROVE  SeenSince(chunks', lastSeen')
<1>1. chunks \in Seq(Chunk) /\ chunks' \in Seq(Chunk)
  BY DEF TypeOK
<1>2. \A j \in AssignedRows(chunks') : j \in AssignedRows(chunks) /\ chunks'[j] = chunks[j]
  <2>1. CASE ReleaseStep
    <3>1. PICK S \in SUBSET AssignedRows(chunks) : chunks' = Released(chunks, S)
      BY <2>1 DEF ReleaseStep
    <3>2. /\ Rows(chunks') = Rows(chunks)
          /\ AssignedRows(chunks') = AssignedRows(chunks) \ S
          /\ \A i \in Rows(chunks) \ S : chunks'[i] = chunks[i]
      BY <1>1, <3>1, ReleasedRows
    <3> QED
      BY <3>2 DEF AssignedRows
  <2>2. CASE CompleteStep
    <3>1. PICK i \in AssignedRows(chunks) : chunks' = [chunks EXCEPT ![i] = Complete(chunks[i])]
      BY <2>2 DEF CompleteStep
    <3>2. i \in Rows(chunks) /\ chunks[i] \in Chunk
      BY <1>1, TableIsFunction DEF AssignedRows, Rows
    <3>3. chunks'[i].status = "completed"
      BY <3>1, <3>2, CompleteFields DEF Rows
    <3> QED
      BY <3>1, <3>3 DEF AssignedRows, Rows
  <2>3. CASE CreditStep
    <3>1. PICK w \in Workers, i \in Rows(chunks), k \in Keys :
             chunks' = [chunks EXCEPT ![i] = Credit(chunks[i], w, k)]
      BY <2>3 DEF CreditStep
    <3>2. chunks[i] \in Chunk
      BY <1>1, TableIsFunction DEF Rows
    <3>3. chunks'[i].status = "FOUND"
      BY <3>1, <3>2, CreditFields DEF Rows
    <3> QED
      BY <3>1, <3>3 DEF AssignedRows, Rows
  <2> QED
    BY <2>1, <2>2, <2>3
<1> QED
  BY <1>1, <1>2, FewerSeen

LEMMA SeenStep ==
    ASSUME TypeOK, TypeOK', RowsOK(chunks), RowsOK(chunks'),
           SeenSince(chunks, lastSeen), [Next]_vars
    PROVE  SeenSince(chunks', lastSeen')
<1>1. ASSUME NEW w \in Workers, WorkerNext(w)
      PROVE  SeenSince(chunks', lastSeen')
  <2>1. CASE \E requested \in 1 .. MaxRun : Work(w, requested)
    BY <2>1, WorkSeen
  <2>2. CASE \E i \in Rows(chunks) \cup {0} : Heartbeat(w, i)
    BY <2>2, HeartbeatSeen
  <2>3. CASE \E i \in Rows(chunks) : SubmitDone(w, i)
    <3>1. PICK i \in Rows(chunks) : SubmitDone(w, i)
      BY <2>3
    <3>2. CASE RefuseDone(w, i)
      BY <3>2, OtherSeen DEF RefuseDone, vars
    <3>3. CASE ReturnIncomplete(w, i)
      BY <3>3, OtherSeen DEF ReturnIncomplete, ReleaseStep, AssignedTo, AssignedRows
    <3>4. CASE AcceptDone(w, i)
      BY <3>4, OtherSeen DEF AcceptDone, CompleteStep, AssignedTo, AssignedRows
    <3> QED
      BY <3>1, <3>2, <3>3, <3>4 DEF SubmitDone
  <2>4. CASE \E i \in Rows(chunks), keys \in SUBSET Keys : \E primary \in keys :
               SubmitFound(w, i, primary, keys)
    <3>1. PICK i \in Rows(chunks), keys \in SUBSET Keys, primary \in Keys :
             primary \in keys /\ SubmitFound(w, i, primary, keys)
      BY <2>4
    <3>2. UNCHANGED lastSeen
      BY <3>1 DEF SubmitFound, AcceptFound, RefuseFound, vars
    <3>3. UNCHANGED chunks \/ CreditStep
      <4>1. UNCHANGED <<chunks, findings>> \/ CreditStep \/ RepeatStep
        BY <3>1, FoundLeases
      <4> QED
        BY <4>1 DEF RepeatStep
    <3> QED
      BY <3>2, <3>3, OtherSeen
  <2> QED
    BY <1>1, <2>1, <2>2, <2>3, <2>4 DEF WorkerNext
<1>2. CASE ReclaimTimedOut
  BY <1>2, ReclaimLeases, OtherSeen DEF ReclaimTimedOut
<1>3. CASE Tick
  BY <1>3, TickSeen
<1>4. CASE AdminNext \/ UNCHANGED vars
  BY <1>4, OtherSeen DEF AdminNext, ActivatePuzzle, SetTestChunk, ImportRanges, vars
<1> QED
  BY <1>1, <1>2, <1>3, <1>4 DEF Next

\* A job that is not due for reclaim is shown as the current chunk of its worker, who
\* is still among the visible workers: nothing refreshes a job without refreshing the
\* worker (SeenSince), and the worker has no other job of the puzzle (OneJob).
THEOREM LiveJobsShownCorrect == Spec => []LiveJobsShown
<1>1. Init => SeenSince(chunks, lastSeen)
  BY DEF Init, SeenSince, AssignedRows, Rows
<1>2. ASSUME TypeOK, TypeOK', LeasesOK(chunks, findings), LeasesOK(chunks, findings)',
             SeenSince(chunks, lastSeen), [Next]_vars
      PROVE  SeenSince(chunks, lastSeen)'
  BY <1>2, SeenStep DEF LeasesOK
<1>3. ASSUME TypeOK, LeasesOK(chunks, findings), SeenSince(chunks, lastSeen)
      PROVE  LiveJobsShown
  <2> SUFFICES ASSUME NEW p \in Puzzles, NEW i \in NormalRows(chunks, p),
                      chunks[i].status = "assigned", chunks[i].age <= TimeoutMinutes
               PROVE  /\ chunks[i].worker \in VisibleWorkers(p)
                      /\ CurrentChunks(p, chunks[i].worker) = {i}
    BY DEF LiveJobsShown
  <2> DEFINE w == chunks[i].worker
  <2>1. i \in AssignedRows(chunks) /\ i \in Rows(chunks) /\ chunks[i].puzzle = p
    BY DEF NormalRows, AssignedRows
  <2>2. chunks[i] \in Chunk /\ w \in Workers
    BY <1>3, <2>1, JobsHaveWorkers DEF TypeOK, LeasesOK
  <2>3. lastSeen[w] \in Ages /\ lastSeen[w] <= chunks[i].age /\ chunks[i].age \in Ages
    BY <1>3, <2>1, <2>2 DEF SeenSince, Chunk
  <2>4. lastSeen[w] # NoWorker /\ lastSeen[w] <= TimeoutMinutes
    BY <2>3, ScalarsAssumption, NullsAssumption DEF Ages
  <2>5. w \in VisibleWorkers(p)
    BY <2>1, <2>2, <2>4 DEF VisibleWorkers
  <2>6. i \in CurrentChunks(p, w)
    BY <2>1 DEF CurrentChunks, AssignedTo, NormalRows
  <2>7. ASSUME NEW j \in CurrentChunks(p, w)
        PROVE  j = i
    <3>1. j \in AssignedRows(chunks) /\ chunks[j].worker = w /\ chunks[j].puzzle = p
      BY DEF CurrentChunks, AssignedTo, NormalRows, AssignedRows
    <3> QED
      BY <1>3, <2>1, <3>1 DEF LeasesOK, OneJob, SameJob
  <2> QED
    BY <2>5, <2>6, <2>7
<1> QED
  BY <1>1, <1>2, <1>3, TypeCorrect, LeasesCorrect, PTL DEF Spec

-----------------------------------------------------------------------------
(* The sums of the dashboard.  SumOver is a recursive function; that it adds up the   *)
(* sizes of separate sets is proved by looking at the smallest set for which it would *)
(* not.                                                                               *)

SumStep(f, sum, T) == IF T = {} THEN 0 ELSE f[Pick(T)] + sum[T \ {Pick(T)}]

Sums(sum, f, S, n) ==
    sum = [T \in {U \in SUBSET S : Cardinality(U) <= n} |-> SumStep(f, sum, T)]

LEMMA WithoutPick ==
    ASSUME NEW S, IsFiniteSet(S), NEW T \in SUBSET S, T # {}
    PROVE  /\ Pick(T) \in T
           /\ Cardinality(T) \in Nat
           /\ Cardinality(T \ {Pick(T)}) = Cardinality(T) - 1
<1>1. Pick(T) \in T
  BY DEF Pick
<1>2. IsFiniteSet(T)
  BY FS_Subset
<1> QED
  BY <1>1, <1>2, FS_RemoveElement, FS_CardinalityType

LEMMA SumsExists ==
    ASSUME NEW S, IsFiniteSet(S), NEW f, NEW n \in Nat
    PROVE  \E sum : Sums(sum, f, S, n)
<1> DEFINE Wrong == {k \in Nat : ~ \E sum : Sums(sum, f, S, k)}
           Small(k) == {U \in SUBSET S : Cardinality(U) <= k}
<1>1. SUFFICES ASSUME Wrong # {} PROVE FALSE
  OBVIOUS
<1>2. PICK k \in Wrong : \A j \in Wrong : k <= j
  BY <1>1, LeastNumber
<1>3. CASE k = 0
  <2> DEFINE sum == [T \in Small(0) |-> 0]
  <2>1. \A T \in Small(0) : T = {}
    <3> TAKE T \in Small(0)
    <3>1. IsFiniteSet(T)
      BY FS_Subset
    <3>2. Cardinality(T) \in Nat /\ Cardinality(T) <= 0
      BY <3>1, FS_CardinalityType
    <3> QED
      BY <3>1, <3>2, FS_EmptySet
  <2>2. \A T \in Small(0) : SumStep(f, sum, T) = 0
    BY <2>1 DEF SumStep
  <2>3. sum = [T \in Small(0) |-> SumStep(f, sum, T)]
    <3> HIDE DEF Small
    <3> QED
      BY <2>2
  <2>4. Sums(sum, f, S, 0)
    BY <2>3, Zenon DEF Sums
  <2> QED
    BY <1>2, <1>3, <2>4
<1>4. CASE k > 0
  <2>1. PICK sum : Sums(sum, f, S, k - 1)
    BY <1>2, <1>4
  <2>2. sum = [T \in Small(k - 1) |-> SumStep(f, sum, T)]
    BY <2>1, Zenon DEF Sums
  <2> DEFINE more == [T \in Small(k) |-> IF T \in Small(k - 1) THEN sum[T] ELSE SumStep(f, sum, T)]
  <2>3. ASSUME NEW T \in Small(k) PROVE more[T] = SumStep(f, more, T)
    <3>1. more[T] = SumStep(f, sum, T)
      <4> HIDE DEF Small
      <4> QED
        BY <2>2
    <3>2. CASE T = {}
      BY <3>1, <3>2 DEF SumStep
    <3>3. CASE T # {}
      <4> DEFINE U == T \ {Pick(T)}
      <4>1. U \in SUBSET S /\ Cardinality(U) = Cardinality(T) - 1 /\ Cardinality(T) \in Nat
        BY <3>3, WithoutPick
      <4>2. U \in Small(k - 1) /\ U \in Small(k)
        BY <1>2, <4>1
      <4>3. more[U] = sum[U]
        <5> HIDE DEF Small, U
        <5> QED
          BY <4>2
      <4> HIDE DEF more
      <4> QED
        BY <3>1, <3>3, <4>3 DEF SumStep
    <3> QED
      BY <3>2, <3>3
  <2>4. more = [T \in Small(k) |-> SumStep(f, more, T)]
    <3>1. more = [T \in Small(k) |-> more[T]]
      OBVIOUS
    <3> HIDE DEF more, Small
    <3> QED
      BY <2>3, <3>1
  <2>5. Sums(more, f, S, k)
    <3> HIDE DEF more
    <3> QED
      BY <2>4, Zenon DEF Sums
  <2> QED
    BY <1>2, <2>5
<1> QED
  BY <1>2, <1>3, <1>4

\* The function SumOver is defined by.
Summer(f, S) == CHOOSE sum : sum = [T \in SUBSET S |-> SumStep(f, sum, T)]

LEMMA SumUnfolds ==
    ASSUME NEW S, IsFiniteSet(S), NEW f
    PROVE  /\ SumOver(f, S) = Summer(f, S)[S]
           /\ \A T \in SUBSET S : Summer(f, S)[T] = SumStep(f, Summer(f, S), T)
<1>1. Cardinality(S) \in Nat
  BY FS_CardinalityType
<1>2. PICK sum : Sums(sum, f, S, Cardinality(S))
  BY <1>1, SumsExists
<1>3. {U \in SUBSET S : Cardinality(U) <= Cardinality(S)} = SUBSET S
  BY FS_Subset
<1>4. sum = [T \in SUBSET S |-> SumStep(f, sum, T)]
  BY <1>2, <1>3 DEF Sums
<1>5. Summer(f, S) = [T \in SUBSET S |-> SumStep(f, Summer(f, S), T)]
  BY <1>4, Zenon DEF Summer
<1>6. SumOver(f, S) = Summer(f, S)[S]
  BY Zenon DEF SumOver, Summer, SumStep
<1> QED
  BY <1>5, <1>6

\* Adding up the sizes of sets that share nothing counts their union.
THEOREM SumCountsUnion ==
    ASSUME NEW S, IsFiniteSet(S), NEW f, NEW F,
           \A i \in S : IsFiniteSet(F[i]) /\ f[i] = Cardinality(F[i]),
           \A i, j \in S : i # j => F[i] \cap F[j] = {}
    PROVE  /\ IsFiniteSet(UNION {F[i] : i \in S})
           /\ SumOver(f, S) = Cardinality(UNION {F[i] : i \in S})
<1> DEFINE sum == Summer(f, S)
           Union(T) == UNION {F[i] : i \in T}
           Right(T) == IsFiniteSet(Union(T)) /\ sum[T] = Cardinality(Union(T))
           Wrong == {n \in Nat : \E T \in SUBSET S : Cardinality(T) = n /\ ~ Right(T)}
<1>1. /\ SumOver(f, S) = sum[S]
      /\ \A T \in SUBSET S : sum[T] = SumStep(f, sum, T)
  BY SumUnfolds
<1> HIDE DEF sum
<1>2. Right({})
  <2>1. sum[{}] = 0
    BY <1>1 DEF SumStep
  <2>2. Union({}) = {}
    OBVIOUS
  <2> HIDE DEF Union
  <2> QED
    BY <2>1, <2>2, FS_EmptySet
<1>3. ASSUME NEW T \in SUBSET S, T # {}, Right(T \ {Pick(T)})
      PROVE  Right(T)
  <2> DEFINE x == Pick(T)
             U == T \ {x}
  <2>1. x \in T /\ x \in S
    BY <1>3, WithoutPick
  <2>2. sum[T] = f[x] + sum[U]
    BY <1>1, <1>3 DEF SumStep
  <2>3. Right(U)
    BY <1>3
  <2> HIDE DEF x
  <2>4. Union(T) = Union(U) \cup F[x]
    <3>1. T = U \cup {x}
      BY <2>1
    <3> QED
      BY <3>1
  <2>5. Union(U) \cap F[x] = {}
    BY <2>1
  <2>6. IsFiniteSet(F[x]) /\ f[x] = Cardinality(F[x])
    BY <2>1
  <2>7. IsFiniteSet(Union(U)) /\ sum[U] = Cardinality(Union(U))
    BY <2>3
  <2> HIDE DEF Union, U
  <2>8. /\ IsFiniteSet(Union(T))
        /\ Cardinality(Union(T)) =
               Cardinality(Union(U)) + Cardinality(F[x]) - Cardinality(Union(U) \cap F[x])
    BY <2>4, <2>6, <2>7, FS_Union
  <2>9. Cardinality(Union(U) \cap F[x]) = 0
    BY <2>5, FS_EmptySet
  <2>10. Cardinality(Union(U)) \in Nat /\ Cardinality(F[x]) \in Nat
    BY <2>6, <2>7, FS_CardinalityType
  <2> QED
    BY <2>2, <2>6, <2>7, <2>8, <2>9, <2>10
<1>4. Wrong = {}
  <2>1. SUFFICES ASSUME Wrong # {} PROVE FALSE
    OBVIOUS
  <2>2. PICK n \in Wrong : \A j \in Wrong : n <= j
    <3>1. Wrong \in SUBSET Nat
      OBVIOUS
    <3> HIDE DEF Wrong
    <3> QED
      BY <2>1, <3>1, LeastNumber
  <2>3. PICK T \in SUBSET S : Cardinality(T) = n /\ ~ Right(T)
    OBVIOUS
  <2> HIDE DEF Right
  <2>4. T # {}
    BY <1>2, <2>3
  <2> DEFINE U == T \ {Pick(T)}
  <2>5. U \in SUBSET S /\ Cardinality(U) = n - 1 /\ n \in Nat /\ n - 1 \in Nat
    <3>1. /\ Cardinality(T) \in Nat
          /\ Cardinality(T \ {Pick(T)}) = Cardinality(T) - 1
      BY <2>4, WithoutPick
    <3>2. IsFiniteSet(T \ {Pick(T)})
      BY FS_Subset
    <3>3. Cardinality(T \ {Pick(T)}) \in Nat
      BY <3>2, FS_CardinalityType
    <3> QED
      BY <2>3, <3>1, <3>3
  <2>6. Right(U)
    <3> HIDE DEF U
    <3>1. ~ (n <= n - 1)
      BY <2>5
    <3>2. n - 1 \notin Wrong
      BY <2>2, <3>1
    <3> QED
      BY <2>5, <3>2
  <2> QED
    BY <1>3, <2>3, <2>4, <2>6
<1>5. Right(S)
  <2>1. Cardinality(S) \in Nat /\ S \in SUBSET S
    BY FS_CardinalityType
  <2> HIDE DEF Right
  <2> QED
    BY <1>4, <2>1
<1>6. IsFiniteSet(Union(S)) /\ sum[S] = Cardinality(Union(S))
  BY <1>5
<1> QED
  BY <1>1, <1>6

LEMMA RunSize ==
    ASSUME NEW c \in Chunk, c.lo < c.hi
    PROVE  IsFiniteSet(RunOf(c)) /\ Cardinality(RunOf(c)) = c.hi - c.lo
<1>1. c.lo \in Int /\ c.hi \in Int /\ c.hi - 1 \in Int
  BY DEF Chunk
<1>2. /\ IsFiniteSet(c.lo .. (c.hi - 1))
      /\ Cardinality(c.lo .. (c.hi - 1)) =
            IF c.lo > c.hi - 1 THEN 0 ELSE (c.hi - 1) - c.lo + 1
  BY <1>1, FS_Interval
<1>3. ~ (c.lo > c.hi - 1) /\ (c.hi - 1) - c.lo + 1 = c.hi - c.lo
  BY <1>1
<1>4. RunOf(c) = c.lo .. (c.hi - 1)
  BY DEF RunOf
<1> QED
  BY <1>2, <1>3, <1>4

LEMMA RowsAreFinite ==
    ASSUME TypeOK, NEW p
    PROVE  IsFiniteSet(NormalRows(chunks, p))
<1>1. Rows(chunks) = 1 .. Len(chunks) /\ Len(chunks) \in Nat
  BY DEF TypeOK, Rows
<1>2. IsFiniteSet(Rows(chunks))
  BY <1>1, FS_Interval
<1>3. NormalRows(chunks, p) \subseteq Rows(chunks)
  BY DEF NormalRows
<1> QED
  BY <1>2, <1>3, FS_Subset

\* The sum over the rows is the number of virtual chunks they cover.
LEMMA KeyspanCounts ==
    ASSUME TypeOK, NoDoubleIssue, JobsInsideKeyspace,
           NEW p \in Puzzles, NEW S \in SUBSET NormalRows(chunks, p)
    PROVE  /\ IsFiniteSet(UNION {RunOf(chunks[i]) : i \in S})
           /\ Keyspan(S) = Cardinality(UNION {RunOf(chunks[i]) : i \in S})
<1> DEFINE f == [i \in S |-> chunks[i].hi - chunks[i].lo]
           F == [i \in S |-> RunOf(chunks[i])]
<1>1. IsFiniteSet(S)
  BY RowsAreFinite, FS_Subset
<1>2. \A i \in S : IsFiniteSet(F[i]) /\ f[i] = Cardinality(F[i])
  <2> TAKE i \in S
  <2>1. chunks[i] \in Chunk
    BY TableIsFunction DEF TypeOK, NormalRows, Rows
  <2>2. chunks[i].lo < chunks[i].hi
    BY DEF JobsInsideKeyspace
  <2> QED
    BY <2>1, <2>2, RunSize
<1>3. \A i, j \in S : i # j => F[i] \cap F[j] = {}
  BY DEF NoDoubleIssue
<1>4. {F[i] : i \in S} = {RunOf(chunks[i]) : i \in S}
  OBVIOUS
<1> HIDE DEF f, F
<1>5. /\ IsFiniteSet(UNION {F[i] : i \in S})
      /\ SumOver(f, S) = Cardinality(UNION {F[i] : i \in S})
  BY <1>1, <1>2, <1>3, SumCountsUnion
<1>6. Keyspan(S) = SumOver(f, S)
  BY DEF Keyspan, f
<1> QED
  BY <1>4, <1>5, <1>6

\* Finished rows have a worker, so every completed chunk is scored.
LEMMA ScoredAreCompleted ==
    ASSUME LeasesOK(chunks, findings), NEW p
    PROVE  ScoredRows(p) = CompletedRows(p)
BY DEF ScoredRows, CompletedRows, IsDone, NormalRows, LeasesOK, RowsOK, RowOK

LEMMA ScoresCount ==
    ASSUME TypeOK, NEW p
    PROVE  SumOver([w \in Scorers(p) |-> Cardinality(ScoreRows(p, w))], Scorers(p))
             = Cardinality(ScoredRows(p))
<1> DEFINE f == [w \in Scorers(p) |-> Cardinality(ScoreRows(p, w))]
           F == [w \in Scorers(p) |-> ScoreRows(p, w)]
           name == [i \in ScoredRows(p) |-> chunks[i].worker]
<1>1. IsFiniteSet(ScoredRows(p))
  <2>1. ScoredRows(p) \subseteq NormalRows(chunks, p)
    BY DEF ScoredRows
  <2> QED
    BY <2>1, RowsAreFinite, FS_Subset
<1>2. IsFiniteSet(Scorers(p))
  <2>1. name \in Surjection(ScoredRows(p), Scorers(p))
    BY DEF Surjection, Scorers
  <2> QED
    BY <1>1, <2>1, FS_Surjection
<1>3. \A w \in Scorers(p) : IsFiniteSet(F[w]) /\ f[w] = Cardinality(F[w])
  <2> TAKE w \in Scorers(p)
  <2>1. ScoreRows(p, w) \subseteq ScoredRows(p)
    BY DEF ScoreRows
  <2>2. IsFiniteSet(ScoreRows(p, w))
    BY <1>1, <2>1, FS_Subset
  <2> QED
    BY <2>2
<1>4. \A v, w \in Scorers(p) : v # w => F[v] \cap F[w] = {}
  BY DEF ScoreRows
<1>5. UNION {F[w] : w \in Scorers(p)} = ScoredRows(p)
  <2>1. \A w \in Scorers(p) : F[w] \subseteq ScoredRows(p)
    BY DEF ScoreRows
  <2>2. \A i \in ScoredRows(p) : chunks[i].worker \in Scorers(p) /\ i \in F[chunks[i].worker]
    BY DEF ScoreRows, Scorers
  <2> HIDE DEF F
  <2> QED
    BY <2>1, <2>2
<1> DEFINE names == Scorers(p)
<1> HIDE DEF F, f, names
<1>6. /\ IsFiniteSet(UNION {F[w] : w \in names})
      /\ SumOver(f, names) = Cardinality(UNION {F[w] : w \in names})
  <2>1. IsFiniteSet(names)
    BY <1>2 DEF names
  <2>2. \A w \in names : IsFiniteSet(F[w]) /\ f[w] = Cardinality(F[w])
    BY <1>3 DEF names
  <2>3. \A v, w \in names : v # w => F[v] \cap F[w] = {}
    BY <1>4 DEF names
  <2> QED
    BY <2>1, <2>2, <2>3, SumCountsUnion
<1> QED
  BY <1>5, <1>6 DEF f, names

\* The dashboard's separately counted numbers agree, after any history of reclaims,
\* late findings and imports.
THEOREM StatsAddUpCorrect == Spec => []StatsAddUp
<1>1. ASSUME TypeOK, NoDoubleIssue, JobsInsideKeyspace, LeasesOK(chunks, findings)
      PROVE  StatsAddUp
  <2> SUFFICES ASSUME NEW p \in Puzzles \ LegacyPuzzles
               PROVE  /\ SumOver([w \in Scorers(p) |-> Cardinality(ScoreRows(p, w))], Scorers(p))
                            = Cardinality(CompletedRows(p))
                      /\ TotalKeysCompleted(p)
                            = Cardinality(UNION {RunOf(chunks[i]) : i \in ScoredRows(p)})
                      /\ TotalKeysCompleted(p) = VcCompleted(p)
                      /\ VcCompleted(p) <= VcStarted(p)
                      /\ VcStarted(p) <= VcTotal(p)
                      /\ {f[1] : f \in Finders(p)} \subseteq CompletedRows(p)
    BY DEF StatsAddUp
  <2> DEFINE all == NormalRows(chunks, p)
             done == CompletedRows(p)
             Runs(S) == UNION {RunOf(chunks[i]) : i \in S}
  <2>1. ScoredRows(p) = done
    BY <1>1, ScoredAreCompleted
  <2>2. done \subseteq all /\ p \in Puzzles
    BY DEF CompletedRows
  <2>3. /\ IsFiniteSet(Runs(done)) /\ Keyspan(done) = Cardinality(Runs(done))
        /\ IsFiniteSet(Runs(all)) /\ Keyspan(all) = Cardinality(Runs(all))
    BY <1>1, <2>2, KeyspanCounts
  <2>4. SumOver([w \in Scorers(p) |-> Cardinality(ScoreRows(p, w))], Scorers(p))
          = Cardinality(done)
    BY <1>1, <2>1, ScoresCount
  <2>5. TotalKeysCompleted(p) = Keyspan(done) /\ VcCompleted(p) = Keyspan(done)
    BY <2>1 DEF TotalKeysCompleted, VcCompleted
  <2>6. VcStarted(p) = Keyspan(all)
    BY DEF VcStarted
  <2>7. Runs(done) \subseteq Runs(all)
    BY <2>2
  <2>8. Runs(all) \subseteq 0 .. (VchunkCount[p] - 1)
    BY <1>1, <2>2 DEF JobsInsideKeyspace, Vchunks
  <2>9. /\ IsFiniteSet(0 .. (VchunkCount[p] - 1))
        /\ Cardinality(0 .. (VchunkCount[p] - 1)) = VchunkCount[p]
        /\ VchunkCount[p] \in Nat
    <3>1. VchunkCount[p] \in Nat \ {0}
      BY <2>2, PuzzlesAssumption
    <3>2. 0 \in Int /\ VchunkCount[p] - 1 \in Int /\ ~ (0 > VchunkCount[p] - 1)
          /\ (VchunkCount[p] - 1) - 0 + 1 = VchunkCount[p]
      BY <3>1
    <3>3. /\ IsFiniteSet(0 .. (VchunkCount[p] - 1))
          /\ Cardinality(0 .. (VchunkCount[p] - 1)) =
                IF 0 > VchunkCount[p] - 1 THEN 0 ELSE (VchunkCount[p] - 1) - 0 + 1
      BY <3>2, FS_Interval
    <3> QED
      BY <3>1, <3>2, <3>3
  <2>10. \A f \in Finders(p) : f[1] \in done
    BY <1>1 DEF Finders, CompletedRows, IsDone, LeasesOK, FindingsOK
  <2> HIDE DEF Runs, all, done
  <2>11. Cardinality(Runs(done)) <= Cardinality(Runs(all))
    BY <2>3, <2>7, FS_Subset
  <2>12. Cardinality(Runs(all)) <= VchunkCount[p]
    BY <2>8, <2>9, FS_Subset
  <2>13. TotalKeysCompleted(p) = Cardinality(UNION {RunOf(chunks[i]) : i \in ScoredRows(p)})
    BY <2>1, <2>3, <2>5 DEF Runs
  <2>14. \A f \in Finders(p) : f[1] \in CompletedRows(p)
    BY <2>10 DEF done
  <2>15. VcCompleted(p) <= VcStarted(p) /\ VcStarted(p) <= VcTotal(p)
    BY <2>3, <2>5, <2>6, <2>11, <2>12 DEF VcTotal
  <2> QED
    BY <2>4, <2>5, <2>13, <2>14, <2>15 DEF done
<1> QED
  BY <1>1, TypeCorrect, NoDoubleIssueCorrect, JobsInsideKeyspaceCorrect, LeasesCorrect, PTL

=============================================================================

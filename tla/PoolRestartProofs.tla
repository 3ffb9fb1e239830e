------------------------- MODULE PoolRestartProofs -------------------------
(***************************************************************************)
(* Proofs about PoolRestart: what crashes and restarts leave alone.  The   *)
(* argument: a crash leaves the table some handler had committed so far    *)
(* (CommittedTable), and the migration that follows changes only which     *)
(* rows count as tests.  So types, sectors and leases stay in order; what  *)
(* an is_test flag decides, like OneTestChunkOut, does not.                *)
(***************************************************************************)
EXTENDS PoolRestart, LeaseProofs

-----------------------------------------------------------------------------
(* The migration *)

LEMMA MigratedRows ==
    ASSUME NEW t \in Seq(Chunk)
    PROVE  LET u == Migrated(t) IN
           /\ u \in Seq(Chunk)
           /\ Rows(u) = Rows(t)
           /\ \A i \in Rows(t) : /\ u[i].puzzle = t[i].puzzle
                                 /\ u[i].lo = t[i].lo
                                 /\ u[i].hi = t[i].hi
                                 /\ u[i].status = t[i].status
                                 /\ u[i].worker = t[i].worker
                                 /\ u[i].prev = t[i].prev
                                 /\ u[i].key = t[i].key
                                 /\ t[i].isTest => u[i].isTest
<1> DEFINE u == Migrated(t)
<1>1. t \in [1 .. Len(t) -> Chunk] /\ DOMAIN t = 1 .. Len(t) /\ Len(t) \in Nat
  BY TableIsFunction
<1>2. ASSUME NEW i \in Rows(t)
      PROVE  /\ u[i] \in Chunk
             /\ u[i].puzzle = t[i].puzzle
             /\ u[i].lo = t[i].lo
             /\ u[i].hi = t[i].hi
             /\ u[i].status = t[i].status
             /\ u[i].worker = t[i].worker
             /\ u[i].prev = t[i].prev
             /\ u[i].key = t[i].key
             /\ t[i].isTest => u[i].isTest
  <2> DEFINE marked == t[i].isTest \/ <<t[i].lo, t[i].hi>> = testRange[t[i].puzzle]
  <2>1. t[i] \in Chunk
    BY <1>1 DEF Rows
  <2>2. u[i] = [t[i] EXCEPT !.isTest = marked]
    BY DEF Migrated, Rows
  <2>3. marked \in BOOLEAN /\ (t[i].isTest => marked)
    BY <2>1 DEF Chunk
  <2> HIDE DEF marked, u
  <2> QED
    BY <2>1, <2>2, <2>3 DEF Chunk
<1>3. u \in [1 .. Len(t) -> Chunk]
  BY <1>1, <1>2 DEF Migrated, Rows
<1>4. u \in Seq(Chunk)
  BY <1>1, <1>3, SeqDef
<1>5. Rows(u) = Rows(t)
  BY DEF Migrated, Rows
<1> QED
  BY <1>2, <1>4, <1>5

LEMMA MigratedLeases ==
    ASSUME NEW t \in Seq(Chunk), NEW F, LeasesOK(t, F)
    PROVE  LeasesOK(Migrated(t), F)
<1> DEFINE u == Migrated(t)
<1>1. /\ Rows(u) = Rows(t)
      /\ \A i \in Rows(t) : /\ u[i].puzzle = t[i].puzzle
                            /\ u[i].status = t[i].status
                            /\ u[i].worker = t[i].worker
                            /\ u[i].prev = t[i].prev
                            /\ u[i].key = t[i].key
  BY MigratedRows
<1> HIDE DEF u
<1>2. RowsOK(u)
  BY <1>1 DEF LeasesOK, RowsOK, RowOK
<1>3. OneJob(u)
  BY <1>1 DEF LeasesOK, OneJob, SameJob, AssignedRows
<1>4. FindingsOK(u, F)
  BY <1>1 DEF LeasesOK, FindingsOK
<1> QED
  BY <1>2, <1>3, <1>4 DEF LeasesOK, u

\* Fewer rows count as normal, so a sector keeps what it has left.
LEMMA MigratedSector ==
    ASSUME NEW t \in Seq(Chunk), NEW p, NEW s, SectorFree(t, p, s)
    PROVE  SectorFree(Migrated(t), p, s)
<1> DEFINE u == Migrated(t)
<1>1. /\ Rows(u) = Rows(t)
      /\ \A i \in Rows(t) : /\ u[i].puzzle = t[i].puzzle
                            /\ u[i].lo = t[i].lo
                            /\ u[i].hi = t[i].hi
                            /\ t[i].isTest => u[i].isTest
  BY MigratedRows
<1> HIDE DEF u
<1>2. \A i \in NormalRows(u, p) : i \in NormalRows(t, p) /\ RunOf(u[i]) = RunOf(t[i])
  BY <1>1 DEF NormalRows, RunOf
<1> QED
  BY <1>2 DEF SectorFree, u

-----------------------------------------------------------------------------
(* Crashes *)

\* The tables a handler that dies may have committed.
CommittedTable(t) ==
    /\ t \in Seq(Chunk)
    /\ SameRuns(chunks, t)
    /\ Rows(t) = Rows(chunks)
    /\ \A i \in Rows(chunks) : RowMove(chunks[i], t[i])
    /\ LeasesOK(t, findings')
    /\ StartOn(t)

\* What a crash does to the database and the file: lines are only written for
\* findings that are committed.
CrashStep ==
    /\ \E t : CommittedTable(t)
    /\ lastSeen' \in [Workers -> Ages \cup {NoWorker}]
    /\ findings' \in SUBSET (Nat \X Workers \X Keys)
    /\ findings \subseteq findings'
    /\ bingo' \subseteq bingo \cup findings'

LEMMA SameTableCommitted ==
    ASSUME TypeOK, LeasesOK(chunks, findings), StartOn(chunks), UNCHANGED findings
    PROVE  CommittedTable(chunks)
<1>1. \A i \in Rows(chunks) : RowMove(chunks[i], chunks[i])
  BY SameRow
<1> QED
  BY <1>1 DEF CommittedTable, TypeOK, SameRuns, SameRun

LEMMA RestartCrash ==
    ASSUME TypeOK, LeasesOK(chunks, findings), Restart
    PROVE  CrashStep
BY SameTableCommitted DEF Restart, CrashStep, TypeOK

LEMMA WorkCrash ==
    ASSUME TypeOK, LeasesOK(chunks, findings), NEW w \in Workers, DieInWork(w)
    PROVE  CrashStep
<1>1. lastSeen' \in [Workers -> Ages \cup {NoWorker}]
  BY ScalarsAssumption DEF DieInWork, TypeOK, Ages
<1>2. UNCHANGED <<findings, bingo>>
  BY DEF DieInWork
<1>3. CASE StartOn(chunks)
  BY <1>1, <1>2, <1>3, SameTableCommitted DEF CrashStep, TypeOK
<1>4. CASE StartOn(TableFor(w))
  <2>1. TableFor(w) = Released(chunks, LostBy(w)) /\ LostBy(w) \in SUBSET AssignedRows(chunks)
    BY TableForReleases
  <2>2. TableFor(w) \in Seq(Chunk) /\ SameRuns(chunks, TableFor(w))
    BY TableForRuns
  <2>3. /\ Rows(TableFor(w)) = Rows(chunks)
        /\ \A i \in Rows(chunks) : RowMove(chunks[i], TableFor(w)[i])
    BY <2>1, ReleasedMoves
  <2>4. LeasesOK(TableFor(w), findings)
    BY <2>1, ReleasedLeases DEF TypeOK
  <2>5. CommittedTable(TableFor(w))
    BY <1>2, <1>4, <2>2, <2>3, <2>4 DEF CommittedTable
  <2> QED
    BY <1>1, <1>2, <2>5 DEF CrashStep, TypeOK
<1> QED
  BY <1>3, <1>4 DEF DieInWork

LEMMA DoneCrash ==
    ASSUME TypeOK, LeasesOK(chunks, findings), NEW w \in Workers,
           NEW i \in Rows(chunks), DieAfterDone(w, i)
    PROVE  CrashStep
<1> DEFINE t == [chunks EXCEPT ![i] = Complete(chunks[i])]
<1>1. i \in AssignedRows(chunks) /\ chunks[i].status = "assigned" /\ chunks[i] \in Chunk
  BY TableIsFunction DEF DieAfterDone, AssignedTo, AssignedRows, TypeOK, Rows
<1>2. StartOn(t) /\ UNCHANGED <<lastSeen, findings, bingo>>
  BY DEF DieAfterDone
<1>3. t \in Seq(Chunk) /\ SameRuns(chunks, t)
  BY <1>1, CompleteRow, ReplacedRow DEF TypeOK, Rows
<1>4. Rows(t) = Rows(chunks) /\ \A j \in Rows(chunks) : RowMove(chunks[j], t[j])
  BY <1>1, CompleteMove, OneRowMoves
<1>5. LeasesOK(t, findings)
  BY <1>1, CompletedLease DEF TypeOK
<1> HIDE DEF t
<1>6. CommittedTable(t)
  BY <1>2, <1>3, <1>4, <1>5 DEF CommittedTable
<1> QED
  BY <1>2, <1>6 DEF CrashStep, TypeOK

LEMMA FoundCrash ==
    ASSUME TypeOK, LeasesOK(chunks, findings), NEW w \in Workers,
           NEW i \in Rows(chunks), NEW keys \in SUBSET Keys, NEW primary \in keys,
           DieAfterFound(w, i, primary, keys)
    PROVE  CrashStep
<1> DEFINE d == FoundRow(w, i, primary)
           t == [chunks EXCEPT ![i] = d]
<1>1. /\ chunks \in Seq(Chunk) /\ chunks[i] \in Chunk /\ i \in Nat
      /\ chunks \in [1 .. Len(chunks) -> Chunk]
  BY TableIsFunction DEF TypeOK, Rows
<1>2. /\ StartOn(t)
      /\ UNCHANGED lastSeen
      /\ findings' = findings \cup FindingsOf(i, w, keys)
      /\ bingo' \subseteq bingo \cup findings'
      /\ FoundAccepted(w, i, primary)
  BY DEF DieAfterFound, Recorded, FindingsOf
<1>3. findings' \in SUBSET (Nat \X Workers \X Keys)
  BY <1>1, <1>2 DEF FindingsOf, TypeOK
<1>4. CASE i \in AssignedTo(chunks, w) \/ ~AlreadyRecorded(w, i, primary)
  <2>1. d = Credit(chunks[i], w, primary)
    BY <1>4 DEF FoundRow
  <2>2. /\ chunks[i].status \in {"assigned", "reclaimed"}
        /\ w \in {chunks[i].worker, chunks[i].prev}
    BY <1>2, <1>4 DEF FoundAccepted, AssignedTo, LateHolder
  <2>3. d \in Chunk /\ SameRun(chunks[i], d) /\ RowMove(chunks[i], d)
    BY <1>1, <2>1, <2>2, CreditRow, CreditMove
  <2>4. LeasesOK(t, findings')
    BY <1>1, <1>2, <2>1, <2>2, CreditedLease
  <2> HIDE DEF d
  <2>5. t \in Seq(Chunk) /\ SameRuns(chunks, t)
    BY <1>1, <2>3, ReplacedRow DEF Rows
  <2>6. Rows(t) = Rows(chunks) /\ \A j \in Rows(chunks) : RowMove(chunks[j], t[j])
    BY <2>3, OneRowMoves
  <2> HIDE DEF t
  <2>7. CommittedTable(t)
    BY <1>2, <2>4, <2>5, <2>6 DEF CommittedTable
  <2> QED
    BY <1>2, <1>3, <2>7 DEF CrashStep, TypeOK
<1>5. CASE ~(i \in AssignedTo(chunks, w) \/ ~AlreadyRecorded(w, i, primary))
  <2>1. t = chunks /\ <<i, w, primary>> \in findings
    BY <1>1, <1>5 DEF FoundRow, AlreadyRecorded
  <2>2. LeasesOK(chunks, findings')
    BY <1>2, <2>1, RepeatedFinding
  <2>3. \A j \in Rows(chunks) : RowMove(chunks[j], chunks[j])
    BY SameRow
  <2>4. CommittedTable(chunks)
    BY <1>1, <1>2, <2>1, <2>2, <2>3 DEF CommittedTable, SameRuns, SameRun
  <2> QED
    BY <1>2, <1>3, <2>4 DEF CrashStep, TypeOK
<1> QED
  BY <1>4, <1>5

LEMMA EveryCrash ==
    ASSUME TypeOK, LeasesOK(chunks, findings), Crash
    PROVE  CrashStep
<1>1. CASE Restart
  BY <1>1, RestartCrash
<1>2. ASSUME NEW w \in Workers, DieInWork(w)
      PROVE  CrashStep
  BY <1>2, WorkCrash
<1>3. ASSUME NEW w \in Workers, NEW i \in Rows(chunks), DieAfterDone(w, i)
      PROVE  CrashStep
  BY <1>3, DoneCrash
<1>4. ASSUME NEW w \in Workers, NEW i \in Rows(chunks), NEW keys \in SUBSET Keys,
             NEW primary \in keys, DieAfterFound(w, i, primary, keys)
      PROVE  CrashStep
  BY <1>4, FoundCrash
<1> QED
  BY <1>1, <1>2, <1>3, <1>4 DEF Crash

-----------------------------------------------------------------------------
(* The inductive invariant *)

RestartInv ==
    /\ TypeOK
    /\ SectorsFree
    /\ LeasesOK(chunks, findings)
    /\ bingo \subseteq findings

LEMMA CrashKeeps ==
    ASSUME RestartInv, CrashStep
    PROVE  RestartInv'
<1>1. PICK t : CommittedTable(t)
  BY DEF CrashStep
<1>2. /\ t \in Seq(Chunk) /\ SameRuns(chunks, t) /\ LeasesOK(t, findings')
      /\ chunks' = Migrated(t) /\ UNCHANGED puzzleVars
  BY <1>1 DEF CommittedTable, StartOn
<1>3. chunks' \in Seq(Chunk)
  BY <1>2, MigratedRows
<1>4. TypeOK'
  BY <1>2, <1>3 DEF RestartInv, TypeOK, CrashStep, puzzleVars
<1>5. SectorsFree'
  <2>1. UNCHANGED <<reached, blocked>>
    BY <1>2 DEF puzzleVars
  <2>2. ASSUME NEW p \in LegacyPuzzles, NEW s \in Sectors(VchunkCount[p])
        PROVE  SectorFree(chunks', p, s)
    <3>1. SectorFree(t, p, s)
      BY <1>2, KeptSector DEF RestartInv, SectorsFree
    <3> QED
      BY <1>2, <3>1, MigratedSector
  <2>3. ASSUME NEW p \in LegacyPuzzles, NEW s \in Sectors(VchunkCount[p])
        PROVE  SectorFree(chunks, p, s)'
    BY <2>1, <2>2 DEF SectorFree, Left
  <2> QED
    BY <2>1, <2>3 DEF RestartInv, SectorsFree
<1>6. LeasesOK(chunks', findings')
  BY <1>2, MigratedLeases
<1>7. bingo' \subseteq findings'
  BY DEF RestartInv, CrashStep
<1> QED
  BY <1>4, <1>5, <1>6, <1>7 DEF RestartInv

\* Findings are never lost.
LEMMA FindingsGrow ==
    ASSUME LeaseStep
    PROVE  findings \subseteq findings'
BY DEF LeaseStep, AgesStep, ReleaseStep, IssueStep, IssueTo, GrantStep, AddStep,
       CompleteStep, CreditStep, RepeatStep

LEMMA HandlerKeeps ==
    ASSUME RestartInv, Handler
    PROVE  RestartInv' /\ LeaseStep
<1>1. TypeOK' /\ SectorsFree'
  BY StepKinds, SectorsStep DEF RestartInv, Handler
<1>2. LeaseStep
  BY <1>1, EveryLeaseStep DEF RestartInv, Handler
<1>3. LeasesOK(chunks', findings')
  BY <1>2, LeasesStep DEF RestartInv
<1>4. bingo' \subseteq findings'
  BY <1>2, FindingsGrow DEF RestartInv, Handler
<1> QED
  BY <1>1, <1>2, <1>3, <1>4 DEF RestartInv

LEMMA IdleKeeps ==
    ASSUME RestartInv, UNCHANGED restartVars
    PROVE  RestartInv'
<1>1. UNCHANGED vars /\ UNCHANGED bingo
  BY DEF restartVars
<1>2. TypeOK' /\ SectorsFree'
  BY <1>1, StepKinds, SectorsStep DEF RestartInv
<1>3. UNCHANGED <<chunks, findings>>
  BY <1>1 DEF vars
<1> QED
  BY <1>1, <1>2, <1>3 DEF RestartInv

\* Types, sectors, leases, findings and the file stay in order over every handler,
\* and over every crash and restart: the invariant behind the theorems below.
THEOREM RestartInvariant == RestartSpec => []RestartInv
<1>1. RestartInit => RestartInv
  BY InitTypeOK, InitSectorsFree, InitLeases DEF RestartInit, RestartInv
<1>2. RestartInv /\ [RestartNext]_restartVars => RestartInv'
  <2> SUFFICES ASSUME RestartInv, [RestartNext]_restartVars
               PROVE  RestartInv'
    OBVIOUS
  <2>1. CASE Handler
    BY <2>1, HandlerKeeps
  <2>2. CASE Crash
    BY <2>2, EveryCrash, CrashKeeps DEF RestartInv
  <2>3. CASE UNCHANGED restartVars
    BY <2>3, IdleKeeps
  <2> QED
    BY <2>1, <2>2, <2>3 DEF RestartNext
<1> QED
  BY <1>1, <1>2, PTL DEF RestartSpec

-----------------------------------------------------------------------------
(* What restarts and crashes do not change *)

\* No worker holds two jobs of a puzzle, though the server dies in its /work before or
\* after it released what the worker held.
THEOREM OneJobSurvivesRestart == RestartSpec => []OneJobPerWorker
<1>1. RestartInv => OneJobPerWorker
  BY DEF RestartInv, LeasesOK, OneJob, SameJob, OneJobPerWorker, AssignedTo, AssignedRows
<1> QED
  BY <1>1, RestartInvariant, PTL

\* The findings table and the chunk table agree after every crash, since one transaction
\* writes both.
THEOREM FindingsSurviveRestart == RestartSpec => []FindingsMatchChunks
<1>1. RestartInv => FindingsMatchChunks
  BY DEF RestartInv, LeasesOK, FindingsOK, FindingsMatchChunks
<1> QED
  BY <1>1, RestartInvariant, PTL

\* The file of found keys never shows a key that the database lost.
THEOREM BingoOnlyCommittedCorrect == RestartSpec => []BingoOnlyCommitted
<1>1. RestartInv => BingoOnlyCommitted
  BY DEF RestartInv, BingoOnlyCommitted
<1> QED
  BY <1>1, RestartInvariant, PTL

\* A finished chunk keeps its status, its worker and its key wherever a handler dies and
\* however often the server comes back.
THEOREM ResultsSurviveRestartCorrect == RestartSpec => ResultsSurviveRestart
<1> DEFINE Kept == \A i \in Rows(chunks) :
                     chunks[i].status \in {"completed", "FOUND"} =>
                         /\ i \in Rows(chunks')
                         /\ chunks'[i].status = chunks[i].status
                         /\ chunks'[i].worker = chunks[i].worker
                         /\ chunks'[i].key = chunks[i].key
<1>1. ASSUME NEW c, NEW d, RowMove(c, d), c.status \in {"completed", "FOUND"}
      PROVE  d = c
  BY <1>1 DEF RowMove, AgeOnly, TakenAway, GivenAgain, TestGivenBack, Completed, Credited
<1>2. ASSUME RestartInv, Handler
      PROVE  Kept
  <2>1. RowMoves
    BY <1>2, HandlerKeeps, EveryRowMoves DEF RestartInv
  <2> QED
    BY <1>1, <2>1 DEF RowMoves
<1>3. ASSUME RestartInv, Crash
      PROVE  Kept
  <2>1. PICK t : CommittedTable(t)
    BY <1>3, EveryCrash DEF RestartInv, CrashStep
  <2>2. /\ t \in Seq(Chunk) /\ Rows(t) = Rows(chunks) /\ chunks' = Migrated(t)
        /\ \A i \in Rows(chunks) : RowMove(chunks[i], t[i])
    BY <2>1 DEF CommittedTable, StartOn
  <2>3. /\ Rows(chunks') = Rows(t)
        /\ \A i \in Rows(t) : /\ chunks'[i].status = t[i].status
                              /\ chunks'[i].worker = t[i].worker
                              /\ chunks'[i].key = t[i].key
    BY <2>2, MigratedRows
  <2> QED
    BY <1>1, <2>2, <2>3
<1>4. ASSUME RestartInv, [RestartNext]_restartVars
      PROVE  [Kept]_chunks
  BY <1>2, <1>3, <1>4 DEF RestartNext, restartVars, vars
<1> QED
  BY <1>4, RestartInvariant, PTL DEF RestartSpec, ResultsSurviveRestart

=============================================================================

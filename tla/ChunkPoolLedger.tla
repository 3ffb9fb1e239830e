-------------------------- MODULE ChunkPoolLedger --------------------------
(***************************************************************************)
(* ChunkPool implements KeyspaceLedger: the phase of a virtual chunk is    *)
(* read off the normal row whose run contains it.                          *)
(***************************************************************************)
EXTENDS ChunkPool

Units == UNION {{p} \X Vchunks(p) : p \in Puzzles}

RowsOf(u) ==
    {i \in Rows(chunks) : /\ ~chunks[i].isTest
                          /\ chunks[i].puzzle = u[1]
                          /\ chunks[i].lo <= u[2] /\ u[2] < chunks[i].hi}

PhaseOf(status) ==
    CASE status = "assigned" -> "leased"
      [] status = "reclaimed" -> "released"
      [] OTHER -> "finished"

\* The ledger entry of a unit inside one of these rows, or inside none.
EntryOf(rows) ==
    IF rows = {}
    THEN [phase |-> "unissued", holder |-> NoWorker, last |-> NoWorker]
    ELSE LET row == chunks[CHOOSE i \in rows : TRUE]
         IN  [phase |-> PhaseOf(row.status), holder |-> row.worker, last |-> row.prev]

ledgerNow == [u \in Units |-> EntryOf(RowsOf(u))]

Ledger == INSTANCE KeyspaceLedger WITH ledger <- ledgerNow

\* Every handler moves every virtual chunk only along the lifecycle the docs
\* draw: no unit is issued twice, swapped between workers or unfinished.
ImplementsLedger == Ledger!Spec
=============================================================================

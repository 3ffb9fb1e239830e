--------------------------- MODULE KeyspaceLedger ---------------------------
(***************************************************************************)
(* What the pool promises about each virtual chunk of a keyspace, without  *)
(* rows, runs, puzzles or timers: a unit is issued once, is leased to one  *)
(* worker at a time, comes back before another worker gets it, and once    *)
(* finished stays finished.  ChunkPoolLedger shows that the chunk table    *)
(* implements this; the words come from docs/architecture.md ("visited     *)
(* exactly once") and docs/database.md (the chunk status lifecycle).       *)
(***************************************************************************)
CONSTANTS Units, Workers, NoWorker

VARIABLE ledger   \* per unit: its phase, its holder, and who lost it last

Entry(phase, holder, last) == [phase |-> phase, holder |-> holder, last |-> last]

Init == ledger = [u \in Units |-> Entry("unissued", NoWorker, NoWorker)]

\* One unit, before and after the handler.
Lease(old, new) ==
    /\ old.phase \in {"unissued", "released"}
    /\ \E w \in Workers : new = Entry("leased", w, old.last)

Release(old, new) ==
    /\ old.phase = "leased"
    /\ new = Entry("released", NoWorker, old.holder)

\* By the holder, or by the worker that lost the unit last.
Finish(old, new) ==
    /\ old.phase \in {"leased", "released"}
    /\ \E w \in {old.holder, old.last} \ {NoWorker} :
          new = Entry("finished", w, old.last)

Move(old, new) ==
    new = old \/ Lease(old, new) \/ Release(old, new) \/ Finish(old, new)

\* One handler may move the units of several jobs, each by its own rule.
Next == \A u \in Units : Move(ledger[u], ledger'[u])

Spec == Init /\ [][Next]_ledger
=============================================================================

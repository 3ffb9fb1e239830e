------------------------- MODULE ChunkPoolProgress -------------------------
(***************************************************************************)
(* What eventually happens in ChunkPool, with workers that may vanish.     *)
(*                                                                         *)
(* Fairness.  Time passes and the reclaimer thread runs every minute       *)
(* (src/main.cpp), so Tick and ReclaimTimedOut are weakly fair.  Nothing   *)
(* is assumed of a worker except the survivors: a survivor asks for work   *)
(* again within the reactivation timeout (the server cannot make it, and a *)
(* worker that always comes back later is never offered a reclaimed job),  *)
(* and finishes some of the jobs it keeps being given.  Every other worker *)
(* falls silent at some moment of its choice, in the middle of a job or    *)
(* not, and so does the admin.                                             *)
(***************************************************************************)
EXTENDS ChunkPool

CONSTANT Survivors   \* the workers that keep working

ASSUME SurvivorsAssumption == Survivors \subseteq Workers

AskForWork(w) == \E requested \in 1 .. MaxRun : Work(w, requested)

PromptWork(w) == ~Inactive(w) /\ AskForWork(w)

Finish(w) == \E i \in Rows(chunks) : AcceptDone(w, i)

Silence ==
    /\ \A w \in Workers \ Survivors : <>[][~WorkerNext(w)]_vars
    /\ <>[][~AdminNext]_vars

ServerFairness == WF_vars(Tick) /\ WF_vars(ReclaimTimedOut)

SurvivorFairness ==
    \A w \in Survivors : /\ WF_vars(AskForWork(w))
                          /\ SF_vars(PromptWork(w))
                          /\ SF_vars(Finish(w))

ProgressSpec == Spec /\ ServerFairness /\ SurvivorFairness /\ Silence

-----------------------------------------------------------------------------
Finished(p) ==
    UNION {RunOf(chunks[i]) : i \in {j \in NormalRows(chunks, p) :
                                        chunks[j].status \in {"completed", "FOUND"}}}

\* However the other workers vanish, one worker that goes on is enough for
\* the active puzzle to be scanned to the end: no virtual chunk is stuck with
\* a worker that is gone, lost by the cursor, or reclaimed and forgotten.
EventuallyCovered ==
    <>(Vchunks(active) \subseteq (Finished(active) \cup blocked[active]))

Stale(i) ==
    /\ i \in Rows(chunks)
    /\ chunks[i].status = "assigned"
    /\ chunks[i].age > TimeoutMinutes

\* No table is longer: a normal row takes a virtual chunk, and MaxTestChunks
\* bounds the test ranges set before the last test row was issued.
MaxRows == Cardinality(UNION {{p} \X Vchunks(p) : p \in Puzzles}) + MaxTestChunks

\* "chunks WHERE status='assigned' AND COALESCE(heartbeat_at, assigned_at) <
\* NOW()-TIMEOUT_MINUTES -> status='reclaimed'" (docs/architecture.md): no
\* row stays with a worker that sends no heartbeat.
StaleRowsEnd == \A i \in 1 .. MaxRows : Stale(i) ~> ~Stale(i)

=============================================================================

---------------------------- MODULE StatusRefresh ----------------------------
(***************************************************************************)
(* The solved-state of the puzzles: PoolService::refreshPuzzleStatuses.    *)
(*                                                                         *)
(* A refresh collects its targets under the lock, asks the block explorer  *)
(* without it, and writes all results under it again.  The constructor     *)
(* runs one before requests are served, the poller thread runs one at      *)
(* every interval, and the handlers of activate-puzzle and set-puzzle run  *)
(* one in their own thread, so refreshes overlap and finish in any order.  *)
(***************************************************************************)
EXTENDS Integers, Sequences, FiniteSets

CONSTANTS
    Names,          \* names of puzzles
    CanonicalName,  \* CanonicalName[n]: n trimmed and in upper case
    Addresses,      \* addresses the block explorer knows
    Workers, Keys,  \* who found what; keys are the numbers from 1
    Configs,        \* what puzzleStatusTargets may be when the server starts
    Handlers,       \* request threads that may be inside an admin handler
    NoTarget,       \* SQL NULL in the status columns, and a name not configured
    MaxPuzzles, MaxFindings, MaxClock    \* bounds

Constructor == "constructor"
Poller == "poller"
Refreshers == {Constructor, Poller} \cup Handlers

States == {"unknown", "unsolved", "solved"}

\* Config::puzzleStatusTargets: an address, or a number of keys to be found (0 is
\* what "00" and a number too large for stoll come to).
Target == [type : {"address"}, value : Addresses]
          \cup [type : {"findings_threshold"}, value : Nat]

CanonicalNames == {CanonicalName[n] : n \in Names}

ASSUME ConstantsAssumption ==
    /\ Configs \subseteq [CanonicalNames -> Target \cup {NoTarget}]
    /\ Keys \subseteq Nat
    /\ NoTarget \notin States

VARIABLES
    puzzles,   \* table puzzles: name and status columns
    findings,  \* table findings, with the puzzle of the chunk
    chain,     \* what the explorer knows of an address
    config,    \* Config::puzzleStatusTargets of the running server
    server,    \* "down", "starting" (in the constructor), "serving"
    refresh,   \* refresh[r]: the locals of refreshPuzzleStatuses in thread r
    clock,     \* seconds, as nowIsoUtc prints them
    heldAt     \* history: heldAt[p][s] is when the target of p last was in state s

vars == <<puzzles, findings, chain, config, server, refresh, clock, heldAt>>

NewRow(n) == [name |-> n, target |-> NoTarget, state |-> NoTarget,
              checked |-> NoTarget, note |-> "none"]

Never == -1

\* targets and results, std::vectors in the order of the ids, are functions on the ids.
Nothing == [p \in {} |-> NoTarget]
Idle == [phase |-> "idle", stamp |-> 0, targets |-> Nothing, results |-> Nothing]

-----------------------------------------------------------------------------
(* What a target says.                                                     *)

evaluateFindingsThresholdStatus(count, threshold) ==
    CASE threshold <= 0 -> "unknown"
      [] threshold > 0 /\ count >= threshold -> "solved"
      [] OTHER -> "unsolved"

evaluateAddressTargetStatus(answer) ==
    CASE answer = "spent"    -> "solved"
      [] answer = "funded"   -> "unsolved"
      [] answer = "unfunded" -> "unknown"

\* Deviation: every finding counts, also a key somebody else reported too.
AllFindings(p) == Cardinality({f \in findings : f.puzzle = p})

\* COUNT(DISTINCT found_key) over the findings of the puzzle's chunks.
DistinctFoundKeys(p) ==
    Cardinality({f.key : f \in {g \in findings : g.puzzle = p}})

Configured(row) == config[CanonicalName[row.name]]

HasThreshold(p) ==
    /\ Configured(puzzles[p]) # NoTarget
    /\ Configured(puzzles[p]).type = "findings_threshold"
    /\ Configured(puzzles[p]).value > 0

-----------------------------------------------------------------------------
(* One refresh, in the order of the code.                                  *)

\* Deviation: the state of a target that is gone stays.
SyncedKeepingState(row) == [row EXCEPT !.target = Configured(row)]

\* syncConfiguredPuzzleTargets, for one row.
Synced(row) ==
    IF Configured(row) = NoTarget
    THEN NewRow(row.name)
    ELSE [row EXCEPT !.target = Configured(row)]

\* One UPDATE, with a commit of its own, per row.
SyncedUpTo(n) ==
    [p \in DOMAIN puzzles |-> IF p <= n THEN Synced(puzzles[p]) ELSE puzzles[p]]

\* The timestamp is taken before the lock.
Begun == [phase |-> "collect", stamp |-> clock, targets |-> Nothing, results |-> Nothing]

Begin(r) ==
    /\ refresh[r].phase = "idle"
    /\ refresh' = [refresh EXCEPT ![r] = Begun]

Collect(r) ==
    /\ refresh[r].phase = "collect"
    /\ puzzles' = SyncedUpTo(Len(puzzles))
    /\ refresh' = [refresh EXCEPT ![r] =
          [phase |-> "fetch", stamp |-> refresh[r].stamp, results |-> Nothing,
           targets |-> [p \in {q \in DOMAIN puzzles : puzzles'[q].target # NoTarget} |->
                          [target |-> puzzles'[p].target, count |-> DistinctFoundKeys(p)]]]]
    /\ UNCHANGED <<findings, chain, config, server, clock, heldAt>>

\* The results one target may give: the explorer may be out of reach.
Results(t) ==
    IF t.target.type = "address"
    THEN LET state == evaluateAddressTargetStatus(chain[t.target.value])
         IN {[state |-> "unknown", note |-> "failed"],
             [state |-> state, note |-> IF state = "unknown" THEN "unfunded" ELSE "none"]}
    ELSE {[state |-> evaluateFindingsThresholdStatus(t.count, t.target.value),
           note |-> "progress"]}

\* The targets a refresh has no result for yet.
Pending(r) == DOMAIN refresh[r].targets \ DOMAIN refresh[r].results

\* One turn of the loop over the targets.
Fetch(r) ==
    /\ refresh[r].phase = "fetch"
    /\ \E p \in Pending(r) :
          /\ \A q \in Pending(r) : p <= q
          /\ \E result \in Results(refresh[r].targets[p]) :
                refresh' = [refresh EXCEPT ![r] =
                    [phase |-> "fetch", stamp |-> refresh[r].stamp,
                     targets |-> refresh[r].targets,
                     results |-> [q \in DOMAIN refresh[r].results \cup {p} |->
                         IF q = p THEN result ELSE refresh[r].results[q]]]]
    /\ UNCHANGED <<puzzles, findings, chain, config, server, clock, heldAt>>

\* Deviation: the timestamp of the write.
StampedLate(row, result, stamp) ==
    [row EXCEPT !.state = result.state, !.checked = clock, !.note = result.note]

Stamped(row, result, stamp) ==
    [row EXCEPT !.state = result.state, !.checked = stamp, !.note = result.note]

\* The rows when the final loop has done the ids up to n, whatever they hold by then.
Applied(r, n) ==
    [p \in DOMAIN puzzles |->
        IF p <= n /\ p \in DOMAIN refresh[r].results
        THEN Stamped(puzzles[p], refresh[r].results[p], refresh[r].stamp)
        ELSE puzzles[p]]

Fetched(r) == refresh[r].phase = "fetch" /\ Pending(r) = {}

\* The constructor's refresh is its last step: requests are served from then on.
Apply(r) ==
    /\ Fetched(r)
    /\ puzzles' = Applied(r, Len(puzzles))
    /\ refresh' = [refresh EXCEPT ![r] = Idle]
    /\ server' = IF r = Constructor THEN "serving" ELSE server
    /\ UNCHANGED <<findings, chain, config, clock, heldAt>>

-----------------------------------------------------------------------------
(* Who starts refreshes.                                                   *)

\* Deviation: what was checked once is not checked again.
PollerWakesUnchecked ==
    /\ server = "serving"
    /\ \A p \in DOMAIN puzzles : puzzles[p].checked = NoTarget
    /\ Begin(Poller)
    /\ UNCHANGED <<puzzles, findings, chain, config, server, clock, heldAt>>

\* statusRefresher in main: sleep, refresh, again.
PollerWakes ==
    /\ server = "serving"
    /\ Begin(Poller)
    /\ UNCHANGED <<puzzles, findings, chain, config, server, clock, heldAt>>

\* activate-puzzle changes none of this module's columns.
ActivatePuzzle(h) ==
    /\ server = "serving"
    /\ Begin(h)
    /\ UNCHANGED <<puzzles, findings, chain, config, server, clock, heldAt>>

\* The state the target of row p is in, as far as anybody can know it.
Truth(p, rows, found, known, targets) ==
    LET target == targets[CanonicalName[rows[p].name]]
    IN IF target = NoTarget THEN "unknown"
       ELSE IF target.type = "address"
       THEN CASE known[target.value] = "spent" -> "solved"
              [] known[target.value] = "funded" -> "unsolved"
              [] OTHER -> "unknown"
       ELSE IF target.value = 0 THEN "unknown"
       ELSE IF \E ks \in SUBSET Keys :
                  /\ Cardinality(ks) >= target.value
                  /\ \A k \in ks : \E f \in found : f.puzzle = p /\ f.key = k
            THEN "solved" ELSE "unsolved"

Remember ==
    heldAt' = [p \in DOMAIN puzzles' |->
        LET before == IF p \in DOMAIN heldAt THEN heldAt[p] ELSE [s \in States |-> Never]
        IN [before EXCEPT ![Truth(p, puzzles', findings', chain', config')] = clock']]

\* set-puzzle commits a row, of a name that may have rows already, and then refreshes.  A
\* row of that name that has the same parameters it only makes active, as above.
SetPuzzle(h, n) ==
    /\ server = "serving"
    /\ Len(puzzles) < MaxPuzzles
    /\ puzzles' = Append(puzzles, NewRow(n))
    /\ Begin(h)
    /\ UNCHANGED <<findings, chain, config, server, clock>>
    /\ Remember

-----------------------------------------------------------------------------
(* What happens meanwhile.                                                 *)

FoundKeys(p) == {f.key : f \in {g \in findings : g.puzzle = p}}

\* A FOUND is accepted; the same key may come from another worker too.  Findings of
\* a puzzle without a threshold are left out: nobody counts them.  Keys are named in the order they are
\* found in, so that only one naming of them is explored.
Find(p, w, k) ==
    /\ server = "serving"
    /\ HasThreshold(p)
    /\ Cardinality(findings) < MaxFindings
    /\ [puzzle |-> p, worker |-> w, key |-> k] \notin findings
    /\ k <= Cardinality(FoundKeys(p)) + 1
    /\ findings' = findings \cup {[puzzle |-> p, worker |-> w, key |-> k]}
    /\ UNCHANGED <<puzzles, chain, config, server, refresh, clock>>
    /\ Remember

\* The counts and sums of an address only grow (a transaction that drops out of the
\* mempool is left out).
Move(a) ==
    /\ chain[a] # "spent"
    /\ chain' = [chain EXCEPT ![a] = IF @ = "unfunded" THEN "funded" ELSE "spent"]
    /\ UNCHANGED <<puzzles, findings, config, server, refresh, clock>>
    /\ Remember

Tick ==
    /\ clock < MaxClock
    /\ clock' = clock + 1
    /\ UNCHANGED <<puzzles, findings, chain, config, server, refresh>>
    /\ Remember

\* The server may die anywhere, also between two updates of a loop.
Die ==
    /\ server # "down"
    /\ server' = "down"
    /\ refresh' = [r \in Refreshers |-> Idle]
    /\ \/ puzzles' = puzzles
       \/ /\ \E r \in Refreshers : refresh[r].phase = "collect"
          /\ \E n \in DOMAIN puzzles : puzzles' = SyncedUpTo(n)
       \/ \E r \in Refreshers :
             /\ Fetched(r)
             /\ \E n \in DOMAIN puzzles : puzzles' = Applied(r, n)
    /\ UNCHANGED <<findings, chain, config, clock, heldAt>>

\* PoolService::PoolService, up to the refresh that ends it.
Start(c) ==
    /\ server = "down"
    /\ server' = "starting"
    /\ config' = c
    /\ refresh' = [refresh EXCEPT ![Constructor] = Begun]
    /\ heldAt' = [p \in DOMAIN puzzles |->
          [[s \in States |-> Never] EXCEPT ![Truth(p, puzzles, findings, chain, c)] = clock]]
    /\ UNCHANGED <<puzzles, findings, chain, clock>>

-----------------------------------------------------------------------------

StatusInit ==
    /\ \E n \in Names : puzzles = <<NewRow(n)>>
    /\ findings = {}
    /\ chain \in [Addresses -> {"unfunded", "funded"}]
    /\ config \in Configs
    /\ server = "down"
    /\ refresh = [r \in Refreshers |-> Idle]
    /\ clock = 0
    /\ heldAt = [p \in {1} |-> [s \in States |-> Never]]

RefreshStep(r) == Collect(r) \/ Fetch(r) \/ Apply(r)

StatusNext ==
    \/ \E r \in Refreshers : RefreshStep(r)
    \/ PollerWakes
    \/ \E h \in Handlers : ActivatePuzzle(h)
    \/ \E h \in Handlers, n \in Names : SetPuzzle(h, n)
    \/ \E p \in DOMAIN puzzles, w \in Workers, k \in Keys : Find(p, w, k)
    \/ \E a \in Addresses : Move(a)
    \/ Tick
    \/ Die
    \/ \E c \in Configs : Start(c)

\* The poller wakes again and again, every thread runs on (curl gives up after
\* 15 seconds), and the server is started again.
StatusFairness ==
    /\ \A r \in Refreshers : WF_vars(RefreshStep(r))
    /\ WF_vars(PollerWakes)
    /\ WF_vars(\E c \in Configs : Start(c))

StatusSpec == StatusInit /\ [][StatusNext]_vars /\ StatusFairness

-----------------------------------------------------------------------------
(* Properties.                                                             *)

Reached(p) ==
    /\ p \in DOMAIN puzzles /\ HasThreshold(p)
    /\ Cardinality(FoundKeys(p)) >= Configured(puzzles[p]).value

Shown(p) == p \in DOMAIN puzzles /\ puzzles[p].state = "solved"

\* A puzzle with a threshold is shown solved only when so many different keys were
\* found: not when one key was reported twice, nor after the threshold was raised.
SolvedMeansFound ==
    server = "serving" =>
        \A p \in DOMAIN puzzles :
            Configured(puzzles[p]) # NoTarget
            /\ Configured(puzzles[p]).type = "findings_threshold"
            /\ Shown(p) => Reached(p)

\* The state shown with a time was true at that time or later: the timestamp
\* promises no more than the refresh saw, although it fetched for a while and a
\* later one may have written in between.  A failed look-up promises nothing.
ShownWasTrue ==
    server = "serving" =>
        \A p \in DOMAIN puzzles :
            (puzzles[p].state # NoTarget /\ puzzles[p].note # "failed") =>
                heldAt[p][puzzles[p].state] >= puzzles[p].checked

\* A puzzle without a target shows nothing of the target it had before a restart,
\* whatever refresh was under way.
UnconfiguredShowsNothing ==
    server = "serving" =>
        \A p \in DOMAIN puzzles :
            Configured(puzzles[p]) = NoTarget => puzzles[p] = NewRow(puzzles[p].name)

\* Once enough keys were found the puzzle is shown solved for good: a refresh that
\* collected before can set it back, but not again and again.  (Unless the server
\* dies again and again.)
SolvedForGood ==
    <>[][server' # "down"]_server =>
        \A p \in 1..MaxPuzzles : <>[](Reached(p) => Shown(p))
=============================================================================

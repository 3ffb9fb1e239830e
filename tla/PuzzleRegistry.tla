--------------------------- MODULE PuzzleRegistry ---------------------------
(***************************************************************************)
(* The puzzles table: /admin/set-puzzle and /admin/activate-puzzle         *)
(* (src/service_admin.cpp), the start of the server                        *)
(* (src/service_bootstrap.cpp) and ensureAllocatorForPuzzle, which seeds   *)
(* what it finds unseeded.  ChunkPool begins where this ends, with seeded  *)
(* puzzles and one active.                                                 *)
(*                                                                         *)
(* A handler runs under the unique lock, but it commits the puzzle row     *)
(* before it seeds it, and a start commits after every statement: the      *)
(* server can die in between, and the next start sees what was committed.  *)
(*                                                                         *)
(* A key range is abstracted to its length.  Cursor, stage and sector      *)
(* bounds are left out; "count" is the number of virtual chunks, or of     *)
(* sectors in a legacy puzzle, 0 while there are none.                     *)
(***************************************************************************)
EXTENDS Naturals, Sequences

CONSTANTS
    Requests,       \* set-puzzle bodies [name, range, strategy, seed, size]
    Fallback,       \* the [name, range] used when the table is empty
    DefaultSize,    \* cfg.defaultVirtualChunkSizeKeys
    Strategy,       \* cfg.defaultAllocStrategy
    Configs,        \* [reseed: AUTO_RESEED_EMPTY_VCHUNK_PUZZLES,
                    \*  keyspaces: the sequence of configured [name, range]]
    MaxPuzzles      \* bound: set-puzzle inserts no row beyond it

Vchunks == "virtual_random_chunks_v1"
Legacy == "legacy_random_shards_v1"

ASSUME RegistryAssumption ==
    /\ DefaultSize \in Nat \ {0}
    /\ Strategy \in {Vchunks, Legacy}
    /\ MaxPuzzles \in Nat

\* The admin handler answers 400 to an empty range and to another strategy, and
\* the start skips an empty keyspace.
ASSUME InputsAssumption ==
    /\ \A req \in Requests : /\ req.range \in Nat \ {0}
                             /\ req.strategy \in {Vchunks, Legacy}
                             /\ req.size \in Nat
    /\ Fallback.range \in Nat \ {0}
    /\ \A c \in Configs : /\ c.reseed \in BOOLEAN
                          /\ \A k \in DOMAIN c.keyspaces :
                                c.keyspaces[k].range \in Nat \ {0}

VARIABLES
    puzzles,      \* the table; the row id is the index
    server,       \* "down", "starting" (before the first request) or "up"
    config        \* the configuration the last start has read

registryVars == <<puzzles, server, config>>

Ids == DOMAIN puzzles

CeilDiv(a, b) == (a + b - 1) \div b
Smaller(a, b) == IF a <= b THEN a ELSE b

ChooseDefaultSize(range) == Smaller(DefaultSize, range)

\* defaultAllocSeedForPuzzle
AutoSeed(name, range, strategy) == <<name, range, strategy>>

\* A row as it is inserted, before it is seeded.
NewPuzzle(name, range, strategy, seed, size, active) ==
    [name |-> name, range |-> range, strategy |-> strategy, seed |-> seed,
     size |-> size, count |-> 0, active |-> active,
     jobs |-> FALSE,    \* whether it has a row in chunks that is no test
     blocked |-> FALSE] \* whether it has rows in blocked_vchunk_ranges

-----------------------------------------------------------------------------
(* Seeding *)

SeededVchunks(row, seed, size) ==
    [row EXCEPT !.seed = seed, !.size = Smaller(size, row.range),
                !.count = CeilDiv(row.range, Smaller(size, row.range))]

\* A legacy puzzle of this length has one sector.
SeededSectors(row) == [row EXCEPT !.count = 1]

\* A row right after its INSERT.
Seeded(row) ==
    IF row.strategy = Vchunks THEN SeededVchunks(row, row.seed, row.size)
    ELSE SeededSectors(row)

KnownSize(row) ==
    IF row.size > 0 THEN Smaller(row.size, row.range)
    ELSE ChooseDefaultSize(row.range)

RowAutoSeed(row) == AutoSeed(row.name, row.range, Vchunks)

NeverSeeded(row) == row.count # CeilDiv(row.range, KnownSize(row))

\* Deviation: the jobs of the puzzle are not looked at.
WrongDefaultEvenIssued(row) ==
    config.reseed /\ KnownSize(row) # ChooseDefaultSize(row.range)

\* Deviation: the option is not looked at.
WrongDefaultAlways(row) ==
    ~row.jobs /\ KnownSize(row) # ChooseDefaultSize(row.range)

WrongDefault(row) ==
    config.reseed /\ ~row.jobs /\ KnownSize(row) # ChooseDefaultSize(row.range)

\* ensureAllocatorForPuzzle
Ensured(row) ==
    CASE row.strategy = Legacy ->
            IF row.count = 0 THEN SeededSectors(row) ELSE row
      [] row.strategy = Vchunks /\ NeverSeeded(row) ->
            SeededVchunks(row, RowAutoSeed(row), KnownSize(row))
      [] row.strategy = Vchunks /\ ~NeverSeeded(row) /\ WrongDefault(row) ->
            SeededVchunks(row, RowAutoSeed(row), ChooseDefaultSize(row.range))
      [] OTHER -> row

EnsuredAt(table, i) == [table EXCEPT ![i] = Ensured(table[i])]

\* The table is committed, then its row i is ensured, unless the server dies.
CommitThenEnsure(table, i) ==
    \/ puzzles' = EnsuredAt(table, i) /\ UNCHANGED server
    \/ puzzles' = table /\ server' = "down"

ActivatedOnly(table, i) ==
    [j \in DOMAIN table |-> [table[j] EXCEPT !.active = (j = i)]]

\* Deviation: the other puzzles stay active.
InactiveKept(table) == table

Inactive(table) == [j \in DOMAIN table |-> [table[j] EXCEPT !.active = FALSE]]

-----------------------------------------------------------------------------
(* POST /admin/set-puzzle *)

Named(table, name) == {i \in DOMAIN table : table[i].name = name}

\* puzzleByName: LIMIT 1, and no index on the name, so the oldest row.
IsOldest(i, ids) == i \in ids /\ \A j \in ids : i <= j

SeedOf(req) ==
    IF req.seed = "" THEN AutoSeed(req.name, req.range, req.strategy)
    ELSE <<req.seed>>

SizeOf(req) ==
    CASE req.strategy = Legacy -> 0
      [] req.strategy = Vchunks /\ req.size > 0 -> Smaller(req.size, req.range)
      [] OTHER -> ChooseDefaultSize(req.range)

Reusable(row, req) ==
    /\ row.range = req.range
    /\ row.strategy = req.strategy
    /\ row.seed = SeedOf(req)
    /\ row.size > 0 => row.size = SizeOf(req)

Reuses(req, i) ==
    /\ IsOldest(i, Named(puzzles, req.name))
    /\ Reusable(puzzles[i], req)

Inserted(req) ==
    Append(Inactive(puzzles),
           NewPuzzle(req.name, req.range, req.strategy, SeedOf(req), SizeOf(req), TRUE))

Reuse(req) ==
    /\ server = "up"
    /\ \E i \in Ids : /\ Reuses(req, i)
                      /\ CommitThenEnsure(ActivatedOnly(puzzles, i), i)
    /\ UNCHANGED config

Insert(req) ==
    /\ server = "up"
    /\ Len(puzzles) < MaxPuzzles
    /\ \A i \in Ids : ~Reuses(req, i)
    /\ \/ puzzles' = [Inserted(req) EXCEPT ![Len(puzzles) + 1] = Seeded(@)]
          /\ UNCHANGED server
       \/ puzzles' = Inserted(req) /\ server' = "down"
    /\ UNCHANGED config

-----------------------------------------------------------------------------
(* The other requests that touch the table *)

Activate(i) ==
    /\ server = "up"
    /\ CommitThenEnsure(ActivatedOnly(puzzles, i), i)
    /\ UNCHANGED config

\* /work: the active puzzle is ensured, and gets a job if any is left.
Work(i) ==
    /\ server = "up"
    /\ puzzles[i].active
    /\ \E found \in BOOLEAN :
          puzzles' = [EnsuredAt(puzzles, i) EXCEPT ![i].jobs = @ \/ found]
    /\ UNCHANGED <<server, config>>

ImportRanges(i) ==
    /\ server = "up"
    /\ puzzles[i].strategy = Vchunks
    /\ puzzles[i].size > 0 /\ puzzles[i].count > 0
    /\ puzzles' = [puzzles EXCEPT ![i].blocked = TRUE]
    /\ UNCHANGED <<server, config>>

-----------------------------------------------------------------------------
(* The start of the server: PoolService::PoolService *)

\* The migration makes a job over the test range of its puzzle a test row, so a puzzle
\* whose only job that was is left without jobs; which ones are is left open.
MarkTests ==
    \E tested \in SUBSET Ids :
        puzzles' = [i \in Ids |-> [puzzles[i] EXCEPT !.jobs = @ /\ i \notin tested]]

Start ==
    /\ server = "down"
    /\ server' = "starting"
    /\ config' \in Configs
    /\ MarkTests

Missing ==
    {k \in DOMAIN config.keyspaces : Named(puzzles, config.keyspaces[k].name) = {}}

SeedRow(keyspace, active) ==
    NewPuzzle(keyspace.name, keyspace.range, Strategy,
              AutoSeed(keyspace.name, keyspace.range, Strategy),
              IF Strategy = Vchunks THEN ChooseDefaultSize(keyspace.range) ELSE 0,
              active)

\* The row is committed, then it is seeded, unless the server dies first.
AddSeeded(row) ==
    \/ puzzles' = Append(puzzles, Seeded(row)) /\ UNCHANGED server
    \/ puzzles' = Append(puzzles, row) /\ server' = "down"

SeedKeyspace(k) ==
    /\ server = "starting"
    /\ k \in Missing /\ \A other \in Missing : k <= other
    /\ AddSeeded(SeedRow(config.keyspaces[k], FALSE))
    /\ UNCHANGED config

SeedFallback ==
    /\ server = "starting"
    /\ Missing = {} /\ puzzles = <<>>
    /\ AddSeeded(SeedRow(Fallback, TRUE))
    /\ UNCHANGED config

ActiveIds == {i \in Ids : puzzles[i].active}

\* Deviation: the first puzzle is activated without counting.
RepairedAlways == [i \in Ids |-> [puzzles[i] EXCEPT !.active = (i = 1)]]

\* No active puzzle: the first; several: the latest of them.
Repaired ==
    [i \in Ids |->
        [puzzles[i] EXCEPT !.active =
            IF ActiveIds = {} THEN i = 1
            ELSE i \in ActiveIds /\ \A j \in ActiveIds : j <= i]]

\* Deviation: puzzles with a known size are left to /work.
EnsuredUpToUnsized(table, n) ==
    [i \in DOMAIN table |->
        IF i <= n /\ table[i].size = 0 THEN Ensured(table[i]) ELSE table[i]]

\* The loop over all puzzles, after n of them.
EnsuredUpTo(table, n) ==
    [i \in DOMAIN table |-> IF i <= n THEN Ensured(table[i]) ELSE table[i]]

FinishStart ==
    /\ server = "starting"
    /\ Missing = {} /\ puzzles # <<>>
    /\ \/ puzzles' = EnsuredUpTo(Repaired, Len(puzzles)) /\ server' = "up"
       \/ /\ \E n \in 0 .. Len(puzzles) : puzzles' = EnsuredUpTo(Repaired, n)
          /\ server' = "down"
    /\ UNCHANGED config

Die ==
    /\ server # "down"
    /\ server' = "down"
    /\ UNCHANGED <<puzzles, config>>

-----------------------------------------------------------------------------
RegistryInit == puzzles = <<>> /\ server = "down" /\ config \in Configs

RegistryNext ==
    \/ \E req \in Requests : Reuse(req) \/ Insert(req)
    \/ \E i \in Ids : Activate(i) \/ Work(i) \/ ImportRanges(i)
    \/ Start
    \/ \E k \in DOMAIN config.keyspaces : SeedKeyspace(k)
    \/ SeedFallback
    \/ FinishStart
    \/ Die

RegistrySpec == RegistryInit /\ [][RegistryNext]_registryVars
-----------------------------------------------------------------------------
\* While requests are answered exactly one puzzle is active, wherever a
\* set-puzzle, an activation or a start died before.
OneActive == server = "up" => \E i \in Ids : ActiveIds = {i}

\* While requests are answered every puzzle is seeded for its own range and
\* size, also one whose set-puzzle or start died before it was seeded.
AllSeeded ==
    server = "up" =>
        \A i \in Ids :
            /\ puzzles[i].count > 0
            /\ puzzles[i].strategy = Vchunks =>
                  /\ puzzles[i].size > 0
                  /\ puzzles[i].count = CeilDiv(puzzles[i].range, puzzles[i].size)

\* A start never takes the pool to another puzzle, whatever it seeds and
\* wherever it dies: the repair only acts when no puzzle is active.
ActiveSurvivesStart ==
    [][(server = "starting" /\ ActiveIds # {}) => ActiveIds' = ActiveIds]_registryVars

\* "Immutable after first fresh allocation" (docs/api.md, of alloc_seed): a
\* puzzle with jobs keeps seed, size and count, or its jobs would mean other
\* keys; neither requests nor starts nor the reseed option change them.  (A job that
\* a start has made a test row is none any more, see MarkTests.)
JobsKeepTheirUnits ==
    [][\A i \in Ids :
         puzzles[i].jobs =>
             /\ puzzles'[i].seed = puzzles[i].seed
             /\ puzzles'[i].size = puzzles[i].size
             /\ puzzles'[i].count = puzzles[i].count]_registryVars

\* Blocked ranges are stored as virtual chunks, so they mean the keys that
\* were imported only while the size stays.  It does unless the reseed option
\* is on, which looks for jobs and not for blocked ranges.
BlockedKeepTheirUnits ==
    [][~config.reseed =>
         \A i \in Ids : puzzles[i].blocked => puzzles'[i].size = puzzles[i].size]_registryVars
=============================================================================

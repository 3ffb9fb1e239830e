----------------------------- MODULE Migration -----------------------------
(***************************************************************************)
(* PoolDb::migrate, which every start of the server runs on the database   *)
(* file it finds: a new one, or one that an earlier version of the server  *)
(* left, whose tables lack the columns added since.                        *)
(*                                                                         *)
(* The statements run one by one and each commits for itself, so a server  *)
(* that dies leaves what the first of them did.  One that fails ends the   *)
(* start.  Tables whose statements depend on no added column (sectors,     *)
(* findings, blocked_vchunk_ranges) are left out, and so is the content.   *)
(***************************************************************************)
EXTENDS Naturals, Sequences, SequencesExt

CONSTANT MaxStarts   \* bound

Tables == {"puzzles", "workers", "chunks"}

\* The columns addColumnIfMissing looks for, in its order.
AddedColumns(t) ==
    CASE t = "puzzles" -> <<"test_start_hex", "test_end_hex", "alloc_strategy", "alloc_seed",
                            "alloc_cursor_hex", "virtual_chunk_size_keys",
                            "virtual_chunk_count_hex", "bootstrap_stage",
                            "status_target_type", "status_target_value", "status_state",
                            "status_checked_at", "status_link", "status_note">>
      [] t = "workers" -> <<"version", "min_chunk_keys", "chunk_quantum_keys">>
      [] t = "chunks"  -> <<"is_test", "prev_worker_name", "vchunk_start_hex",
                            "vchunk_end_hex", "heartbeat_at", "alloc_generation">>

\* The columns statements name that have always been there.
FirstColumns(t) ==
    CASE t = "puzzles" -> {"id", "start_hex", "end_hex"}
      [] t = "workers" -> {"name"}
      [] t = "chunks"  -> {"id", "puzzle_id", "start_hex", "end_hex", "status",
                           "worker_name", "assigned_at"}

AllColumns(t) == FirstColumns(t) \cup ToSet(AddedColumns(t))

CreateTable(t) == [kind |-> "table", table |-> t, uses |-> {}, makes |-> AllColumns(t)]
AddColumn(t, c) == [kind |-> "column", table |-> t, uses |-> {}, makes |-> {c}]
\* An index or an update: it needs its columns and adds none.
Using(t, columns) == [kind |-> "use", table |-> t, uses |-> columns, makes |-> {}]

ChunkIndexes ==
    << Using("chunks", {"puzzle_id", "vchunk_start_hex", "vchunk_end_hex", "status"}),
       Using("chunks", {"status", "heartbeat_at", "is_test"}),
       Using("chunks", {"worker_name", "status"}),
       Using("chunks", {"puzzle_id", "id", "is_test"}),
       Using("chunks", {"puzzle_id", "alloc_generation", "is_test"}) >>

\* The script of the first exec.
BaseSchema ==
    <<CreateTable("puzzles"), CreateTable("workers"), CreateTable("chunks"),
      Using("chunks", {"puzzle_id", "status"})>> \o ChunkIndexes

Additions(t) ==
    [i \in DOMAIN AddedColumns(t) |-> AddColumn(t, AddedColumns(t)[i])]

Backfills ==
    << Using("chunks", {"heartbeat_at", "assigned_at"}),
       Using("puzzles", {"alloc_strategy"}) >>

MarkTestChunks ==
    << Using("chunks", {"is_test", "puzzle_id", "start_hex", "end_hex"}),
       Using("puzzles", {"id", "test_start_hex", "test_end_hex"}) >>

Script ==
    BaseSchema \o Additions("puzzles") \o Additions("workers") \o Additions("chunks")
        \o <<Head(ChunkIndexes)>> \o Backfills \o Tail(ChunkIndexes) \o MarkTestChunks

VARIABLES
    columns,   \* columns[t]: the columns of table t in the file, {} without it
    server,    \* "down", "migrating", "up", "failed"
    next,      \* the statement the migration runs next
    starts

vars == <<columns, server, next, starts>>

-----------------------------------------------------------------------------

Runs(s) == s.uses \subseteq columns[s.table]

\* CREATE TABLE IF NOT EXISTS leaves a table as it is; a column is added if missing.
Effect(s) ==
    IF s.kind = "table" /\ columns[s.table] # {} THEN columns
    ELSE [columns EXCEPT ![s.table] = @ \cup s.makes]

Execute ==
    /\ server = "migrating"
    /\ next <= Len(Script)
    /\ Runs(Script[next])
    /\ columns' = Effect(Script[next])
    /\ next' = next + 1
    /\ UNCHANGED <<server, starts>>

\* SQLite reports the missing column, and nothing on the way to main catches it.
Throw ==
    /\ server = "migrating"
    /\ next <= Len(Script)
    /\ ~Runs(Script[next])
    /\ server' = "failed"
    /\ UNCHANGED <<columns, next, starts>>

Finish ==
    /\ server = "migrating"
    /\ next > Len(Script)
    /\ server' = "up"
    /\ UNCHANGED <<columns, next, starts>>

Die ==
    /\ server \in {"migrating", "up"}
    /\ server' = "down"
    /\ UNCHANGED <<columns, next, starts>>

Start ==
    /\ server \in {"down", "failed"}
    /\ starts < MaxStarts
    /\ server' = "migrating"
    /\ next' = 1
    /\ starts' = starts + 1
    /\ UNCHANGED columns

\* No file, or one with some tables from before their columns were added.
MigrationInit ==
    /\ \/ columns = [t \in Tables |-> {}]
       \/ \E old \in SUBSET Tables :
             columns = [t \in Tables |->
                           IF t \in old THEN FirstColumns(t) ELSE AllColumns(t)]
    /\ server = "down"
    /\ next = 1
    /\ starts = 0

MigrationNext == Execute \/ Throw \/ Finish \/ Die \/ Start

MigrationSpec == MigrationInit /\ [][MigrationNext]_vars

-----------------------------------------------------------------------------
(* Properties. *)

\* No start fails in the migration: "Migrations must be idempotent on both a fresh
\* database and an existing pre-migration database" (PROJECT_INSTRUCTIONS.md:110-111).
UpgradesEveryDatabase == server # "failed"

=============================================================================

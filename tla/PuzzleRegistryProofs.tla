------------------------ MODULE PuzzleRegistryProofs ------------------------
(***************************************************************************)
(* Proofs about PuzzleRegistry.  The argument: a row is either unseeded or *)
(* seeded for its own range and size, and only a seeded row has jobs or    *)
(* blocked ranges (RowOK); ensuring a row seeds it, and changes a row that *)
(* is seeded only where WrongDefault lets it (RowMove).  A table never has *)
(* two active rows: every update that activates a row deactivates the      *)
(* others in the same commit, so it also holds wherever the server dies.   *)
(***************************************************************************)
EXTENDS PuzzleRegistry, SequenceTheorems, TLAPS

-----------------------------------------------------------------------------
(* The inductive invariant *)

Names ==
    {req.name : req \in Requests} \cup {Fallback.name}
        \cup UNION {{c.keyspaces[k].name : k \in DOMAIN c.keyspaces} : c \in Configs}

Seeds ==
    {<<req.seed>> : req \in Requests}
        \cup {AutoSeed(n, r, s) : n \in Names, r \in Nat \ {0}, s \in {Vchunks, Legacy}}

Row ==
    [name : Names, range : Nat \ {0}, strategy : {Vchunks, Legacy}, seed : Seeds,
     size : Nat, count : Nat, active : BOOLEAN, jobs : BOOLEAN, blocked : BOOLEAN]

RowOK(r) ==
    /\ r.strategy = Vchunks =>
          /\ r.size > 0 /\ r.size <= r.range
          /\ r.count \in {0, CeilDiv(r.range, r.size)}
    /\ r.jobs \/ r.blocked => r.count > 0

TableOK(t) == t \in Seq(Row) /\ \A i \in DOMAIN t : RowOK(t[i])

ActiveOf(t) == {i \in DOMAIN t : t[i].active}

AtMostOne(t) == \A i, j \in ActiveOf(t) : i = j

Ready(t) == ActiveOf(t) # {} /\ \A i \in DOMAIN t : t[i].count > 0

RegistryInv ==
    /\ server \in {"down", "starting", "up"}
    /\ config \in Configs
    /\ TableOK(puzzles)
    /\ AtMostOne(puzzles)
    /\ server = "up" => Ready(puzzles)

\* What a step may do to a row: a start may take its jobs (RowKeeps), nothing else does.
RowKeeps(c, d) ==
    /\ c.jobs => d.seed = c.seed /\ d.size = c.size /\ d.count = c.count
    /\ c.blocked => d.blocked
    /\ c.blocked /\ ~config.reseed => d.size = c.size
    /\ c.count > 0 => d.count > 0

RowMove(c, d) == RowKeeps(c, d) /\ (c.jobs => d.jobs)

\* The same of the table.
TableMove(t, u) ==
    /\ TableOK(u)
    /\ DOMAIN t \subseteq DOMAIN u
    /\ \A i \in DOMAIN t : RowMove(t[i], u[i])

\* What every step of the registry does, but for the jobs a start takes.
GoodStep ==
    /\ server' \in {"down", "starting", "up"}
    /\ config' \in Configs
    /\ TableMove(puzzles, puzzles')
    /\ AtMostOne(puzzles')
    /\ server' = "up" => Ready(puzzles')
    /\ server = "starting" /\ ActiveOf(puzzles) # {} =>
          ActiveOf(puzzles') = ActiveOf(puzzles)

\* What every step of the registry does.
AnyStep ==
    \/ GoodStep
    \/ /\ Start
       /\ TableOK(puzzles') /\ DOMAIN puzzles' = DOMAIN puzzles
       /\ ActiveOf(puzzles') = ActiveOf(puzzles)
       /\ \A i \in DOMAIN puzzles : RowKeeps(puzzles[i], puzzles'[i])

-----------------------------------------------------------------------------
(* Rows *)

LEMMA CeilDivBounds ==
    ASSUME NEW a \in Nat \ {0}, NEW b \in Nat \ {0}
    PROVE  CeilDiv(a, b) \in Nat \ {0}
<1>1. a + b - 1 >= b
  OBVIOUS
<1> QED
  BY <1>1 DEF CeilDiv

LEMMA SmallerBounds ==
    ASSUME NEW a \in Nat \ {0}, NEW b \in Nat \ {0}
    PROVE  Smaller(a, b) \in Nat \ {0} /\ Smaller(a, b) <= b
BY DEF Smaller

\* Seeding a row gives it a count, and touches nothing but its units.
LEMMA SeedVchunks ==
    ASSUME NEW c \in Row, RowOK(c), c.strategy = Vchunks,
           NEW seed \in Seeds, NEW size \in Nat \ {0}
    PROVE  LET d == SeededVchunks(c, seed, size) IN
           /\ d \in Row /\ RowOK(d) /\ d.count > 0
           /\ d.active = c.active /\ d.jobs = c.jobs /\ d.blocked = c.blocked
           /\ d.range = c.range /\ d.strategy = c.strategy /\ d.size = Smaller(size, c.range)
<1> DEFINE d == SeededVchunks(c, seed, size)
           s == Smaller(size, c.range)
           n == CeilDiv(c.range, s)
<1>1. c.range \in Nat \ {0}
  BY DEF Row
<1>2. s \in Nat \ {0} /\ s <= c.range
  BY <1>1, SmallerBounds
<1>3. n \in Nat \ {0}
  BY <1>1, <1>2, CeilDivBounds
<1>4. d = [c EXCEPT !.seed = seed, !.size = s, !.count = n]
  BY DEF SeededVchunks
<1> HIDE DEF d, s, n
<1>5. /\ d \in Row /\ d.count = n /\ d.size = s
      /\ d.active = c.active /\ d.jobs = c.jobs /\ d.blocked = c.blocked
      /\ d.range = c.range /\ d.strategy = c.strategy
  BY <1>2, <1>3, <1>4 DEF Row
<1>6. RowOK(d)
  BY <1>2, <1>3, <1>5 DEF RowOK, n
<1> QED
  BY <1>3, <1>5, <1>6 DEF d, s

LEMMA SeedSectors ==
    ASSUME NEW c \in Row, RowOK(c), c.strategy = Legacy
    PROVE  LET d == SeededSectors(c) IN
           /\ d \in Row /\ RowOK(d) /\ d.count > 0
           /\ d.active = c.active /\ d.jobs = c.jobs /\ d.blocked = c.blocked
           /\ d.seed = c.seed /\ d.size = c.size
BY DEF SeededSectors, Row, RowOK, Vchunks, Legacy

LEMMA DefaultSizes ==
    ASSUME NEW range \in Nat \ {0}
    PROVE  ChooseDefaultSize(range) \in Nat \ {0} /\ ChooseDefaultSize(range) <= range
BY RegistryAssumption, SmallerBounds DEF ChooseDefaultSize

\* A row with virtual chunks is known by the size it has.
LEMMA KnownSizes ==
    ASSUME NEW c \in Row, RowOK(c), c.strategy = Vchunks
    PROVE  KnownSize(c) = c.size /\ c.size \in Nat \ {0}
BY DEF KnownSize, Smaller, RowOK, Row

\* ensureAllocatorForPuzzle seeds the row, leaves alone what jobs depend on, and
\* touches blocked ranges only under the reseed option.
LEMMA EnsuredRow ==
    ASSUME NEW c \in Row, RowOK(c)
    PROVE  /\ Ensured(c) \in Row /\ RowOK(Ensured(c))
           /\ Ensured(c).count > 0
           /\ Ensured(c).active = c.active
           /\ RowMove(c, Ensured(c))
<1>0. c.strategy \in {Vchunks, Legacy} /\ Vchunks # Legacy /\ c.count \in Nat
  BY DEF Row, Vchunks, Legacy
<1>1. CASE c.strategy = Legacy
  <2>1. CASE c.count = 0
    <3>1. Ensured(c) = SeededSectors(c)
      BY <1>0, <1>1, <2>1 DEF Ensured
    <3> QED
      BY <1>0, <1>1, <2>1, <3>1, SeedSectors DEF RowMove, RowKeeps, RowOK
  <2>2. CASE c.count # 0
    <3>1. Ensured(c) = c
      BY <1>0, <1>1, <2>2 DEF Ensured
    <3> QED
      BY <1>0, <2>2, <3>1 DEF RowMove, RowKeeps
  <2> QED
    BY <2>1, <2>2
<1>2. CASE c.strategy = Vchunks
  <2>1. KnownSize(c) = c.size /\ c.size \in Nat \ {0} /\ c.size <= c.range
    BY <1>2, KnownSizes DEF RowOK
  <2>2. RowAutoSeed(c) \in Seeds /\ c.range \in Nat \ {0}
    BY DEF RowAutoSeed, Seeds, Row
  <2>3. CASE NeverSeeded(c)
    <3>1. c.count = 0
      BY <1>2, <2>1, <2>3 DEF NeverSeeded, RowOK
    <3>2. Ensured(c) = SeededVchunks(c, RowAutoSeed(c), c.size)
      BY <1>0, <1>2, <2>1, <2>3 DEF Ensured
    <3>3. Smaller(c.size, c.range) = c.size
      BY <2>1 DEF Smaller
    <3> QED
      BY <1>2, <2>1, <2>2, <3>1, <3>2, <3>3, SeedVchunks DEF RowMove, RowKeeps, RowOK
  <2>4. CASE ~NeverSeeded(c) /\ WrongDefault(c)
    <3>1. Ensured(c) = SeededVchunks(c, RowAutoSeed(c), ChooseDefaultSize(c.range))
      BY <1>0, <1>2, <2>4 DEF Ensured
    <3>2. config.reseed /\ ~c.jobs
      BY <2>4 DEF WrongDefault
    <3> QED
      BY <1>2, <2>2, <3>1, <3>2, SeedVchunks, DefaultSizes DEF RowMove, RowKeeps
  <2>5. CASE ~NeverSeeded(c) /\ ~WrongDefault(c)
    <3>1. Ensured(c) = c
      BY <1>0, <1>2, <2>5 DEF Ensured
    <3>2. c.count > 0
      BY <2>1, <2>2, <2>5, CeilDivBounds DEF NeverSeeded
    <3> QED
      BY <3>1, <3>2 DEF RowMove, RowKeeps
  <2> QED
    BY <2>3, <2>4, <2>5
<1> QED
  BY <1>0, <1>1, <1>2

LEMMA ActivatedRow ==
    ASSUME NEW c \in Row, RowOK(c), NEW a \in BOOLEAN,
           NEW d, d = [c EXCEPT !.active = a]
    PROVE  d \in Row /\ RowOK(d) /\ d.active = a /\ RowMove(c, d)
BY DEF Row, RowOK, RowMove, RowKeeps

-----------------------------------------------------------------------------
(* Tables *)

\* An update of the rows of a table gives a table.
LEMMA UpdatedTable ==
    ASSUME NEW t, TableOK(t), NEW u, u = [i \in DOMAIN t |-> u[i]],
           \A i \in DOMAIN t : u[i] \in Row /\ RowOK(u[i]) /\ RowMove(t[i], u[i])
    PROVE  TableMove(t, u) /\ DOMAIN u = DOMAIN t
<1>1. Len(t) \in Nat /\ DOMAIN t = 1 .. Len(t)
  BY LenProperties DEF TableOK
<1>2. u \in [1 .. Len(t) -> Row]
  BY <1>1
<1>3. u \in Seq(Row)
  BY <1>1, <1>2, SeqDef
<1> QED
  BY <1>3 DEF TableMove, TableOK

LEMMA RowOf ==
    ASSUME NEW t, TableOK(t), NEW i \in DOMAIN t
    PROVE  t[i] \in Row /\ RowOK(t[i])
BY LenProperties, ElementOfSeq DEF TableOK

LEMMA SameRow == \A c : RowMove(c, c)
BY DEF RowMove, RowKeeps

LEMMA MovesCompose ==
    ASSUME NEW t, NEW u, NEW v, TableMove(t, u), TableMove(u, v)
    PROVE  TableMove(t, v)
BY DEF TableMove, RowMove, RowKeeps

LEMMA EnsuringUpTo ==
    ASSUME NEW t, TableOK(t), NEW n \in Nat
    PROVE  LET u == EnsuredUpTo(t, n) IN
           /\ TableMove(t, u) /\ DOMAIN u = DOMAIN t
           /\ ActiveOf(u) = ActiveOf(t)
           /\ \A i \in DOMAIN t : i <= n => u[i].count > 0
<1> DEFINE u == EnsuredUpTo(t, n)
<1>1. u = [i \in DOMAIN t |-> IF i <= n THEN Ensured(t[i]) ELSE t[i]]
  BY DEF EnsuredUpTo
<1> HIDE DEF u
<1>2. ASSUME NEW i \in DOMAIN t
      PROVE  /\ u[i] \in Row /\ RowOK(u[i]) /\ RowMove(t[i], u[i])
             /\ u[i].active = t[i].active
             /\ i <= n => u[i].count > 0
  BY <1>1, <1>2, RowOf, EnsuredRow, SameRow
<1>3. TableMove(t, u) /\ DOMAIN u = DOMAIN t
  BY <1>1, <1>2, UpdatedTable
<1>4. ActiveOf(u) = ActiveOf(t)
  BY <1>2, <1>3 DEF ActiveOf
<1> QED
  BY <1>2, <1>3, <1>4 DEF u

LEMMA EnsuringAt ==
    ASSUME NEW t, TableOK(t), NEW n \in DOMAIN t
    PROVE  LET u == EnsuredAt(t, n) IN
           /\ TableMove(t, u) /\ DOMAIN u = DOMAIN t
           /\ ActiveOf(u) = ActiveOf(t)
           /\ u[n].count > 0
<1> DEFINE u == EnsuredAt(t, n)
<1>1. u = [i \in DOMAIN t |-> IF i = n THEN Ensured(t[n]) ELSE t[i]]
  BY DEF EnsuredAt
<1> HIDE DEF u
<1>2. ASSUME NEW i \in DOMAIN t
      PROVE  /\ u[i] \in Row /\ RowOK(u[i]) /\ RowMove(t[i], u[i])
             /\ u[i].active = t[i].active
             /\ i = n => u[i].count > 0
  BY <1>1, <1>2, RowOf, EnsuredRow, SameRow
<1>3. TableMove(t, u) /\ DOMAIN u = DOMAIN t
  BY <1>1, <1>2, UpdatedTable
<1>4. ActiveOf(u) = ActiveOf(t)
  BY <1>2, <1>3 DEF ActiveOf
<1> QED
  BY <1>2, <1>3, <1>4 DEF u

\* Which rows are active is set without touching anything else.
LEMMA SettingActive ==
    ASSUME NEW t, TableOK(t), NEW a \in [DOMAIN t -> BOOLEAN],
           NEW u, u = [i \in DOMAIN t |-> [t[i] EXCEPT !.active = a[i]]]
    PROVE  /\ TableMove(t, u) /\ DOMAIN u = DOMAIN t
           /\ ActiveOf(u) = {i \in DOMAIN t : a[i]}
<1>1. ASSUME NEW i \in DOMAIN t
      PROVE  /\ u[i] \in Row /\ RowOK(u[i]) /\ RowMove(t[i], u[i])
             /\ u[i].active = a[i]
  <2> DEFINE b == a[i]
  <2>1. b \in BOOLEAN /\ u[i] = [t[i] EXCEPT !.active = b]
    OBVIOUS
  <2> HIDE DEF b
  <2>2. /\ u[i] \in Row /\ RowOK(u[i]) /\ RowMove(t[i], u[i])
        /\ u[i].active = b
    <3>1. t[i] \in Row /\ RowOK(t[i])
      BY RowOf
    <3> QED
      BY <2>1, <3>1, ActivatedRow
  <2> QED
    BY <2>2 DEF b
<1>2. TableMove(t, u) /\ DOMAIN u = DOMAIN t
  BY <1>1, UpdatedTable
<1> QED
  BY <1>1, <1>2 DEF ActiveOf

LEMMA ActivatingOne ==
    ASSUME NEW t, TableOK(t), NEW n \in DOMAIN t
    PROVE  LET u == ActivatedOnly(t, n) IN
           /\ TableMove(t, u) /\ DOMAIN u = DOMAIN t
           /\ ActiveOf(u) = {n}
<1> DEFINE a == [i \in DOMAIN t |-> i = n]
           u == [i \in DOMAIN t |-> [t[i] EXCEPT !.active = a[i]]]
<1>1. a \in [DOMAIN t -> BOOLEAN] /\ {i \in DOMAIN t : a[i]} = {n}
  OBVIOUS
<1>2. ActivatedOnly(t, n) = u
  BY DEF ActivatedOnly
<1> HIDE DEF a, u
<1>3. u = [i \in DOMAIN t |-> [t[i] EXCEPT !.active = a[i]]]
  BY DEF u
<1>4. TableMove(t, u) /\ DOMAIN u = DOMAIN t /\ ActiveOf(u) = {i \in DOMAIN t : a[i]}
  <2>1. a \in [DOMAIN t -> BOOLEAN]
    BY <1>1
  <2> QED
    BY <2>1, <1>3, SettingActive, SMTT(30)
<1> QED
  BY <1>1, <1>2, <1>4

LEMMA ActivatingNone ==
    ASSUME NEW t, TableOK(t)
    PROVE  LET u == Inactive(t) IN
           /\ TableMove(t, u) /\ DOMAIN u = DOMAIN t
           /\ ActiveOf(u) = {}
<1> DEFINE a == [i \in DOMAIN t |-> FALSE]
           u == [i \in DOMAIN t |-> [t[i] EXCEPT !.active = a[i]]]
<1>1. a \in [DOMAIN t -> BOOLEAN] /\ {i \in DOMAIN t : a[i]} = {}
  OBVIOUS
<1>2. Inactive(t) = u
  BY DEF Inactive
<1> HIDE DEF a, u
<1>3. u = [i \in DOMAIN t |-> [t[i] EXCEPT !.active = a[i]]]
  BY DEF u
<1>4. TableMove(t, u) /\ DOMAIN u = DOMAIN t /\ ActiveOf(u) = {i \in DOMAIN t : a[i]}
  <2>1. a \in [DOMAIN t -> BOOLEAN]
    BY <1>1
  <2> QED
    BY <2>1, <1>3, SettingActive, SMTT(30)
<1> QED
  BY <1>1, <1>2, <1>4

LEMMA Appending ==
    ASSUME NEW t, TableOK(t), NEW c \in Row, RowOK(c)
    PROVE  LET u == Append(t, c) IN
           /\ TableMove(t, u)
           /\ DOMAIN u = DOMAIN t \cup {Len(t) + 1}
           /\ Len(t) + 1 \notin DOMAIN t
           /\ u[Len(t) + 1] = c
           /\ \A i \in DOMAIN t : u[i] = t[i]
           /\ ActiveOf(u) = ActiveOf(t) \cup (IF c.active THEN {Len(t) + 1} ELSE {})
<1> DEFINE u == Append(t, c)
           n == Len(t) + 1
<1>1. /\ Len(t) \in Nat /\ DOMAIN t = 1 .. Len(t)
      /\ t \in Seq(Row)
  BY LenProperties DEF TableOK
<1>2. /\ u \in Seq(Row) /\ Len(u) = n
      /\ u[n] = c
      /\ \A i \in 1 .. Len(t) : u[i] = t[i]
  BY <1>1, AppendProperties
<1> HIDE DEF u
<1>3. DOMAIN u = 1 .. n
  BY <1>2, LenProperties
<1>4. DOMAIN u = DOMAIN t \cup {n} /\ n \notin DOMAIN t
  BY <1>1, <1>3
<1>5. TableMove(t, u)
  BY <1>1, <1>2, <1>4, SameRow DEF TableMove, TableOK
<1>6. ActiveOf(u) = ActiveOf(t) \cup (IF c.active THEN {n} ELSE {})
  BY <1>1, <1>2, <1>4 DEF ActiveOf
<1> QED
  BY <1>1, <1>2, <1>4, <1>5, <1>6 DEF u

-----------------------------------------------------------------------------
(* The steps of the registry *)

\* What an action starts from.
LEMMA Before ==
    ASSUME RegistryInv
    PROVE  /\ TableOK(puzzles) /\ AtMostOne(puzzles) /\ config \in Configs
           /\ TableMove(puzzles, puzzles)
           /\ DOMAIN puzzles = 1 .. Len(puzzles) /\ Len(puzzles) \in Nat
           /\ Ids = DOMAIN puzzles /\ ActiveIds = ActiveOf(puzzles)
BY LenProperties, SameRow
   DEF RegistryInv, TableMove, TableOK, Ids, ActiveIds, ActiveOf

\* One puzzle is activated and ensured, or the server dies in between.
LEMMA ActivatingStep ==
    ASSUME RegistryInv, server = "up", NEW i \in Ids,
           CommitThenEnsure(ActivatedOnly(puzzles, i), i), UNCHANGED config
    PROVE  GoodStep
<1> DEFINE t == ActivatedOnly(puzzles, i)
           u == EnsuredAt(t, i)
<1>1. TableMove(puzzles, t) /\ DOMAIN t = DOMAIN puzzles /\ ActiveOf(t) = {i}
  BY Before, ActivatingOne
<1>2. TableOK(t)
  BY <1>1 DEF TableMove
<1> HIDE DEF t
<1>3. TableMove(t, u) /\ DOMAIN u = DOMAIN t /\ ActiveOf(u) = {i}
  BY <1>1, <1>2, Before, EnsuringAt
<1> HIDE DEF u
<1>4. TableMove(puzzles, u)
  BY <1>1, <1>3, MovesCompose
<1>5. \A j \in DOMAIN u : u[j].count > 0
  BY <1>1, <1>3, <1>4 DEF RegistryInv, Ready, TableMove, RowMove, RowKeeps
<1>6. CASE puzzles' = u /\ UNCHANGED server
  BY <1>3, <1>4, <1>5, <1>6, Before DEF GoodStep, AtMostOne, Ready
<1>7. CASE puzzles' = t /\ server' = "down"
  BY <1>1, <1>7, Before DEF GoodStep, AtMostOne
<1> QED
  BY <1>6, <1>7 DEF CommitThenEnsure, t, u

\* A request's row is sound before it is seeded.
LEMMA RequestedRow ==
    ASSUME NEW req \in Requests
    PROVE  LET c == NewPuzzle(req.name, req.range, req.strategy, SeedOf(req),
                              SizeOf(req), TRUE) IN
           c \in Row /\ RowOK(c) /\ c.active
<1>1. /\ req.range \in Nat \ {0} /\ req.size \in Nat
      /\ req.strategy \in {Vchunks, Legacy}
  BY InputsAssumption
<1>2. SizeOf(req) \in Nat
  BY <1>1, SmallerBounds, DefaultSizes DEF SizeOf
<1>3. req.strategy = Vchunks => SizeOf(req) > 0 /\ SizeOf(req) <= req.range
  BY <1>1, SmallerBounds, DefaultSizes DEF SizeOf, Vchunks, Legacy
<1>4. req.name \in Names
  BY DEF Names
<1>5. SeedOf(req) \in Seeds
  <2>1. CASE req.seed = ""
    <3>1. SeedOf(req) = AutoSeed(req.name, req.range, req.strategy)
      BY <2>1 DEF SeedOf
    <3> QED
      BY <1>1, <1>4, <3>1 DEF Seeds
  <2>2. CASE req.seed # ""
    <3>1. SeedOf(req) = <<req.seed>>
      BY <2>2 DEF SeedOf
    <3> QED
      BY <3>1 DEF Seeds
  <2> QED
    BY <2>1, <2>2
<1> QED
  BY <1>1, <1>2, <1>3, <1>4, <1>5 DEF NewPuzzle, Row, RowOK

\* So is a row the start inserts.
LEMMA StartedRow ==
    ASSUME NEW keyspace, keyspace.name \in Names, keyspace.range \in Nat \ {0},
           NEW active \in BOOLEAN
    PROVE  LET c == SeedRow(keyspace, active) IN
           c \in Row /\ RowOK(c) /\ c.active = active
<1> DEFINE size == IF Strategy = Vchunks THEN ChooseDefaultSize(keyspace.range) ELSE 0
           seed == AutoSeed(keyspace.name, keyspace.range, Strategy)
<1>1. Strategy \in {Vchunks, Legacy} /\ Vchunks # Legacy
  BY RegistryAssumption DEF Vchunks, Legacy
<1>2. size \in Nat /\ (Strategy = Vchunks => size > 0 /\ size <= keyspace.range)
  BY DefaultSizes
<1>3. seed \in Seeds
  BY <1>1 DEF Seeds
<1>4. SeedRow(keyspace, active) =
        NewPuzzle(keyspace.name, keyspace.range, Strategy, seed, size, active)
  BY DEF SeedRow
<1> HIDE DEF size, seed
<1> QED
  BY <1>1, <1>2, <1>3, <1>4 DEF NewPuzzle, Row, RowOK

LEMMA SeededRow ==
    ASSUME NEW c \in Row, RowOK(c)
    PROVE  /\ Seeded(c) \in Row /\ RowOK(Seeded(c))
           /\ Seeded(c).count > 0 /\ Seeded(c).active = c.active
<1>1. c.strategy \in {Vchunks, Legacy} /\ c.seed \in Seeds /\ c.size \in Nat
  BY DEF Row
<1>2. c.strategy = Vchunks => c.size \in Nat \ {0}
  BY <1>1 DEF RowOK
<1> QED
  BY <1>1, <1>2, SeedVchunks, SeedSectors DEF Seeded

LEMMA InsertStep ==
    ASSUME RegistryInv, NEW req \in Requests, Insert(req)
    PROVE  GoodStep
<1> DEFINE t == Inactive(puzzles)
           c == NewPuzzle(req.name, req.range, req.strategy, SeedOf(req),
                          SizeOf(req), TRUE)
           n == Len(puzzles) + 1
           u == Append(t, c)
           v == Append(t, Seeded(c))
<1>1. c \in Row /\ RowOK(c) /\ c.active
  BY RequestedRow
<1> HIDE DEF c
<1>2. /\ Seeded(c) \in Row /\ RowOK(Seeded(c))
      /\ Seeded(c).count > 0 /\ Seeded(c).active
  BY <1>1, SeededRow
<1>3. TableMove(puzzles, t) /\ DOMAIN t = DOMAIN puzzles /\ ActiveOf(t) = {}
  BY Before, ActivatingNone
<1> HIDE DEF t
<1>4. TableOK(t) /\ Len(t) = Len(puzzles)
  BY <1>3, Before, LenProperties DEF TableMove, TableOK
<1>5. /\ TableMove(t, u) /\ ActiveOf(u) = {n}
  BY <1>1, <1>3, <1>4, Appending
<1>6. /\ TableMove(t, v) /\ ActiveOf(v) = {n}
      /\ v[n] = Seeded(c) /\ DOMAIN v = DOMAIN t \cup {n}
  BY <1>2, <1>3, <1>4, Appending
<1>7. [u EXCEPT ![n] = Seeded(@)] = v
  <2>1. /\ t \in Seq(Row) /\ Len(t) \in Nat /\ n = Len(t) + 1
        /\ Len(u) = n /\ Len(v) = n /\ u \in Seq(Row) /\ v \in Seq(Row)
        /\ u[n] = c /\ v[n] = Seeded(c)
        /\ \A j \in 1 .. Len(t) : u[j] = t[j] /\ v[j] = t[j]
    BY <1>1, <1>2, <1>4, AppendProperties, LenProperties DEF TableOK
  <2> HIDE DEF u, v
  <2>2. /\ u \in [1 .. n -> Row] /\ v \in [1 .. n -> Row]
    BY <2>1, LenProperties
  <2>3. \A j \in 1 .. n : j # n => j \in 1 .. Len(t)
    BY <2>1
  <2>4. \A j \in 1 .. n : [u EXCEPT ![n] = Seeded(u[n])][j] = v[j]
    BY <2>1, <2>2, <2>3
  <2>5. \A j \in 1 .. n : [u EXCEPT ![n] = Seeded(u[n])][j] \in Row
    BY <2>2, <2>4
  <2> QED
    BY <2>2, <2>4, <2>5
<1> HIDE DEF u, v
<1>8. server = "up" /\ config' = config
  BY DEF Insert
<1>9. CASE puzzles' = u /\ server' = "down"
  <2>1. TableMove(puzzles, u)
    BY <1>3, <1>5, MovesCompose
  <2> QED
    BY <1>5, <1>8, <1>9, <2>1, Before DEF GoodStep, AtMostOne
<1>10. CASE puzzles' = v /\ UNCHANGED server
  <2>1. TableMove(puzzles, v)
    BY <1>3, <1>6, MovesCompose
  <2>2. \A j \in DOMAIN v : v[j].count > 0
    BY <1>2, <1>3, <1>6, <1>8, <2>1 DEF RegistryInv, Ready, TableMove, RowMove, RowKeeps
  <2> QED
    BY <1>6, <1>8, <1>10, <2>1, <2>2, Before DEF GoodStep, AtMostOne, Ready
<1>11. Inserted(req) = u
  BY DEF Inserted, u, t, c
<1> QED
  BY <1>7, <1>9, <1>10, <1>11 DEF Insert, n

\* /work gives jobs only to a puzzle that it ensured.
LEMMA WorkStep ==
    ASSUME RegistryInv, NEW i \in Ids, Work(i)
    PROVE  GoodStep
<1> DEFINE t == EnsuredAt(puzzles, i)
<1>1. PICK found \in BOOLEAN : puzzles' = [t EXCEPT ![i].jobs = @ \/ found]
  BY DEF Work
<1>2. server = "up" /\ server' = server /\ config' = config
  BY DEF Work
<1>3. /\ TableMove(puzzles, t) /\ DOMAIN t = DOMAIN puzzles
      /\ ActiveOf(t) = ActiveOf(puzzles) /\ t[i].count > 0
  BY Before, EnsuringAt
<1> HIDE DEF t
<1> DEFINE jobs == t[i].jobs \/ found
<1>4. TableOK(t)
  BY <1>3 DEF TableMove
<1>5. t[i] \in Row /\ RowOK(t[i]) /\ jobs \in BOOLEAN /\ (t[i].jobs => jobs)
  BY <1>3, <1>4, Before, RowOf DEF Row
<1>6. puzzles' = [j \in DOMAIN t |->
                    IF j = i THEN [t[i] EXCEPT !.jobs = jobs] ELSE t[j]]
  BY <1>1, <1>3, <1>4, LenProperties, Before DEF TableOK
<1> HIDE DEF jobs
<1>7. LET d == [t[i] EXCEPT !.jobs = jobs] IN
      d \in Row /\ RowOK(d) /\ RowMove(t[i], d) /\ d.active = t[i].active
  BY <1>3, <1>5 DEF Row, RowOK, RowMove, RowKeeps
<1>8. \A j \in DOMAIN t : /\ puzzles'[j] \in Row /\ RowOK(puzzles'[j])
                          /\ RowMove(t[j], puzzles'[j])
                          /\ puzzles'[j].active = t[j].active
  BY <1>4, <1>6, <1>7, RowOf, SameRow
<1>9. TableMove(t, puzzles') /\ DOMAIN puzzles' = DOMAIN t
  BY <1>4, <1>6, <1>8, UpdatedTable
<1>10. ActiveOf(puzzles') = ActiveOf(puzzles)
  BY <1>3, <1>8, <1>9 DEF ActiveOf
<1>11. TableMove(puzzles, puzzles')
  BY <1>3, <1>9, MovesCompose
<1>12. Ready(puzzles')
  BY <1>2, <1>3, <1>9, <1>10, <1>11 DEF RegistryInv, Ready, TableMove, RowMove, RowKeeps
<1> QED
  BY <1>2, <1>10, <1>11, <1>12, Before DEF GoodStep, AtMostOne

LEMMA ImportStep ==
    ASSUME RegistryInv, NEW i \in Ids, ImportRanges(i)
    PROVE  GoodStep
<1>1. /\ server = "up" /\ server' = server /\ config' = config
      /\ puzzles[i].count > 0 /\ TableOK(puzzles) /\ i \in DOMAIN puzzles
  BY Before DEF ImportRanges
<1>2. puzzles[i] \in Row /\ RowOK(puzzles[i])
  BY <1>1, RowOf
<1>3. puzzles' = [j \in DOMAIN puzzles |->
                    IF j = i THEN [puzzles[i] EXCEPT !.blocked = TRUE] ELSE puzzles[j]]
  BY <1>1, LenProperties DEF ImportRanges, TableOK
<1>4. LET d == [puzzles[i] EXCEPT !.blocked = TRUE] IN
      d \in Row /\ RowOK(d) /\ RowMove(puzzles[i], d) /\ d.active = puzzles[i].active
  BY <1>1, <1>2 DEF Row, RowOK, RowMove, RowKeeps
<1>5. \A j \in DOMAIN puzzles : /\ puzzles'[j] \in Row /\ RowOK(puzzles'[j])
                                /\ RowMove(puzzles[j], puzzles'[j])
                                /\ puzzles'[j].active = puzzles[j].active
  BY <1>1, <1>3, <1>4, RowOf, SameRow
<1>6. TableMove(puzzles, puzzles') /\ DOMAIN puzzles' = DOMAIN puzzles
  BY <1>1, <1>3, <1>5, UpdatedTable
<1>7. ActiveOf(puzzles') = ActiveOf(puzzles)
  BY <1>5, <1>6 DEF ActiveOf
<1>8. Ready(puzzles')
  BY <1>1, <1>6, <1>7 DEF RegistryInv, Ready, TableMove, RowMove, RowKeeps
<1> QED
  BY <1>1, <1>6, <1>7, <1>8, Before DEF GoodStep, AtMostOne

\* A configured keyspace, which is never active, or the fallback in an empty table.
LEMMA SeedingStep ==
    ASSUME RegistryInv, server = "starting", NEW c \in Row, RowOK(c),
           c.active => puzzles = <<>>, AddSeeded(c), UNCHANGED config
    PROVE  GoodStep
<1>1. /\ Seeded(c) \in Row /\ RowOK(Seeded(c)) /\ Seeded(c).active = c.active
  BY SeededRow
<1>2. PICK d \in {c, Seeded(c)} : /\ puzzles' = Append(puzzles, d)
                                  /\ server' \in {"starting", "down"}
  BY DEF AddSeeded
<1>3. d \in Row /\ RowOK(d) /\ d.active = c.active
  BY <1>1
<1>4. /\ TableMove(puzzles, puzzles')
      /\ ActiveOf(puzzles') =
            ActiveOf(puzzles) \cup (IF d.active THEN {Len(puzzles) + 1} ELSE {})
  BY <1>2, <1>3, Before, Appending
<1>5. d.active => ActiveOf(puzzles) = {}
  BY <1>3 DEF ActiveOf
<1> QED
  BY <1>2, <1>4, <1>5, Before DEF GoodStep, AtMostOne

LEMMA SeedKeyspaceStep ==
    ASSUME RegistryInv, NEW k \in DOMAIN config.keyspaces, SeedKeyspace(k)
    PROVE  GoodStep
<1> DEFINE keyspace == config.keyspaces[k]
<1>1. keyspace.range \in Nat \ {0} /\ keyspace.name \in Names
  BY InputsAssumption, Before DEF Names
<1>2. LET c == SeedRow(keyspace, FALSE) IN c \in Row /\ RowOK(c) /\ c.active = FALSE
  BY <1>1, StartedRow
<1> QED
  BY <1>2, SeedingStep DEF SeedKeyspace

LEMMA SeedFallbackStep ==
    ASSUME RegistryInv, SeedFallback
    PROVE  GoodStep
<1>1. Fallback.range \in Nat \ {0} /\ Fallback.name \in Names
  BY InputsAssumption DEF Names
<1>2. LET c == SeedRow(Fallback, TRUE) IN c \in Row /\ RowOK(c) /\ c.active = TRUE
  BY <1>1, StartedRow
<1> QED
  BY <1>2, SeedingStep DEF SeedFallback

\* The repair activates a puzzle only when there is none.
LEMMA Repairing ==
    ASSUME RegistryInv, puzzles # <<>>
    PROVE  /\ TableMove(puzzles, Repaired) /\ DOMAIN Repaired = DOMAIN puzzles
           /\ AtMostOne(Repaired) /\ ActiveOf(Repaired) # {}
           /\ ActiveOf(puzzles) # {} => ActiveOf(Repaired) = ActiveOf(puzzles)
<1> DEFINE a == [i \in DOMAIN puzzles |->
                    IF ActiveIds = {} THEN i = 1
                    ELSE i \in ActiveIds /\ \A j \in ActiveIds : j <= i]
           u == [i \in DOMAIN puzzles |-> [puzzles[i] EXCEPT !.active = a[i]]]
           S == {i \in DOMAIN puzzles : a[i]}
<1>1. a \in [DOMAIN puzzles -> BOOLEAN]
  OBVIOUS
<1>2. Repaired = u
  BY Before DEF Repaired
<1>3. 1 \in DOMAIN puzzles /\ DOMAIN puzzles \subseteq Nat
  BY Before, EmptySeq DEF TableOK
<1>4. \A i \in DOMAIN puzzles :
        a[i] <=> IF ActiveIds = {} THEN i = 1
                 ELSE i \in ActiveIds /\ \A j \in ActiveIds : j <= i
  OBVIOUS
<1> HIDE DEF a, u
<1>5. /\ TableMove(puzzles, Repaired) /\ DOMAIN Repaired = DOMAIN puzzles
      /\ ActiveOf(Repaired) = S
  <2>1. u = [i \in DOMAIN puzzles |-> [puzzles[i] EXCEPT !.active = a[i]]]
    BY DEF u
  <2>2. TableOK(puzzles)
    BY Before
  <2>3. TableMove(puzzles, u) /\ DOMAIN u = DOMAIN puzzles /\ ActiveOf(u) = S
    BY <1>1, <2>1, <2>2, SettingActive
  <2> QED
    BY <1>2, <2>3
<1>6. CASE ActiveIds = {}
  <2>1. S = {1}
    BY <1>3, <1>4, <1>6
  <2> HIDE DEF S
  <2> QED
    BY <1>5, <1>6, <2>1, Before DEF AtMostOne
<1>7. CASE ActiveIds # {}
  <2>1. PICK n \in DOMAIN puzzles : ActiveIds = {n}
    <3>1. PICK n \in ActiveIds : TRUE
      BY <1>7
    <3>2. ActiveIds = {n} /\ n \in DOMAIN puzzles
      BY <3>1, Before DEF AtMostOne, ActiveOf
    <3> QED
      BY <3>2
  <2>2. \A i \in DOMAIN puzzles : a[i] <=> i = n
    BY <1>3, <1>4, <2>1
  <2>3. S = {n}
    BY <2>1, <2>2
  <2> HIDE DEF S
  <2> QED
    BY <1>5, <2>1, <2>3, Before DEF AtMostOne
<1> QED
  BY <1>6, <1>7

LEMMA FinishStartStep ==
    ASSUME RegistryInv, FinishStart
    PROVE  GoodStep
<1>1. PICK n \in Nat : /\ puzzles' = EnsuredUpTo(Repaired, n)
                       /\ \/ n = Len(puzzles) /\ server' = "up"
                          \/ server' = "down"
  <2>1. CASE puzzles' = EnsuredUpTo(Repaired, Len(puzzles)) /\ server' = "up"
    BY <2>1, Before
  <2>2. CASE /\ \E n \in 0 .. Len(puzzles) : puzzles' = EnsuredUpTo(Repaired, n)
             /\ server' = "down"
    BY <2>2, Before
  <2> QED
    BY <2>1, <2>2 DEF FinishStart
<1>2. puzzles # <<>> /\ config' = config
  BY DEF FinishStart
<1>3. /\ TableMove(puzzles, Repaired) /\ DOMAIN Repaired = DOMAIN puzzles
      /\ AtMostOne(Repaired) /\ ActiveOf(Repaired) # {}
      /\ ActiveOf(puzzles) # {} => ActiveOf(Repaired) = ActiveOf(puzzles)
  BY <1>2, Repairing
<1>4. /\ TableMove(Repaired, puzzles') /\ DOMAIN puzzles' = DOMAIN Repaired
      /\ ActiveOf(puzzles') = ActiveOf(Repaired)
      /\ \A i \in DOMAIN Repaired : i <= n => puzzles'[i].count > 0
  BY <1>1, <1>3, EnsuringUpTo DEF TableMove
<1>5. TableMove(puzzles, puzzles')
  BY <1>3, <1>4, MovesCompose
<1>6. n = Len(puzzles) => Ready(puzzles')
  BY <1>3, <1>4, Before DEF Ready
<1> QED
  BY <1>1, <1>2, <1>3, <1>4, <1>5, <1>6, Before DEF GoodStep, AtMostOne

\* The jobs a start marks as tests are jobs no more; nothing else changes in the table.
LEMMA StartStep ==
    ASSUME RegistryInv, Start
    PROVE  AnyStep
<1>1. PICK tested \in SUBSET Ids :
        puzzles' = [i \in Ids |-> [puzzles[i] EXCEPT !.jobs = @ /\ i \notin tested]]
  BY DEF Start, MarkTests
<1> DEFINE d(i) == [puzzles[i] EXCEPT !.jobs = puzzles[i].jobs /\ i \notin tested]
<1>2. puzzles' = [i \in DOMAIN puzzles |-> d(i)]
  BY <1>1, Before
<1>3. ASSUME NEW i \in DOMAIN puzzles
      PROVE  /\ d(i) \in Row /\ RowOK(d(i)) /\ d(i).active = puzzles[i].active
             /\ RowKeeps(puzzles[i], d(i))
  <2>1. puzzles[i] \in Row /\ RowOK(puzzles[i])
    BY <1>3, Before, RowOf
  <2>2. (puzzles[i].jobs /\ i \notin tested) \in BOOLEAN
    OBVIOUS
  <2> QED
    BY <2>1, <2>2 DEF Row, RowOK, RowKeeps
<1> HIDE DEF d
<1>4. puzzles' \in Seq(Row) /\ DOMAIN puzzles' = DOMAIN puzzles
  <2>1. puzzles' \in [1 .. Len(puzzles) -> Row]
    BY <1>2, <1>3, Before
  <2> QED
    BY <1>2, <2>1, Before, SeqDef
<1>5. \A i \in DOMAIN puzzles : puzzles'[i] = d(i)
  BY <1>2
<1>6. TableOK(puzzles')
  BY <1>3, <1>4, <1>5 DEF TableOK
<1>7. ActiveOf(puzzles') = ActiveOf(puzzles)
  BY <1>3, <1>4, <1>5 DEF ActiveOf
<1> QED
  BY <1>3, <1>4, <1>5, <1>6, <1>7 DEF AnyStep

LEMMA EveryStep ==
    ASSUME RegistryInv, RegistryNext
    PROVE  AnyStep
<1>1. ASSUME NEW req \in Requests, Reuse(req)
      PROVE  GoodStep
  <2>1. PICK i \in Ids : CommitThenEnsure(ActivatedOnly(puzzles, i), i)
    BY <1>1 DEF Reuse
  <2> QED
    BY <1>1, <2>1, ActivatingStep DEF Reuse
<1>2. ASSUME NEW i \in Ids, Activate(i)
      PROVE  GoodStep
  BY <1>2, ActivatingStep DEF Activate
<1>3. CASE Die
  BY <1>3, Before DEF Die, GoodStep, AnyStep
<1>4. CASE GoodStep
  BY <1>4 DEF AnyStep
<1> QED
  BY <1>1, <1>2, <1>3, <1>4, InsertStep, WorkStep, ImportStep, SeedKeyspaceStep,
     SeedFallbackStep, FinishStartStep, StartStep DEF RegistryNext

-----------------------------------------------------------------------------
(* The theorems *)

\* Rows keep their types; a row is unseeded or seeded for its own range and size, and
\* has neither jobs nor blocked ranges before; at most one puzzle is ever active, also
\* in what a dying server leaves (service_admin.cpp, service_bootstrap.cpp).
THEOREM RegistryInvariant == RegistrySpec => []RegistryInv
<1>1. RegistryInit => RegistryInv
  BY EmptySeq DEF RegistryInit, RegistryInv, TableOK, AtMostOne, ActiveOf
<1>2. RegistryInv /\ [RegistryNext]_registryVars => RegistryInv'
  <2> SUFFICES ASSUME RegistryInv, [RegistryNext]_registryVars
               PROVE  RegistryInv'
    OBVIOUS
  <2>1. CASE RegistryNext
    <3>1. CASE GoodStep
      BY <3>1 DEF GoodStep, TableMove, RegistryInv, TableOK, AtMostOne, ActiveOf,
                  Ready, RowOK
    <3>2. CASE /\ Start /\ TableOK(puzzles')
               /\ ActiveOf(puzzles') = ActiveOf(puzzles)
      BY <3>2 DEF Start, RegistryInv, AtMostOne, TableOK, RowOK, ActiveOf
    <3> QED
      BY <2>1, <3>1, <3>2, EveryStep DEF AnyStep
  <2>2. CASE UNCHANGED registryVars
    BY <2>2 DEF registryVars, RegistryInv, TableOK, AtMostOne, ActiveOf, Ready, RowOK
  <2> QED
    BY <2>1, <2>2
<1> QED
  BY <1>1, <1>2, PTL DEF RegistrySpec

\* While requests are answered exactly one puzzle is active, wherever a set-puzzle,
\* an activation or a start died before.
THEOREM OneActiveCorrect == RegistrySpec => []OneActive
<1>1. RegistryInv => OneActive
  <2> SUFFICES ASSUME RegistryInv, server = "up"
               PROVE  \E i \in Ids : ActiveIds = {i}
    BY DEF OneActive
  <2>1. ActiveIds # {} /\ ActiveIds \subseteq Ids /\ \A i, j \in ActiveIds : i = j
    BY Before DEF RegistryInv, Ready, AtMostOne, ActiveIds
  <2> QED
    BY <2>1
<1> QED
  BY <1>1, RegistryInvariant, PTL

\* While requests are answered every puzzle is seeded for its own range and size.
THEOREM AllSeededCorrect == RegistrySpec => []AllSeeded
<1>1. RegistryInv => AllSeeded
  <2> SUFFICES ASSUME RegistryInv, server = "up", NEW i \in Ids
               PROVE  /\ puzzles[i].count > 0
                      /\ puzzles[i].strategy = Vchunks =>
                            /\ puzzles[i].size > 0
                            /\ puzzles[i].count =
                                  CeilDiv(puzzles[i].range, puzzles[i].size)
    BY DEF AllSeeded
  <2>1. puzzles[i].count > 0 /\ puzzles[i] \in Row /\ RowOK(puzzles[i])
    BY Before, RowOf DEF RegistryInv, Ready
  <2> QED
    BY <2>1 DEF RowOK, Row
<1> QED
  BY <1>1, RegistryInvariant, PTL

\* A start never takes the pool to another puzzle: it repairs a table without an
\* active puzzle, and no table has two.
THEOREM ActiveSurvivesStartCorrect == RegistrySpec => ActiveSurvivesStart
<1>1. RegistryInv /\ [RegistryNext]_registryVars =>
        [(server = "starting" /\ ActiveIds # {}) => ActiveIds' = ActiveIds]_registryVars
  BY EveryStep DEF AnyStep, Start, GoodStep, ActiveIds, Ids, ActiveOf
<1> QED
  BY <1>1, RegistryInvariant, PTL DEF RegistrySpec, ActiveSurvivesStart

\* A puzzle with jobs keeps its seed, its size and its count.
THEOREM JobsKeepTheirUnitsCorrect == RegistrySpec => JobsKeepTheirUnits
<1>1. RegistryInv /\ [RegistryNext]_registryVars =>
        [\A i \in Ids :
            puzzles[i].jobs =>
                /\ puzzles'[i].seed = puzzles[i].seed
                /\ puzzles'[i].size = puzzles[i].size
                /\ puzzles'[i].count = puzzles[i].count]_registryVars
  BY EveryStep DEF AnyStep, GoodStep, TableMove, RowMove, RowKeeps, Ids
<1> QED
  BY <1>1, RegistryInvariant, PTL DEF RegistrySpec, JobsKeepTheirUnits

\* Blocked ranges keep their meaning while the reseed option is off.
THEOREM BlockedKeepTheirUnitsCorrect == RegistrySpec => BlockedKeepTheirUnits
<1>1. RegistryInv /\ [RegistryNext]_registryVars =>
        [~config.reseed =>
            \A i \in Ids : puzzles[i].blocked =>
                puzzles'[i].size = puzzles[i].size]_registryVars
  BY EveryStep DEF AnyStep, GoodStep, TableMove, RowMove, RowKeeps, Ids
<1> QED
  BY <1>1, RegistryInvariant, PTL DEF RegistrySpec, BlockedKeepTheirUnits

=============================================================================

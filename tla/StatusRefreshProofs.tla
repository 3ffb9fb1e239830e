------------------------- MODULE StatusRefreshProofs -------------------------
(***************************************************************************)
(* What the safety properties of StatusRefresh rest on.                    *)
(*                                                                         *)
(* A refresh works on copies it took before; what a copy says is tied to   *)
(* the tables by facts that only get truer: findings are never deleted, a  *)
(* target changes only with a restart, which no refresh survives, and the  *)
(* history of a state only moves on.  So a result may be written late.     *)
(***************************************************************************)
EXTENDS StatusRefresh, FiniteSetTheorems, TLAPS

Notes == {"none", "failed", "unfunded", "progress"}

Row == [name : Names, target : Target \cup {NoTarget}, state : States \cup {NoTarget},
        checked : Nat \cup {NoTarget}, note : Notes]

Finding == [puzzle : Nat, worker : Workers, key : Keys]

TablesOK ==
    /\ puzzles \in Seq(Row)
    /\ findings \subseteq Finding
    /\ IsFiniteSet(findings)
    /\ chain \in [Addresses -> {"unfunded", "funded", "spent"}]
    /\ config \in [CanonicalNames -> Target \cup {NoTarget}]
    /\ server \in {"down", "starting", "serving"}
    /\ DOMAIN refresh = Refreshers
    /\ clock \in Nat

\* The history says nothing of the future, and knows the present.
HistoryOK ==
    /\ heldAt \in [DOMAIN puzzles -> [States -> Int]]
    /\ \A p \in DOMAIN puzzles, s \in States : heldAt[p][s] <= clock
    /\ server # "down" =>
          \A p \in DOMAIN puzzles : heldAt[p][Truth(p, puzzles, findings, chain, config)] = clock

HasTarget(p) == Configured(puzzles[p]) # NoTarget

ThresholdSet(p) == HasTarget(p) /\ Configured(puzzles[p]).type = "findings_threshold"

\* What a refresh has copied of row p is still its target, and its count is one the
\* findings have reached.
TargetOK(r, p) ==
    LET t == refresh[r].targets[p] IN
    /\ p \in DOMAIN puzzles
    /\ HasTarget(p)
    /\ t.target = Configured(puzzles[p])
    /\ ThresholdSet(p) =>
          /\ t.count \in Nat
          /\ t.count <= Cardinality(FoundKeys(p))
          /\ heldAt[p][evaluateFindingsThresholdStatus(t.count, t.target.value)] >= refresh[r].stamp

\* A result of row p was true when the refresh began, or later.
ResultOK(r, p) ==
    LET result == refresh[r].results[p] IN
    /\ result.state \in States
    /\ result.note \in Notes
    /\ ThresholdSet(p) /\ result.state = "solved" => Reached(p)
    /\ result.note # "failed" => heldAt[p][result.state] >= refresh[r].stamp

RefreshOK(r) ==
    /\ refresh[r].stamp \in Nat
    /\ refresh[r].stamp <= clock
    /\ DOMAIN refresh[r].results \subseteq DOMAIN refresh[r].targets
    /\ \A p \in DOMAIN refresh[r].targets : TargetOK(r, p)
    /\ \A p \in DOMAIN refresh[r].results : ResultOK(r, p)
    /\ server = "down" => refresh[r] = Idle

\* What a row must be before requests are served.
RowOK(p) ==
    /\ ~HasTarget(p) => puzzles[p] = NewRow(puzzles[p].name)
    /\ ThresholdSet(p) /\ puzzles[p].state = "solved" => Reached(p)
    /\ puzzles[p].state # NoTarget =>
          /\ puzzles[p].checked \in Nat
          /\ puzzles[p].note # "failed" => heldAt[p][puzzles[p].state] >= puzzles[p].checked

RowsOK == server = "serving" => \A p \in DOMAIN puzzles : RowOK(p)

\* The constructor's refresh, which has collected, will write every row that shows
\* something, whatever the process before left in it.
ConstructorOK ==
    (server = "starting" /\ refresh[Constructor].phase = "fetch") =>
        \A p \in DOMAIN puzzles :
            IF HasTarget(p) THEN p \in DOMAIN refresh[Constructor].targets
            ELSE puzzles[p] = NewRow(puzzles[p].name)

StatusInv ==
    /\ TablesOK
    /\ HistoryOK
    /\ \A r \in Refreshers : RefreshOK(r)
    /\ RowsOK
    /\ ConstructorOK

-----------------------------------------------------------------------------
(* What the operators return.                                              *)

\* The row of a puzzle has a name, and its configuration is a target or none.
LEMMA ConfiguredType ==
    ASSUME TablesOK, NEW p \in DOMAIN puzzles
    PROVE  /\ puzzles[p] \in Row
           /\ CanonicalName[puzzles[p].name] \in CanonicalNames
           /\ Configured(puzzles[p]) \in Target \cup {NoTarget}
<1>1. puzzles[p] \in Row
  BY DEF TablesOK
<1>2. puzzles[p].name \in Names
  BY <1>1 DEF Row
<1>3. CanonicalName[puzzles[p].name] \in CanonicalNames
  BY <1>2 DEF CanonicalNames
<1> QED BY <1>1, <1>3 DEF TablesOK, Configured

\* A target that is no address is a number of keys.
LEMMA TargetKinds ==
    ASSUME NEW t \in Target
    PROVE  \/ t.type = "address" /\ t.value \in Addresses
           \/ t.type = "findings_threshold" /\ t.value \in Nat
BY DEF Target

\* Finitely many findings name finitely many keys.
LEMMA KeysFinite ==
    ASSUME NEW S, IsFiniteSet(S)
    PROVE  IsFiniteSet({f.key : f \in S})
<1> DEFINE T == {f.key : f \in S}
           key == [f \in S |-> f.key]
<1>1. key \in [S -> T]
  OBVIOUS
<1>2. \A k \in T : \E f \in S : key[f] = k
  OBVIOUS
<1>3. key \in Surjection(S, T)
  BY <1>1, <1>2 DEF Surjection
<1> QED BY <1>3, FS_Surjection

\* The keys found for a puzzle are finitely many.
LEMMA FoundKeysFinite ==
    ASSUME TablesOK, NEW p
    PROVE  /\ FoundKeys(p) \subseteq Keys
           /\ IsFiniteSet(FoundKeys(p))
           /\ Cardinality(FoundKeys(p)) \in Nat
<1>1. IsFiniteSet({g \in findings : g.puzzle = p})
  BY FS_Subset DEF TablesOK
<1>2. IsFiniteSet(FoundKeys(p))
  BY <1>1, KeysFinite DEF FoundKeys
<1>3. FoundKeys(p) \subseteq Keys
  BY DEF FoundKeys, TablesOK, Finding
<1> QED BY <1>2, <1>3, FS_CardinalityType

\* With more findings, no fewer keys are found.
LEMMA FoundKeysGrow ==
    ASSUME TablesOK', findings \subseteq findings', NEW p
    PROVE  Cardinality(FoundKeys(p)) <= Cardinality(FoundKeys(p)')
<1>1. FoundKeys(p) \subseteq FoundKeys(p)'
  BY DEF FoundKeys
<1>2. IsFiniteSet({g \in findings' : g.puzzle = p})
  BY FS_Subset DEF TablesOK
<1>3. IsFiniteSet(FoundKeys(p)')
  BY <1>2, KeysFinite DEF FoundKeys
<1> QED BY <1>1, <1>3, FS_Subset

LEMMA EvaluatedType ==
    ASSUME NEW count, NEW threshold
    PROVE  evaluateFindingsThresholdStatus(count, threshold) \in States
<1>1. CASE threshold <= 0
  BY <1>1 DEF evaluateFindingsThresholdStatus, States
<1>2. CASE ~(threshold <= 0)
  BY <1>2 DEF evaluateFindingsThresholdStatus, States
<1> QED BY <1>1, <1>2

\* The count a refresh takes says what is true of a puzzle with a threshold.
LEMMA TruthOfThreshold ==
    ASSUME TablesOK, NEW p \in DOMAIN puzzles, ThresholdSet(p)
    PROVE  /\ DistinctFoundKeys(p) = Cardinality(FoundKeys(p))
           /\ Truth(p, puzzles, findings, chain, config)
                = evaluateFindingsThresholdStatus(DistinctFoundKeys(p), Configured(puzzles[p]).value)
<1> DEFINE n == Configured(puzzles[p]).value
<1>1. n \in Nat
  BY ConfiguredType, TargetKinds DEF ThresholdSet, HasTarget
<1>2. DistinctFoundKeys(p) = Cardinality(FoundKeys(p))
  BY DEF DistinctFoundKeys, FoundKeys
<1>3. (\E ks \in SUBSET Keys :
           /\ Cardinality(ks) >= n
           /\ \A k \in ks : \E f \in findings : f.puzzle = p /\ f.key = k)
      <=> Cardinality(FoundKeys(p)) >= n
  <2>1. ASSUME NEW ks \in SUBSET Keys, Cardinality(ks) >= n,
               \A k \in ks : \E f \in findings : f.puzzle = p /\ f.key = k
        PROVE  Cardinality(FoundKeys(p)) >= n
    <3>1. ks \subseteq FoundKeys(p)
      BY <2>1 DEF FoundKeys
    <3>2. IsFiniteSet(ks) /\ Cardinality(ks) <= Cardinality(FoundKeys(p))
      BY <3>1, FoundKeysFinite, FS_Subset
    <3>3. Cardinality(ks) \in Nat /\ Cardinality(FoundKeys(p)) \in Nat
      BY <3>2, FoundKeysFinite, FS_CardinalityType
    <3> QED BY <1>1, <2>1, <3>2, <3>3
  <2>2. ASSUME Cardinality(FoundKeys(p)) >= n
        PROVE  \E ks \in SUBSET Keys :
                  /\ Cardinality(ks) >= n
                  /\ \A k \in ks : \E f \in findings : f.puzzle = p /\ f.key = k
    <3>1. \A k \in FoundKeys(p) : \E f \in findings : f.puzzle = p /\ f.key = k
      BY DEF FoundKeys
    <3>2. FoundKeys(p) \in SUBSET Keys
      BY FoundKeysFinite
    <3> QED BY <2>2, <3>1, <3>2
  <2> QED BY <2>1, <2>2
<1>4. Truth(p, puzzles, findings, chain, config)
        = IF n = 0 THEN "unknown"
          ELSE IF Cardinality(FoundKeys(p)) >= n THEN "solved" ELSE "unsolved"
  <2>1. config[CanonicalName[puzzles[p].name]] = Configured(puzzles[p])
    BY DEF Configured
  <2>2. Configured(puzzles[p]) # NoTarget /\ Configured(puzzles[p]).type # "address"
    BY DEF ThresholdSet, HasTarget
  <2> QED BY <1>3, <2>1, <2>2 DEF Truth
<1>5. CASE n = 0
  BY <1>2, <1>4, <1>5 DEF evaluateFindingsThresholdStatus
<1>6. CASE n > 0
  <2>1. Cardinality(FoundKeys(p)) \in Nat
    BY FoundKeysFinite
  <2> QED BY <1>1, <1>2, <1>4, <1>6, <2>1 DEF evaluateFindingsThresholdStatus
<1> QED BY <1>1, <1>2, <1>5, <1>6

\* The explorer's answer says what is true of a puzzle with an address.
LEMMA TruthOfAddress ==
    ASSUME TablesOK, NEW p \in DOMAIN puzzles, HasTarget(p), Configured(puzzles[p]).type = "address"
    PROVE  /\ Truth(p, puzzles, findings, chain, config)
                = evaluateAddressTargetStatus(chain[Configured(puzzles[p]).value])
           /\ evaluateAddressTargetStatus(chain[Configured(puzzles[p]).value]) \in States
<1> DEFINE known == chain[Configured(puzzles[p]).value]
<1>1. config[CanonicalName[puzzles[p].name]] = Configured(puzzles[p])
  BY DEF Configured
<1>2. known \in {"unfunded", "funded", "spent"}
  BY ConfiguredType, TargetKinds DEF TablesOK, HasTarget
<1>3. Truth(p, puzzles, findings, chain, config)
        = CASE known = "spent" -> "solved"
            [] known = "funded" -> "unsolved"
            [] OTHER -> "unknown"
  BY <1>1 DEF Truth, HasTarget
<1>4. CASE known = "spent"
  BY <1>3, <1>4 DEF evaluateAddressTargetStatus, States
<1>5. CASE known = "funded"
  BY <1>3, <1>5 DEF evaluateAddressTargetStatus, States
<1>6. CASE known = "unfunded"
  BY <1>3, <1>6 DEF evaluateAddressTargetStatus, States
<1> QED BY <1>2, <1>4, <1>5, <1>6

\* The truth of a row is one of the three states.
LEMMA TruthType ==
    ASSUME NEW p, NEW rows, NEW found, NEW known, NEW targets,
           targets[CanonicalName[rows[p].name]] \in Target \cup {NoTarget}
    PROVE  Truth(p, rows, found, known, targets) \in States
<1> DEFINE target == targets[CanonicalName[rows[p].name]]
<1>1. CASE target = NoTarget
  BY <1>1 DEF Truth, States
<1>2. CASE target # NoTarget /\ target.type = "address"
  <2>1. CASE known[target.value] = "spent"
    BY <1>2, <2>1 DEF Truth, States
  <2>2. CASE known[target.value] = "funded"
    BY <1>2, <2>2 DEF Truth, States
  <2>3. CASE known[target.value] # "spent" /\ known[target.value] # "funded"
    BY <1>2, <2>3 DEF Truth, States
  <2> QED BY <2>1, <2>2, <2>3
<1>3. CASE target # NoTarget /\ target.type # "address"
  BY <1>3 DEF Truth, States
<1> QED BY <1>1, <1>2, <1>3

\* Only the name of a row matters for its truth.
LEMMA TruthByName ==
    ASSUME NEW p, NEW rows, NEW others, rows[p].name = others[p].name,
           NEW found, NEW known, NEW targets
    PROVE  Truth(p, rows, found, known, targets) = Truth(p, others, found, known, targets)
BY DEF Truth

LEMMA NewRowType ==
    ASSUME NEW n \in Names
    PROVE  NewRow(n) \in Row /\ NewRow(n).name = n /\ NewRow(n).target = NoTarget
BY DEF NewRow, Row, Notes

\* A row that is synced keeps its name, and has a target exactly if one is configured.
LEMMA SyncedRow ==
    ASSUME TablesOK, NEW p \in DOMAIN puzzles
    PROVE  /\ Synced(puzzles[p]) \in Row
           /\ Synced(puzzles[p]).name = puzzles[p].name
           /\ Synced(puzzles[p]).target = Configured(puzzles[p])
           /\ HasTarget(p) => /\ Synced(puzzles[p]).state = puzzles[p].state
                              /\ Synced(puzzles[p]).checked = puzzles[p].checked
                              /\ Synced(puzzles[p]).note = puzzles[p].note
           /\ ~HasTarget(p) => Synced(puzzles[p]) = NewRow(puzzles[p].name)
<1>1. puzzles[p] \in Row /\ Configured(puzzles[p]) \in Target \cup {NoTarget} /\ puzzles[p].name \in Names
  BY ConfiguredType DEF Row
<1>2. CASE ~HasTarget(p)
  BY <1>1, <1>2, NewRowType DEF Synced, HasTarget
<1>3. CASE HasTarget(p)
  BY <1>1, <1>3 DEF Synced, HasTarget, Row
<1> QED BY <1>2, <1>3

\* A stamped row keeps its name and shows the result.
LEMMA StampedRow ==
    ASSUME NEW row \in Row, NEW result, result.state \in States, result.note \in Notes,
           NEW stamp \in Nat
    PROVE  /\ Stamped(row, result, stamp) \in Row
           /\ Stamped(row, result, stamp).name = row.name
           /\ Stamped(row, result, stamp).state = result.state
           /\ Stamped(row, result, stamp).checked = stamp
           /\ Stamped(row, result, stamp).note = result.note
BY DEF Stamped, Row

-----------------------------------------------------------------------------
(* What every step but a start leaves alone.                               *)

\* Targets and names stay, findings are added, the history moves on.
Onward ==
    /\ config' = config
    /\ findings \subseteq findings'
    /\ clock <= clock'
    /\ \A p \in DOMAIN puzzles :
          /\ p \in DOMAIN puzzles'
          /\ puzzles'[p].name = puzzles[p].name
          /\ \A s \in States : heldAt[p][s] <= heldAt'[p][s]

\* What is said of the targets of a row stays true, and what was reached is reached.
LEMMA TargetsStay ==
    ASSUME TablesOK, TablesOK', Onward, NEW p \in DOMAIN puzzles
    PROVE  /\ p \in DOMAIN puzzles'
           /\ Configured(puzzles[p])' = Configured(puzzles[p])
           /\ HasTarget(p)' <=> HasTarget(p)
           /\ ThresholdSet(p)' <=> ThresholdSet(p)
           /\ Reached(p) => Reached(p)'
           /\ Cardinality(FoundKeys(p)) <= Cardinality(FoundKeys(p)')
           /\ Cardinality(FoundKeys(p)) \in Nat
           /\ Cardinality(FoundKeys(p)') \in Nat
<1>1. p \in DOMAIN puzzles' /\ Configured(puzzles[p])' = Configured(puzzles[p])
  BY DEF Onward, Configured
<1>2. /\ HasTarget(p)' <=> HasTarget(p)
      /\ ThresholdSet(p)' <=> ThresholdSet(p)
      /\ HasThreshold(p)' <=> HasThreshold(p)
  BY <1>1 DEF HasTarget, ThresholdSet, HasThreshold
<1>3. Cardinality(FoundKeys(p)) <= Cardinality(FoundKeys(p)')
  BY FoundKeysGrow DEF Onward
<1>4. Cardinality(FoundKeys(p)) \in Nat
  BY FoundKeysFinite
<1>5. Cardinality(FoundKeys(p)') \in Nat
  <2>1. IsFiniteSet({g \in findings' : g.puzzle = p})
    BY FS_Subset DEF TablesOK
  <2>2. IsFiniteSet(FoundKeys(p)')
    BY <2>1, KeysFinite DEF FoundKeys
  <2> QED BY <2>2, FS_CardinalityType
<1>6. ASSUME Reached(p) PROVE Reached(p)'
  <2>1. HasThreshold(p) /\ Cardinality(FoundKeys(p)) >= Configured(puzzles[p]).value
    BY <1>6 DEF Reached
  <2>2. Configured(puzzles[p]).value \in Nat
    BY <2>1, ConfiguredType, TargetKinds DEF HasThreshold
  <2>3. Cardinality(FoundKeys(p)') >= Configured(puzzles[p])'.value
    BY <1>1, <1>3, <1>4, <1>5, <2>1, <2>2
  <2> QED BY <1>1, <1>2, <2>1, <2>3 DEF Reached
<1> QED BY <1>1, <1>2, <1>3, <1>4, <1>5, <1>6

LEMMA TargetStays ==
    ASSUME TablesOK, TablesOK', HistoryOK, HistoryOK', Onward, NEW r, NEW p, TargetOK(r, p),
           refresh[r].stamp \in Nat,
           refresh'[r].targets[p] = refresh[r].targets[p],
           refresh'[r].stamp = refresh[r].stamp
    PROVE  TargetOK(r, p)'
<1> DEFINE t == refresh[r].targets[p]
           s == evaluateFindingsThresholdStatus(t.count, t.target.value)
<1>1. p \in DOMAIN puzzles /\ HasTarget(p) /\ t.target = Configured(puzzles[p])
  BY DEF TargetOK
<1>2. /\ p \in DOMAIN puzzles' /\ Configured(puzzles[p])' = Configured(puzzles[p])
      /\ HasTarget(p)' /\ (ThresholdSet(p)' <=> ThresholdSet(p))
      /\ Cardinality(FoundKeys(p)) <= Cardinality(FoundKeys(p)')
      /\ Cardinality(FoundKeys(p)) \in Nat
      /\ Cardinality(FoundKeys(p)') \in Nat
  BY <1>1, TargetsStay
<1>3. ASSUME ThresholdSet(p)
      PROVE  t.count \in Nat /\ t.count <= Cardinality(FoundKeys(p)') /\ heldAt'[p][s] >= refresh[r].stamp
  <2>1. t.count \in Nat /\ t.count <= Cardinality(FoundKeys(p)) /\ heldAt[p][s] >= refresh[r].stamp
    BY <1>3 DEF TargetOK
  <2>2. s \in States
    BY EvaluatedType
  <2> HIDE DEF s, t
  <2>3. heldAt[p][s] <= heldAt'[p][s] /\ heldAt[p][s] \in Int /\ heldAt'[p][s] \in Int
    BY <1>1, <1>2, <2>2 DEF Onward, HistoryOK
  <2> QED BY <1>2, <2>1, <2>3
<1>4. t' = t
  OBVIOUS
<1> QED BY <1>1, <1>2, <1>3, <1>4 DEF TargetOK

LEMMA ResultStays ==
    ASSUME TablesOK, TablesOK', HistoryOK, HistoryOK', Onward, NEW r, NEW p \in DOMAIN puzzles,
           ResultOK(r, p), refresh[r].stamp \in Nat,
           refresh'[r].results[p] = refresh[r].results[p],
           refresh'[r].stamp = refresh[r].stamp
    PROVE  ResultOK(r, p)'
<1> DEFINE result == refresh[r].results[p]
<1>1. /\ result.state \in States
      /\ result.note \in Notes
      /\ ThresholdSet(p) /\ result.state = "solved" => Reached(p)
      /\ result.note # "failed" => heldAt[p][result.state] >= refresh[r].stamp
  BY DEF ResultOK
<1>2. ThresholdSet(p)' /\ result.state = "solved" => Reached(p)'
  BY <1>1, TargetsStay
<1>3. result.note # "failed" => heldAt'[p][result.state] >= refresh[r].stamp
  <2> HIDE DEF result
  <2>1. p \in DOMAIN puzzles'
    BY DEF Onward
  <2>2. /\ heldAt[p][result.state] <= heldAt'[p][result.state]
        /\ heldAt[p][result.state] \in Int /\ heldAt'[p][result.state] \in Int
    BY <1>1, <2>1 DEF Onward, HistoryOK
  <2> QED BY <1>1, <2>2
<1> QED BY <1>1, <1>2, <1>3 DEF ResultOK, Notes

\* A refresh that does nothing in a step stays as good as it was.
LEMMA RefreshStays ==
    ASSUME TablesOK, TablesOK', HistoryOK, HistoryOK', Onward, NEW r, RefreshOK(r),
           refresh'[r] = refresh[r], server' = "down" => server = "down"
    PROVE  RefreshOK(r)'
<1>1. /\ refresh[r].stamp \in Nat
      /\ refresh[r].stamp <= clock
      /\ DOMAIN refresh[r].results \subseteq DOMAIN refresh[r].targets
      /\ \A p \in DOMAIN refresh[r].targets : TargetOK(r, p)
      /\ \A p \in DOMAIN refresh[r].results : ResultOK(r, p)
      /\ server = "down" => refresh[r] = Idle
  BY DEF RefreshOK
<1>2. refresh[r].stamp <= clock'
  BY <1>1 DEF Onward, TablesOK
<1>3. \A p \in DOMAIN refresh[r].targets : TargetOK(r, p)'
  BY <1>1, TargetStays
<1>4. \A p \in DOMAIN refresh[r].results : p \in DOMAIN puzzles
  BY <1>1 DEF TargetOK
<1>5. \A p \in DOMAIN refresh[r].results : ResultOK(r, p)'
  BY <1>1, <1>4, ResultStays
<1>6. Idle' = Idle
  BY DEF Idle, Nothing
<1> QED BY <1>1, <1>2, <1>3, <1>5, <1>6 DEF RefreshOK

\* A refresh that has copied nothing promises nothing.
LEMMA RefreshEmpty ==
    ASSUME NEW r, refresh'[r].stamp \in Nat, refresh'[r].stamp <= clock',
           refresh'[r].targets = Nothing, refresh'[r].results = Nothing,
           server' = "down" => refresh'[r] = Idle
    PROVE  RefreshOK(r)'
BY DEF RefreshOK, Nothing, Idle

LEMMA IdleFields ==
    /\ Idle.phase = "idle" /\ Idle.stamp = 0
    /\ Idle.targets = Nothing /\ Idle.results = Nothing
    /\ Begun.phase = "collect" /\ Begun.stamp = clock
    /\ Begun.targets = Nothing /\ Begun.results = Nothing
BY DEF Idle, Begun

\* A row nobody writes stays as good as it was.
LEMMA RowStays ==
    ASSUME TablesOK, TablesOK', HistoryOK, HistoryOK', Onward, NEW p \in DOMAIN puzzles,
           RowOK(p), puzzles'[p] = puzzles[p]
    PROVE  RowOK(p)'
<1>1. ~HasTarget(p)' => puzzles'[p] = NewRow(puzzles[p].name)
  BY TargetsStay DEF RowOK
<1>2. ThresholdSet(p)' /\ puzzles'[p].state = "solved" => Reached(p)'
  BY TargetsStay DEF RowOK
<1>3. ASSUME puzzles[p].state # NoTarget
      PROVE  /\ puzzles[p].checked \in Nat
             /\ puzzles[p].note # "failed" => heldAt'[p][puzzles[p].state] >= puzzles[p].checked
  <2>1. puzzles[p].state \in States
    BY <1>3, ConfiguredType DEF Row
  <2>2. p \in DOMAIN puzzles'
    BY DEF Onward
  <2>3. /\ heldAt[p][puzzles[p].state] <= heldAt'[p][puzzles[p].state]
        /\ heldAt[p][puzzles[p].state] \in Int /\ heldAt'[p][puzzles[p].state] \in Int
    BY <2>1, <2>2 DEF Onward, HistoryOK
  <2>4. /\ puzzles[p].checked \in Nat
        /\ puzzles[p].note # "failed" => heldAt[p][puzzles[p].state] >= puzzles[p].checked
    BY <1>3 DEF RowOK
  <2> QED BY <2>3, <2>4
<1> QED BY <1>1, <1>2, <1>3 DEF RowOK, NewRow

-----------------------------------------------------------------------------
(* The history.                                                            *)

NamesStay ==
    \A p \in DOMAIN puzzles : p \in DOMAIN puzzles' /\ puzzles'[p].name = puzzles[p].name

\* A step that remembers keeps the history right.
LEMMA HistoryRemembered ==
    ASSUME TablesOK, TablesOK', HistoryOK, NamesStay, clock <= clock', config' = config,
           findings \subseteq findings', Remember
    PROVE  HistoryOK' /\ Onward
<1> DEFINE truth(p) == Truth(p, puzzles', findings', chain', config')
           before(p) == IF p \in DOMAIN heldAt THEN heldAt[p] ELSE [s \in States |-> Never]
<1>1. /\ DOMAIN heldAt = DOMAIN puzzles
      /\ \A p \in DOMAIN puzzles : heldAt[p] \in [States -> Int]
      /\ \A p \in DOMAIN puzzles, s \in States : heldAt[p][s] <= clock
      /\ clock \in Nat /\ clock' \in Nat
  BY DEF HistoryOK, TablesOK
<1>2. \A p \in DOMAIN puzzles' : truth(p) \in States
  <2> TAKE p \in DOMAIN puzzles'
  <2>1. puzzles'[p] \in Row
    BY DEF TablesOK
  <2>2. CanonicalName[puzzles'[p].name] \in CanonicalNames
    BY <2>1 DEF Row, CanonicalNames
  <2>3. config'[CanonicalName[puzzles'[p].name]] \in Target \cup {NoTarget}
    BY <2>2 DEF TablesOK
  <2> QED BY <2>3, TruthType
<1>3. \A p : before(p) \in [States -> Int] /\ \A s \in States : before(p)[s] <= clock'
  <2> TAKE p
  <2>1. CASE p \in DOMAIN heldAt
    <3>1. \A s \in States : heldAt[p][s] \in Int /\ heldAt[p][s] <= clock
      BY <1>1, <2>1
    <3> QED BY <1>1, <2>1, <3>1
  <2>2. CASE p \notin DOMAIN heldAt
    BY <1>1, <2>2 DEF Never
  <2> QED BY <2>1, <2>2
<1>4. heldAt' = [p \in DOMAIN puzzles' |-> [before(p) EXCEPT ![truth(p)] = clock']]
  BY DEF Remember
<1>5. \A p \in DOMAIN puzzles : p \in DOMAIN puzzles' /\ before(p) = heldAt[p]
  BY <1>1 DEF NamesStay
<1> HIDE DEF truth, before
<1>6. \A p \in DOMAIN puzzles' :
         /\ heldAt'[p] \in [States -> Int]
         /\ heldAt'[p][truth(p)] = clock'
         /\ \A s \in States : /\ heldAt'[p][s] <= clock'
                              /\ before(p)[s] <= heldAt'[p][s]
  BY <1>1, <1>2, <1>3, <1>4
<1>7. heldAt' \in [DOMAIN puzzles' -> [States -> Int]]
  BY <1>4, <1>6
<1>8. HistoryOK'
  BY <1>6, <1>7 DEF HistoryOK, truth
<1>9. Onward
  BY <1>5, <1>6 DEF Onward, NamesStay
<1> QED BY <1>8, <1>9

\* So does a step that changes nothing the truth depends on.
LEMMA HistoryQuiet ==
    ASSUME TablesOK, HistoryOK, NamesStay, DOMAIN puzzles' = DOMAIN puzzles,
           UNCHANGED <<findings, chain, config, clock, heldAt>>,
           server' # "down" => server # "down"
    PROVE  HistoryOK' /\ Onward
<1>1. \A p \in DOMAIN puzzles :
         Truth(p, puzzles', findings', chain', config') = Truth(p, puzzles, findings, chain, config)
  BY TruthByName DEF NamesStay
<1>2. HistoryOK'
  BY <1>1 DEF HistoryOK
<1>3. \A p \in DOMAIN puzzles, s \in States : heldAt[p][s] <= heldAt'[p][s]
  BY DEF HistoryOK
<1> QED BY <1>2, <1>3 DEF Onward, NamesStay, TablesOK

-----------------------------------------------------------------------------
(* The steps of a refresh.                                                 *)

LEMMA RowsStay ==
    ASSUME TablesOK, TablesOK', HistoryOK, HistoryOK', Onward, RowsOK, puzzles' = puzzles,
           server' = "serving" => server = "serving"
    PROVE  RowsOK'
BY RowStays DEF RowsOK

LEMMA ConstructorStays ==
    ASSUME TablesOK, TablesOK', Onward, ConstructorOK, puzzles' = puzzles,
           server' = "starting" /\ refresh'[Constructor].phase = "fetch" =>
               /\ server = "starting" /\ refresh[Constructor].phase = "fetch"
               /\ refresh'[Constructor].targets = refresh[Constructor].targets
    PROVE  ConstructorOK'
<1> SUFFICES ASSUME server' = "starting", refresh'[Constructor].phase = "fetch",
                    NEW p \in DOMAIN puzzles
             PROVE  IF HasTarget(p)' THEN p \in DOMAIN refresh'[Constructor].targets
                    ELSE puzzles[p] = NewRow(puzzles[p].name)
  BY DEF ConstructorOK, NewRow
<1>1. HasTarget(p)' <=> HasTarget(p)
  BY TargetsStay
<1>2. IF HasTarget(p) THEN p \in DOMAIN refresh[Constructor].targets
      ELSE puzzles[p] = NewRow(puzzles[p].name)
  BY DEF ConstructorOK
<1> QED BY <1>1, <1>2

\* A thread that begins has copied nothing yet.
LEMMA BeginStep ==
    ASSUME StatusInv, NEW r \in Refreshers, server = "serving", Begin(r),
           UNCHANGED <<puzzles, findings, chain, config, server, clock, heldAt>>
    PROVE  StatusInv'
<1>1. TablesOK'
  BY DEF StatusInv, TablesOK, Begin
<1>2. HistoryOK' /\ Onward
  BY HistoryQuiet DEF StatusInv, NamesStay
<1>3. ASSUME NEW q \in Refreshers PROVE RefreshOK(q)'
  <2>1. CASE q = r
    <3>1. refresh'[q] = Begun
      BY <2>1 DEF Begin, StatusInv, TablesOK
    <3> QED BY <3>1, RefreshEmpty, IdleFields DEF StatusInv, TablesOK
  <2>2. CASE q # r
    <3>1. refresh'[q] = refresh[q]
      BY <2>2 DEF Begin, StatusInv, TablesOK
    <3> QED BY <1>1, <1>2, <3>1, RefreshStays DEF StatusInv
  <2> QED BY <2>1, <2>2
<1>4. RowsOK'
  BY <1>1, <1>2, RowsStay DEF StatusInv
<1>5. ConstructorOK'
  BY DEF ConstructorOK
<1> QED BY <1>1, <1>2, <1>3, <1>4, <1>5 DEF StatusInv

\* The rows that are synced first.
LEMMA SyncedTable ==
    ASSUME TablesOK, NEW n
    PROVE  /\ SyncedUpTo(n) \in Seq(Row)
           /\ DOMAIN SyncedUpTo(n) = DOMAIN puzzles
           /\ \A p \in DOMAIN puzzles : SyncedUpTo(n)[p].name = puzzles[p].name
<1>1. puzzles \in Seq(Row) /\ Len(puzzles) \in Nat /\ DOMAIN puzzles = 1..Len(puzzles)
  BY DEF TablesOK
<1>2. \A p \in DOMAIN puzzles : /\ SyncedUpTo(n)[p] \in Row
                                /\ SyncedUpTo(n)[p].name = puzzles[p].name
  BY <1>1, SyncedRow DEF SyncedUpTo
<1>3. SyncedUpTo(n) \in [1..Len(puzzles) -> Row]
  BY <1>1, <1>2 DEF SyncedUpTo
<1> QED BY <1>1, <1>2, <1>3

LEMMA AllSynced ==
    ASSUME TablesOK, NEW p \in DOMAIN puzzles
    PROVE  SyncedUpTo(Len(puzzles))[p] = Synced(puzzles[p])
<1>1. p <= Len(puzzles)
  BY DEF TablesOK
<1> QED BY <1>1 DEF SyncedUpTo

\* A refresh under way has a server.
LEMMA BusyMeansUp ==
    ASSUME StatusInv, NEW r \in Refreshers, refresh[r].phase # "idle"
    PROVE  server # "down"
BY IdleFields DEF StatusInv, RefreshOK

\* What is collected is what the tables say at that moment.
LEMMA CollectStep ==
    ASSUME StatusInv, NEW r \in Refreshers, Collect(r)
    PROVE  StatusInv'
<1> DEFINE mine == [phase |-> "fetch", stamp |-> refresh[r].stamp, results |-> Nothing,
                    targets |-> [p \in {q \in DOMAIN puzzles : puzzles'[q].target # NoTarget} |->
                        [target |-> puzzles'[p].target, count |-> DistinctFoundKeys(p)]]]
<1>1. /\ puzzles' = SyncedUpTo(Len(puzzles))
      /\ refresh' = [refresh EXCEPT ![r] = mine]
      /\ UNCHANGED <<findings, chain, config, server, clock, heldAt>>
      /\ server # "down"
      /\ TablesOK
  BY BusyMeansUp DEF Collect, StatusInv
<1>2. /\ puzzles' \in Seq(Row)
      /\ DOMAIN puzzles' = DOMAIN puzzles
      /\ NamesStay
  BY <1>1, SyncedTable DEF NamesStay
<1>3. \A p \in DOMAIN puzzles : puzzles'[p] = Synced(puzzles[p])
  BY <1>1, AllSynced
<1>4. refresh'[r] = mine /\ \A q \in Refreshers \ {r} : refresh'[q] = refresh[q]
  BY <1>1 DEF TablesOK
<1>5. TablesOK'
  BY <1>1, <1>2 DEF TablesOK
<1>6. HistoryOK' /\ Onward
  BY <1>1, <1>2, HistoryQuiet DEF StatusInv
<1>7. \A p \in DOMAIN puzzles :
         /\ HasTarget(p)' <=> HasTarget(p)
         /\ ThresholdSet(p)' <=> ThresholdSet(p)
         /\ Reached(p) => Reached(p)'
         /\ Configured(puzzles[p])' = Configured(puzzles[p])
  BY <1>5, <1>6, TargetsStay DEF StatusInv
<1>8. DOMAIN mine.targets = {p \in DOMAIN puzzles : HasTarget(p)}
  BY <1>1, <1>3, SyncedRow DEF HasTarget
<1>9. ASSUME NEW p \in DOMAIN mine.targets PROVE TargetOK(r, p)'
  <2>1. p \in DOMAIN puzzles /\ HasTarget(p)
    BY <1>8
  <2>2. /\ mine.targets[p].target = Configured(puzzles[p])
        /\ mine.targets[p].count = DistinctFoundKeys(p)
    BY <1>1, <1>3, <2>1, SyncedRow
  <2>3. ASSUME ThresholdSet(p)
        PROVE  /\ DistinctFoundKeys(p) \in Nat
               /\ DistinctFoundKeys(p) <= Cardinality(FoundKeys(p)')
               /\ heldAt'[p][evaluateFindingsThresholdStatus(DistinctFoundKeys(p), Configured(puzzles[p]).value)]
                    >= refresh[r].stamp
    <3>1. FoundKeys(p)' = FoundKeys(p)
      BY <1>1 DEF FoundKeys
    <3>2. DistinctFoundKeys(p) = Cardinality(FoundKeys(p)) /\ Cardinality(FoundKeys(p)) \in Nat
      BY <1>1, <2>1, <2>3, TruthOfThreshold, FoundKeysFinite
    <3>3. heldAt[p][evaluateFindingsThresholdStatus(DistinctFoundKeys(p), Configured(puzzles[p]).value)] = clock
      BY <1>1, <2>1, <2>3, TruthOfThreshold DEF StatusInv, HistoryOK
    <3>4. refresh[r].stamp \in Nat /\ refresh[r].stamp <= clock /\ clock \in Nat
      BY <1>1 DEF StatusInv, RefreshOK, TablesOK
    <3> QED BY <1>1, <3>1, <3>2, <3>3, <3>4
  <2>4. refresh'[r].stamp = refresh[r].stamp
    BY <1>4
  <2>5. refresh'[r].targets[p] = mine.targets[p]
    BY <1>4
  <2> HIDE DEF mine
  <2> QED BY <1>2, <1>7, <2>1, <2>2, <2>3, <2>4, <2>5 DEF TargetOK
<1>10. ASSUME NEW q \in Refreshers PROVE RefreshOK(q)'
  <2>1. CASE q = r
    <3>1. /\ refresh'[r].stamp = refresh[r].stamp
          /\ refresh'[r].targets = mine.targets
          /\ DOMAIN refresh'[r].results = {}
      BY <1>4 DEF Nothing
    <3>2. refresh[r].stamp \in Nat /\ refresh[r].stamp <= clock
      BY DEF StatusInv, RefreshOK
    <3> HIDE DEF mine
    <3> QED BY <1>1, <1>9, <2>1, <3>1, <3>2 DEF RefreshOK
  <2>2. CASE q # r
    BY <1>1, <1>4, <1>5, <1>6, <2>2, RefreshStays DEF StatusInv
  <2> QED BY <2>1, <2>2
<1>11. ASSUME NEW p \in DOMAIN puzzles, RowOK(p) PROVE RowOK(p)'
  <2>1. CASE HasTarget(p)
    <3>1. /\ puzzles'[p].state = puzzles[p].state
          /\ puzzles'[p].checked = puzzles[p].checked
          /\ puzzles'[p].note = puzzles[p].note
      BY <1>1, <1>3, <2>1, SyncedRow
    <3> QED BY <1>1, <1>7, <1>11, <2>1, <3>1 DEF RowOK
  <2>2. CASE ~HasTarget(p)
    <3>1. puzzles'[p] = NewRow(puzzles'[p].name) /\ puzzles'[p].state = NoTarget
      BY <1>1, <1>2, <1>3, <2>2, SyncedRow DEF NewRow, NamesStay
    <3>2. ~ThresholdSet(p)'
      BY <1>7, <2>2 DEF ThresholdSet
    <3> QED BY <3>1, <3>2 DEF RowOK, NewRow
  <2> QED BY <2>1, <2>2
<1>12. RowsOK'
  BY <1>1, <1>2, <1>11 DEF RowsOK, StatusInv
<1>13. ConstructorOK'
  <2> SUFFICES ASSUME server' = "starting", refresh'[Constructor].phase = "fetch",
                      NEW p \in DOMAIN puzzles
               PROVE  IF HasTarget(p)' THEN p \in DOMAIN refresh'[Constructor].targets
                      ELSE puzzles'[p] = NewRow(puzzles'[p].name)
    BY <1>2 DEF ConstructorOK, NewRow
  <2>1. ASSUME ~HasTarget(p) PROVE puzzles'[p] = NewRow(puzzles'[p].name)
    BY <1>1, <1>2, <1>3, <2>1, SyncedRow DEF NamesStay
  <2>2. ASSUME HasTarget(p) PROVE p \in DOMAIN refresh'[Constructor].targets
    <3>1. CASE r = Constructor
      BY <1>4, <1>8, <2>2, <3>1
    <3>2. CASE r # Constructor
      <4>1. refresh'[Constructor] = refresh[Constructor]
        BY <1>4, <3>2 DEF Refreshers
      <4> QED BY <1>1, <2>2, <4>1 DEF StatusInv, ConstructorOK
    <3> QED BY <3>1, <3>2
  <2> QED BY <1>7, <2>1, <2>2
<1> QED BY <1>5, <1>6, <1>10, <1>12, <1>13 DEF StatusInv

\* A result that arrives is true of the moment, or follows from the count.
LEMMA FreshResult ==
    ASSUME StatusInv, NEW r \in Refreshers, NEW p \in DOMAIN refresh[r].targets, server # "down",
           NEW result \in Results(refresh[r].targets[p])
    PROVE  /\ p \in DOMAIN puzzles
           /\ result.state \in States
           /\ result.note \in Notes
           /\ ThresholdSet(p) /\ result.state = "solved" => Reached(p)
           /\ result.note # "failed" => heldAt[p][result.state] >= refresh[r].stamp
<1> DEFINE t == refresh[r].targets[p]
<1>1. /\ p \in DOMAIN puzzles /\ HasTarget(p) /\ t.target = Configured(puzzles[p])
      /\ ThresholdSet(p) =>
           /\ t.count \in Nat /\ t.count <= Cardinality(FoundKeys(p))
           /\ heldAt[p][evaluateFindingsThresholdStatus(t.count, t.target.value)] >= refresh[r].stamp
  BY DEF StatusInv, RefreshOK, TargetOK
<1>2. TablesOK /\ refresh[r].stamp \in Nat /\ refresh[r].stamp <= clock /\ clock \in Nat
  BY DEF StatusInv, RefreshOK, TablesOK
<1> HIDE DEF t
<1>3. CASE Configured(puzzles[p]).type = "address"
  <2> DEFINE state == evaluateAddressTargetStatus(chain[Configured(puzzles[p]).value])
  <2>1. state \in States /\ heldAt[p][state] = clock
    BY <1>1, <1>2, <1>3, TruthOfAddress DEF StatusInv, HistoryOK
  <2>2. \/ result = [state |-> "unknown", note |-> "failed"]
        \/ result = [state |-> state, note |-> IF state = "unknown" THEN "unfunded" ELSE "none"]
    BY <1>1, <1>3 DEF Results, t
  <2>3. ~ThresholdSet(p)
    BY <1>3 DEF ThresholdSet
  <2> HIDE DEF state
  <2>4. /\ result.state \in States /\ result.note \in Notes
        /\ result.note # "failed" => result.state = state
    BY <2>1, <2>2 DEF States, Notes
  <2> QED BY <1>1, <1>2, <2>1, <2>3, <2>4
<1>4. CASE Configured(puzzles[p]).type # "address"
  <2> DEFINE n == Configured(puzzles[p]).value
             state == evaluateFindingsThresholdStatus(t.count, n)
  <2>1. ThresholdSet(p) /\ n \in Nat
    BY <1>1, <1>2, <1>4, ConfiguredType, TargetKinds DEF ThresholdSet, HasTarget
  <2>2. result = [state |-> state, note |-> "progress"]
    BY <1>1, <1>4 DEF Results, t
  <2>3. ASSUME state = "solved" PROVE Reached(p)
    <3>1. n > 0 /\ t.count >= n
      BY <1>1, <2>1, <2>3 DEF evaluateFindingsThresholdStatus
    <3>2. Cardinality(FoundKeys(p)) \in Nat
      BY <1>2, FoundKeysFinite
    <3> QED BY <1>1, <2>1, <3>1, <3>2 DEF Reached, HasThreshold, ThresholdSet, HasTarget
  <2>4. state \in States /\ heldAt[p][state] >= refresh[r].stamp
    BY <1>1, <2>1, EvaluatedType
  <2> HIDE DEF state
  <2> QED BY <1>1, <2>2, <2>3, <2>4 DEF Notes
<1> QED BY <1>3, <1>4

\* Fetching writes no table.
LEMMA FetchStep ==
    ASSUME StatusInv, NEW r \in Refreshers, Fetch(r)
    PROVE  StatusInv'
<1>1. /\ refresh[r].phase = "fetch"
      /\ UNCHANGED <<puzzles, findings, chain, config, server, clock, heldAt>>
      /\ server # "down"
      /\ TablesOK /\ DOMAIN refresh = Refreshers
  BY BusyMeansUp DEF Fetch, StatusInv, TablesOK
<1> DEFINE fetched(p, result) ==
             [phase |-> "fetch", stamp |-> refresh[r].stamp,
              targets |-> refresh[r].targets,
              results |-> [q \in DOMAIN refresh[r].results \cup {p} |->
                  IF q = p THEN result ELSE refresh[r].results[q]]]
<1>a. PICK p \in Pending(r) :
         \E result \in Results(refresh[r].targets[p]) :
             refresh' = [refresh EXCEPT ![r] = fetched(p, result)]
  BY DEF Fetch
<1>2. PICK result \in Results(refresh[r].targets[p]) :
         refresh' = [refresh EXCEPT ![r] = fetched(p, result)]
  BY <1>a
<1>3. /\ refresh'[r].phase = "fetch"
      /\ refresh'[r].stamp = refresh[r].stamp
      /\ refresh'[r].targets = refresh[r].targets
      /\ DOMAIN refresh'[r].results = DOMAIN refresh[r].results \cup {p}
      /\ refresh'[r].results[p] = result
      /\ \A q \in DOMAIN refresh[r].results : q # p => refresh'[r].results[q] = refresh[r].results[q]
  BY <1>1, <1>2
<1>4. \A q \in Refreshers \ {r} : refresh'[q] = refresh[q]
  BY <1>1, <1>2
<1>5. TablesOK'
  BY <1>1, <1>2 DEF TablesOK
<1>6. HistoryOK' /\ Onward
  BY <1>1, HistoryQuiet DEF StatusInv, NamesStay
<1>7. RefreshOK(r)'
  <2>1. RefreshOK(r) /\ p \in DOMAIN refresh[r].targets
    BY DEF StatusInv, Pending
  <2>2. \A q \in DOMAIN refresh[r].targets : TargetOK(r, q)'
    BY <1>1, <1>3, <1>5, <1>6, <2>1, TargetStays DEF RefreshOK, StatusInv
  <2>3. \A q \in DOMAIN refresh[r].results : q # p => ResultOK(r, q)'
    <3> TAKE q \in DOMAIN refresh[r].results
    <3>1. q \in DOMAIN puzzles
      BY <2>1 DEF RefreshOK, TargetOK
    <3> QED BY <1>1, <1>3, <1>5, <1>6, <2>1, <3>1, ResultStays DEF RefreshOK, StatusInv
  <2>4. ResultOK(r, p)'
    <3>1. /\ p \in DOMAIN puzzles
          /\ result.state \in States
          /\ result.note \in Notes
          /\ ThresholdSet(p) /\ result.state = "solved" => Reached(p)
          /\ result.note # "failed" => heldAt[p][result.state] >= refresh[r].stamp
      BY <1>1, <1>2, <2>1, FreshResult
    <3>2. (ThresholdSet(p)' <=> ThresholdSet(p)) /\ (Reached(p) => Reached(p)')
      BY <1>1, <1>5, <1>6, <3>1, TargetsStay
    <3> QED BY <1>1, <1>3, <3>1, <3>2 DEF ResultOK, Notes
  <2> QED BY <1>1, <1>3, <2>1, <2>2, <2>3, <2>4 DEF RefreshOK
<1>8. ASSUME NEW q \in Refreshers PROVE RefreshOK(q)'
  <2>1. CASE q # r
    BY <1>1, <1>4, <1>5, <1>6, <2>1, RefreshStays DEF StatusInv
  <2> QED BY <1>7, <2>1
<1>9. RowsOK'
  BY <1>1, <1>5, <1>6, RowsStay DEF StatusInv
<1>10. ConstructorOK'
  <2>1. CASE r = Constructor
    BY <1>1, <1>3, <1>5, <1>6, <2>1, ConstructorStays DEF StatusInv
  <2>2. CASE r # Constructor
    <3>1. refresh'[Constructor] = refresh[Constructor]
      BY <1>4, <2>2 DEF Refreshers
    <3> QED BY <1>1, <1>5, <1>6, <3>1, ConstructorStays DEF StatusInv
  <2> QED BY <2>1, <2>2
<1> QED BY <1>5, <1>6, <1>8, <1>9, <1>10 DEF StatusInv

\* The rows that are written first.
LEMMA AppliedTable ==
    ASSUME StatusInv, NEW r \in Refreshers, NEW n
    PROVE  /\ Applied(r, n) \in Seq(Row)
           /\ DOMAIN Applied(r, n) = DOMAIN puzzles
           /\ \A p \in DOMAIN puzzles : Applied(r, n)[p].name = puzzles[p].name
<1>1. puzzles \in Seq(Row) /\ Len(puzzles) \in Nat /\ DOMAIN puzzles = 1..Len(puzzles)
  BY DEF StatusInv, TablesOK
<1>2. /\ refresh[r].stamp \in Nat
      /\ \A p \in DOMAIN refresh[r].results :
            /\ refresh[r].results[p].state \in States
            /\ refresh[r].results[p].note \in Notes
  BY DEF StatusInv, RefreshOK, ResultOK
<1>3. \A p \in DOMAIN puzzles : /\ Applied(r, n)[p] \in Row
                                /\ Applied(r, n)[p].name = puzzles[p].name
  <2> TAKE p \in DOMAIN puzzles
  <2>1. puzzles[p] \in Row
    BY <1>1
  <2>2. CASE p <= n /\ p \in DOMAIN refresh[r].results
    <3>1. Applied(r, n)[p] = Stamped(puzzles[p], refresh[r].results[p], refresh[r].stamp)
      BY <2>2 DEF Applied
    <3> QED BY <1>2, <2>1, <2>2, <3>1, StampedRow
  <2>3. CASE ~(p <= n /\ p \in DOMAIN refresh[r].results)
    BY <2>1, <2>3 DEF Applied
  <2> QED BY <2>2, <2>3
<1>4. Applied(r, n) \in [1..Len(puzzles) -> Row]
  BY <1>1, <1>3 DEF Applied
<1> QED BY <1>1, <1>3, <1>4

\* What is applied was true at the stamp or later, although others have written since;
\* the constructor leaves no row it has not written, or cleared.
LEMMA ApplyStep ==
    ASSUME StatusInv, NEW r \in Refreshers, Apply(r)
    PROVE  StatusInv'
<1>1. /\ refresh[r].phase = "fetch"
      /\ DOMAIN refresh[r].targets \subseteq DOMAIN refresh[r].results
      /\ puzzles' = Applied(r, Len(puzzles))
      /\ refresh' = [refresh EXCEPT ![r] = Idle]
      /\ server' = IF r = Constructor THEN "serving" ELSE server
      /\ UNCHANGED <<findings, chain, config, clock, heldAt>>
      /\ TablesOK
  BY DEF Apply, Fetched, Pending, StatusInv
<1>2. server # "down"
  BY <1>1, BusyMeansUp
<1>3. /\ puzzles' \in Seq(Row)
      /\ DOMAIN puzzles' = DOMAIN puzzles
      /\ NamesStay
  BY <1>1, AppliedTable DEF NamesStay
<1>4. refresh'[r] = Idle /\ \A q \in Refreshers \ {r} : refresh'[q] = refresh[q]
  BY <1>1 DEF TablesOK
<1>5. TablesOK'
  BY <1>1, <1>3 DEF TablesOK
<1>6. HistoryOK' /\ Onward
  BY <1>1, <1>2, <1>3, HistoryQuiet DEF StatusInv
<1>7. \A p \in DOMAIN puzzles :
         IF p \in DOMAIN refresh[r].results
         THEN puzzles'[p] = Stamped(puzzles[p], refresh[r].results[p], refresh[r].stamp)
         ELSE puzzles'[p] = puzzles[p]
  <2>1. \A p \in DOMAIN puzzles : p <= Len(puzzles)
    BY <1>1 DEF TablesOK
  <2> QED BY <1>1, <2>1 DEF Applied
<1>8. \A p \in DOMAIN puzzles :
         /\ HasTarget(p)' <=> HasTarget(p)
         /\ ThresholdSet(p)' <=> ThresholdSet(p)
         /\ Reached(p) => Reached(p)'
  BY <1>1, <1>5, <1>6, TargetsStay
<1>9. \A p \in DOMAIN refresh[r].results : p \in DOMAIN puzzles /\ HasTarget(p)
  BY DEF StatusInv, RefreshOK, TargetOK
<1>10. ASSUME NEW q \in Refreshers PROVE RefreshOK(q)'
  <2>1. CASE q = r
    <3>1. 0 <= clock'
      BY <1>5 DEF TablesOK
    <3> QED BY <1>4, <2>1, <3>1, RefreshEmpty, IdleFields
  <2>2. CASE q # r
    BY <1>1, <1>2, <1>4, <1>5, <1>6, <2>2, RefreshStays DEF StatusInv
  <2> QED BY <2>1, <2>2
<1>11. ASSUME NEW p \in DOMAIN refresh[r].results PROVE RowOK(p)'
  <2> DEFINE result == refresh[r].results[p]
  <2>1. /\ result.state \in States /\ result.note \in Notes
        /\ ThresholdSet(p) /\ result.state = "solved" => Reached(p)
        /\ result.note # "failed" => heldAt[p][result.state] >= refresh[r].stamp
        /\ refresh[r].stamp \in Nat
    BY DEF StatusInv, RefreshOK, ResultOK
  <2>2. puzzles[p] \in Row /\ p \in DOMAIN puzzles /\ HasTarget(p)'
    BY <1>1, <1>8, <1>9, ConfiguredType
  <2>3. puzzles'[p] = Stamped(puzzles[p], result, refresh[r].stamp)
    BY <1>7, <2>2
  <2> HIDE DEF result
  <2>4. /\ puzzles'[p].state = result.state
        /\ puzzles'[p].checked = refresh[r].stamp
        /\ puzzles'[p].note = result.note
    BY <2>1, <2>2, <2>3, StampedRow
  <2> QED BY <1>1, <1>8, <2>1, <2>2, <2>4 DEF RowOK
<1>12. ASSUME server' = "serving", NEW p \in DOMAIN puzzles, p \notin DOMAIN refresh[r].results
       PROVE  RowOK(p)'
  <2>1. puzzles'[p] = puzzles[p]
    BY <1>7, <1>12
  <2>2. CASE server = "serving"
    BY <1>1, <1>5, <1>6, <2>1, <2>2, RowStays DEF StatusInv, RowsOK
  <2>3. CASE server = "starting"
    <3>1. r = Constructor
      BY <1>1, <1>12, <2>3
    <3>2. ~HasTarget(p) /\ puzzles[p] = NewRow(puzzles[p].name)
      BY <1>1, <1>12, <2>3, <3>1 DEF StatusInv, ConstructorOK
    <3>3. puzzles'[p] = NewRow(puzzles'[p].name) /\ puzzles'[p].state = NoTarget
      BY <2>1, <3>2 DEF NewRow
    <3>4. ~ThresholdSet(p)'
      BY <1>8, <3>2 DEF ThresholdSet
    <3> QED BY <3>3, <3>4 DEF RowOK, NewRow
  <2> QED BY <1>1, <1>2, <2>2, <2>3 DEF TablesOK
<1>13. RowsOK'
  BY <1>3, <1>11, <1>12 DEF RowsOK
<1>14. ConstructorOK'
  <2> SUFFICES ASSUME server' = "starting", refresh'[Constructor].phase = "fetch",
                      NEW p \in DOMAIN puzzles
               PROVE  IF HasTarget(p)' THEN p \in DOMAIN refresh'[Constructor].targets
                      ELSE puzzles'[p] = NewRow(puzzles'[p].name)
    BY <1>3 DEF ConstructorOK, NewRow
  <2>1. r # Constructor /\ server = "starting"
    BY <1>1
  <2>2. refresh'[Constructor] = refresh[Constructor]
    BY <1>4, <2>1 DEF Refreshers
  <2>3. IF HasTarget(p) THEN p \in DOMAIN refresh[Constructor].targets
        ELSE puzzles[p] = NewRow(puzzles[p].name)
    BY <2>1, <2>2 DEF StatusInv, ConstructorOK
  <2>4. ~HasTarget(p) => puzzles'[p] = puzzles[p]
    BY <1>7, <1>9
  <2> QED BY <1>8, <2>2, <2>3, <2>4
<1> QED BY <1>5, <1>6, <1>10, <1>13, <1>14 DEF StatusInv

-----------------------------------------------------------------------------
(* The other steps.                                                        *)

\* What happens outside the refreshes takes nothing back.
LEMMA RememberStep ==
    ASSUME StatusInv, TablesOK', UNCHANGED <<puzzles, config, server, refresh>>,
           clock <= clock', findings \subseteq findings', Remember
    PROVE  StatusInv'
<1>1. HistoryOK' /\ Onward
  BY HistoryRemembered DEF StatusInv, NamesStay
<1>2. \A r \in Refreshers : RefreshOK(r)'
  BY <1>1, RefreshStays DEF StatusInv
<1>3. RowsOK'
  BY <1>1, RowsStay DEF StatusInv
<1>4. ConstructorOK'
  BY <1>1, ConstructorStays DEF StatusInv
<1> QED BY <1>1, <1>2, <1>3, <1>4 DEF StatusInv

LEMMA FindStep ==
    ASSUME StatusInv, NEW p \in DOMAIN puzzles, NEW w \in Workers, NEW k \in Keys, Find(p, w, k)
    PROVE  StatusInv'
<1> DEFINE f == [puzzle |-> p, worker |-> w, key |-> k]
<1>1. /\ findings' = findings \cup {f}
      /\ UNCHANGED <<puzzles, chain, config, server, refresh, clock>>
      /\ Remember
      /\ TablesOK
  BY DEF Find, StatusInv
<1>2. p \in Nat
  BY <1>1 DEF TablesOK
<1>3. f \in Finding
  BY <1>2 DEF Finding
<1>4. IsFiniteSet(findings')
  BY <1>1, FS_AddElement DEF TablesOK
<1>5. TablesOK'
  BY <1>1, <1>3, <1>4 DEF TablesOK
<1>6. clock <= clock'
  BY <1>1 DEF TablesOK
<1> HIDE DEF f
<1> QED BY <1>1, <1>5, <1>6, RememberStep

LEMMA MoveStep ==
    ASSUME StatusInv, NEW a \in Addresses, Move(a)
    PROVE  StatusInv'
<1>1. TablesOK' /\ clock <= clock'
  BY DEF Move, StatusInv, TablesOK
<1> QED BY <1>1, RememberStep DEF Move

LEMMA TickStep ==
    ASSUME StatusInv, Tick
    PROVE  StatusInv'
<1>1. TablesOK' /\ clock <= clock'
  BY DEF Tick, StatusInv, TablesOK
<1> QED BY <1>1, RememberStep DEF Tick

\* A new row shows nothing.
LEMMA SetPuzzleStep ==
    ASSUME StatusInv, NEW h \in Handlers, NEW n \in Names, SetPuzzle(h, n)
    PROVE  StatusInv'
<1>1. /\ server = "serving"
      /\ puzzles' = Append(puzzles, NewRow(n))
      /\ refresh' = [refresh EXCEPT ![h] = Begun]
      /\ UNCHANGED <<findings, chain, config, server, clock>>
      /\ Remember
      /\ TablesOK /\ HistoryOK /\ h \in Refreshers
  BY DEF SetPuzzle, Begin, StatusInv, Refreshers
<1>2. /\ puzzles' \in Seq(Row)
      /\ DOMAIN puzzles' = 1..(Len(puzzles) + 1)
      /\ puzzles'[Len(puzzles) + 1] = NewRow(n)
      /\ \A p \in DOMAIN puzzles : p \in DOMAIN puzzles' /\ puzzles'[p] = puzzles[p]
      /\ \A p \in DOMAIN puzzles' : p \in DOMAIN puzzles \/ p = Len(puzzles) + 1
  BY <1>1, NewRowType DEF TablesOK
<1>3. TablesOK' /\ clock <= clock'
  BY <1>1, <1>2 DEF TablesOK
<1>4. HistoryOK' /\ Onward
  BY <1>1, <1>2, <1>3, HistoryRemembered DEF NamesStay
<1>5. ASSUME NEW r \in Refreshers PROVE RefreshOK(r)'
  <2>1. CASE r = h
    <3>1. refresh'[r] = Begun
      BY <1>1, <2>1 DEF TablesOK
    <3> QED BY <1>1, <1>3, <3>1, RefreshEmpty, IdleFields DEF TablesOK
  <2>2. CASE r # h
    <3>1. refresh'[r] = refresh[r]
      BY <1>1, <2>2 DEF TablesOK
    <3> QED BY <1>1, <1>3, <1>4, <3>1, RefreshStays DEF StatusInv
  <2> QED BY <2>1, <2>2
<1>6. ASSUME NEW p \in DOMAIN puzzles' PROVE RowOK(p)'
  <2>1. CASE p \in DOMAIN puzzles
    BY <1>1, <1>2, <1>3, <1>4, <2>1, RowStays DEF StatusInv, RowsOK
  <2>2. CASE p = Len(puzzles) + 1
    <3>1. puzzles'[p] = NewRow(n)
      BY <1>2, <2>2
    <3>2. /\ puzzles'[p] = NewRow(puzzles'[p].name)
          /\ puzzles'[p].state = NoTarget
      BY <3>1 DEF NewRow
    <3>3. puzzles'[p].state # "solved"
      BY <3>2, ConstantsAssumption DEF States
    <3> QED BY <3>2, <3>3 DEF RowOK, NewRow
  <2> QED BY <1>2, <2>1, <2>2
<1>7. RowsOK' /\ ConstructorOK'
  BY <1>1, <1>6 DEF RowsOK, ConstructorOK
<1> QED BY <1>3, <1>4, <1>5, <1>7 DEF StatusInv

\* Nothing is promised of a server that died.
LEMMA DieStep ==
    ASSUME StatusInv, Die
    PROVE  StatusInv'
<1>1. /\ server' = "down" /\ server # "down"
      /\ refresh' = [r \in Refreshers |-> Idle]
      /\ UNCHANGED <<findings, chain, config, clock, heldAt>>
      /\ TablesOK /\ HistoryOK
  BY DEF Die, StatusInv
<1>2. puzzles' \in Seq(Row) /\ DOMAIN puzzles' = DOMAIN puzzles /\ NamesStay
  <2>1. CASE puzzles' = puzzles
    BY <1>1, <2>1 DEF TablesOK, NamesStay
  <2>2. CASE \E n \in DOMAIN puzzles : puzzles' = SyncedUpTo(n)
    BY <1>1, <2>2, SyncedTable DEF NamesStay
  <2>3. CASE \E r \in Refreshers : \E n \in DOMAIN puzzles : puzzles' = Applied(r, n)
    BY <2>3, AppliedTable DEF NamesStay
  <2> QED BY <2>1, <2>2, <2>3 DEF Die
<1>3. TablesOK'
  BY <1>1, <1>2 DEF TablesOK
<1>4. HistoryOK'
  BY <1>1, <1>2, HistoryQuiet
<1>5. ASSUME NEW r \in Refreshers PROVE RefreshOK(r)'
  <2>1. refresh'[r] = Idle /\ 0 <= clock'
    BY <1>1, <1>3 DEF TablesOK
  <2> QED BY <2>1, RefreshEmpty, IdleFields
<1>6. RowsOK' /\ ConstructorOK'
  BY <1>1 DEF RowsOK, ConstructorOK
<1> QED BY <1>3, <1>4, <1>5, <1>6 DEF StatusInv

\* A start begins a new history, of the targets it has.
LEMMA StartStep ==
    ASSUME StatusInv, NEW c \in Configs, Start(c)
    PROVE  StatusInv'
<1>1. /\ server = "down" /\ server' = "starting"
      /\ config' = c
      /\ refresh' = [refresh EXCEPT ![Constructor] = Begun]
      /\ heldAt' = [p \in DOMAIN puzzles |->
            [[s \in States |-> Never] EXCEPT ![Truth(p, puzzles, findings, chain, c)] = clock]]
      /\ UNCHANGED <<puzzles, findings, chain, clock>>
      /\ TablesOK
  BY DEF Start, StatusInv
<1>2. TablesOK'
  BY <1>1, ConstantsAssumption DEF TablesOK
<1>3. HistoryOK'
  <2> DEFINE truth(p) == Truth(p, puzzles, findings, chain, c)
  <2>1. \A p \in DOMAIN puzzles : truth(p) \in States
    <3> TAKE p \in DOMAIN puzzles
    <3>1. c[CanonicalName[puzzles[p].name]] \in Target \cup {NoTarget}
      BY <1>1, ConfiguredType, ConstantsAssumption
    <3> QED BY <3>1, TruthType
  <2>2. heldAt' = [p \in DOMAIN puzzles |-> [[s \in States |-> Never] EXCEPT ![truth(p)] = clock]]
    BY <1>1
  <2>3. clock \in Nat
    BY <1>1 DEF TablesOK
  <2>4. \A p \in DOMAIN puzzles' : Truth(p, puzzles', findings', chain', config') = truth(p)
    BY <1>1
  <2> HIDE DEF truth
  <2>5. \A p \in DOMAIN puzzles :
           /\ heldAt'[p] \in [States -> Int]
           /\ heldAt'[p][truth(p)] = clock
           /\ \A s \in States : heldAt'[p][s] <= clock
    BY <2>1, <2>2, <2>3 DEF Never
  <2>6. heldAt' \in [DOMAIN puzzles -> [States -> Int]]
    BY <2>2, <2>5
  <2> QED BY <1>1, <2>4, <2>5, <2>6 DEF HistoryOK
<1>4. ASSUME NEW r \in Refreshers PROVE RefreshOK(r)'
  <2>1. refresh[r] = Idle
    BY <1>1 DEF StatusInv, RefreshOK
  <2>2. refresh'[r] = Idle \/ refresh'[r] = Begun
    BY <1>1, <2>1 DEF TablesOK
  <2>3. clock' = clock /\ clock \in Nat /\ 0 <= clock
    BY <1>1 DEF TablesOK
  <2>4. server' # "down"
    BY <1>1
  <2>5. CASE refresh'[r] = Idle
    BY <2>3, <2>4, <2>5, RefreshEmpty, IdleFields
  <2>6. CASE refresh'[r] = Begun
    BY <2>3, <2>4, <2>6, RefreshEmpty, IdleFields
  <2> QED BY <2>2, <2>5, <2>6
<1>5. RowsOK'
  BY <1>1 DEF RowsOK
<1>6. ConstructorOK'
  <2>1. refresh'[Constructor] = Begun
    BY <1>1 DEF TablesOK, Refreshers
  <2> QED BY <2>1, IdleFields DEF ConstructorOK
<1> QED BY <1>2, <1>3, <1>4, <1>5, <1>6 DEF StatusInv

-----------------------------------------------------------------------------
(* The theorems.                                                           *)

LEMMA StatusInvInit == StatusInit => StatusInv
<1> SUFFICES ASSUME StatusInit PROVE StatusInv
  OBVIOUS
<1>1. PICK n \in Names : puzzles = <<NewRow(n)>>
  BY DEF StatusInit
<1>2. puzzles \in Seq(Row) /\ DOMAIN puzzles = {1}
  BY <1>1, NewRowType
<1>3. /\ findings = {} /\ IsFiniteSet(findings)
      /\ chain \in [Addresses -> {"unfunded", "funded"}]
      /\ config \in [CanonicalNames -> Target \cup {NoTarget}]
      /\ server = "down"
      /\ refresh = [r \in Refreshers |-> Idle]
      /\ clock = 0
      /\ heldAt = [p \in {1} |-> [s \in States |-> Never]]
  BY ConstantsAssumption, FS_EmptySet DEF StatusInit
<1>4. TablesOK
  BY <1>2, <1>3 DEF TablesOK
<1>5. HistoryOK
  BY <1>2, <1>3 DEF HistoryOK, Never
<1>6. ASSUME NEW r \in Refreshers PROVE RefreshOK(r)
  BY <1>3 DEF RefreshOK, Idle, Nothing
<1>7. RowsOK /\ ConstructorOK
  BY <1>3 DEF RowsOK, ConstructorOK
<1> QED BY <1>4, <1>5, <1>6, <1>7 DEF StatusInv

LEMMA StatusInvStep == StatusInv /\ [StatusNext]_vars => StatusInv'
<1> SUFFICES ASSUME StatusInv, [StatusNext]_vars PROVE StatusInv'
  OBVIOUS
<1>1. ASSUME NEW r \in Refreshers, RefreshStep(r) PROVE StatusInv'
  BY <1>1, CollectStep, FetchStep, ApplyStep DEF RefreshStep
<1>2. CASE PollerWakes
  BY <1>2, BeginStep DEF PollerWakes, Refreshers
<1>3. ASSUME NEW h \in Handlers, ActivatePuzzle(h) PROVE StatusInv'
  BY <1>3, BeginStep DEF ActivatePuzzle, Refreshers
<1>4. ASSUME NEW h \in Handlers, NEW n \in Names, SetPuzzle(h, n) PROVE StatusInv'
  BY <1>4, SetPuzzleStep
<1>5. ASSUME NEW p \in DOMAIN puzzles, NEW w \in Workers, NEW k \in Keys, Find(p, w, k)
      PROVE  StatusInv'
  BY <1>5, FindStep
<1>6. ASSUME NEW a \in Addresses, Move(a) PROVE StatusInv'
  BY <1>6, MoveStep
<1>7. CASE Tick
  BY <1>7, TickStep
<1>8. CASE Die
  BY <1>8, DieStep
<1>9. ASSUME NEW c \in Configs, Start(c) PROVE StatusInv'
  BY <1>9, StartStep
<1>10. CASE UNCHANGED vars
  <2>1. TablesOK' /\ HistoryOK' /\ Onward
    BY <1>10, HistoryQuiet DEF vars, StatusInv, TablesOK, NamesStay
  <2>2. \A r \in Refreshers : RefreshOK(r)'
    BY <1>10, <2>1, RefreshStays DEF vars, StatusInv
  <2>3. RowsOK'
    BY <1>10, <2>1, RowsStay DEF vars, StatusInv
  <2>4. ConstructorOK'
    BY <1>10, <2>1, ConstructorStays DEF vars, StatusInv
  <2> QED BY <2>1, <2>2, <2>3, <2>4 DEF StatusInv
<1> QED BY <1>1, <1>2, <1>3, <1>4, <1>5, <1>6, <1>7, <1>8, <1>9, <1>10 DEF StatusNext

\* Whatever refreshes overlap, and wherever the server dies: what refreshes have copied
\* stays good for the rows they will write (refreshPuzzleStatuses).
THEOREM StatusInvariant == StatusSpec => []StatusInv
<1>1. StatusInit => StatusInv
  BY StatusInvInit
<1>2. StatusInv /\ [StatusNext]_vars => StatusInv'
  BY StatusInvStep
<1> QED BY <1>1, <1>2, PTL DEF StatusSpec

\* No puzzle with a threshold is shown solved before so many different keys were found,
\* for any number of puzzles, findings, configurations and threads.
THEOREM SolvedMeansFoundCorrect == StatusSpec => []SolvedMeansFound
<1>1. StatusInv => SolvedMeansFound
  BY DEF StatusInv, RowsOK, RowOK, ThresholdSet, HasTarget, SolvedMeansFound, Shown
<1> QED BY <1>1, StatusInvariant, PTL

\* The state shown with a time was true at that time or later, in whatever order the
\* results of overlapping refreshes are written.
THEOREM ShownWasTrueCorrect == StatusSpec => []ShownWasTrue
<1>1. StatusInv => ShownWasTrue
  BY DEF StatusInv, RowsOK, RowOK, ShownWasTrue
<1> QED BY <1>1, StatusInvariant, PTL

\* A puzzle that lost its target in a restart shows nothing of it.
THEOREM UnconfiguredShowsNothingCorrect == StatusSpec => []UnconfiguredShowsNothing
<1>1. StatusInv => UnconfiguredShowsNothing
  BY DEF StatusInv, RowsOK, RowOK, HasTarget, UnconfiguredShowsNothing
<1> QED BY <1>1, StatusInvariant, PTL
=============================================================================

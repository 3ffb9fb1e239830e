-------------------------- MODULE MCStatusRefresh --------------------------
(* A puzzle with an address, and one with a threshold that a restart may   *)
(* raise while it drops the target of the other.                           *)
EXTENDS StatusRefresh, TLC

CONSTANTS h1, w1, w2, a1, null

MCNames == {"puzzle 71", "All BTC"}
MCCanonicalName == ("puzzle 71" :> "PUZZLE 71") @@ ("All BTC" :> "ALL BTC")

Address(a) == [type |-> "address", value |-> a]
Threshold(n) == [type |-> "findings_threshold", value |-> n]

Configuration(puzzle71, allBtc) == ("PUZZLE 71" :> puzzle71) @@ ("ALL BTC" :> allBtc)

MCConfigs ==
    { Configuration(Address(a1), null),
      Configuration(null, Threshold(0)),
      Configuration(null, Threshold(1)),
      Configuration(null, Threshold(2)) }
=============================================================================

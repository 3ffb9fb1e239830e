-------------------------- MODULE SectorAllocator --------------------------
(***************************************************************************)
(* The legacy allocation strategy (src/allocator.cpp) as pure operators:   *)
(* seedSectors cuts the keys 0 .. range-1 of a puzzle into sectors, and    *)
(* assignLegacyRandomChunk takes each job from the front of what is left   *)
(* of one of them.  "reached" is current_hex of the sectors of one puzzle: *)
(* keys before it are in jobs.  A sector is marked done exactly when its   *)
(* current_hex gets to its end, so the status needs no variable.           *)
(***************************************************************************)
EXTENDS Integers, FiniteSets

CONSTANTS
    MinSectorSize,   \* the 1000000000 keys of seedSectors
    TargetSectors    \* cfg.targetSectors, at least 1 (config.cpp)

ASSUME SectorsAssumption ==
    MinSectorSize \in Nat \ {0} /\ TargetSectors \in Nat \ {0}

NumSectors(range) ==
    LET full == range \div MinSectorSize
    IN  CASE full < 1 -> 1
          [] full > TargetSectors -> TargetSectors
          [] OTHER -> full

SectorSize(range) == range \div NumSectors(range)

Sectors(range) == 1 .. NumSectors(range)

\* Deviation: the end of a sector is taken for its last key.
SectorStartInclusive(range, s) == IF s = 1 THEN 0 ELSE (s - 1) * SectorSize(range) - 1

SectorStart(range, s) == (s - 1) * SectorSize(range)

\* The last sector takes the keys the division leaves over.
SectorEnd(range, s) ==
    IF s = NumSectors(range) THEN range ELSE s * SectorSize(range)

OpenSectors(range, reached) ==
    {s \in Sectors(range) : reached[s] < SectorEnd(range, s)}

\* A puzzle without a job offers its middle sector, if it has that many;
\* otherwise any open one.
OfferedSectors(range, reached, first) ==
    LET open   == OpenSectors(range, reached)
        middle == {s \in open :
                     Cardinality({t \in open : t < s}) = TargetSectors \div 2}
    IN  IF first /\ middle # {} THEN middle ELSE open

\* Deviation: a job is not cut at the end of its sector.
CutEndUnclipped(range, lo, s, requested) == lo + requested

\* How far a job that starts at lo in sector s gets.
CutEnd(range, lo, s, requested) ==
    IF lo + requested <= SectorEnd(range, s) THEN lo + requested
    ELSE SectorEnd(range, s)
=============================================================================

---------------------------- MODULE Permutation ----------------------------
(***************************************************************************)
(* The two orders in which the allocator visits the virtual chunks of a    *)
(* puzzle (src/permutation.cpp), as pure operators: the affine one of      *)
(* AffinePermutation, and the Feistel network, whose round functions come  *)
(* from SHA-256 in the code and are a parameter here.                      *)
(***************************************************************************)
EXTENDS AffinePermutation, Sequences, SequencesExt

-----------------------------------------------------------------------------
(* PERMUTATION_MODE=feistel, the default *)

Bits(n) ==
    LET length == CHOOSE k \in 1 .. n : 2 ^ (k - 1) <= n - 1 /\ n - 1 < 2 ^ k
    IN  IF length % 2 = 0 THEN length ELSE length + 1

Halves(x, bits) ==
    [left |-> x \div 2 ^ (bits \div 2), right |-> x % 2 ^ (bits \div 2)]

Bit(x, k) == (x \div 2 ^ k) % 2

\* The exclusive or of two halves of so many bits.
Xor(x, y, half) ==
    MapThenSumSet(LAMBDA k : 2 ^ k * ((Bit(x, k) + Bit(y, k)) % 2), 0 .. (half - 1))

Round(h, f, half) == [left |-> h.right, right |-> Xor(h.left, f[h.right], half)]

permutePow2Feistel(x, bits, rounds) ==
    LET last == FoldLeft(LAMBDA h, f : Round(h, f, bits \div 2), Halves(x, bits), rounds)
    IN  last.left * 2 ^ (bits \div 2) + last.right

\* An index beyond n is permuted again until it falls inside.
permuteIndexFeistel(x, n, rounds) ==
    LET walk[y \in Positions(2 ^ Bits(n))] ==
            LET z == permutePow2Feistel(y, Bits(n), rounds)
            IN  IF z < n THEN z ELSE walk[z]
    IN  IF n <= 1 THEN 0 ELSE walk[x]

FeistelOrder(n, rounds) == [x \in Positions(n) |-> permuteIndexFeistel(x, n, rounds)]

-----------------------------------------------------------------------------
IsOrder(order, n) == Range(order) = Positions(n)

\* The round functions of a network on so many bits.
RoundFunctions(bits) ==
    [Positions(2 ^ (bits \div 2)) -> Positions(2 ^ (bits \div 2))]

\* Both orders visit every virtual chunk once, for every multiplier the
\* search may end with and any round functions: six different ones on up to
\* four virtual chunks, the same six times over on up to sixteen.
OrdersVisitEverything ==
    /\ \A n \in 1 .. 12 : \A a \in Multipliers(n), b \in Addends(n) :
          IsOrder(AffineOrder(n, a, b), n)
    /\ \A n \in 2 .. 4 : \A rounds \in [1 .. 6 -> RoundFunctions(2)] :
          IsOrder(FeistelOrder(n, rounds), n)
    /\ \A n \in 5 .. 16 : \A f \in RoundFunctions(4) :
          IsOrder(FeistelOrder(n, [r \in 1 .. 6 |-> f]), n)
=============================================================================

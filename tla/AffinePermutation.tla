------------------------- MODULE AffinePermutation -------------------------
(***************************************************************************)
(* PERMUTATION_MODE=affine (src/permutation.cpp): the virtual chunk at     *)
(* position x of the order is (a * x + b) % n.  The digests a is looked    *)
(* for in, and b, come from SHA-256; here they may be any.                 *)
(***************************************************************************)
EXTENDS Integers

Positions(n) == 0 .. (n - 1)

gcdBigInt[ab \in Nat \X Nat] ==
    IF ab[2] = 0 THEN ab[1] ELSE gcdBigInt[<<ab[2], ab[1] % ab[2]>>]

Multiplier(digest, n) == IF digest % n = 0 THEN 1 ELSE digest % n

\* What deriveAffinePermutationParams may end with: it takes digest after
\* digest until the multiplier has no common factor with n.
Multipliers(n) ==
    IF n <= 1 THEN {1}
    ELSE {a \in {Multiplier(d, n) : d \in Positions(n)} : gcdBigInt[<<a, n>>] = 1}

Addends(n) == IF n <= 1 THEN {0} ELSE Positions(n)

permuteIndexAffine(x, n, a, b) == (a * x + b) % n

AffineOrder(n, a, b) == [x \in Positions(n) |-> permuteIndexAffine(x, n, a, b)]
=============================================================================

---------------------------- MODULE NonNativeUint ----------------------------
(***************************************************************************)
(* Unsigned integers in the circuit of another field                       *)
(* (folding/circuits/nonnative/uint.rs).                                   *)
(*                                                                         *)
(* An integer is a sequence of limbs, the least significant first.  A limb *)
(* is a native field element v with a bound ub the circuit knows; limbs    *)
(* may grow past W bits, because additions and products do not align them. *)
(* Whatever the circuit enforces is stated as what SOME witness satisfies, *)
(* or as what the witness the honest prover computes satisfies.            *)
(***************************************************************************)
EXTENDS Field, Sequences, FiniteSets, SequencesExt

CONSTANTS W,      \* bits_per_limb
          M,      \* the modulus of the foreign field
          Width   \* the bits to_bits_le gives for an element of the foreign field

ASSUME NonNativeAssumption ==
  /\ P % 2 = 1 /\ W \in 1 .. 7 /\ M \in Nat /\ M > 1 /\ Width \in 1 .. 30

Limit   == (P - 1) \div 2                           \* MODULUS_MINUS_ONE_DIV_TWO
Bits(n) == Cardinality({k \in 0 .. 30 : 2 ^ k <= n})
CeilDiv(a, b) == (a + b - 1) \div b
Least(a, b)   == IF a < b THEN a ELSE b
Most(a, b)    == IF a < b THEN b ELSE a
AddUp(f, n)   == LET s[i \in 0 .. n] == IF i = 0 THEN 0 ELSE s[i - 1] + f[i] IN s[n]

----------------------------------------------------------------------------
\* LimbVar.

ZeroLimb == [v |-> 0, ub |-> 0]

\* LimbVar::add, add_many and mul answer None when the bound reaches Limit.
\* A plausible bug: the bound is compared with the modulus twice over.
Holds_TwiceTheModulus(ub) == ub < 2 * P
Holds(ub) == ub < Limit
LimbAdd(a, b) == [v |-> (a.v + b.v) % P, ub |-> a.ub + b.ub]
LimbMul(a, b) == [v |-> (a.v * b.v) % P, ub |-> a.ub * b.ub]
LimbConst(v)   == [v |-> v % P, ub |-> v % P]
LimbAddMany(s) == [v  |-> AddUp([i \in DOMAIN s |-> s[i].v], Len(s)) % P,
                   ub |-> AddUp([i \in DOMAIN s |-> s[i].ub], Len(s))]

----------------------------------------------------------------------------
\* NonNativeUintVar: allocation, value and bound.

\* The chunks of at most n bits of the first l bits of x.
ChunkBits(l, n)     == [i \in 1 .. CeilDiv(l, n) |-> Least(n, l - n * (i - 1))]
BitChunks(x, l, n)  == [i \in 1 .. CeilDiv(l, n) |->
                          (x \div 2 ^ (n * (i - 1))) % 2 ^ ChunkBits(l, n)[i]]
Allocated(x, l)     == [i \in 1 .. CeilDiv(l, W) |->
                          [v |-> BitChunks(x, l, W)[i], ub |-> 2 ^ ChunkBits(l, W)[i] - 1]]
AllocatedElement(x) == Allocated(x, Width)

Value(x)  == AddUp([i \in DOMAIN x |-> x[i].v * 2 ^ (W * (i - 1))], Len(x))
UBound(x) == AddUp([i \in DOMAIN x |-> x[i].ub * 2 ^ (W * (i - 1))], Len(x))

----------------------------------------------------------------------------
\* add_no_align, mul_no_align, conditionally_select and SparseMatrixVar::mul_vector.

LimbAt(x, i) == IF i <= Len(x) THEN x[i] ELSE ZeroLimb

AddNoAlign(x, y) == [i \in 1 .. Most(Len(x), Len(y)) |-> LimbAdd(LimbAt(x, i), LimbAt(y, i))]

\* The products of limbs that meet in limb i of a product.
Meeting(x, y, i) ==
  LET first == Most(i, Len(y)) - Len(y) + 1
  IN  [k \in 1 .. Most(0, Least(i, Len(x)) - first + 1) |->
         LimbMul(x[first + k - 1], y[i - first - k + 2])]
ProductLen(x, y) == Len(x) + Len(y) - 1
MulNoAlign(x, y) == [i \in 1 .. ProductLen(x, y) |-> LimbAddMany(Meeting(x, y, i))]

InBounds(x) == \A i \in DOMAIN x : Holds(x[i].ub)

\* The constraints on the product z when no operand is constant: z is a hint, and
\* the three polynomials agree at as many points as z has limbs.
AtPoint(x, c) == AddUp([i \in DOMAIN x |-> (x[i].v * (c ^ (i - 1) % P)) % P], Len(x)) % P
MulHolds(x, y, z) ==
  \A c \in 1 .. Len(z) : AtPoint(z, c) = (AtPoint(x, c) * AtPoint(y, c)) % P

\* One row of a sparse matrix of constants, a sequence of <<coefficient, column>>.
RowLen(row, v) ==
  LET lens == {ProductLen(row[k][1], v[row[k][2]]) : k \in DOMAIN row}
  IN  IF row = <<>> THEN 0 ELSE CHOOSE n \in lens : \A k \in lens : k <= n
MulRow(row, v) ==
  [i \in 1 .. RowLen(row, v) |->
     LimbAddMany([k \in DOMAIN row |->
                    LimbAddMany(Meeting(row[k][1], v[row[k][2]], i))])]

Select(c, x, y) == IF c THEN x ELSE y
SameShape(x, y) == Len(x) = Len(y) /\ \A i \in DOMAIN x : x[i].ub = y[i].ub

----------------------------------------------------------------------------
\* enforce_bit_length and enforce_abs_bit_length can be satisfied.  The hint for the
\* sign is the one that gives the smaller absolute value; the other cannot do better.

BitLength(x, n)    == x < 2 ^ n
AbsBitLength(x, n) == (IF x > Limit THEN P - x ELSE x) < 2 ^ n

\* enforce_lt can be satisfied: the helper has one true value, at the first limb from
\* the most significant whose difference is not zero.
\* A plausible bug: the limbs above the chosen one are not looked at.
EnforceLt_AnyLimb(x, y) ==
  \E i \in 1 .. Most(Len(x), Len(y)) :
    BitLength((LimbAt(y, i).v - LimbAt(x, i).v - 1) % P, W)
EnforceLt(x, y) ==
  LET len   == Most(Len(x), Len(y))
      delta == [i \in 1 .. len |-> (LimbAt(y, i).v - LimbAt(x, i).v) % P]
  IN  \E top \in 1 .. len :
        /\ \A i \in top + 1 .. len : delta[i] = 0
        /\ BitLength((delta[top] - 1) % P, W)

\* enforce_equal_unaligned: limbs join a group while both sides stay in bounds.
JoinLimb(g, j, x, y) ==
  LET shift == LimbConst(2 ^ (W * (j - g.from)))
  IN  [from |-> g.from, n |-> g.n + 1,
       x |-> LimbAdd(g.x, LimbMul(x[j], shift)), y |-> LimbAdd(g.y, LimbMul(y[j], shift))]
EmptyGroup(j) == [from |-> j, n |-> 0, x |-> ZeroLimb, y |-> ZeroLimb]
NextLimb(gs, j, x, y) ==
  LET joined == JoinLimb(Last(gs), j, x, y)
  IN  IF Holds(joined.x.ub) /\ Holds(joined.y.ub)
      THEN Append(Front(gs), joined)
      ELSE Append(gs, JoinLimb(EmptyGroup(j), j, x, y))
Groups(x, y) ==
  LET n == Least(Len(x), Len(y))
      gs[j \in 0 .. n] == IF j = 0 THEN <<EmptyGroup(1)>> ELSE NextLimb(gs[j - 1], j, x, y)
  IN  IF n = 0 THEN <<>> ELSE gs[n]

\* The limbs one side has more than the other: the first is the carry of the groups,
\* the others add up to zero.
Remaining(x, y) ==
  LET n == Least(Len(x), Len(y)) IN SubSeq(IF n < Len(x) THEN x ELSE y, n + 1, Most(Len(x), Len(y)))

\* Division by 2^step in the field.
HalfPow[n \in 0 .. 60] == IF n = 0 THEN 1 ELSE (HalfPow[n - 1] * ((P + 1) \div 2)) % P

\* A plausible bug: only the bound of self is looked at.
CarryBits_OfSelf(g) == Most(0, Bits(g.x.ub) - W * g.n)
CarryBits(g) == Most(0, Bits(Most(g.x.ub, g.y.ub)) - W * g.n)
Carry(c, g)  == (((g.x.v - g.y.v + c) % P) * HalfPow[W * g.n]) % P
CarriesMeet(gs, rest) ==
  LET n == Len(gs)
      c[i \in 0 .. n] == IF i = 0 THEN 0 ELSE Carry(c[i - 1], gs[i])
  IN  /\ \A i \in 1 .. n - 1 : AbsBitLength(c[i], CarryBits(gs[i]))
      /\ n > 0 => c[n] = rest

\* The check cannot be built: the limbs past the carry might add up past Limit, or a
\* group of limbs whose bounds are all zero would go on for too long.
EqualRefused(x, y) ==
  \/ LET rest == Remaining(x, y) IN rest # <<>> /\ ~Holds(LimbAddMany(Tail(rest)).ub)
  \/ \E g \in ToSet(Groups(x, y)) :
       ~Holds(2 ^ (W * Least(g.n, Least(Len(x), Len(y)) - g.from)))
EnforceEqual(x, y) ==
  LET rest == Remaining(x, y)
  IN  /\ rest # <<>> => LimbAddMany(Tail(rest)).v = 0
      /\ CarriesMeet(Groups(x, y), IF rest = <<>> THEN 0 ELSE rest[1].v)

----------------------------------------------------------------------------
\* modulo and enforce_congruent, each with the bits its hints have.

Modulus         == Allocated(M, Bits(M))
Quotients(n)    == {Allocated(q, n) : q \in 0 .. 2 ^ n - 1}     \* every hint of n bits
QuotientBits(x) == Bits(CeilDiv(UBound(x), M))
HonestQuotient(x)  == Allocated(Value(x) \div M, QuotientBits(x))
HonestRemainder(x) == Allocated(Value(x) % M, Bits(M))

ModuloBuilt(x, q, r) ==
  LET product == MulNoAlign(q, Modulus)
      sum     == AddNoAlign(product, r)
  IN  InBounds(product) /\ InBounds(sum) /\ ~EqualRefused(sum, x)
\* A plausible bug: the remainder is not compared with the modulus.
ModuloHolds_NoLt(x, q, r) == EnforceEqual(AddNoAlign(MulNoAlign(q, Modulus), r), x)
ModuloHolds(x, q, r) ==
  EnforceLt(r, Modulus) /\ EnforceEqual(AddNoAlign(MulNoAlign(q, Modulus), r), x)

\* A plausible bug: the bits of the quotient come from the bound of self.
CongruentBits_OfSelf(x, y) == Bits(UBound(x) \div M)
CongruentBits(x, y) == Bits(Most(UBound(x), UBound(y)) \div M)
CongruentSides(x, y, q, ge) ==
  LET zero == [i \in DOMAIN q |-> [q[i] EXCEPT !.v = 0]]
  IN  [l |-> AddNoAlign(x, MulNoAlign(Select(ge, zero, q), Modulus)),
       r |-> AddNoAlign(y, MulNoAlign(Select(ge, q, zero), Modulus))]
HonestSides(x, y) ==
  LET ge    == Value(x) > Value(y)
      apart == IF ge THEN Value(x) - Value(y) ELSE Value(y) - Value(x)
  IN  CongruentSides(x, y, Allocated(apart \div M, CongruentBits(x, y)), ge)
CongruentBuilt(x, y) ==
  LET s == HonestSides(x, y)
  IN  InBounds(s.l) /\ InBounds(s.r) /\ ~EqualRefused(s.l, s.r)
=============================================================================

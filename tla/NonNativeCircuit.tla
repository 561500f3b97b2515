--------------------------- MODULE NonNativeCircuit ---------------------------
(***************************************************************************)
(* A circuit over non-native integers, built one call at a time.           *)
(*                                                                         *)
(* Integers are allocated, added, multiplied, selected and reduced in any  *)
(* order, so their limbs grow the way they do in the circuits of CycleFold *)
(* and of the offchain deciders.  true_value is what a reader of the       *)
(* program means by a variable; the circuit only has the limbs.  A call    *)
(* that is refused ends the synthesis, and is disabled here.               *)
(***************************************************************************)
EXTENDS NonNativeUint

CONSTANTS Elements,    \* the elements of the foreign field that are allocated
          Lengths,     \* the bit lengths of the integers that are allocated
          Numbers,     \* and what they are the low bits of
          Rows,        \* the matrix rows: sequences of <<constant, index of kept>>
          MaxHintBits, \* every quotient of up to so many bits is tried as a hint
          MaxAllocated, MaxKept

VARIABLE kept          \* the variables so far: [z, const, true_value]

Init == kept = <<>>

Keep(z, const, true_value) ==
  kept' = Append(kept, [z |-> z, const |-> const, true_value |-> true_value])

Room    == Len(kept) < MaxKept
Var     == DOMAIN kept
Limbs   == [i \in Var |-> kept[i].z]
Newest  == Len(kept)

\* An integer of no limbs is what a sum starts from and what a row without entries
\* gives; every caller adds to it before it compares or reduces.
Comparable == {i \in Var : Limbs[i] # <<>>}

----------------------------------------------------------------------------
\* AllocVar for an element of the foreign field, and for an integer of l bits.
AllocateElement(x) == Len(kept) < MaxAllocated /\ Keep(AllocatedElement(x), FALSE, x)
AllocateInteger(x, l, const) ==
  Len(kept) < MaxAllocated /\ Keep(Allocated(x, l), const, x % 2 ^ l)

Add(i, j) ==
  LET z == AddNoAlign(Limbs[i], Limbs[j])
  IN  /\ Room /\ InBounds(z)
      /\ Keep(z, kept[i].const /\ kept[j].const, kept[i].true_value + kept[j].true_value)

Mul(i, j) ==
  LET z == MulNoAlign(Limbs[i], Limbs[j])
  IN  /\ Room
      /\ ProductLen(Limbs[i], Limbs[j]) >= 0
      /\ InBounds(z)
      /\ kept[i].const \/ kept[j].const \/ MulHolds(Limbs[i], Limbs[j], z)
      /\ Keep(z, kept[i].const /\ kept[j].const, kept[i].true_value * kept[j].true_value)

MulVector(row) ==
  LET z == MulRow(row, Limbs)
      products == [k \in DOMAIN row |-> Value(row[k][1]) * kept[row[k][2]].true_value]
  IN  /\ Room
      /\ \A k \in DOMAIN row :
           row[k][2] \in Var /\ ProductLen(row[k][1], Limbs[row[k][2]]) >= 0
      /\ InBounds(z)
      /\ Keep(z, \A k \in DOMAIN row : kept[row[k][2]].const, AddUp(products, Len(row)))

Choose(c, i, j) ==
  /\ Room /\ SameShape(Limbs[i], Limbs[j])
  /\ Keep(Select(c, Limbs[i], Limbs[j]), FALSE,
          IF c THEN kept[i].true_value ELSE kept[j].true_value)

\* modulo, with the hints of the honest prover.
Modulo(i) ==
  LET q == HonestQuotient(Limbs[i])
      r == HonestRemainder(Limbs[i])
  IN  /\ Room /\ ModuloBuilt(Limbs[i], q, r) /\ ModuloHolds(Limbs[i], q, r)
      /\ Keep(r, kept[i].const, kept[i].true_value % M)

Next ==
  \/ \E x \in Elements : AllocateElement(x)
  \/ \E x \in Numbers, l \in Lengths, const \in BOOLEAN : AllocateInteger(x, l, const)
  \/ \E row \in Rows : MulVector(row)
  \/ \E i, j \in Var : Add(i, j) \/ Mul(i, j) \/ \E c \in BOOLEAN : Choose(c, i, j)
  \/ \E i \in Comparable : Modulo(i)

Spec == Init /\ [][Next]_kept

----------------------------------------------------------------------------
\* No operation lets a limb wrap around the native modulus or past the bound the
\* circuit keeps for it, however the calls follow each other: the value of a variable
\* is the integer the program means.
ValueKept ==
  \A i \in Var :
    /\ Value(Limbs[i]) = kept[i].true_value
    /\ \A k \in DOMAIN Limbs[i] : Limbs[i][k].v <= Limbs[i][k].ub

\* The comparisons take the limbs one side has past those of the other for a carry:
\* the first for the carry itself, the others for zeros.
OneCarry(x, y) == \A k \in Len(x) + 2 .. Len(y) : y[k].v = 0

\* What a comparison can rely on, by the bounds the circuit knows.  A carry is computed
\* in the native field, so that it is an integer only while a group, the carry into it
\* and the carry out of it, shifted back, stay below P; and the bits that the bounds of
\* a group leave for the carry out of it have to do for the carry into it as well.  The
\* last carry is compared with a limb of the other side, which is not negative and can
\* be wider than the carry: an aligned limb after a full group of aligned limbs is past
\* P already, as it is for limbs of 55 bits over BN254.
CarryRoom(g) == 2 ^ Most(0, Bits(Most(g.x.ub, g.y.ub)) - W * g.n)
CarriesExact(x, y) ==
  LET gs   == Groups(x, y)
      n    == Len(gs)
      rest == Remaining(x, y)
      last == IF rest = <<>> THEN 0 ELSE rest[1].ub
      Shifted(i) == (IF i < n THEN CarryRoom(gs[i]) - 1 ELSE last) * 2 ^ (W * gs[i].n)
      Reach(i)   == Most(gs[i].x.ub, gs[i].y.ub) + (IF i = 1 THEN 0 ELSE CarryRoom(gs[i - 1]) - 1)
  IN  /\ Len(x) <= Len(y) /\ ~EqualRefused(x, y)
      /\ \A i \in 1 .. n     : Reach(i) + Shifted(i) < P
      /\ \A i \in 1 .. n - 1 : Reach(i) < CarryRoom(gs[i]) * 2 ^ (W * gs[i].n)

VariablesEqualExactly ==
  \A i, j \in Comparable :
    CarriesExact(Limbs[i], Limbs[j]) /\ Newest \in {i, j} =>
      /\ EnforceEqual(Limbs[i], Limbs[j]) => kept[i].true_value = kept[j].true_value
      /\ kept[i].true_value = kept[j].true_value /\ OneCarry(Limbs[i], Limbs[j])
           => EnforceEqual(Limbs[i], Limbs[j])
AllocatedEqualExactly ==
  \A l \in Lengths :
    LET x == Limbs[Newest]
        equal == {n \in 0 .. 2 ^ l - 1 : EnforceEqual(x, Allocated(n, l))}
    IN  Newest \in Comparable /\ CarriesExact(x, Allocated(0, l)) =>
          /\ equal \subseteq {kept[Newest].true_value}
          /\ \A n \in {kept[Newest].true_value} \cap 0 .. 2 ^ l - 1 :
               OneCarry(x, Allocated(n, l)) => n \in equal

\* However the limbs of two variables have grown, enforce_equal_unaligned can be
\* satisfied by equal integers only, and by all of them whose limbs it can compare,
\* as long as the bounds of the limbs keep every carry exact; so also between a
\* variable and any integer allocated to compare it with.
EqualExactly == VariablesEqualExactly /\ AllocatedEqualExactly

\* enforce_lt can be satisfied exactly by smaller integers, if their limbs are aligned.
Aligned(x) == \A k \in DOMAIN x : x[k].ub < 2 ^ W
LessExactly ==
  \A i, j \in Var :
    Newest \in {i, j} /\ Aligned(Limbs[i]) /\ Aligned(Limbs[j]) =>
      (EnforceLt(Limbs[i], Limbs[j]) <=> kept[i].true_value < kept[j].true_value)

\* enforce_congruent can be satisfied by congruent integers only, whatever the hints,
\* and the honest hints satisfy it for all of them, where the carries are exact.
CongruentExactly ==
  \A i, j \in Comparable :
    LET x == Limbs[i]
        y == Limbs[j]
        congruent == kept[i].true_value % M = kept[j].true_value % M
        honest == HonestSides(x, y)
    IN  /\ Newest \in {i, j} /\ CongruentBuilt(x, y)
        /\ CarriesExact(honest.l, honest.r) /\ OneCarry(honest.l, honest.r)
        => /\ congruent => EnforceEqual(honest.l, honest.r)
           /\ ~congruent /\ CongruentBits(x, y) <= MaxHintBits =>
                \A q \in Quotients(CongruentBits(x, y)), ge \in BOOLEAN :
                  LET s == CongruentSides(x, y, q, ge) IN ~EnforceEqual(s.l, s.r)

\* modulo leaves the prover the remainder the program means and no other, whatever
\* the hints, and accepts the honest ones, where the carries are exact.
OneRemainder ==
  \A i \in {Newest} \cap Comparable :
    LET x == Limbs[i]
        q == HonestQuotient(x)
        r == HonestRemainder(x)
    IN  ModuloBuilt(x, q, r) /\ CarriesExact(AddNoAlign(MulNoAlign(q, Modulus), r), x) =>
          /\ ModuloHolds(x, q, r) /\ Value(r) = kept[i].true_value % M
          /\ QuotientBits(x) <= MaxHintBits =>
               \A n \in (0 .. 2 ^ Bits(M) - 1) \ {Value(r)} :
                 \A k \in Quotients(QuotientBits(x)) :
                   ~ModuloHolds(x, k, Allocated(n, Bits(M)))
=============================================================================

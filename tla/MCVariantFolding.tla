--------------------------- MODULE MCVariantFolding ---------------------------
(***************************************************************************)
(* Instances of VariantFolding for TLC: the circuit                       *)
(* x^3 + x + 5 = y of the repository's tests (get_test_r1cs), over a small *)
(* prime field.                                                            *)
(***************************************************************************)
EXTENDS VariantFolding, SequencesExt

Row(coeffs) == [k \in Slot |-> IF k \in DOMAIN coeffs THEN coeffs[k] % P ELSE 0]
Rows(rs) == [k \in Slot |-> IF k \in DOMAIN rs THEN Row(rs[k]) ELSE ZeroVec]

\* z = (1, x, y, x^2, x^3, x^3 + x)
MCCs == [A |-> Rows(<<(1 :> 1), (3 :> 1), (1 :> 1 @@ 4 :> 1), (0 :> 5 @@ 5 :> 1)>>),
         B |-> Rows(<<(1 :> 1), (1 :> 1), (0 :> 1), (0 :> 1)>>),
         C |-> Rows(<<(3 :> 1), (4 :> 1), (5 :> 1), (2 :> 1)>>),
         l |-> 1]

MCGens == [k \in Slot |-> (2 * k * k + k + 1) % P]

TestZ(x) == Row(0 :> 1 @@ 1 :> x @@ 2 :> x*x*x + x + 5 @@ 3 :> x*x
                @@ 4 :> x*x*x @@ 5 :> x*x*x + x)

MCIncoming == {TestZ(x) : x \in {0, 1, 3}}
\* y off by one; x^2 off by one
MCWrong    == {[TestZ(3) EXCEPT ![2] = (@ + 1) % P], [TestZ(1) EXCEPT ![3] = (@ + 1) % P]}
MCSampled  == {[k \in Slot |-> IF k < 6 THEN (k * k + c) % P ELSE 0] : c \in {2}}
MCHidingBlinders == {0, 3}

\* A stand-in for the random oracle: absorb an element, then the fifth power, which
\* permutes the residues modulo 7. (The challenge of Nova's own folding is any element.)
MCVariantRo(tr) ==
  LET h[j \in 0 .. Len(tr)] ==
        IF j = 0 THEN 3 ELSE (Pow((h[j - 1] + tr[j]) % P, 5) + 2) % P
  IN  h[Len(tr)]

MCGensE  == [k \in Slot |-> (3 * k + 2) % P]
MCPoints == {<<2, 5>>}
MCAuxes  == {<<>>, <<0, 0>>, <<4, 1>>, <<6>>}
=============================================================================

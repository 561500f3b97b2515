------------------------ MODULE MCProtoGalaxyFolding ------------------------
(***************************************************************************)
(* Instances of ProtoGalaxyFolding for TLC: the circuit x^3 + x + 5 = y of *)
(* the repository's tests (get_test_r1cs), over a small prime field.       *)
(***************************************************************************)
EXTENDS ProtoGalaxyFolding, TLC

MCRo(tr) == 0       \* not used: the challenges are any elements

Row(coeffs) == [k \in Slot |-> IF k \in DOMAIN coeffs THEN coeffs[k] % P ELSE 0]
Rows(rs) == [k \in Slot |-> IF k + 1 \in DOMAIN rs THEN Row(rs[k + 1]) ELSE ZeroVec]

\* z = (1, x, y, x^2, x^3, x^3 + x)
MCR == [A |-> Rows(<<(1 :> 1), (3 :> 1), (1 :> 1 @@ 4 :> 1), (0 :> 5 @@ 5 :> 1)>>),
        B |-> Rows(<<(1 :> 1), (1 :> 1), (0 :> 1), (0 :> 1)>>),
        C |-> Rows(<<(3 :> 1), (4 :> 1), (5 :> 1), (2 :> 1)>>),
        l |-> 1, t |-> 2]

\* The same with its constraints in the reverse order: the last one, number
\* 2^t - 1, is now x x = x^2, whose error does not stay zero.
MCReversed == [MCR EXCEPT !.A = [k \in Slot |-> IF k < 4 THEN @[3 - k] ELSE @[k]],
                          !.B = [k \in Slot |-> IF k < 4 THEN @[3 - k] ELSE @[k]],
                          !.C = [k \in Slot |-> IF k < 4 THEN @[3 - k] ELSE @[k]]]

MCGens == [k \in Slot |-> (2 * k * k + k + 1) % P]

TestZ(x) == Row(0 :> 1 @@ 1 :> x @@ 2 :> x*x*x + x + 5 @@ 3 :> x*x
                @@ 4 :> x*x*x @@ 5 :> x*x*x + x)

MCIncoming == {TestZ(x) : x \in {1, 3}}
\* x^2 off by one
MCWrong    == {[TestZ(1) EXCEPT ![3] = (@ + 1) % P]}
\* MCR is a system whose last constraint is linear and never violated: both sides agree.
ASSUME MCLastIsLinear ==
  /\ \A s \in Slot \ {0} : MCR.B[3][s] = 0
  /\ \A z \in MCIncoming \union MCWrong : EvalAtZ(MCR, z)[3] = 0

MCChallenge == {0, 2, 9}

\* One instance, two (which is refused) and three, satisfied or not.
MCOffers ==
  LET a == TestZ(1)
      b == TestZ(3)
      w == CHOOSE z \in MCWrong : TRUE
  IN  {<<a>>, <<b>>, <<w>>, <<a, b>>, <<b, a, b>>, <<b, w, a>>}
=============================================================================

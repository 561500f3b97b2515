-------------------------- MODULE MCHyperNovaFolding --------------------------
(***************************************************************************)
(* Instances of HyperNovaFolding for TLC: the circuit x^3 + x + 5 = y of   *)
(* the repository's tests (get_test_ccs), four rows, over a small prime    *)
(* field.                                                                  *)
(***************************************************************************)
EXTENDS HyperNovaFolding

MCRo(tr) == 0       \* not used: the challenges are any elements

Row(coeffs) == [k \in Slot |-> IF k \in DOMAIN coeffs THEN coeffs[k] % P ELSE 0]
Rows(rs) == [k \in Slot |-> IF k + 1 \in DOMAIN rs THEN Row(rs[k + 1]) ELSE ZeroVec]
At(k, a) == [j \in {k} |-> a]
Two(k, a, l, b) == [j \in {k, l} |-> IF j = k THEN a ELSE b]

\* z = (1, x, y, x^2, x^3, x^3 + x)
MCCcs == [A |-> Rows(<<At(1, 1), At(3, 1), Two(1, 1, 4, 1), Two(0, 5, 5, 1)>>),
          B |-> Rows(<<At(1, 1), At(1, 1), At(0, 1), At(0, 1)>>),
          C |-> Rows(<<At(3, 1), At(4, 1), At(5, 1), At(2, 1)>>),
          l |-> 1, s |-> 2]

MCGens == [k \in Slot |-> (2 * k * k + k + 1) % P]

TestZ(x) == [k \in Slot |-> <<1, x, x*x*x + x + 5, x*x, x*x*x, x*x*x + x, 0, 0>>[k + 1] % P]

Running(z, r_w, r_x) ==
  [U |-> ToLcccs(MCGens, MCCcs, z, r_w, r_x), W |-> ToWitness(MCCcs, z, r_w)]
\* One made by to_lcccs, and the same with an evaluation off by one.
MCOthers ==
  LET right == Running(TestZ(2), 3, <<1, 4>>)
  IN  {right, [right EXCEPT !.U.v[2] = (@ + 1) % P]}

New(z, r_w) == [u |-> ToCccs(MCGens, MCCcs, z, r_w), w |-> ToWitness(MCCcs, z, r_w)]
\* Satisfied, and with x^2 off by one.
MCIncoming == {New(TestZ(3), 2), New([TestZ(3) EXCEPT ![3] = (@ + 1) % P], 2)}

MCGammas == {0, 2}
MCBetas  == {<<3, 5>>, <<1, 0>>}
MCPoints == {0, 4}
MCRhos   == {1, 3}
=============================================================================

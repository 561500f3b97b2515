--------------------------- MODULE MCProtoGalaxyIVC ---------------------------
(***************************************************************************)
(* Instances of ProtoGalaxyIVC with its decider for TLC: the generators of *)
(* the circuit's commitments are the Lagrange polynomials at Beta.         *)
(***************************************************************************)
EXTENDS ProtoGalaxyDecider

\* A stand-in for the random oracle: absorb an element, then cube, which permutes
\* the residues modulo 10169 (3 does not divide 10168, which 8 does).
MCCube(h) == (((h * h) % P) * h) % P
MCRo(tr) ==
  LET h[j \in 0 .. Len(tr)] ==
        IF j = 0 THEN 1 ELSE (MCCube((h[j - 1] + tr[j]) % P) + 31) % P
  IN  h[Len(tr)]

MCKzgKey == [k \in Slot |-> KzgCommit(Entries(E1(k)))]
MCCfG == [k \in Slot |-> (k * k * 29 + 11 * k + 2) % P]

MCZ0  == {<<3>>, <<4>>, <<1, 2>>}
=============================================================================

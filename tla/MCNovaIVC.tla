------------------------------- MODULE MCNovaIVC -------------------------------
(***************************************************************************)
(* Instances of NovaIVC, with its deciders, for TLC.                       *)
(***************************************************************************)
EXTENDS NovaDecider

\* A stand-in for the random oracle: absorb an element, then cube, which permutes
\* the residues modulo 10169 (3 does not divide 10168).
MCCube(h) == (((h * h) % P) * h) % P
MCRo(tr) ==
  LET h[j \in 0 .. Len(tr)] ==
        IF j = 0 THEN 1 ELSE (MCCube((h[j - 1] + tr[j]) % P) + 31) % P
  IN  h[Len(tr)]

\* The generators are those of the deciders' KZG setup, the Lagrange polynomials at
\* Beta modulo a prime that has the domain.
MCKzgKey == [k \in Slot |-> KzgCommit(Entries(E1(k)))]

MCZ0  == {<<3>>, <<4>>, <<1, 2>>}

ZeroDraw == [b \in Blinder |-> 0]
MCDraws  == {ZeroDraw}
\* Blinders that are all drawn different from zero.
MCHidingDraws == {[b \in Blinder |->
  CASE b = "cfW.rW" -> c [] b = "cfW.rE" -> c + 1 [] b = "cfE.rW" -> c + 2
    [] b = "cfE.rE" -> c + 3 [] b = "w.rW" -> c + 4 [] b = "w.rE" -> c + 5] : c \in {11, 23}}
=============================================================================

----------------------------- MODULE MCHyperNovaIVC -----------------------------
(***************************************************************************)
(* Instances of HyperNovaIVC for TLC.                                      *)
(***************************************************************************)
EXTENDS HyperNovaIVC

\* A stand-in for the random oracle: absorb an element, then cube, which permutes
\* the residues modulo 10007 (3 does not divide 10006).
MCCube(h) == (((h * h) % P) * h) % P
MCRo(tr) ==
  LET h[j \in 0 .. Len(tr)] ==
        IF j = 0 THEN 1 ELSE (MCCube((h[j - 1] + tr[j]) % P) + 31) % P
  IN  h[Len(tr)]

MCG   == [k \in Slot |-> (k * k * 17 + 5 * k + 3) % P]
MCCfG == [k \in Slot |-> (k * k * 29 + 11 * k + 2) % P]

MCZ0  == {<<3>>, <<4>>, <<1, 2>>}

MCDraws == {[b \in Blinder |-> CASE b = "cf.rW" -> c [] b = "cf.rE" -> c + 1
                                 [] b = "w.r_w" -> c + 2] : c \in {11}}
MCCaller == [w |-> 5, W |-> 6]
=============================================================================

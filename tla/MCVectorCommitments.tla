-------------------------- MODULE MCVectorCommitments --------------------------
(***************************************************************************)
(* Instances of VectorCommitments for TLC.                                 *)
(***************************************************************************)
EXTENDS VectorCommitments

\* A stand-in for the random oracle: absorb an element, then cube, which permutes
\* the residues modulo 40961 (3 does not divide 40960, which 8 does).
MCCube(h) == (((h * h) % P) * h) % P
MCRo(tr) ==
  LET h[j \in 0 .. Len(tr)] ==
        IF j = 0 THEN 1 ELSE (MCCube((h[j - 1] + tr[j]) % P) + 31) % P
  IN  h[Len(tr)]

MCGens    == <<1234, 20011, 777, 31416>>
MCVectors == {<<5>>, <<3, 9>>, <<0, 4>>, <<1, 2, 3>>, <<4, 0, 7, 1>>, <<1, 2, 3, 4, 5, 6, 7, 8>>}
MCDraw    == [l |-> <<21, 22, 23>>, r |-> <<31, 32, 33>>]
=============================================================================

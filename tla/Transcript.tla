------------------------------ MODULE Transcript ------------------------------
(***************************************************************************)
(* The Poseidon sponge behind every hash and challenge (transcript/).      *)
(*                                                                         *)
(* A sponge is the sequence of the elements absorbed so far, with a mark   *)
(* where it was squeezed.  Ro is the random oracle the code takes Poseidon *)
(* to be; nothing is assumed of it, RoElement keeps its answers in Fp.     *)
(***************************************************************************)
EXTENDS Field, Sequences

CONSTANT Ro(_)      \* the random oracle, on sequences of integers

Absorb(tr, elems) == tr \o elems

RoElement(tr) == IF Ro(tr) \in Fp THEN Ro(tr) ELSE 0

\* squeeze_bits and squeeze_field_elements leave the sponge in squeezing mode:
\* what is absorbed next is separated from what came before by a mark.  The
\* squeezed challenge itself is not absorbed.
Squeeze(tr) == [r |-> RoElement(tr), tr |-> Append(tr, -1)]

\* get_challenge: what was squeezed is absorbed again.
GetChallenge(tr) == LET sq == Squeeze(tr) IN [r |-> sq.r, tr |-> Absorb(sq.tr, <<sq.r>>)]

\* get_challenges: n elements are squeezed, one after the other, then absorbed.
GetChallenges(tr, n) ==
  LET marks(k) == [j \in 1 .. k |-> -1]
      rs == [j \in 1 .. n |-> RoElement(tr \o marks(j - 1))]
  IN  [rs |-> rs, tr |-> Absorb(tr \o marks(n), rs)]
=============================================================================

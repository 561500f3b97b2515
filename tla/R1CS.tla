--------------------------------- MODULE R1CS ---------------------------------
(***************************************************************************)
(* arith/r1cs/mod.rs with the relaxed relation of folding/nova/traits.rs.  *)
(*                                                                         *)
(* A constraint system is [A, B, C : [Slot -> Vec], l : number of public   *)
(* inputs].  Row 0 and every row the circuit does not use are zero.        *)
(* The assignment is z = <<u>> \o x \o W: slot 0 holds u, slots 1..l the   *)
(* public inputs, and a witness W is zero outside slots l+1..7.            *)
(*                                                                         *)
(* An instance is [cmE, u, cmW, x] and a witness is [E, rE, W, rW], the    *)
(* CommittedInstance and Witness of folding/nova/mod.rs.                   *)
(***************************************************************************)
EXTENDS Field, Sequences

WitnessVec(l)   == {v \in Vec : \A k \in 0 .. l : v[k] = 0}
ErrorVec        == {v \in Vec : v[0] = 0}
Matrix          == [Slot -> Vec]

CommittedInstance(l) == [cmE : Fp, u : Fp, cmW : Fp, x : [1 .. l -> Fp]]
Witness(l)           == [E : ErrorVec, rE : Fp, W : WitnessVec(l), rW : Fp]

\* The concatenation of u, x and W.
Assignment(u, x, W) ==
  [k \in Slot |-> IF k = 0 THEN u ELSE IF k \in DOMAIN x THEN x[k] ELSE W[k]]

\* split_z and extract_w_x: the public part and the witness part of z.
PublicOf(z, l)  == [k \in 1 .. l |-> z[k]]
WitnessOf(z, l) == [k \in Slot |-> IF k <= l THEN 0 ELSE z[k]]

\* Az o Bz - u Cz, with u = z[0].
EvalAtZ(cs, z) ==
  VecSub(Hadamard(MatVecMul(cs.A, z), MatVecMul(cs.B, z)),
         VecScalarMul(MatVecMul(cs.C, z), z[0]))

CheckRelation_LastRowSkipped(cs, w, u) ==
  /\ DOMAIN u.x = 1 .. cs.l
  /\ \A k \in Slot : (\E j \in Slot : j > k /\ cs.A[j] # ZeroVec)
       => w.E[k] = EvalAtZ(cs, Assignment(u.u, u.x, w.W))[k]

\* check_relation for a witness and a committed instance: the error vector
\* must be the evaluation.  Commitments are not looked at.
CheckRelation(cs, w, u) ==
  /\ DOMAIN u.x = 1 .. cs.l
  /\ w.E = EvalAtZ(cs, Assignment(u.u, u.x, w.W))

DummyInstance(l) == [cmE |-> 0, u |-> 0, cmW |-> 0, x |-> [k \in 1 .. l |-> 0]]
DummyWitness     == [E |-> ZeroVec, rE |-> 0, W |-> ZeroVec, rW |-> 0]

\* check_incoming: a fresh, not yet folded instance.
IsIncoming(u) == u.cmE = 0 /\ u.u = 1
=============================================================================

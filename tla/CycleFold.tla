------------------------------ MODULE CycleFold ------------------------------
(***************************************************************************)
(* folding/circuits/cyclefold.rs: the folds of two commitments are proved  *)
(* by a circuit on the other curve of the cycle, whose instances are       *)
(* themselves folded by Nova's NIFS.  The two curves are the same group    *)
(* here and both their scalar fields are Fp.                               *)
(***************************************************************************)
EXTENDS NovaNIFS

CONSTANTS PpHash,      \* hash of the public parameters
          CfG          \* generators of the commitments to CycleFold witnesses

ASSUME PpHashAssumption == PpHash \in Fp
ASSUME CfGAssumption    == CfG \in Vec

\* hash_cyclefold.
HashCycleFold(cfU) == Squeeze(<<PpHash>> \o InstanceElements(cfU)).r

\* A fresh instance from its commitment and its public inputs.
IncomingInstance(cmW, x) == [cmE |-> 0, u |-> 1, cmW |-> cmW, x |-> x]

\* A matrix from its first rows, and the row that picks slot k.
Sparse(rows) == [k \in Slot |-> IF k \in DOMAIN rows THEN rows[k] ELSE ZeroVec]
E1(k)        == [j \in Slot |-> IF j = k THEN 1 ELSE 0]

\* The R1CS of the CycleFold circuit: x = (r, p_0, p_1, p_folded) and witness
\* (r, p_0, p_1);  r p_1 = p_folded - p_0 and the witness equals the inputs.
CfR1CS ==
  [A |-> Sparse(<<E1(5), E1(5), E1(6), E1(7)>>),
   B |-> Sparse(<<E1(7), E1(0), E1(0), E1(0)>>),
   C |-> Sparse(<<[E1(4) EXCEPT ![6] = P - 1], E1(1), E1(2), E1(3)>>),
   l |-> 4]

\* The assignment of CycleFoldCircuit for challenge r and the points p0 and p1,
\* folded to p0 + r p1: (1, x, witness).
CycleFoldAssignment(r, p0, p1) ==
  [k \in Slot |-> CASE k = 0 -> 1
                    [] k \in {1, 5} -> r
                    [] k \in {2, 6} -> p0
                    [] k \in {3, 7} -> p1
                    [] k = 4 -> Rlc(p0, r, p1)]

\* fold_cyclefold_circuit: prove the fold of two points and fold that proof into
\* the running CycleFold pair, on the step's transcript.
FoldCycleFoldCircuit(tr, cfW, cfU, r, p0, p1, rW, rE) ==
  LET z   == CycleFoldAssignment(r, p0, p1)
      w   == NewWitness(WitnessOf(z, 4), rW, rE)
      u   == CommitWitness(CfG, w, PublicOf(z, 4))
      T   == ComputeT(CfR1CS, u, w, cfU, cfW)
      cmT == Commit(CfG, T, 0)
      sq  == Squeeze(Absorb(tr, ChallengeInput(PpHash, cfU, u, cmT)))
  IN  [u |-> u, cmT |-> cmT, tr |-> sq.tr,
       W |-> FoldWitness(sq.r, cfW, w, T),
       U |-> FoldCommittedInstances(sq.r, cfU, u, cmT)]

NIFSFullGadgetFold_PlusOne(r, cmT, ci1, ci2) ==
  [cmE |-> Rlc(ci1.cmE, r, cmT),
   u   |-> (ci1.u + 1) % P,
   cmW |-> Rlc(ci1.cmW, r, ci2.cmW),
   x   |-> [k \in DOMAIN ci1.x |-> Rlc(ci1.x[k], r, ci2.x[k])]]

\* NIFSFullGadget: the in-circuit fold, which takes ci2.cmE = 0 and ci2.u = 1
\* for granted.
NIFSFullGadgetFold(r, cmT, ci1, ci2) ==
  [cmE |-> Rlc(ci1.cmE, r, cmT),
   u   |-> (ci1.u + r) % P,
   cmW |-> Rlc(ci1.cmW, r, ci2.cmW),
   x   |-> [k \in DOMAIN ci1.x |-> Rlc(ci1.x[k], r, ci2.x[k])]]

\* One CycleFold fold inside an augmented circuit: the challenge and the folded
\* instance from what the circuit knows of the incoming one.
CycleFoldGadget(tr, cfU, cmW, x, cmT) ==
  LET u  == IncomingInstance(cmW, x)
      sq == Squeeze(Absorb(tr, ChallengeInput(PpHash, cfU, u, cmT)))
  IN  [U |-> NIFSFullGadgetFold(sq.r, cmT, cfU, u), tr |-> sq.tr]
=============================================================================

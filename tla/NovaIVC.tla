-------------------------------- MODULE NovaIVC --------------------------------
(***************************************************************************)
(* Nova + CycleFold IVC: folding/nova/mod.rs, folding/nova/circuits.rs and *)
(* folding/circuits/cyclefold.rs.                                          *)
(*                                                                         *)
(* What init, prove_step and verify compute; FoldingScheme has the parties *)
(* that call them.                                                         *)
(***************************************************************************)
EXTENDS CycleFold, FCircuit, FiniteSets

CONSTANTS Party, NoProver, Z0, Draws, UsizeMax, MaxSent, MaxFailures,
                       \* see FoldingScheme
          G            \* generators of the commitments to the augmented circuit

ASSUME GAssumption      == G \in Vec
ASSUME Z0Assumption     == Z0 \subseteq State
ASSUME BoundsAssumption == UsizeMax \in Nat /\ MaxSent \in Nat /\ MaxFailures \in Nat

\* The six blinders of a step, in the order the code draws them.
Blinder == {"cfW.rW", "cfW.rE", "cfE.rW", "cfE.rE", "w.rW", "w.rE"}
ASSUME DrawsAssumption  == \A d \in Draws : d \in [Blinder -> Fp]

VARIABLES st, sent, verdict, failures     \* see FoldingScheme

----------------------------------------------------------------------------
\* The hash of a running instance (CommittedInstanceOps::hash).
Hash(U, i, z_0, z_i) ==
  Squeeze(<<PpHash, i>> \o z_0 \o z_i \o InstanceElements(U)).r

\* The R1CS of the augmented circuit, reduced to the constraints on F and on the
\* two outputs: z = (u, x0, x1, z_i, ext, z_{i+1}, h0, h1).
\*   z_i z_i = z_{i+1} - ext - 5,   h0 1 = x0,   h1 1 = x1
AugR1CS ==
  [A |-> Sparse(<<E1(3), E1(6), E1(7)>>),
   B |-> Sparse(<<E1(3), E1(0), E1(0)>>),
   C |-> Sparse(<<[E1(5) EXCEPT ![4] = P - 1, ![0] = (P - 5) % P], E1(1), E1(2)>>),
   l |-> 2]

\* NIFSGadget::verify: the in-circuit fold of the primary instances leaves the
\* commitments to the caller.
NIFSGadgetVerify(tr, U, u, cmT) ==
  LET sq == Squeeze(Absorb(tr, ChallengeInput(PpHash, U, u, cmT)))
  IN  [U |-> [cmE |-> 0, cmW |-> 0, u |-> Rlc(U.u, sq.r, u.u),
              x |-> [k \in DOMAIN U.x |-> Rlc(U.x[k], sq.r, u.x[k])]],
       r |-> sq.r, tr |-> sq.tr]

----------------------------------------------------------------------------
\* What AugmentedFCircuit::compute_next_state returns on the inputs a of the prover,
\* z_{i+1} and the outputs x, with the witness it assigns.
CircuitOutputs(a, z_i1, x) ==
  [z_i1 |-> z_i1, x |-> x,
   W |-> [k \in Slot |-> CASE k <= 2 -> 0 [] k = 3 -> a.z_i[1] [] k = 4 -> a.ext
                           [] k = 5 -> z_i1[1] [] k = 6 -> x[1] [] k = 7 -> x[2]]]

\* Its two CycleFold folds, after the primary one: v, which gave U_{i+1}.
CycleFoldsInCircuit(a, v, U_i1) ==
  LET cf1 == CycleFoldGadget(v.tr, a.cf_U_i, a.cf1_u_i_cmW,
               <<v.r, a.U_i.cmW, a.u_i_cmW, U_i1.cmW>>, a.cf1_cmT)
  IN  CycleFoldGadget(cf1.tr, cf1.U, a.cf2_u_i_cmW,
        <<v.r, a.U_i.cmE, a.cmT, U_i1.cmE>>, a.cf2_cmT).U

\* It rebuilds u_i from the hashes of what it is given, so that the challenge, the
\* folded instances and both outputs are its own and not the prover's.
AugmentedCircuit(a) ==
  LET u_i  == IncomingInstance(a.u_i_cmW,
                <<Hash(a.U_i, a.i, a.z_0, a.z_i), HashCycleFold(a.cf_U_i)>>)
      z_i1 == F(a.z_i, a.ext)
      Outputs(v) ==
        LET U_i1 == [v.U EXCEPT !.cmE = a.U_i1_cmE, !.cmW = a.U_i1_cmW]
        IN  IF a.i = 0 THEN <<Hash(DummyInstance(2), 1, a.z_0, z_i1), HashCycleFold(DummyInstance(4))>>
                       ELSE <<Hash(U_i1, a.i + 1, a.z_0, z_i1),
                              HashCycleFold(CycleFoldsInCircuit(a, v, U_i1))>>
  IN  CircuitOutputs(a, z_i1, Outputs(NIFSGadgetVerify(<<>>, a.U_i, u_i, a.cmT)))
----------------------------------------------------------------------------
\* Nova::init.
FreshProver(z_0) ==
  [i |-> 0, z_0 |-> z_0, z_i |-> z_0,
   w_i |-> DummyWitness, u_i |-> DummyInstance(2),
   W_i |-> DummyWitness, U_i |-> DummyInstance(2),
   cf_W_i |-> DummyWitness, cf_U_i |-> DummyInstance(4)]

\* The public inputs of u_i are the hashes of the running instances.
HashesMatch_CycleFoldOnly(pr) == pr.u_i.x[2] = HashCycleFold(pr.cf_U_i)
HashesMatch(pr) ==
  /\ pr.u_i.x[1] = Hash(pr.U_i, pr.i, pr.z_0, pr.z_i)
  /\ pr.u_i.x[2] = HashCycleFold(pr.cf_U_i)

\* Nova::verify.  It checks no commitment, and at i = 0 only z_0 = z_i.
Verify(pr) ==
  IF pr.i = 0 THEN pr.z_0 = pr.z_i
  ELSE /\ DOMAIN pr.u_i.x = 1 .. 2 /\ DOMAIN pr.U_i.x = 1 .. 2
       /\ HashesMatch(pr)
       /\ IsIncoming(pr.u_i)
       /\ CheckRelation(AugR1CS, pr.w_i, pr.u_i)
       /\ CheckRelation(AugR1CS, pr.W_i, pr.U_i)
       /\ CheckRelation(CfR1CS, pr.cf_W_i, pr.cf_U_i)

\* The blinders prove_step looks at before it does anything: those of the running
\* witness only from the second step on.
CheckedBlinders_All(s) == {s.w_i.rW, s.w_i.rE, s.W_i.rW, s.W_i.rE}
CheckedBlinders(s) ==
  {s.w_i.rW, s.w_i.rE} \union (IF s.i = 1 THEN {} ELSE {s.W_i.rW, s.W_i.rE})

\* The early returns of prove_step, in order; "Ok" when it goes on.
Precheck(s, multi) ==
  IF Hiding /\ s.i >= 1 /\ 0 \in CheckedBlinders(s) THEN "IncorrectBlinding"
  ELSE IF multi THEN "NoMultiInstances"
  ELSE IF Len(s.z_i) # StateLen THEN "NotSameLength"
  ELSE IF s.i > UsizeMax THEN "MaxStep"
  ELSE "Ok"

\* The first half of prove_step: fold u_i into U_i and, after the base case, fold
\* the proofs of its two commitment folds into the CycleFold pair.
PrimaryFold(s) == NIFSProve(AugR1CS, G, <<>>, PpHash, s.W_i, s.U_i, s.w_i, s.u_i)
CfWFold(s, f, d) ==
  FoldCycleFoldCircuit(f.tr, s.cf_W_i, s.cf_U_i, f.r, s.U_i.cmW, s.u_i.cmW,
                       d["cfW.rW"], d["cfW.rE"])
CfEFold(s, f, cfW, d) ==
  FoldCycleFoldCircuit(cfW.tr, cfW.W, cfW.U, f.r, s.U_i.cmE, f.cmT,
                       d["cfE.rW"], d["cfE.rE"])

\* The circuit's inputs; in the base case the CycleFold ones are left out.
CircuitInputs(s, ext, f, cfW, cfE) ==
  [i |-> s.i, z_0 |-> s.z_0, z_i |-> s.z_i, ext |-> ext,
   u_i_cmW |-> s.u_i.cmW, U_i |-> s.U_i,
   U_i1_cmE |-> f.U.cmE, U_i1_cmW |-> f.U.cmW, cmT |-> f.cmT,
   cf_U_i      |-> IF s.i = 0 THEN DummyInstance(4) ELSE s.cf_U_i,
   cf1_u_i_cmW |-> IF s.i = 0 THEN 0 ELSE cfW.u.cmW,
   cf2_u_i_cmW |-> IF s.i = 0 THEN 0 ELSE cfE.u.cmW,
   cf1_cmT     |-> IF s.i = 0 THEN 0 ELSE cfW.cmT,
   cf2_cmT     |-> IF s.i = 0 THEN 0 ELSE cfE.cmT]

\* What prove_step assigns after the circuit c ran on its folds.
AfterCircuit(s, d, f, c) ==
  LET w == NewWitness(c.W, d["w.rW"], d["w.rE"])
  IN  [s EXCEPT !.i = @ + 1, !.z_i = c.z_i1, !.w_i = w, !.u_i = CommitWitness(G, w, c.x),
                !.W_i = f.W, !.U_i = f.U]

\* The CycleFold pair is assigned before the circuit runs, everything else after
\* it: if F's circuit returns an error the function returns with only that replaced.
AfterFolds(s, ext, d, f, cfW, cfE) ==
  LET cfd == IF s.i = 0 THEN s ELSE [s EXCEPT !.cf_W_i = cfE.W, !.cf_U_i = cfE.U]
  IN  IF ext \in BadExt THEN cfd
      ELSE AfterCircuit(cfd, d, f, AugmentedCircuit(CircuitInputs(s, ext, f, cfW, cfE)))

\* What prove_step leaves in the struct: one fold after the other, each of which
\* needs the one before.
AfterCfW(s, ext, d, f, cfW) == AfterFolds(s, ext, d, f, cfW, CfEFold(s, f, cfW, d))
AfterPrimary(s, ext, d, f)  == AfterCfW(s, ext, d, f, CfWFold(s, f, d))
Proved(s, ext, d)           == AfterPrimary(s, ext, d, PrimaryFold(s))

----------------------------------------------------------------------------
\* The groups of fields of two proofs that are mixed up.
Mixed == {{}, {"i"}, {"z_0"}, {"z_i"}, {"i", "z_i"}, {"W_i", "U_i"}, {"w_i", "u_i"},
          {"cf_W_i", "cf_U_i"}, {"W_i"}, {"cf_W_i"}}

\* init, prove_step, ivc_proof, from_ivc_proof and verify, called by the parties.
INSTANCE FoldingScheme

----------------------------------------------------------------------------
\* With blinders that are never zero, no step is refused for a zero blinder.
BlindingSuffices == verdict.ret # "IncorrectBlinding"
=============================================================================

----------------------------- MODULE HyperNovaIVC -----------------------------
(***************************************************************************)
(* HyperNova + CycleFold IVC: folding/hypernova/mod.rs and circuits.rs,    *)
(* one running and one incoming instance (MU = NU = 1).                    *)
(*                                                                         *)
(* What init, prove_step and verify compute; FoldingScheme has the parties *)
(* that call them.  A caller who wants blinding writes two blinders into   *)
(* the struct between init and the first step, as the tests do; that is    *)
(* part of FreshProver.                                                    *)
(***************************************************************************)
EXTENDS CycleFold, FCircuit, HyperNovaNIMFS, FiniteSets

CONSTANTS Party, NoProver, Z0, Draws, UsizeMax, MaxSent, MaxFailures,   \* see FoldingScheme
          G,               \* generators of the commitments to the augmented circuit
          CallerBlinders   \* what the caller writes into w_i.r_w and W_i.r_w

ASSUME GAssumption      == G \in Vec
ASSUME Z0Assumption     == Z0 \subseteq State
ASSUME BoundsAssumption == UsizeMax \in Nat /\ MaxSent \in Nat /\ MaxFailures \in Nat

\* The three blinders of a step, in the order the code draws them.
Blinder == {"cf.rW", "cf.rE", "w.r_w"}
ASSUME DrawsAssumption  == \A d \in Draws : d \in [Blinder -> Fp]
ASSUME CallerAssumption == CallerBlinders \in [w : Fp, W : Fp]

VARIABLES st, sent, verdict, failures     \* see FoldingScheme

----------------------------------------------------------------------------
\* The hash of a running instance (CommittedInstanceOps::hash).
Hash(U, i, z_0, z_i) ==
  Squeeze(<<PpHash, i>> \o z_0 \o z_i \o LcccsElements(U)).r

\* The CCS of the augmented circuit, reduced to the constraints on F and on the two
\* outputs: z = (u, x0, x1, z_i, ext, z_{i+1}, h0, h1), four rows, the last one zero.
\*   h0 1 = x0,   z_i z_i = z_{i+1} - ext - 5,   h1 1 = x1
FirstRows(rows) == [k \in Slot |-> IF k + 1 \in DOMAIN rows THEN rows[k + 1] ELSE ZeroVec]
AugCCS ==
  [A |-> FirstRows(<<E1(6), E1(3), E1(7)>>),
   B |-> FirstRows(<<E1(0), E1(3), E1(0)>>),
   C |-> FirstRows(<<E1(1), [E1(5) EXCEPT ![4] = P - 1, ![0] = (P - 5) % P], E1(2)>>),
   l |-> 2, s |-> 2]

----------------------------------------------------------------------------
\* What AugmentedFCircuit::compute_next_state returns on the inputs a of the prover,
\* z_{i+1} and the outputs x, with the witness it assigns.  If a constraint of the
\* gadgets does not hold, that witness satisfies nothing: here it is h0 that is off.
CircuitOutputs(a, z_i1, o) ==
  [z_i1 |-> z_i1, x |-> o.x,
   W |-> [k \in Slot |-> CASE k <= 2 -> 0 [] k = 3 -> a.z_i[1] [] k = 4 -> a.ext
                           [] k = 5 -> z_i1[1]
                           [] k = 6 -> IF o.holds THEN o.x[1] ELSE (o.x[1] + 1) % P
                           [] k = 7 -> o.x[2]]]

\* Its CycleFold fold, after the primary one: v, which gave U_{i+1}.
CycleFoldInCircuit(a, v, U_i1) ==
  CycleFoldGadget(v.tr, a.cf_U_i, a.cf_u_i_cmW, <<v.rho, a.U_i.C, a.u_i_C, U_i1.C>>, a.cf_cmT).U

\* It rebuilds u_i from the hashes of what it is given, so that all challenges, the
\* folded instances and both outputs are its own and not the prover's.
RebuiltIncoming(a) ==
  [C |-> a.u_i_C, x |-> <<Hash(a.U_i, a.i, a.z_0, a.z_i), HashCycleFold(a.cf_U_i)>>]
AfterGadget(a, z_i1, v, U_i1) ==
  [holds |-> v.holds,
   x |-> <<Hash(U_i1, a.i + 1, a.z_0, z_i1), HashCycleFold(CycleFoldInCircuit(a, v, U_i1))>>]
WithGadget(a, z_i1, v) == AfterGadget(a, z_i1, v, [v.U EXCEPT !.C = a.U_i1_C])

\* In the base case the gadget's constraints are disabled.
Outputs(a, z_i1) ==
  IF a.i = 0
  THEN [holds |-> TRUE,
        x |-> <<Hash(DummyLcccs(AugCCS), 1, a.z_0, z_i1), HashCycleFold(DummyInstance(4))>>]
  ELSE WithGadget(a, z_i1, NimfsGadget(<<PpHash>>, AugCCS, <<a.U_i>>, <<RebuiltIncoming(a)>>,
                                       a.nimfs_proof))
AugmentedCircuit(a) ==
  LET z_i1 == F(a.z_i, a.ext) IN CircuitOutputs(a, z_i1, Outputs(a, z_i1))

----------------------------------------------------------------------------
\* HyperNova::init, and what the caller does to the two blinders.
FreshProver(z_0) ==
  [i |-> 0, z_0 |-> z_0, z_i |-> z_0,
   w_i |-> [DummyHnWitness EXCEPT !.r_w = CallerBlinders.w],
   u_i |-> [DummyCccs(AugCCS) EXCEPT
              !.x = <<Hash(DummyLcccs(AugCCS), 0, z_0, z_0), HashCycleFold(DummyInstance(4))>>],
   W_i |-> [DummyHnWitness EXCEPT !.r_w = CallerBlinders.W], U_i |-> DummyLcccs(AugCCS),
   cf_W_i |-> DummyWitness, cf_U_i |-> DummyInstance(4)]

HashesMatch_CycleFoldOnly(pr) == pr.u_i.x[2] = HashCycleFold(pr.cf_U_i)
\* The public inputs of u_i are the hashes of the running instances.
HashesMatch(pr) ==
  /\ pr.u_i.x[1] = Hash(pr.U_i, pr.i, pr.z_0, pr.z_i)
  /\ pr.u_i.x[2] = HashCycleFold(pr.cf_U_i)

\* HyperNova::verify.  It checks no commitment, and at i = 0 only z_0 = z_i.
Verify(pr) ==
  IF pr.i = 0 THEN pr.z_0 = pr.z_i
  ELSE /\ DOMAIN pr.u_i.x = 1 .. 2 /\ DOMAIN pr.U_i.x = 1 .. 2
       /\ HashesMatch(pr)
       /\ CheckLcccs(AugCCS, pr.W_i, pr.U_i)
       /\ CheckCccs(AugCCS, pr.w_i, pr.u_i)
       /\ CheckRelation(CfR1CS, pr.cf_W_i, pr.cf_U_i)

\* The blinders prove_step looks at before it does anything.
CheckedBlinders(s) == {s.w_i.r_w} \union (IF s.i = 0 THEN {} ELSE {s.W_i.r_w})

\* The early returns of prove_step, in order; "Ok" when it goes on.  With MU = NU = 1
\* other instances are not looked at.
Precheck(s, multi) ==
  IF Hiding /\ 0 \in CheckedBlinders(s) THEN "IncorrectBlinding"
  ELSE IF Len(s.z_i) # StateLen THEN "NotSameLength"
  ELSE IF s.i > UsizeMax THEN "MaxStep"
  ELSE "Ok"

\* The folds of prove_step, which it skips in the base case.
PrimaryFold(s) ==
  NimfsProve(<<PpHash>>, AugCCS, <<s.U_i>>, <<s.u_i>>, <<s.W_i>>, <<s.w_i>>)
CfFold(s, f, d) ==
  FoldCycleFoldCircuit(f.tr, s.cf_W_i, s.cf_U_i, f.rho, s.U_i.C, s.u_i.C, d["cf.rW"], d["cf.rE"])

\* The circuit's inputs for the base case, which has no proof, and after it.
BaseInputs(s, ext) == [i |-> 0, z_0 |-> s.z_0, z_i |-> s.z_i, ext |-> ext]
CircuitInputs(s, ext, f, cf) ==
  [i |-> s.i, z_0 |-> s.z_0, z_i |-> s.z_i, ext |-> ext, U_i |-> s.U_i, u_i_C |-> s.u_i.C,
   U_i1_C |-> f.U.C, nimfs_proof |-> f.proof,
   cf_U_i |-> s.cf_U_i, cf_u_i_cmW |-> cf.u.cmW, cf_cmT |-> cf.cmT]

\* What prove_step assigns after the circuit c ran, U and W being the folded pair.
WithIncoming(s, U, W, c, z, r_w) ==
  [s EXCEPT !.i = @ + 1, !.z_i = c.z_i1, !.u_i = ToCccs(G, AugCCS, z, r_w),
            !.w_i = ToWitness(AugCCS, z, r_w), !.U_i = U, !.W_i = W]
AfterCircuit(s, U, W, c, d) == WithIncoming(s, U, W, c, Assignment(1, c.x, c.W), d["w.r_w"])

\* The base case keeps the dummies and the blinder of the running witness.
Base(s, ext, d) ==
  IF ext \in BadExt THEN s
  ELSE AfterCircuit(s, DummyLcccs(AugCCS), [DummyHnWitness EXCEPT !.r_w = s.W_i.r_w],
                    AugmentedCircuit(BaseInputs(s, ext)), d)

\* The CycleFold pair is assigned before the circuit runs, everything else after it:
\* if F's circuit returns an error the function returns with only that replaced.
AfterFolds(s, ext, d, f, cf) ==
  LET cfd == [s EXCEPT !.cf_W_i = cf.W, !.cf_U_i = cf.U]
  IN  IF ext \in BadExt THEN cfd
      ELSE AfterCircuit(cfd, f.U, f.W, AugmentedCircuit(CircuitInputs(s, ext, f, cf)), d)
AfterPrimary(s, ext, d, f) == AfterFolds(s, ext, d, f, CfFold(s, f, d))

\* What prove_step leaves in the struct.
Proved(s, ext, d) == IF s.i = 0 THEN Base(s, ext, d) ELSE AfterPrimary(s, ext, d, PrimaryFold(s))

----------------------------------------------------------------------------
\* The groups of fields of two proofs that are mixed up.
Mixed == {{}, {"i"}, {"z_0"}, {"z_i"}, {"i", "z_i"}, {"W_i", "U_i"}, {"w_i", "u_i"},
          {"cf_W_i", "cf_U_i"}, {"W_i"}, {"cf_W_i"}}

\* init, prove_step, ivc_proof, from_ivc_proof and verify, called by the parties.
INSTANCE FoldingScheme

----------------------------------------------------------------------------
\* The running pairs satisfy their relations after every call, a failed step included;
\* the fresh pair does as long as no step failed.  (After one, the circuit's sum-check
\* runs on challenges the prover did not use.)
InstancesSatisfied ==
  \A p \in Provers : LET s == st[p] IN
    /\ CheckLcccs(AugCCS, s.W_i, s.U_i)
    /\ CheckRelation(CfR1CS, s.cf_W_i, s.cf_U_i)
    /\ failures = 0 /\ s.i > 0 => CheckCccs(AugCCS, s.w_i, s.u_i)

\* With blinders that are never zero, the caller's included, no step is refused.
BlindingSuffices == verdict.ret # "IncorrectBlinding"

\* The fresh witness opens its commitment.  The running one does once the caller's
\* blinder, which the dummy commitment of the base case never got, is taken out of its
\* own: no fold adds to the difference or loses it.
OpensButForCaller ==
  \A p \in Provers : LET s == st[p] IN s.i > 0 =>
    /\ s.u_i.C = Commit(G, s.w_i.w, s.w_i.r_w)
    /\ s.U_i.C = Commit(G, s.W_i.w, s.W_i.r_w - CallerBlinders.W)
=============================================================================

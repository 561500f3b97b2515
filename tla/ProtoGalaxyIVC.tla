----------------------------- MODULE ProtoGalaxyIVC -----------------------------
(***************************************************************************)
(* ProtoGalaxy + CycleFold IVC: folding/protogalaxy/mod.rs and circuits.rs, *)
(* one incoming instance at a time (k = 1) and no blinding (H = false).    *)
(*                                                                         *)
(* What init, prove_step and verify compute; FoldingScheme has the parties *)
(* that call them.                                                         *)
(***************************************************************************)
EXTENDS CycleFold, FCircuit, ProtoGalaxyNIFS, FiniteSets

CONSTANTS Party, NoProver, Z0, UsizeMax, MaxSent, MaxFailures,   \* see FoldingScheme
          G            \* generators of the commitments to the augmented circuit

ASSUME GAssumption      == G \in Vec
ASSUME Z0Assumption     == Z0 \subseteq State
ASSUME BoundsAssumption == UsizeMax \in Nat /\ MaxSent \in Nat /\ MaxFailures \in Nat
ASSUME SchemeAssumption == 1 \in Foldable /\ Hiding = FALSE

VARIABLES st, sent, verdict, failures     \* see FoldingScheme

----------------------------------------------------------------------------
\* The hash of a running instance (CommittedInstanceOps::hash).
Hash(U, i, z_0, z_i) ==
  Squeeze(<<PpHash, i>> \o z_0 \o z_i \o PgInstanceElements(U)).r

\* The R1CS of the augmented circuit, reduced to the constraints on F and on the
\* two outputs: z = (1, x0, x1, z_i, ext, z_{i+1}, h0, h1).
\*   h0 1 = x0,   z_i z_i = z_{i+1} - ext - 5,   h1 1 = x1
\* The first one holds for an all-zero witness, as the circuit's first one does.
FirstRows(rows) == [k \in Slot |-> IF k + 1 \in DOMAIN rows THEN rows[k + 1] ELSE ZeroVec]
AugR1CS ==
  [A |-> FirstRows(<<E1(6), E1(3), E1(7)>>),
   B |-> FirstRows(<<E1(0), E1(3), E1(0)>>),
   C |-> FirstRows(<<E1(1), [E1(5) EXCEPT ![4] = P - 1, ![0] = (P - 5) % P], E1(2)>>),
   l |-> 2, t |-> 2]

PgDummy == PgDummyInstance(2, AugR1CS.t)

\* FoldingGadget::fold_committed_instance and prepare_and_fold_primary: the fold of
\* one incoming instance, whose phi the caller provides.
FoldingGadget(tr, U, u, F_c, K_c, new_phi) ==
  LET v == PgVerify(tr, U, <<u>>, F_c, K_c) IN [v EXCEPT !.U.phi = new_phi]

----------------------------------------------------------------------------
\* What AugmentedFCircuit::compute_next_state returns on the inputs a of the prover,
\* z_{i+1} and the outputs x, with the witness it assigns.
CircuitOutputs(a, z_i1, x) ==
  [z_i1 |-> z_i1, x |-> x,
   W |-> [k \in Slot |-> CASE k <= 2 -> 0 [] k = 3 -> a.z_i[1] [] k = 4 -> a.ext
                           [] k = 5 -> z_i1[1] [] k = 6 -> x[1] [] k = 7 -> x[2]]]

\* Its two CycleFold folds, after the primary one: v.
CycleFoldsInCircuit(a, v) ==
  LET cf1 == CycleFoldGadget(v.tr, a.cf_U_i, a.cf1_u_i_cmW,
               <<v.L[1], 0, a.U_i.phi, a.phi_stars[1]>>, a.cf1_cmT)
  IN  CycleFoldGadget(cf1.tr, cf1.U, a.cf2_u_i_cmW,
        <<v.L[2], a.phi_stars[1], a.u_i_phi, v.U.phi>>, a.cf2_cmT).U

AugmentedCircuit(a) ==
  LET u_i  == [phi |-> a.u_i_phi, betas |-> <<>>, e |-> 0,
               x |-> <<Hash(a.U_i, a.i, a.z_0, a.z_i), HashCycleFold(a.cf_U_i)>>]
      z_i1 == F(a.z_i, a.ext)
      Outputs(v) ==
        IF a.i = 0 THEN <<Hash(PgDummy, 1, a.z_0, z_i1), HashCycleFold(DummyInstance(4))>>
                   ELSE <<Hash(v.U, a.i + 1, a.z_0, z_i1), HashCycleFold(CycleFoldsInCircuit(a, v))>>
  IN  CircuitOutputs(a, z_i1,
        Outputs(FoldingGadget(<<>>, a.U_i, u_i, a.F_coeffs, a.K_coeffs, a.U_i1_phi)))
----------------------------------------------------------------------------
\* ProtoGalaxy::init.
FreshProver(z_0) ==
  [i |-> 0, z_0 |-> z_0, z_i |-> z_0,
   w_i |-> PgDummyWitness, u_i |-> PgDummyInstance(2, 0),
   W_i |-> PgDummyWitness, U_i |-> PgDummy,
   cf_W_i |-> DummyWitness, cf_U_i |-> DummyInstance(4)]

HashesMatch_CycleFoldOnly(pr) == pr.u_i.x[2] = HashCycleFold(pr.cf_U_i)
HashesMatch(pr) ==
  /\ pr.u_i.x[1] = Hash(pr.U_i, pr.i, pr.z_0, pr.z_i)
  /\ pr.u_i.x[2] = HashCycleFold(pr.cf_U_i)

\* ProtoGalaxy::verify, which knows no zeroth step.  That u_i is an incoming
\* instance is a matter of its type.
Verify(pr) ==
  /\ DOMAIN pr.u_i.x = 1 .. 2 /\ DOMAIN pr.U_i.x = 1 .. 2
  /\ HashesMatch(pr)
  /\ PgCheckIncoming(AugR1CS, pr.w_i, pr.u_i)
  /\ PgCheckRunning(AugR1CS, pr.W_i, pr.U_i)
  /\ CheckRelation(CfR1CS, pr.cf_W_i, pr.cf_U_i)

\* The primary part of prove_step, which it skips in the base case.
PrimaryFold(s) == PgProve(AugR1CS, <<>>, s.U_i, s.W_i, <<s.u_i>>, <<s.w_i>>)

\* The early returns of prove_step, in order; "Ok" when it goes on.
Precheck(s, multi) ==
  IF multi THEN "NoMultiInstances"
  ELSE IF Len(s.z_i) # StateLen THEN "NotSameLength"
  ELSE IF s.i > UsizeMax THEN "MaxStep"
  ELSE IF s.i > 0 /\ ~PrimaryFold(s).divided THEN "RemainderNotZero"
  ELSE "Ok"

\* The two commitment folds: 0 + L_0 U.phi and, on top of it, + L_1 u.phi.
Cf1Fold(s, f) ==
  FoldCycleFoldCircuit(f.tr, s.cf_W_i, s.cf_U_i, f.L[1], 0, s.U_i.phi, 0, 0)
Cf2Fold(s, f, cf1) ==
  FoldCycleFoldCircuit(cf1.tr, cf1.W, cf1.U, f.L[2], f.phi_stars[1], s.u_i.phi, 0, 0)

\* The circuit's inputs; AugmentedFCircuit::empty gives those of the base case.
CircuitInputs(s, ext, f, cf1, cf2) ==
  IF s.i = 0
  THEN [i |-> 0, z_0 |-> s.z_0, z_i |-> s.z_i, ext |-> ext, u_i_phi |-> 0,
        U_i |-> PgDummy, U_i1_phi |-> 0,
        F_coeffs |-> Resize(<<>>, AugR1CS.t), K_coeffs |-> Resize(<<>>, Degree + 1),
        phi_stars |-> <<0>>, cf_U_i |-> DummyInstance(4),
        cf1_u_i_cmW |-> 0, cf2_u_i_cmW |-> 0, cf1_cmT |-> 0, cf2_cmT |-> 0]
  ELSE [i |-> s.i, z_0 |-> s.z_0, z_i |-> s.z_i, ext |-> ext, u_i_phi |-> s.u_i.phi,
        U_i |-> s.U_i, U_i1_phi |-> f.U.phi,
        F_coeffs |-> f.F_coeffs, K_coeffs |-> f.K_coeffs,
        phi_stars |-> f.phi_stars, cf_U_i |-> s.cf_U_i,
        cf1_u_i_cmW |-> cf1.u.cmW, cf2_u_i_cmW |-> cf2.u.cmW,
        cf1_cmT |-> cf1.cmT, cf2_cmT |-> cf2.cmT]

\* What prove_step assigns after the circuit c ran.
AfterCircuit(s, c) ==
  LET w == PgNewWitness(c.W)
  IN  [s EXCEPT !.i = @ + 1, !.z_i = c.z_i1, !.w_i = w, !.u_i = PgCommit(G, w, c.x)]

\* After the base case both running pairs are assigned before the circuit runs, the
\* rest after it: if F's circuit returns an error the function returns with both
\* replaced.
AfterFolds(s, ext, f, cf1, cf2) ==
  LET run == IF s.i = 0 THEN s ELSE [s EXCEPT !.W_i = f.W, !.U_i = f.U,
                                              !.cf_W_i = cf2.W, !.cf_U_i = cf2.U]
  IN  IF ext \in BadExt THEN run
      ELSE AfterCircuit(run, AugmentedCircuit(CircuitInputs(s, ext, f, cf1, cf2)))

\* What prove_step leaves in the struct: one fold after the other, each of which
\* needs the one before.
AfterCf1(s, ext, f, cf1)  == AfterFolds(s, ext, f, cf1, Cf2Fold(s, f, cf1))
AfterPrimary(s, ext, f)   == AfterCf1(s, ext, f, Cf1Fold(s, f))
Proved(s, ext, d)         == AfterPrimary(s, ext, PrimaryFold(s))

----------------------------------------------------------------------------
\* No blinders are drawn.
Draws == {0}

\* The groups of fields of two proofs that are mixed up.
Mixed == {{}, {"i"}, {"z_0"}, {"z_i"}, {"i", "z_i"}, {"W_i", "U_i"}, {"w_i", "u_i"},
          {"cf_W_i", "cf_U_i"}, {"W_i"}, {"cf_W_i"}}

\* init, prove_step, ivc_proof, from_ivc_proof and verify, called by the parties.
INSTANCE FoldingScheme

----------------------------------------------------------------------------
\* A prover's pairs satisfy their relations after every call, a failed step
\* included, and so the fold of the next step always divides.
InstancesSatisfied ==
  /\ \A p \in Provers : LET s == st[p] IN
       /\ s.i > 0 => PgCheckIncoming(AugR1CS, s.w_i, s.u_i)
       /\ PgCheckRunning(AugR1CS, s.W_i, s.U_i)
       /\ CheckRelation(CfR1CS, s.cf_W_i, s.cf_U_i)
  /\ verdict.ret # "RemainderNotZero"

\* As long as no step failed inside F's circuit, a prover's proof verifies at any
\* time from its first step on.
StartedProofVerifies == failures = 0 => \A p \in Provers : st[p].i > 0 => Verify(st[p])
=============================================================================

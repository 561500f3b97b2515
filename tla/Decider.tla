-------------------------------- MODULE Decider --------------------------------
(***************************************************************************)
(* The on-chain decider: folding/circuits/decider/on_chain.rs and the      *)
(* prove and verify of each scheme's decider_eth.rs.                       *)
(*                                                                         *)
(* The prover folds once more, U_{i+1} = NIFS(U_i, u_i), and proves in one *)
(* circuit that the verifier of the IVC would accept; the commitments it   *)
(* leaves to the decider's verifier.  What depends on the scheme is a      *)
(* parameter: a scheme defines the operators below and instantiates this   *)
(* module.  A proof of the SNARK is its public inputs and whether the      *)
(* circuit was satisfied: it verifies for these inputs if it was.          *)
(***************************************************************************)
EXTENDS Integers, Sequences

CONSTANTS PpHash,
          LastFold(_),          \* NIFS::prove of a struct: U, W, proof, randomness, tr
          Relation(_, _),       \* the relation of W_{i+1} and U_{i+1}
          IncomingOk(_),        \* enforce_incoming
          HashesMatch(_),       \* u_i.x = (H(i, z_0, z_i, U_i), H(cf_U_i))
          CfCommitted(_, _), CfRelation(_, _),          \* the CycleFold pair
          FoldFields(_),        \* fold_field_elements_gadget: U, tr, holds
          PartialEqual(_, _),   \* equal but for the commitments
          FoldGroup(_, _, _, _),                        \* fold_group_elements_native
          FoldInputs(_, _),     \* the inputs the gadget adds, from proof and randomness
          Commitments(_), Openings(_),                  \* get_commitments, get_openings
          KzgChallenges(_, _), EvalVec(_, _),
          KzgProveWithChallenge(_, _), KzgVerifyWithChallenge(_, _, _)

Evaluations(openings, cs) == [j \in DOMAIN cs |-> EvalVec(openings[j], cs[j])]

\* try_from: the circuit of a struct, after its last fold f and with its challenges.
WithEvaluations(s, f, cs) ==
  [i |-> s.i, z_0 |-> s.z_0, z_i |-> s.z_i, U_i |-> s.U_i, u_i |-> s.u_i,
   cf_U_i |-> s.cf_U_i, cf_W_i |-> s.cf_W_i, U_i1 |-> f.U, W_i1 |-> f.W,
   proof |-> f.proof, randomness |-> f.randomness,
   kzg_challenges |-> cs, kzg_evaluations |-> Evaluations(Openings(f.W), cs)]
WithFold(s, f) == WithEvaluations(s, f, KzgChallenges(f.tr, Commitments(f.U)))
TryFrom(s)     == WithFold(s, LastFold(s))

\* The constraints on the fold, with v what the gadget makes of U_i and u_i.
FoldConstraints(c, v) ==
  /\ v.holds
  /\ PartialEqual(v.U, c.U_i1)
  /\ c.kzg_challenges = KzgChallenges(v.tr, Commitments(c.U_i1))
  /\ c.kzg_evaluations = Evaluations(Openings(c.W_i1), c.kzg_challenges)

MainConstraints_NoHashes(c) ==
  Relation(c.W_i1, c.U_i1) /\ IncomingOk(c.u_i) /\ FoldConstraints(c, FoldFields(c))
\* Checks 1, 2, 3, 6.1, 7.1 and 7.2, which the off-chain circuit makes as well.
MainConstraints(c) ==
  /\ Relation(c.W_i1, c.U_i1)
  /\ IncomingOk(c.u_i)
  /\ HashesMatch(c)
  /\ FoldConstraints(c, FoldFields(c))

\* The circuit: these and, on the CycleFold pair, checks 4 and 5.
OnchainConstraints(c) ==
  /\ MainConstraints(c)
  /\ CfCommitted(c.cf_W_i, c.cf_U_i)
  /\ CfRelation(c.cf_W_i, c.cf_U_i)

PublicInputs_NoInitialState(claim, cms, cs, evals, fold) ==
  <<PpHash, claim.i>> \o claim.z_i \o cms \o cs \o evals \o fold
\* In the order in which the circuit allocates them and the verifier lists them.
PublicInputs(claim, cms, cs, evals, fold) ==
  <<PpHash, claim.i>> \o claim.z_0 \o claim.z_i \o cms \o cs \o evals \o fold
CircuitInputs(c) ==
  PublicInputs(c, Commitments(c.U_i1), c.kzg_challenges, c.kzg_evaluations,
               FoldInputs(c.proof, c.randomness))

SnarkProve(satisfied, inputs)  == [satisfied |-> satisfied, inputs |-> inputs]
SnarkVerify(inputs, snark)     == snark.satisfied /\ snark.inputs = inputs

----------------------------------------------------------------------------
KzgProofs(c) ==
  [j \in DOMAIN c.kzg_challenges |->
    KzgProveWithChallenge(c.kzg_challenges[j], Openings(c.W_i1)[j])]

\* Decider::prove.
ProofOf(c) ==
  [snark_proof |-> SnarkProve(OnchainConstraints(c), CircuitInputs(c)),
   proof |-> c.proof, randomness |-> c.randomness,
   kzg_challenges |-> c.kzg_challenges, kzg_proofs |-> KzgProofs(c)]

Evals(kzg_proofs) == [j \in DOMAIN kzg_proofs |-> kzg_proofs[j].eval]
KzgOk(cms, cs, kzg_proofs) ==
  \A j \in DOMAIN cms : KzgVerifyWithChallenge(cs[j], cms[j], kzg_proofs[j])

\* Decider::verify, once the commitments are folded: cms.
VerifyFolded(claim, cms, pf) ==
  IF ~SnarkVerify(PublicInputs(claim, cms, pf.kzg_challenges, Evals(pf.kzg_proofs),
                               FoldInputs(pf.proof, pf.randomness)), pf.snark_proof)
  THEN "SNARKVerificationFail"
  ELSE IF ~KzgOk(cms, pf.kzg_challenges, pf.kzg_proofs) THEN "CommitmentVerificationFail"
  ELSE "Verified"

VerifyGroup(claim, g, pf) == IF g.ret # "Ok" THEN g.ret ELSE VerifyFolded(claim, g.cms, pf)

\* Decider::verify, given the commitments of U_i and u_i.
DeciderVerify(claim, running, incoming, pf) ==
  IF claim.i <= 1 THEN "NotEnoughSteps"
  ELSE VerifyGroup(claim, FoldGroup(running, incoming, pf.proof, pf.randomness), pf)
=============================================================================

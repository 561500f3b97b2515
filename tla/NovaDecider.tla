------------------------------ MODULE NovaDecider ------------------------------
(***************************************************************************)
(* Nova's deciders: folding/nova/decider_eth.rs and decider_eth_circuit.rs *)
(* on chain, folding/nova/decider.rs and decider_circuits.rs with          *)
(* folding/circuits/decider/off_chain.rs off chain.                        *)
(***************************************************************************)
EXTENDS NovaIVC, Kzg

\* Both prove commitments open with KZG: the generators are those of its setup.
ASSUME KzgKeyAssumption ==
  \A k \in Slot : G[k] = KzgCommit(Entries(E1(k))) /\ CfG[k] = KzgCommit(Entries(E1(k)))

----------------------------------------------------------------------------
\* The last fold, on a fresh transcript.
LastFoldOf(f) == [U |-> f.U, W |-> f.W, proof |-> f.cmT, randomness |-> f.r, tr |-> f.tr]
LastFold(s)   == LastFoldOf(PrimaryFold(s))

Relation(w, u)       == CheckRelation(AugR1CS, w, u)
IncomingOk(u)        == IsIncoming(u)
CfRelation(cfW, cfU) == CheckRelation(CfR1CS, cfW, cfU)

\* The Pedersen gadget takes no blinder into account.
CfCommitted(cfW, cfU) == cfU.cmE = Dot(CfG, cfW.E) /\ cfU.cmW = Dot(CfG, cfW.W)

\* DeciderNovaGadget.  The randomness of the proof is not an input of the circuit.
WithHolds(v)       == [U |-> v.U, tr |-> v.tr, holds |-> TRUE]
FoldFields(c)      == WithHolds(NIFSGadgetVerify(<<>>, c.U_i, c.u_i, c.proof))
PartialEqual(U, V) == U.u = V.u /\ U.x = V.x
FoldGroup(U, u, cmT, r) ==
  IF u[2] # 0 THEN [ret |-> "NotIncomingCommittedInstance"]
  ELSE [ret |-> "Ok", cms |-> <<Rlc(U[1], r, u[1]), Rlc(U[2], r, cmT)>>]
FoldInputs(cmT, r) == <<cmT>>

Commitments(U) == <<U.cmW, U.cmE>>
Openings(W)    == <<Entries(W.W), Entries(W.E)>>

Eth == INSTANCE Decider

----------------------------------------------------------------------------
\* The off-chain decider.  Its first circuit leaves checks 4 and 5 to a second one over
\* the other field, which has the CycleFold instance for an input.
Circuit2Evaluations(s, cs) ==
  [cf_U_i |-> s.cf_U_i, cf_W_i |-> s.cf_W_i, kzg_challenges |-> cs,
   kzg_evaluations |-> Eth!Evaluations(Openings(s.cf_W_i), cs)]
Circuit2(s) == Circuit2Evaluations(s, KzgChallenges(<<PpHash>>, Commitments(s.cf_U_i)))

Circuit2Constraints(c) ==
  /\ CfRelation(c.cf_W_i, c.cf_U_i)
  /\ c.kzg_challenges = KzgChallenges(<<PpHash>>, Commitments(c.cf_U_i))
  /\ c.kzg_evaluations = Eth!Evaluations(Openings(c.cf_W_i), c.kzg_challenges)

Inputs1(claim, cms, cfU, cs, evals, cmT) ==
  <<PpHash, claim.i>> \o claim.z_0 \o claim.z_i \o cms \o InstanceElements(cfU)
    \o cs \o evals \o <<cmT>>
Inputs2(cfU, cs, evals) == <<PpHash>> \o InstanceElements(cfU) \o cs \o evals

\* Decider::prove, with the circuits c and d.
OffchainProofOf(c, d) ==
  [c1_snark_proof |-> Eth!SnarkProve(Eth!MainConstraints(c),
     Inputs1(c, Commitments(c.U_i1), c.cf_U_i, c.kzg_challenges, c.kzg_evaluations, c.proof)),
   c2_snark_proof |-> Eth!SnarkProve(Circuit2Constraints(d),
     Inputs2(d.cf_U_i, d.kzg_challenges, d.kzg_evaluations)),
   cs1_proofs |-> Eth!KzgProofs(c),
   cs2_proofs |-> [j \in 1 .. 2 |->
     KzgProveWithChallenge(d.kzg_challenges[j], Openings(d.cf_W_i)[j])],
   cmT |-> c.proof, r |-> c.randomness, cf_U_final |-> c.cf_U_i,
   cs1_challenges |-> c.kzg_challenges, cs2_challenges |-> d.kzg_challenges]

\* Decider::verify.
OffchainVerifyFolded(claim, cms, pf) ==
  IF ~Eth!SnarkVerify(Inputs1(claim, cms, pf.cf_U_final, pf.cs1_challenges,
                              Eth!Evals(pf.cs1_proofs), pf.cmT), pf.c1_snark_proof)
     \/ ~Eth!SnarkVerify(Inputs2(pf.cf_U_final, pf.cs2_challenges, Eth!Evals(pf.cs2_proofs)),
                         pf.c2_snark_proof)
  THEN "SNARKVerificationFail"
  ELSE IF ~Eth!KzgOk(cms, pf.cs1_challenges, pf.cs1_proofs)
          \/ ~Eth!KzgOk(Commitments(pf.cf_U_final), pf.cs2_challenges, pf.cs2_proofs)
  THEN "CommitmentVerificationFail"
  ELSE "Verified"
OffchainVerifyGroup(claim, g, pf) ==
  IF g.ret # "Ok" THEN g.ret ELSE OffchainVerifyFolded(claim, g.cms, pf)
OffchainVerify(claim, running, incoming, pf) ==
  IF claim.i <= 1 THEN "NotEnoughSteps"
  ELSE OffchainVerifyGroup(claim, FoldGroup(running, incoming, pf.cmT, pf.r), pf)

----------------------------------------------------------------------------
\* The proofs both deciders make of a struct.
ProofsOf(c, d) == [onchain |-> Eth!ProofOf(c), offchain |-> OffchainProofOf(c, d)]
Proofs(s)      == ProofsOf(Eth!TryFrom(s), Circuit2(s))

\* What both verifiers answer to the claim of c with the running commitments of r and the
\* incoming ones of n.
Answers(c, r, n, proofs) ==
  {Eth!DeciderVerify(ClaimOf(c), Commitments(r.U_i), Commitments(n.u_i), proofs.onchain),
   OffchainVerify(ClaimOf(c), Commitments(r.U_i), Commitments(n.u_i), proofs.offchain)}

\* The struct a with the fields in mixed from b.
MixedUp(a, b, mixed) == [k \in DOMAIN a |-> IF k \in mixed THEN b[k] ELSE a[k]]

\* What the prover of a struct holds opens what its instances commit to.
AllOpen(s) == Opens(G, s.w_i, s.u_i) /\ Opens(G, s.W_i, s.U_i) /\ Opens(CfG, s.cf_W_i, s.cf_U_i)

\* The struct of p, and p's struct with fields of a published proof.
Structs(p) == {st[p]} \union {MixedUp(st[p], b, mixed) : b \in sent, mixed \in Mixed}

\* The last call changed a struct; a refusal, and verify, leave them as they were.
Changed == verdict.ret \in {"Ok", "SynthesisError"}

\* From the second step on both deciders accept exactly what Nova's own verify accepts
\* and the witnesses open: the circuits are IVC.V, for structs whose fields come from
\* another proof and after failed steps too (on_chain.rs and off_chain.rs, checks 1 to 7).
\* A prover's own witnesses open: verify alone decides.
DecidersAgree ==
  Changed => \A p \in Provers : \A s \in Structs(p) : s.i > 1 =>
    IF Verify(s) /\ (s = st[p] \/ AllOpen(s)) THEN Answers(s, s, s, Proofs(s)) = {"Verified"}
                               ELSE "Verified" \notin Answers(s, s, s, Proofs(s))

\* The claims made of those of a and b.
MixedClaims(a, b) ==
  {[i |-> x.i, z_0 |-> y.z_0, z_i |-> z.z_i] : x, y, z \in {a, b}}

\* A decider proof is accepted with no claim but its own, and with the commitments of
\* no other proof.
BoundTo(s, b, proofs) ==
  \A c \in MixedClaims(s, b), r, n \in {s, b} : "Verified" \in Answers(c, r, n, proofs) =>
    /\ ClaimOf(c) = ClaimOf(s)
    /\ Commitments(r.U_i) = Commitments(s.U_i) /\ Commitments(n.u_i) = Commitments(s.u_i)
DeciderBindsClaim ==
  Changed => \A p \in Provers : st[p].i > 1 => \A b \in sent : BoundTo(st[p], b, Proofs(st[p]))
=============================================================================

-------------------------- MODULE ProtoGalaxyDecider --------------------------
(***************************************************************************)
(* ProtoGalaxy's on-chain decider: folding/protogalaxy/decider_eth.rs and  *)
(* decider_eth_circuit.rs.                                                 *)
(***************************************************************************)
EXTENDS ProtoGalaxyIVC, Kzg

\* The circuit's commitments open with KZG, so G are the generators of its setup.
ASSUME KzgKeyAssumption == \A k \in Slot : G[k] = KzgCommit(Entries(E1(k)))

----------------------------------------------------------------------------
\* The last fold, on a fresh transcript; its randomness is L(gamma).  If it does not
\* divide there is no circuit.
LastFoldOf(f) ==
  [U |-> f.U, W |-> f.W, tr |-> f.tr, randomness |-> f.L,
   proof |-> [F_coeffs |-> f.F_coeffs, K_coeffs |-> f.K_coeffs]]
LastFold(s) == LastFoldOf(PrimaryFold(s))

Relation(w, U)       == PgCheckRunning(AugR1CS, w, U)
CfRelation(cfW, cfU) == CheckRelation(CfR1CS, cfW, cfU)

\* An incoming instance has no betas and e = 0 by its type.
IncomingOk(u) == u.betas = <<>> /\ u.e = 0

\* The Pedersen gadget takes no blinder into account.
CfCommitted(cfW, cfU) == cfU.cmE = Dot(CfG, cfW.E) /\ cfU.cmW = Dot(CfG, cfW.W)

\* DeciderProtoGalaxyGadget: phi is folded outside of the circuit, by L.
WithInputs(v, L)   == [U |-> v.U, tr |-> v.tr, holds |-> v.L = L]
FoldFields(c)      == WithInputs(PgVerify(<<>>, c.U_i, <<c.u_i>>, c.proof.F_coeffs, c.proof.K_coeffs),
                                 c.randomness)
PartialEqual(U, V) == U.betas = V.betas /\ U.e = V.e /\ U.x = V.x
FoldGroup(U, u, nothing, L) == [ret |-> "Ok", cms |-> <<(U[1] * L[1] + u[1] * L[2]) % P>>]
FoldInputs(proof, L) == L

Commitments(U) == <<U.phi>>
Openings(W)    == <<Entries(W.w)>>

Eth == INSTANCE Decider

----------------------------------------------------------------------------
\* What the verifier answers to the claim of c with the running commitments of r and the
\* incoming ones of n.
Answer(c, r, n, proof) == Eth!DeciderVerify(c, Commitments(r.U_i), Commitments(n.u_i), proof)

\* The proof of a struct.
Proof(s) == Eth!ProofOf(Eth!TryFrom(s))

\* The struct a with the fields in mixed from b.
MixedUp(a, b, mixed) == [k \in DOMAIN a |-> IF k \in mixed THEN b[k] ELSE a[k]]

\* What the prover of a struct holds opens what its instances commit to.
AllOpen(s) ==
  /\ PgOpens(G, s.w_i, s.u_i) /\ PgOpens(G, s.W_i, s.U_i)
  /\ s.cf_U_i.cmW = Dot(CfG, s.cf_W_i.W) /\ s.cf_U_i.cmE = Dot(CfG, s.cf_W_i.E)

\* The struct of p, and p's struct with fields of a published proof.
Structs(p) == {st[p]} \union {MixedUp(st[p], b, mixed) : b \in sent, mixed \in Mixed}

\* The last call changed a struct; a refusal, and verify, leave them as they were.
Changed == verdict.ret \in {"Ok", "SynthesisError"}

\* From the second step on the decider makes a proof, and accepts it, exactly of the
\* structs that ProtoGalaxy's own verify accepts and whose witnesses open, honest or
\* with fields of another proof (on_chain.rs, checks 1 to 7).
DeciderAgrees ==
  Changed => \A p \in Provers : \A s \in Structs(p) : s.i > 1 =>
    (Verify(s) /\ (s = st[p] \/ AllOpen(s))
       <=> PrimaryFold(s).divided /\ Answer(ClaimOf(s), s, s, Proof(s)) = "Verified")

MixedClaims(a, b) ==
  {[i |-> x.i, z_0 |-> y.z_0, z_i |-> z.z_i] : x, y, z \in {a, b}}

\* A proof is accepted with no claim but its own, with the commitments of no other
\* proof, and with no other L: the last two are what phi is folded of outside of the
\* circuit (decider_eth.rs, 6.2).
BoundTo(s, b, proof) ==
  \A c \in MixedClaims(s, b), r, n \in {s, b}, L \in {proof.randomness, <<1, 0>>} :
    Answer(c, r, n, [proof EXCEPT !.randomness = L]) = "Verified" =>
      /\ c = ClaimOf(s)
      /\ Commitments(r.U_i) = Commitments(s.U_i) /\ Commitments(n.u_i) = Commitments(s.u_i)
      /\ L = proof.randomness
DeciderBindsClaim ==
  Changed => \A p \in Provers : st[p].i > 1 => \A b \in sent : BoundTo(st[p], b, Proof(st[p]))
=============================================================================

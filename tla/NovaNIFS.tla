------------------------------- MODULE NovaNIFS -------------------------------
(***************************************************************************)
(* Nova's non-interactive folding scheme: folding/nova/nifs/nova.rs, and   *)
(* the Witness and CommittedInstance operations of folding/nova/mod.rs.    *)
(* The operators are shared by the primary instances and, through          *)
(* CycleFoldNIFS, by the CycleFold instances.                              *)
(***************************************************************************)
EXTENDS R1CS, Transcript, Pedersen

\* Witness::new: E is zero; the two blinders are drawn when hiding.
NewWitness(W, rW, rE) ==
  [E |-> ZeroVec, W |-> W,
   rE |-> IF Hiding THEN rE ELSE 0, rW |-> IF Hiding THEN rW ELSE 0]

\* Witness::commit, instance of a fresh witness.  cmE stays the zero point when
\* E is the zero vector, whatever rE is.
CommitWitness(g, w, x) ==
  [cmE |-> IF w.E = ZeroVec THEN 0 ELSE Commit(g, w.E, w.rE),
   u |-> 1, cmW |-> Commit(g, w.W, w.rW), x |-> x]

\* sample_witness_instance: E is the evaluation at the random assignment z, and
\* the u that commit set to one is overwritten.
SampledWitness(cs, z, rW, rE) ==
  [E |-> EvalAtZ(cs, z), rE |-> rE, W |-> WitnessOf(z, cs.l), rW |-> rW]
SampledInstance(g, cs, z, w) ==
  [CommitWitness(g, w, PublicOf(z, cs.l)) EXCEPT !.u = z[0]]

\* The elements a committed instance adds to a sponge, in the code's order.
InstanceElements(U) == <<U.u>> \o U.x \o <<U.cmE, U.cmW>>

\* ChallengeGadget: what is absorbed before the folding challenge is squeezed.
ChallengeInput(pp_hash, U, u, cmT) ==
  <<pp_hash>> \o InstanceElements(U) \o InstanceElements(u) \o <<cmT>>

\* The cross term, by evaluating the relation at z1 + z2.
ComputeT_NoErrorTerms(cs, U, W, u, w) ==
  EvalAtZ(cs, VecAdd(Assignment(U.u, U.x, W.W), Assignment(u.u, u.x, w.W)))

ComputeT(cs, U, W, u, w) ==
  VecSub(VecSub(
    EvalAtZ(cs, VecAdd(Assignment(U.u, U.x, W.W), Assignment(u.u, u.x, w.W))),
    W.E), w.E)

FoldWitness_OldBlinder(r, W, w, T) ==
  [E  |-> VecRlc(VecRlc(W.E, r, T), (r * r) % P, w.E),
   rE |-> Rlc(W.rE, (r * r) % P, w.rE),
   W  |-> VecRlc(W.W, r, w.W), rW |-> W.rW]

\* fold_witness; the cross term is committed to without blinding (rT = 0).
FoldWitness(r, W, w, T) ==
  [E  |-> VecRlc(VecRlc(W.E, r, T), (r * r) % P, w.E),
   rE |-> Rlc(W.rE, (r * r) % P, w.rE),
   W  |-> VecRlc(W.W, r, w.W),
   rW |-> Rlc(W.rW, r, w.rW)]

\* fold_committed_instances.
FoldCommittedInstances(r, U, u, cmT) ==
  [cmE |-> Rlc(Rlc(U.cmE, r, cmT), (r * r) % P, u.cmE),
   u   |-> Rlc(U.u, r, u.u),
   cmW |-> Rlc(U.cmW, r, u.cmW),
   x   |-> [k \in DOMAIN U.x |-> Rlc(U.x[k], r, u.x[k])]]

\* NIFS::prove on a transcript: the folded pair, the cross term's commitment,
\* the challenge and the transcript after it.
NIFSProve(cs, g, tr, pp_hash, W, U, w, u) ==
  LET T   == ComputeT(cs, U, W, u, w)
      cmT == Commit(g, T, 0)
      sq  == Squeeze(Absorb(tr, ChallengeInput(pp_hash, U, u, cmT)))
  IN  [W |-> FoldWitness(sq.r, W, w, T),
       U |-> FoldCommittedInstances(sq.r, U, u, cmT),
       cmT |-> cmT, r |-> sq.r, tr |-> sq.tr]

\* NIFS::verify: the verifier, who has only the instances and cmT, derives the
\* same challenge and the same folded instance.
NIFSVerify(tr, pp_hash, U, u, cmT) ==
  LET sq == Squeeze(Absorb(tr, ChallengeInput(pp_hash, U, u, cmT)))
  IN  [U |-> FoldCommittedInstances(sq.r, U, u, cmT), r |-> sq.r, tr |-> sq.tr]

\* get_openings: the values and the randomness the witness returns for the two
\* commitments of its instance.
OpensW(g, w, u) == u.cmW = Commit(g, w.W, w.rW)
OpensE(g, w, u) == u.cmE = Commit(g, w.E, w.rE)
Opens(g, w, u)  == OpensW(g, w, u) /\ OpensE(g, w, u)
=============================================================================

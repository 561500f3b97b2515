-------------------------------- MODULE NovaZk --------------------------------
(***************************************************************************)
(* The zero-knowledge proof of a Nova IVC state: folding/nova/zk.rs.       *)
(*                                                                         *)
(* A prover of NovaIVC folds its running pair into its last fresh pair and *)
(* the result with a sampled random pair, and publishes the witness of     *)
(* that; verifiers see such proofs, possibly with fields of two of them    *)
(* mixed up.                                                               *)
(***************************************************************************)
EXTENDS NovaIVC

CONSTANTS Samples,        \* assignments the sampler may draw, any u
          SampleBlinders, \* the pairs <<rW, rE>> it may draw
          MaxRandomized   \* bound on the number of randomized proofs

ASSUME SamplesAssumption        == \A z \in Samples : z \in Vec
ASSUME SampleBlindersAssumption == SampleBlinders \subseteq Fp \X Fp
ASSUME MaxRandomizedAssumption  == MaxRandomized \in Nat

VARIABLE zk             \* the randomized proofs published, with their claims

zvars == <<st, sent, verdict, failures, zk>>

\* RandomizedIVCProof::new.  The fresh pair is the running one of the first fold
\* and the running pair the incoming one.  i, z_0 and z_i, which verify takes
\* beside the proof, are kept with it.
Randomized(s, z, blinders) ==
  LET f   == NIFSProve(AugR1CS, G, <<>>, PpHash, s.w_i, s.u_i, s.W_i, s.U_i)
      W_r == SampledWitness(AugR1CS, z, blinders[1], blinders[2])
      U_r == SampledInstance(G, AugR1CS, z, W_r)
      h   == NIFSProve(AugR1CS, G, f.tr, PpHash, f.W, f.U, W_r, U_r)
  IN  [i |-> s.i, z_0 |-> s.z_0, z_i |-> s.z_i,
       U_i |-> s.U_i, u_i |-> s.u_i, U_r |-> U_r, pi |-> f.cmT, pi_prime |-> h.cmT,
       W_i_prime |-> h.W, cf_U_i |-> s.cf_U_i, cf_W_i |-> s.cf_W_i]

\* Steps 3 and 4 of verify: the instance W_i_prime belongs to.  The second fold
\* goes on with the transcript of the first.
FoldedInstance_FreshTranscript(pr) ==
  LET f == NIFSVerify(<<>>, PpHash, pr.u_i, pr.U_i, pr.pi)
  IN  NIFSVerify(<<>>, PpHash, f.U, pr.U_r, pr.pi_prime).U

FoldedInstance(pr) ==
  LET f == NIFSVerify(<<>>, PpHash, pr.u_i, pr.U_i, pr.pi)
  IN  NIFSVerify(f.tr, PpHash, f.U, pr.U_r, pr.pi_prime).U

RandomizedWitnessChecked_CycleFoldOnly(pr) == CheckRelation(CfR1CS, pr.cf_W_i, pr.cf_U_i)
RandomizedWitnessChecked(pr) ==
  /\ CheckRelation(AugR1CS, pr.W_i_prime, FoldedInstance(pr))
  /\ CheckRelation(CfR1CS, pr.cf_W_i, pr.cf_U_i)

\* RandomizedIVCProof::verify.
ZkVerify(pr) ==
  IF pr.i = 0 THEN pr.z_0 = pr.z_i
  ELSE /\ DOMAIN pr.u_i.x = 1 .. 2
       /\ HashesMatch(pr)
       /\ IsIncoming(pr.u_i)
       /\ RandomizedWitnessChecked(pr)

----------------------------------------------------------------------------
ZInit == Init /\ zk = {}

Randomize(p, z, blinders) ==
  /\ Hiding               \* Nova<..., true>
  /\ st[p] # NoProver
  /\ zk' = zk \union {Randomized(st[p], z, blinders)}
  /\ Cardinality(zk') <= MaxRandomized
  /\ verdict' = Returned("Ok", NoProver)
  /\ UNCHANGED <<st, sent, failures>>

ZkVerifyProof(a, b, mixed) ==
  LET pr == [k \in DOMAIN a |-> IF k \in mixed THEN b[k] ELSE a[k]]
  IN  /\ verdict' = IF ZkVerify(pr) THEN Returned("Verified", ClaimOf(pr))
                                    ELSE Returned("Refused", NoProver)
      /\ UNCHANGED <<st, sent, failures, zk>>

\* The groups of fields that are mixed up.
ZkMixed == {{}, {"i"}, {"z_0"}, {"z_i"}, {"i", "z_i"}, {"U_i"}, {"u_i"}, {"U_i", "u_i"},
            {"U_r"}, {"W_i_prime"}, {"pi", "pi_prime"}, {"cf_U_i", "cf_W_i"}}

ZNext ==
  \/ Next /\ UNCHANGED zk
  \/ \E p \in Party, z \in Samples, blinders \in SampleBlinders : Randomize(p, z, blinders)
  \/ \E a, b \in zk, mixed \in ZkMixed : ZkVerifyProof(a, b, mixed)

ZSpec == ZInit /\ [][ZNext]_zvars

----------------------------------------------------------------------------
\* Completeness: a randomized proof verifies, whatever prover state it was made
\* of, that of zero steps included, and whatever the sampler drew.
RandomizedVerifies == \A pr \in zk : ZkVerify(pr)

\* The tests of zk.rs with a wrong running instance and with a wrong running
\* witness, at every prover state: with the sampled instance or the sampled
\* witness in place of its own, a prover's randomized proof is refused.
WrongRunningRefused ==
  \A p \in Provers, z \in Samples, blinders \in SampleBlinders :
    LET W_r == SampledWitness(AugR1CS, z, blinders[1], blinders[2])
        s   == st[p]
    IN  s.i > 0 =>
          /\ ~ZkVerify(Randomized([s EXCEPT !.W_i = W_r], z, blinders))
          /\ ~ZkVerify(Randomized([s EXCEPT !.U_i = SampledInstance(G, AugR1CS, z, W_r)],
                                  z, blinders))

\* With randomized proofs among those published, Nova still implements IVC: a
\* randomized proof is accepted for a claim that some party published only.
ZkAbs == INSTANCE IVC WITH
  Input <- Ext \ BadExt, Apply <- F, MaxSteps <- UsizeMax, NoClaim <- NoProver,
  claim <- [p \in Party |-> IF st[p] = NoProver THEN NoProver ELSE ClaimOf(st[p])],
  published <- {ClaimOf(pr) : pr \in sent \union zk},
  accepted <- verdict.claim

ZkImplementsIVC == ZkAbs!ASpec
=============================================================================

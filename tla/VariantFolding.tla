---------------------------- MODULE VariantFolding ----------------------------
(***************************************************************************)
(* A running instance and the folds into it: Nova's, and next to it that   *)
(* of one of its variants.                                                 *)
(*                                                                         *)
(* Nova's accumulator starts as the dummy pair of the constraint system.   *)
(* FoldIncoming folds a fresh instance made by new_witness and             *)
(* new_instance, as every IVC step does; FoldSampled folds a random        *)
(* relaxed instance of sample_witness_instance, as the zero-knowledge      *)
(* proof of folding/nova/zk.rs does.  The challenge is any field element:  *)
(* no property of Nova depends on how it is derived.                       *)
(*                                                                         *)
(* The pair of Mova or Ova is folded by a prover and a verifier that each  *)
(* keep one transcript, as test_nifs_opt does: the prover's witness and    *)
(* the verifier's instance run.                                            *)
(***************************************************************************)
EXTENDS NovaVariants, FiniteSets

CONSTANTS Cs,          \* the constraint system
          Gens,        \* the Pedersen generators
          Incoming,    \* assignments z with z[0] = 1 that satisfy Cs
          Wrong,       \* assignments z with z[0] = 1 that do not
          Sampled,     \* assignments z, any u, for the sampler
          Blinders,    \* values the random blinders are drawn from
          MaxFolds     \* bound on the number of folds explored

Satisfies(z) == EvalAtZ(Cs, z) = ZeroVec

ASSUME CsAssumption ==
  /\ Cs.l \in 0 .. 7
  /\ Cs.A \in Matrix /\ Cs.B \in Matrix /\ Cs.C \in Matrix
  /\ Cs.A[0] = ZeroVec /\ Cs.B[0] = ZeroVec /\ Cs.C[0] = ZeroVec
ASSUME GensAssumption     == Gens \in Vec
ASSUME IncomingAssumption == \A z \in Incoming : z \in Vec /\ z[0] = 1 /\ Satisfies(z)
ASSUME WrongAssumption    == \A z \in Wrong : z \in Vec /\ z[0] = 1 /\ ~Satisfies(z)
ASSUME SampledAssumption  == \A z \in Sampled : z \in Vec
ASSUME BlindersAssumption == Blinders \subseteq Fp
ASSUME MaxFoldsAssumption == MaxFolds \in Nat

VARIABLES W, U,        \* the running witness and instance
          folds        \* how many instances were folded in

vars == <<W, U, folds>>

TypeOK ==
  /\ W \in Witness(Cs.l)
  /\ U \in CommittedInstance(Cs.l)
  /\ folds \in 0 .. MaxFolds

Init ==
  /\ W = DummyWitness
  /\ U = DummyInstance(Cs.l)
  /\ folds = 0

\* One fold of the pair w, u with challenge r.
Fold(w, u, r) ==
  LET T == ComputeT(Cs, U, W, u, w)
  IN  /\ folds < MaxFolds
      /\ W' = FoldWitness(r, W, w, T)
      /\ U' = FoldCommittedInstances(r, U, u, Commit(Gens, T, 0))
      /\ folds' = folds + 1

FoldIncoming(z, rW, rE, r) ==
  LET w == NewWitness(WitnessOf(z, Cs.l), rW, rE)
  IN  Fold(w, CommitWitness(Gens, w, PublicOf(z, Cs.l)), r)

FoldSampled(z, rW, rE, r) ==
  /\ Hiding        \* CommitmentScheme<C, true>
  /\ LET w == SampledWitness(Cs, z, rW, rE)
     IN  Fold(w, SampledInstance(Gens, Cs, z, w), r)

Next ==
  \E rW, rE \in Blinders, r \in Fp :
    \/ \E z \in Incoming : FoldIncoming(z, rW, rE, r)
    \/ \E z \in Sampled : FoldSampled(z, rW, rE, r)

Spec == Init /\ [][Next]_vars

----------------------------------------------------------------------------
\* Folding never leaves the relaxed relation: whatever was folded, in whatever
\* order and with whatever challenges, the running witness satisfies the running
\* instance (the relation check of IVC.V on W_i, U_i).
Satisfied == CheckRelation(Cs, W, U)

\* The running witness opens both commitments of the running instance, which is
\* what the decider later proves about them (prove_commitments).
OpeningsValid == Opens(Gens, W, U)

\* Blinded or not, the running witness opens the commitment to the circuit's
\* witness: its blinder is folded along with it.
WitnessOpens == OpensW(Gens, W, U)

\* A fresh instance that does not satisfy the system spoils the accumulator: the
\* relaxed relation survives its fold for at most two challenges.  (The cross
\* term is computed from E, so that the defect is -r(1 - r) times that of w.)
WrongInstanceSpoils ==
  \A z \in Wrong :
    LET w == NewWitness(WitnessOf(z, Cs.l), 0, 0)
        u == CommitWitness(Gens, w, PublicOf(z, Cs.l))
        T == ComputeT(Cs, U, W, u, w)
        lucky == {r \in Fp : CheckRelation(Cs, FoldWitness(r, W, w, T),
                    FoldCommittedInstances(r, U, u, Commit(Gens, T, 0)))}
    IN  Cardinality(lucky) <= 2

----------------------------------------------------------------------------
\* The variants.
CONSTANTS PpHashes,     \* the hashes of the public parameters
          Points,       \* what new_instance may draw for rE
          Auxes         \* what a caller may pass for rE

ASSUME VariantInputsAssumption ==
  /\ PpHashes \subseteq Fp /\ Points \subseteq [1 .. NumVars -> Fp]
  /\ Auxes \subseteq Seq(Fp)

VARIABLES
  scheme,      \* "Nova", "Mova" or "Ova"
  pp_hash,
  withT,       \* Ova: whether the caller commits to the cross terms
  run,         \* the running pair: [W, U], U the verifier's
  proverU,     \* the prover's folded instance
  proverTr, verifierTr,
  refused      \* who refused a fold; the caller passes the error on and stops

variantVars == <<scheme, pp_hash, withT, run, proverU, proverTr, verifierTr, refused>>

OpeningCall(z, rW, draw) ==
  LET w == WitnessOf(z, Cs.l)
      x == PublicOf(z, Cs.l)
      m == MovaWitness(w, rW)
      o == OvaWitness(w, rW)
  IN  CASE scheme = "Nova" -> [W |-> <<>>, U |-> <<>>]
        [] scheme = "Mova" -> [W |-> m, U |-> MovaInstance(Gens, m, x, <<>>, draw)]
        [] scheme = "Ova"  -> [W |-> o, U |-> OvaInstance(Gens, o, x, ZeroVec)]

VariantInit ==
  /\ Init
  /\ scheme \in {"Nova", "Mova", "Ova"}
  /\ pp_hash \in PpHashes
  /\ withT \in BOOLEAN /\ (withT => scheme = "Ova")
  /\ \E z \in Incoming, rW \in Blinders, draw \in Points : run = OpeningCall(z, rW, draw)
  /\ proverU = run.U /\ proverTr = <<>> /\ verifierTr = <<>> /\ refused = "nobody"

----------------------------------------------------------------------------
FoldMova(z, rW, aux, draw) ==
  LET w == MovaWitness(WitnessOf(z, Cs.l), rW)
      u == MovaInstance(Gens, w, PublicOf(z, Cs.l), aux, draw)
  IN  /\ scheme = "Mova" /\ refused = "nobody"
      /\ folds < MaxFolds /\ folds' = folds + 1
      /\ \E p \in {MovaProve(Cs, proverTr, pp_hash, run.W, run.U, w, u)} :
           /\ proverTr' = p.tr
           /\ IF p.ret # "Ok"
              THEN refused' = "prover" /\ UNCHANGED <<run, proverU, verifierTr>>
              ELSE \E v \in {MovaVerify(verifierTr, pp_hash, run.U, u, p.proof)} :
                     /\ verifierTr' = v.tr
                     /\ IF v.ret # "Ok"
                        THEN refused' = "verifier" /\ UNCHANGED <<run, proverU>>
                        ELSE /\ run' = [W |-> p.W, U |-> v.U]
                             /\ proverU' = p.U /\ UNCHANGED refused
      /\ UNCHANGED <<W, U, scheme, pp_hash, withT>>

FoldOva(z, rW) ==
  LET w == OvaWitness(WitnessOf(z, Cs.l), rW)
      x == PublicOf(z, Cs.l)
      t == IF withT THEN CrossTerm(Cs, run.W, run.U, w, x) ELSE ZeroVec
      u == OvaInstance(Gens, w, x, t)
      p == OvaProve(proverTr, pp_hash, run.W, run.U, w, u)
      v == OvaVerify(verifierTr, pp_hash, run.U, u)
  IN  /\ scheme = "Ova" /\ folds < MaxFolds /\ folds' = folds + 1
      /\ run' = [W |-> p.W, U |-> v.U] /\ proverU' = p.U
      /\ proverTr' = p.tr /\ verifierTr' = v.tr
      /\ UNCHANGED <<W, U, scheme, pp_hash, withT, refused>>

VariantNext ==
  \/ scheme = "Nova" /\ Next /\ UNCHANGED variantVars
  \/ \E z \in Incoming, rW \in Blinders :
       \/ FoldOva(z, rW)
       \/ \E aux \in Auxes, draw \in Points : FoldMova(z, rW, aux, draw)

VariantSpec == VariantInit /\ [][VariantNext]_<<vars, variantVars>>

----------------------------------------------------------------------------
\* What a running pair of the variants must satisfy, whatever was folded into it.
\* Mova: the witness satisfies the relation and opens cmW, and its error vector
\* evaluates to mleE at the point both sides moved to.
MovaSatisfied ==
  scheme = "Mova" => /\ CheckRelation(Cs, run.W, run.U)
                     /\ run.U.cmW = Commit(Gens, run.W.W, run.W.rW)
                     /\ run.U.mleE = MleAt(run.W.E, run.U.rE)

\* Ova: the one commitment opens to the witness and to the error that compute_E finds
\* in it, if the caller committed to the cross terms, and to the witness alone if not.
OvaOpens ==
  scheme = "Ova" =>
    LET e == IF withT THEN ComputeE(Cs, run.W, run.U) ELSE ZeroVec
    IN  run.U.cmWE = CommitBoth(Gens, run.W.w, e, run.W.rW)

\* The verifier, who sees no witness, refuses no honest fold and comes to the prover's
\* instance and transcript, as long as no call was refused.
SidesAgree ==
  /\ refused # "verifier"
  /\ proverU = run.U /\ (refused = "nobody" => proverTr = verifierTr)
=============================================================================

--------------------------- MODULE HyperNovaFolding ---------------------------
(***************************************************************************)
(* A running HyperNova instance and the multifolds into it, one sum-check  *)
(* round at a time, for any challenges.                                    *)
(*                                                                         *)
(* Start is NIMFS::prove up to the sum-check, for the running pair, one    *)
(* more running pair and one incoming pair, each right or wrong; Round is  *)
(* one round of IOPSumCheck::prove; Finish is the rest of prove and        *)
(* NIMFS::verify on its proof, whose instance both sides go on with if it  *)
(* accepts.  No property here depends on how a challenge is derived.       *)
(***************************************************************************)
EXTENDS HyperNovaNIMFS

CONSTANTS Ccs,         \* the constraint system
          Gens,        \* the Pedersen generators
          Others,      \* pairs [U, W] offered as the second running pair
          Incoming,    \* pairs [u, w] offered as the incoming one
          Gammas, Betas, Points, Rhos,   \* the challenges
          MaxFolds     \* bound on the number of folds explored

\* A system of at most eight rows, and pairs and challenges of its kind.
ASSUME CcsAssumption ==
  /\ Ccs.A \in Matrix /\ Ccs.B \in Matrix /\ Ccs.C \in Matrix
  /\ Ccs.l \in 0 .. 7 /\ Ccs.s \in 0 .. 3
ASSUME PairsAssumption ==
  /\ Others \subseteq [U : Lcccs(Ccs.l, Ccs.s), W : HnWitness(Ccs.l)]
  /\ Incoming \subseteq [u : Cccs(Ccs.l), w : HnWitness(Ccs.l)]
ASSUME ChallengesAssumption ==
  /\ Gammas \subseteq Fp /\ Betas \subseteq [1 .. Ccs.s -> Fp]
  /\ Points \subseteq Fp /\ Rhos \subseteq Fp

VARIABLES W, U,        \* the running witness and instance
          fold,        \* the fold in progress, or Idle
          verdict,     \* what the verifier said of the last one
          honest,      \* whether all pairs folded so far were satisfied
          folds        \* how many proofs were verified

vars == <<W, U, fold, verdict, honest, folds>>

Idle == [gamma |-> 0]
InProgress == fold # Idle

Init ==
  /\ W = DummyHnWitness
  /\ U = DummyLcccs(Ccs)
  /\ fold = Idle
  /\ verdict = [says |-> "None"]
  /\ honest = TRUE
  /\ folds = 0

\* A fold in progress: the instances and assignments, the polynomial, the prover, its
\* last challenge and the messages.
Begin(Us, Ws, us, ws, zLs, zCs, gamma, beta, g) ==
  [Us |-> Us, Ws |-> Ws \o ws, us |-> us, zLs |-> zLs, zCs |-> zCs, gamma |-> gamma,
   beta |-> beta, g |-> g, ps |-> ProverInit(g), challenge |-> <<>>, proofs |-> <<>>]
BeginWith(Us, Ws, us, ws, zLs, zCs, gamma, beta) ==
  Begin(Us, Ws, us, ws, zLs, zCs, gamma, beta, ComputeG(Ccs, Us, zLs, zCs, gamma, beta))

Start(o, n, gamma, beta) ==
  /\ ~InProgress
  /\ folds < MaxFolds
  /\ fold' = BeginWith(<<U, o.U>>, <<W, o.W>>, <<n.u>>, <<n.w>>,
                       <<LcccsZ(U, W), LcccsZ(o.U, o.W)>>, <<CccsZ(n.u, n.w)>>, gamma, beta)
  /\ UNCHANGED <<W, U, verdict, honest, folds>>

Received(f, ps, msg, r) ==
  [f EXCEPT !.ps = ps, !.proofs = Append(@, msg), !.challenge = <<r>>]
AnswerWith(f, ps, r) == Received(f, ps, RoundMessage(ps.poly), r)
Answer(f, r) == AnswerWith(f, ProveRound(f.ps, f.challenge), r)

Round(r) ==
  /\ InProgress
  /\ Len(fold.proofs) < Ccs.s
  /\ fold' = Answer(fold, r)
  /\ UNCHANGED <<W, U, verdict, honest, folds>>

\* Whether the pairs of a fold satisfy their relations.
AllSatisfied(f) ==
  /\ \A i \in DOMAIN f.Us : f.Us[i].v = MzAt(Ccs, f.zLs[i], f.Us[i].r_x)
  /\ \A k \in DOMAIN f.us : EvalAtZ(Ccs, f.zCs[k]) = ZeroVec

Proof(f, point) ==
  [proofs |-> f.proofs, st |-> SigmasThetas(Ccs, f.zLs, f.zCs, point)]

\* The verifier's answer, with what it was given, and the fold it leads to.
Answered(f, point, proof) ==
  [says |-> Verdict(f.Us, proof, f.gamma, f.beta, point), f |-> f, proof |-> proof,
   point |-> point]

Finish(rho) ==
  LET point == fold.ps.challenges \o fold.challenge
      answer == Answered(fold, point, Proof(fold, point))
  IN  /\ InProgress
      /\ Len(fold.proofs) = Ccs.s
      /\ verdict' = answer
      /\ IF answer.says = "Ok"
         THEN /\ U' = Fold(fold.Us, fold.us, answer.proof.st, point, rho)
              /\ W' = FoldHnWitness(fold.Ws, rho)
              /\ honest' = (honest /\ AllSatisfied(fold))
         ELSE UNCHANGED <<W, U, honest>>
      /\ fold' = Idle
      /\ folds' = folds + 1

Next ==
  \/ \E o \in Others, n \in Incoming, gamma \in Gammas, beta \in Betas : Start(o, n, gamma, beta)
  \/ \E r \in Points : Round(r)
  \/ \E rho \in Rhos : Finish(rho)

Spec == Init /\ [][Next]_vars

----------------------------------------------------------------------------
\* The running pair satisfies the linearized relation at its new point after every
\* fold of satisfied pairs: the sigmas and thetas are the evaluations of what was
\* folded, at the point the sum-check ended in (check_relation of an LCCCS).
Satisfied == honest => CheckLcccs(Ccs, W, U)

\* The total by which the pairs of a fold miss their relations, weighed by gamma and,
\* for the rows of an incoming system, by beta.
WeighedError(f) ==
  (SumSeq(Collect(3 * Len(f.Us), LAMBDA n :
     (Pow(f.gamma, n - 1) * ((MzAt(Ccs, f.zLs[InstanceOf(n)], f.Us[InstanceOf(n)].r_x)[MatrixOf(n)]
                              - f.Us[InstanceOf(n)].v[MatrixOf(n)]) % P)) % P))
   + SumSeq(Collect(Len(f.us), LAMBDA k :
       (Pow(f.gamma, 3 * Len(f.Us) + k - 1)
         * MleEvaluate(Collect(2^Ccs.s, LAMBDA row : EvalAtZ(Ccs, f.zCs[k])[row - 1]), f.beta)) % P))) % P

\* A fold is accepted exactly if the challenges weigh the pairs' errors to nothing:
\* satisfied pairs always are, and no step of the prover or the verifier lets others
\* through (compute_g, the sum-check and compute_c agree on one polynomial).
AcceptedExactly ==
  verdict.says # "None" => ((verdict.says = "Ok") = (WeighedError(verdict.f) = 0))

\* After each round the polynomial of the fold, at the challenges in the order they
\* were drawn and summed over its other variables, is the last message at the last
\* challenge: what the next message, or the claim on the whole fold, must agree with.
SumKept ==
  InProgress =>
    LET free  == Ccs.s - Len(fold.proofs)
        Corner(b) == [j \in 1 .. free |-> ((b - 1) \div 2^(j - 1)) % 2]
        total == SumSeq(Collect(2^free, LAMBDA b :
                   VpEvaluate(fold.g, fold.ps.challenges \o fold.challenge \o Corner(b))))
    IN  fold.proofs # <<>> =>
          total = PolyEval(fold.proofs[Len(fold.proofs)], fold.challenge[1])

\* "Runs (in-circuit) the NIMFS.V" (hypernova/circuits.rs:239): the circuit accepts
\* what NIMFS::verify accepts.
GadgetIsVerifier ==
  verdict.says # "None" =>
    ((verdict.says = "Ok")
      = (GadgetVerdict(verdict.f.Us, verdict.proof, verdict.f.gamma, verdict.f.beta, verdict.point) = "Ok"))
=============================================================================

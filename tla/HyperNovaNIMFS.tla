---------------------------- MODULE HyperNovaNIMFS ----------------------------
(***************************************************************************)
(* HyperNova's multifolding: folding/hypernova/{nimfs,lcccs,cccs,utils}.rs, *)
(* NIMFSGadget of folding/hypernova/circuits.rs, and arith/ccs/mod.rs for  *)
(* the systems made from an R1CS: M = <<A, B, C>>, one product of A and B  *)
(* minus C.  A system is that of R1CS with s, 2^s rows from row 0 on.      *)
(*                                                                         *)
(* A running instance (LCCCS) is [C, u, x, r_x, v], an incoming one (CCCS) *)
(* [C, x], a witness [w, r_w].                                             *)
(***************************************************************************)
EXTENDS R1CS, SumCheck, Pedersen

HnWitness(l)  == [w : WitnessVec(l), r_w : Fp]
Cccs(l)       == [C : Fp, x : [1 .. l -> Fp]]
Lcccs(l, s)   == [C : Fp, u : Fp, x : [1 .. l -> Fp], r_x : [1 .. s -> Fp], v : [1 .. 3 -> Fp]]

\* The matrices, the factors of each term and their coefficients (CCS::from).
Matrices(R) == <<R.A, R.B, R.C>>
Terms       == <<[S |-> <<1, 2>>, c |-> 1], [S |-> <<3>>, c |-> P - 1]>>

\* M_j z, as a multilinear polynomial.
MzMle(R, j, z) == Collect(2^R.s, LAMBDA k : Dot(Matrices(R)[j][k - 1], z))

\* The evaluations of all M_j z at a point: the v of a running instance, the sigmas
\* and the thetas.
MzAt(R, z, point) == Collect(3, LAMBDA j : MleEvaluate(MzMle(R, j, z), point))

\* to_cccs and to_lcccs.
ToCccs(G, R, z, r_w) ==
  [C |-> Commit(G, WitnessOf(z, R.l), IF Hiding THEN r_w ELSE 0), x |-> PublicOf(z, R.l)]
ToLcccs(G, R, z, r_w, r_x) ==
  [C |-> ToCccs(G, R, z, r_w).C, u |-> z[0], x |-> PublicOf(z, R.l),
   r_x |-> r_x, v |-> MzAt(R, z, r_x)]
ToWitness_Unblinded(R, z, r_w) == [w |-> WitnessOf(z, R.l), r_w |-> 0]
ToWitness(R, z, r_w) == [w |-> WitnessOf(z, R.l), r_w |-> IF Hiding THEN r_w ELSE 0]

DummyHnWitness == [w |-> ZeroVec, r_w |-> 0]
DummyCccs(R)   == [C |-> 0, x |-> [k \in 1 .. R.l |-> 0]]
DummyLcccs(R)  == [C |-> 0, u |-> 0, x |-> [k \in 1 .. R.l |-> 0],
                   r_x |-> [k \in 1 .. R.s |-> 0], v |-> [k \in 1 .. 3 |-> 0]]

LcccsZ(U, W) == Assignment(U.u, U.x, W.w)
CccsZ(u, w)  == Assignment(1, u.x, w.w)

\* check_relation of a running and of an incoming pair.
CheckLcccs(R, W, U) == U.v = MzAt(R, LcccsZ(U, W), U.r_x)
CheckCccs(R, w, u)  == EvalAtZ(R, CccsZ(u, w)) = ZeroVec

HnOpens(G, W, U) == U.C = Commit(G, W.w, W.r_w)

----------------------------------------------------------------------------
\* The three evaluations of all running instances are numbered through: the instance
\* and the matrix of number n.
InstanceOf(n) == (n + 2) \div 3
MatrixOf(n)   == ((n - 1) % 3) + 1

\* compute_g, whose sum over the hypercube is that of the v of the running
\* instances, weighed by powers of gamma, if every pair is satisfied.  The L of a
\* running instance, the Q of an incoming one.
WithL(R, g, U, z, gamma, first) ==
  LET f[j \in 0 .. 3] ==
        IF j = 0 THEN g
        ELSE AddMleList(f[j - 1], <<MzMle(R, j, z), BuildEqVec(U.r_x)>>, Pow(gamma, first + j - 1))
  IN  f[3]
WithQ(R, g, z, gamma, k, beta) ==
  LET f[j \in 0 .. 2] ==
        IF j = 0 THEN g
        ELSE AddMleList(f[j - 1],
               [i \in DOMAIN Terms[j].S |-> MzMle(R, Terms[j].S[i], z)] \o <<BuildEqVec(beta)>>,
               (Terms[j].c * Pow(gamma, k)) % P)
  IN  f[2]

ComputeG(R, Us, zLs, zCs, gamma, beta) ==
  LET ls[i \in 0 .. Len(Us)] ==
        IF i = 0 THEN NewVirtualPolynomial(R.s)
        ELSE WithL(R, ls[i - 1], Us[i], zLs[i], gamma, 3 * (i - 1))
      qs[k \in 0 .. Len(zCs)] ==
        IF k = 0 THEN ls[Len(Us)]
        ELSE WithQ(R, qs[k - 1], zCs[k], gamma, 3 * Len(Us) + k - 1, beta)
  IN  qs[Len(zCs)]

\* The sum NIMFS::verify expects.
ExpectedSum(Us, gamma) ==
  SumSeq(Collect(3 * Len(Us), LAMBDA n :
    (Us[InstanceOf(n)].v[MatrixOf(n)] * Pow(gamma, n - 1)) % P))

SigmasThetas(R, zLs, zCs, r) ==
  [sigmas |-> Collect(Len(zLs), LAMBDA i : MzAt(R, zLs[i], r)),
   thetas |-> Collect(Len(zCs), LAMBDA k : MzAt(R, zCs[k], r))]

\* compute_c and compute_c_gadget: g at r, from the sigmas and thetas alone.
WeighedSigmas(st, gamma, r_xs, r) ==
  SumSeq(Collect(3 * Len(st.sigmas), LAMBDA n :
    (((Pow(gamma, n - 1) * EqEval(r_xs[InstanceOf(n)], r)) % P)
      * st.sigmas[InstanceOf(n)][MatrixOf(n)]) % P))
TermsAt(theta) ==
  SumSeq(Collect(Len(Terms), LAMBDA j :
    (Terms[j].c * ProdSeq([i \in DOMAIN Terms[j].S |-> theta[Terms[j].S[i]]])) % P))
WeighedThetas(st, gamma, beta, r) ==
  (EqEval(beta, r) * SumSeq(Collect(Len(st.thetas), LAMBDA k :
     (Pow(gamma, 3 * Len(st.sigmas) + k - 1) * TermsAt(st.thetas[k])) % P))) % P
ComputeC(st, gamma, beta, r_xs, r) ==
  (WeighedSigmas(st, gamma, r_xs, r) + WeighedThetas(st, gamma, beta, r)) % P

----------------------------------------------------------------------------
\* sum of rho^(i-1) s[i]
Horner(s, rho) == PolyEval(s, rho)

\* NIMFS::fold: u = 1 and the thetas for the incoming instances, which come after
\* the running ones.
FoldU_NoIncoming(Us, us, rho) == Horner([i \in DOMAIN Us |-> Us[i].u], rho)
FoldU(Us, us, rho) == Horner([i \in DOMAIN Us |-> Us[i].u] \o [k \in DOMAIN us |-> 1], rho)
FoldX(Us, us, rho) ==
  [j \in DOMAIN Us[1].x |->
    Horner([i \in DOMAIN Us |-> Us[i].x[j]] \o [k \in DOMAIN us |-> us[k].x[j]], rho)]
FoldV(st, rho) ==
  [j \in 1 .. 3 |-> Horner([i \in DOMAIN st.sigmas |-> st.sigmas[i][j]]
                           \o [k \in DOMAIN st.thetas |-> st.thetas[k][j]], rho)]
Fold(Us, us, st, r, rho) ==
  [C |-> Horner([i \in DOMAIN Us |-> Us[i].C] \o [k \in DOMAIN us |-> us[k].C], rho),
   u |-> FoldU(Us, us, rho), x |-> FoldX(Us, us, rho), r_x |-> r, v |-> FoldV(st, rho)]

\* NIMFSGadget::fold leaves the commitment to the caller.
FoldInCircuit(Us, us, st, r, rho) ==
  [C |-> Us[1].C,
   u |-> FoldU(Us, us, rho), x |-> FoldX(Us, us, rho), r_x |-> r, v |-> FoldV(st, rho)]

FoldHnWitness_BlinderOfFirst(Ws, rho) ==
  [w |-> [k \in Slot |-> Horner([i \in DOMAIN Ws |-> Ws[i].w[k]], rho)], r_w |-> Ws[1].r_w]
\* fold_witness.
FoldHnWitness(Ws, rho) ==
  [w   |-> [k \in Slot |-> Horner([i \in DOMAIN Ws |-> Ws[i].w[k]], rho)],
   r_w |-> Horner([i \in DOMAIN Ws |-> Ws[i].r_w], rho)]

----------------------------------------------------------------------------
\* What NIMFS::verify finds of a proof, its messages and its sigmas and thetas, once
\* the challenges are drawn; "Ok" and the folded instance, or why not.
VerdictOf(sub, c) ==
  IF ~sub.ok THEN "SumCheckVerifyError"
  ELSE IF c # sub.expected_evaluation THEN "NotEqual" ELSE "Ok"
Verdict(Us, proof, gamma, beta, r) ==
  VerdictOf(CheckAndGenerateSubclaim(ExpectedSum(Us, gamma), proof.proofs, r),
            ComputeC(proof.st, gamma, beta, [i \in DOMAIN Us |-> Us[i].r_x], r))

\* The same for NIMFSGadget::verify.  It adds up the expected sum as well, but
\* compares the messages with the claim of the proof.
GadgetVerdict(Us, proof, gamma, beta, r) ==
  VerdictOf(SumCheckGadget(proof.proofs, r),
            ComputeC(proof.st, gamma, beta, [i \in DOMAIN Us |-> Us[i].r_x], r))

----------------------------------------------------------------------------
\* On a transcript.
GammaLabel == 3 % P
BetaLabel  == 4 % P
RhoLabel   == 5 % P

LcccsElements(U) == <<U.C, U.u>> \o U.x \o U.r_x \o U.v
CccsElements(u)  == <<u.C>> \o u.x
Flat(ss) ==
  LET f[j \in 0 .. Len(ss)] == IF j = 0 THEN <<>> ELSE f[j - 1] \o ss[j]
  IN  f[Len(ss)]

\* gamma and beta, drawn after all instances are absorbed.
BetaAfter(g, s) ==
  LET b == GetChallenges(Absorb(g.tr, <<BetaLabel>>), s)
  IN  [gamma |-> g.r, beta |-> b.rs, tr |-> b.tr]
FirstChallenges(tr, Us, us, s) ==
  BetaAfter(GetChallenge(Absorb(tr, Flat([i \in DOMAIN Us |-> LcccsElements(Us[i])])
                               \o Flat([k \in DOMAIN us |-> CccsElements(us[k])])
                               \o <<GammaLabel>>)), s)
RhoAfter(tr) == GetChallenge(Absorb(tr, <<RhoLabel>>))

\* NIMFS::prove: the proof, the folded pair, rho and the transcript after it.
ProverFold(Us, us, Ws, sc, st, rho) ==
  [proof |-> [proofs |-> sc.proofs, st |-> st], rho |-> rho.r, tr |-> rho.tr,
   U |-> Fold(Us, us, st, sc.point, rho.r), W |-> FoldHnWitness(Ws, rho.r)]
AfterSumCheck(R, Us, us, Ws, zLs, zCs, sc) ==
  ProverFold(Us, us, Ws, sc, SigmasThetas(R, zLs, zCs, sc.point), RhoAfter(sc.tr))
WithChallenges(R, Us, us, Ws, zLs, zCs, c) ==
  AfterSumCheck(R, Us, us, Ws, zLs, zCs,
                SumCheckProve(ComputeG(R, Us, zLs, zCs, c.gamma, c.beta), c.tr))
NimfsProve(tr, R, Us, us, Ws, ws) ==
  WithChallenges(R, Us, us, Ws \o ws, [i \in DOMAIN Us |-> LcccsZ(Us[i], Ws[i])],
                 [k \in DOMAIN us |-> CccsZ(us[k], ws[k])], FirstChallenges(tr, Us, us, R.s))

\* NIMFSGadget::verify: the folded instance but for its commitment, rho, and whether
\* the constraints hold.
GadgetFold(Us, us, proof, c, v, rho) ==
  [U |-> FoldInCircuit(Us, us, proof.st, v.rs, rho.r), rho |-> rho.r, tr |-> rho.tr,
   holds |-> GadgetVerdict(Us, proof, c.gamma, c.beta, v.rs) = "Ok"]
GadgetAfter(Us, us, proof, c, v) == GadgetFold(Us, us, proof, c, v, RhoAfter(v.tr))
GadgetWith(R, Us, us, proof, c) ==
  GadgetAfter(Us, us, proof, c, VerifierChallenges(proof.proofs, R.s, Degree + 1, c.tr))
NimfsGadget(tr, R, Us, us, proof) ==
  GadgetWith(R, Us, us, proof, FirstChallenges(tr, Us, us, R.s))
=============================================================================

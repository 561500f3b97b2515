---------------------------- MODULE ProtoGalaxyNIFS ----------------------------
(***************************************************************************)
(* ProtoGalaxy's folding scheme: folding/protogalaxy/folding.rs, utils.rs, *)
(* and the instances of mod.rs with their relation of traits.rs.           *)
(*                                                                         *)
(* A constraint system is that of R1CS with its constraints in rows 0, 1,  *)
(* .., and with t, the rounded up logarithm of their number.  A witness is *)
(* [w, r_w], an instance [phi, betas, e, x]; that of an incoming one has   *)
(* no betas and e = 0.                                                     *)
(***************************************************************************)
EXTENDS R1CS, Transcript, Pedersen, Polynomials

LOCAL INSTANCE SequencesExt

\* A field of FFTs has a root of unity of the largest order.
ASSUME RootAssumption == \E w \in Fp : IsRoot(w)

PgRunning(l, t)  == [phi : Fp, betas : [1 .. t -> Fp], e : Fp, x : [1 .. l -> Fp]]
PgWitness(l)     == [w : WitnessVec(l), r_w : {0}]

PgDummyWitness        == [w |-> ZeroVec, r_w |-> 0]
PgDummyInstance(l, t) ==
  [phi |-> 0, betas |-> [j \in 1 .. t |-> 0], e |-> 0, x |-> [k \in 1 .. l |-> 0]]

\* Witness::new and Witness::commit.
PgNewWitness(w) == [w |-> w, r_w |-> 0]
PgCommit(g, w, x) ==
  [phi |-> Commit(g, w.w, w.r_w), betas |-> <<>>, e |-> 0, x |-> x]

PgInstanceElements(u) == <<u.phi>> \o u.betas \o <<u.e>> \o u.x

----------------------------------------------------------------------------
\* exponential_powers: b, b^2, b^4, ..
ExponentialPowers(b, t) ==
  LET f[j \in 1 .. t] == IF j = 1 THEN b ELSE (f[j - 1] * f[j - 1]) % P
  IN  Collect(t, LAMBDA j : f[j])

BetasStar(betas, deltas, alpha) == 
  Collect(Len(betas), LAMBDA j : Rlc(betas[j], alpha, deltas[j]))

\* pow_i: the product of the betas that the bits of i select.
PowI(i, betas) ==
  LET f[j \in 0 .. Len(betas)] ==
        IF j = 0 THEN 1
        ELSE (f[j - 1] * IF (i \div 2^(j - 1)) % 2 = 1 THEN betas[j] ELSE 1) % P
  IN  f[Len(betas)]

\* The sum of the errors f[i] of all constraints, each weighed by pow_i.
WeighedError(f, betas) ==
  SumSeq(Collect(2^Len(betas), LAMBDA i : (PowI(i - 1, betas) * f[i - 1]) % P))

PgEval(cs, w, u) == EvalAtZ(cs, Assignment(1, u.x, w.w))

\* check_relation for a running and for an incoming instance.
PgCheckRunning(cs, w, u) ==
  /\ Len(u.betas) = cs.t
  /\ u.e = WeighedError(PgEval(cs, w, u), u.betas)
PgCheckIncoming(cs, w, u) == PgEval(cs, w, u) = ZeroVec

PgOpens(g, w, u) == u.phi = Commit(g, w.w, w.r_w)

----------------------------------------------------------------------------
\* (beta + delta X) c
TimesLinear(beta, delta, c) ==
  PolyAdd(PolyScale(c, beta), <<0>> \o PolyScale(c, delta))

\* calc_f_from_btree: node i of level j joins the neighbours l and r of the level
\* below to l + (betas_j + deltas_j X) r.  At the root is F(X).
CalcFFromBtree_SwappedChildren(f, betas, deltas) ==
  LET t == Len(betas)
      level[j \in 0 .. t] == [i \in 0 .. 2^(t - j) - 1 |->
        IF j = 0 THEN <<f[i]>>
        ELSE PolyAdd(level[j - 1][2 * i + 1],
                     TimesLinear(betas[j], deltas[j], level[j - 1][2 * i]))]
  IN  level[t][0]

CalcFFromBtree(f, betas, deltas) ==
  LET t == Len(betas)
      level[j \in 0 .. t] == [i \in 0 .. 2^(t - j) - 1 |->
        IF j = 0 THEN <<f[i]>>
        ELSE PolyAdd(level[j - 1][2 * i],
                     TimesLinear(betas[j], deltas[j], level[j - 1][2 * i + 1]))]
  IN  level[t][0]

\* The prover's first message: F(X), and what it sends of it, t coefficients.
FX(cs, U, W, deltas) == CalcFFromBtree(PgEval(cs, W, U), U.betas, deltas)
FCoeffs(cs, F_X)     == Resize(F_X, cs.t)

\* G(X), from its values on the domain: the weighed error of the combination of
\* all assignments, zs[1] the running one, by the Lagrange polynomials.
GX(cs, zs, betas_star) ==
  LET k == Len(zs) - 1
      n == GSize(k)
      At(x) == LET L     == LagrangeEvals(k, x)
                   inner == Collect(8, LAMBDA s : Inner(L, Collect(k + 1, LAMBDA j : zs[j][s - 1])))
               IN  WeighedError(EvalAtZ(cs, [s \in Slot |-> inner[s + 1]]), betas_star)
  IN  Interpolate(Collect(n, LAMBDA h : At(Pow(Root[n], h - 1))), Root[n])

\* What is divided by the vanishing polynomial: G(X) - F(alpha) L_0(X).
Dividend(cs, U, W, us, ws, betas_star, F_alpha) ==
  LET k  == Len(us)
      zs == <<Assignment(1, U.x, W.w)>> \o Collect(k, LAMBDA j : Assignment(1, us[j].x, ws[j].w))
  IN  PolyAdd(GX(cs, zs, betas_star), PolyScale(LagrangePolys[k][1], P - F_alpha))

\* Whether the division leaves no remainder; it is an error otherwise.
Divides_Unchecked(dividend, k) == TRUE
Divides(dividend, k) == \A j \in 0 .. k : Remainder(dividend, k + 1)[j + 1] = 0

\* The prover's second message: the d k + 1 coefficients of K(X).
KCoeffs(dividend, k) == Resize(Quotient(dividend, k + 1), Degree * k + 1)

FoldedInstance_UnscaledFAlpha(U, us, betas_star, F_alpha, K_coeffs, gamma) ==
  LET L   == LagrangeEvals(Len(us), gamma)
      all == <<U>> \o us
  IN  [betas |-> betas_star,
       phi   |-> Inner(L, Collect(Len(all), LAMBDA j : all[j].phi)),
       e     |-> (F_alpha + Vanishing(Len(all), gamma) * PolyEval(K_coeffs, gamma)) % P,
       x     |-> [k \in DOMAIN U.x |-> Inner(L, Collect(Len(all), LAMBDA j : all[j].x[k]))]]

\* The running instance both sides fold to.
FoldedInstance(U, us, betas_star, F_alpha, K_coeffs, gamma) ==
  LET L   == LagrangeEvals(Len(us), gamma)
      all == <<U>> \o us
  IN  [betas |-> betas_star,
       phi   |-> Inner(L, Collect(Len(all), LAMBDA j : all[j].phi)),
       e     |-> (F_alpha * L[1] + Vanishing(Len(all), gamma) * PolyEval(K_coeffs, gamma)) % P,
       x     |-> [k \in DOMAIN U.x |-> Inner(L, Collect(Len(all), LAMBDA j : all[j].x[k]))]]

FoldedWitness(W, ws, gamma) ==
  LET L   == LagrangeEvals(Len(ws), gamma)
      all == <<W>> \o ws
  IN  [w   |-> [s \in Slot |-> Inner(L, Collect(Len(all), LAMBDA j : all[j].w[s]))],
       r_w |-> Inner(L, Collect(Len(all), LAMBDA j : all[j].r_w))]

\* phi_stars: the sums of the commitments before each incoming one.
PhiStars(U, us, gamma) ==
  LET L   == LagrangeEvals(Len(us), gamma)
      all == <<U>> \o us
  IN  Collect(Len(us), LAMBDA j : SumSeq(Collect(j, LAMBDA i : (L[i] * all[i].phi) % P)))

\* F(alpha) as the verifier knows it: its own e is the constant term.
VerifierFAlpha_LowPowers(U, F_coeffs, alpha) ==
  (U.e + PolyEval(Tail(F_coeffs), alpha)) % P
VerifierFAlpha(U, F_coeffs, alpha) ==
  PolyEval([F_coeffs EXCEPT ![1] = U.e], alpha)

----------------------------------------------------------------------------
\* The prover's messages, once delta and alpha are known.  With a nonzero remainder
\* it returns an error instead of the second one.
PgMessages(cs, U, W, us, ws, delta, alpha) ==
  LET deltas  == ExponentialPowers(delta, cs.t)
      F_X     == FX(cs, U, W, deltas)
      F_alpha == PolyEval(F_X, alpha)
      star    == BetasStar(U.betas, deltas, alpha)
      div     == Dividend(cs, U, W, us, ws, star, F_alpha)
  IN  [betas_star |-> star, F_alpha |-> F_alpha,
       F_coeffs |-> FCoeffs(cs, F_X), K_coeffs |-> KCoeffs(div, Len(us)),
       divided |-> Divides(div, Len(us))]

\* What it computes from the messages m once gamma is known, too.
PgFold(m, U, W, us, ws, gamma) ==
  [U |-> FoldedInstance(U, us, m.betas_star, m.F_alpha, m.K_coeffs, gamma),
   W |-> FoldedWitness(W, ws, gamma),
   F_coeffs |-> m.F_coeffs, K_coeffs |-> m.K_coeffs,
   L |-> LagrangeEvals(Len(us), gamma), phi_stars |-> PhiStars(U, us, gamma),
   divided |-> m.divided]

\* What the verifier computes from them.
PgVerifierFold(U, us, F_coeffs, K_coeffs, delta, alpha, gamma) ==
  FoldedInstance(U, us,
    BetasStar(U.betas, ExponentialPowers(delta, Len(U.betas)), alpha),
    VerifierFAlpha(U, F_coeffs, alpha), K_coeffs, gamma)

\* The three challenges, each from the transcript up to the message before it.
AbsorbInstances(tr, U, us) ==
  Absorb(tr, FoldLeft(LAMBDA acc, u : acc \o PgInstanceElements(u), PgInstanceElements(U), us))

PgDelta(tr, U, us)              == GetChallenge(AbsorbInstances(tr, U, us))
PgAlpha(tr, U, us, F_c)         == GetChallenge(Absorb(PgDelta(tr, U, us).tr, F_c))
PgGamma(tr, U, us, F_c, K_c)    == GetChallenge(Absorb(PgAlpha(tr, U, us, F_c).tr, K_c))

\* Folding::prove and Folding::verify.
PgRespond(tr, U, W, us, ws, m) ==
  LET gamma == PgGamma(tr, U, us, m.F_coeffs, m.K_coeffs)
      f     == PgFold(m, U, W, us, ws, gamma.r)
  IN  [k \in DOMAIN f \union {"tr"} |-> IF k = "tr" THEN gamma.tr ELSE f[k]]

PgProve(cs, tr, U, W, us, ws) ==
  LET delta == PgDelta(tr, U, us).r
      F_c   == FCoeffs(cs, FX(cs, U, W, ExponentialPowers(delta, cs.t)))
      alpha == PgAlpha(tr, U, us, F_c).r
  IN  PgRespond(tr, U, W, us, ws, PgMessages(cs, U, W, us, ws, delta, alpha))

PgVerify(tr, U, us, F_c, K_c) ==
  LET gamma == PgGamma(tr, U, us, F_c, K_c)
  IN  [U  |-> PgVerifierFold(U, us, F_c, K_c, PgDelta(tr, U, us).r,
                             PgAlpha(tr, U, us, F_c).r, gamma.r),
       L  |-> LagrangeEvals(Len(us), gamma.r),
       tr |-> gamma.tr]
=============================================================================

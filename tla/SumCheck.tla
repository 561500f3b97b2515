------------------------------- MODULE SumCheck -------------------------------
(***************************************************************************)
(* The sum-check protocol (utils/espresso/sum_check/) over virtual         *)
(* polynomials (utils/espresso/virtual_polynomial.rs), and its in-circuit  *)
(* verifier (folding/circuits/sum_check.rs).                               *)
(*                                                                         *)
(* A multilinear polynomial in n variables is the sequence of its 2^n      *)
(* values on the Boolean hypercube; the first variable is the lowest bit   *)
(* of a position.  A virtual polynomial is a sum of products of such,      *)
(*    [num_variables, max_degree, products : Seq([c, mles])].              *)
(***************************************************************************)
EXTENDS Polynomials, Transcript

ProdSeq(s) ==
  LET f[j \in 0 .. Len(s)] == IF j = 0 THEN 1 ELSE (f[j - 1] * s[j]) % P
  IN  f[Len(s)]

FixVariable_LastFirst(t, r) ==
  Collect(Len(t) \div 2, LAMBDA b : Rlc(t[b], r, t[b + Len(t) \div 2] - t[b]))

\* fix_variables for one value: the first free variable becomes r.
FixVariable(t, r) ==
  Collect(Len(t) \div 2, LAMBDA b : Rlc(t[2 * b - 1], r, t[2 * b] - t[2 * b - 1]))

MleEvaluate(t, point) ==
  LET f[j \in 0 .. Len(point)] == IF j = 0 THEN t ELSE FixVariable(f[j - 1], point[j])
  IN  f[Len(point)][1]

\* eq(x, r) = prod (x_j r_j + (1 - x_j)(1 - r_j)): on the hypercube, built from the
\* last coordinate on, and at any point.
BuildEqVec(r) ==
  LET f[j \in 1 .. Len(r) + 1] ==
        IF j > Len(r) THEN <<1>>
        ELSE Collect(2 * Len(f[j + 1]), LAMBDA i :
               (f[j + 1][(i + 1) \div 2] * (IF i % 2 = 1 THEN 1 - r[j] ELSE r[j])) % P)
  IN  f[1]

EqEval(x, y) ==
  ProdSeq(Collect(Len(x), LAMBDA j : (2 * x[j] * y[j] - x[j] - y[j] + 1) % P))

----------------------------------------------------------------------------
NewVirtualPolynomial(n) == [num_variables |-> n, max_degree |-> 0, products |-> <<>>]

AddMleList(vp, mles, c) ==
  [vp EXCEPT !.products = Append(@, [c |-> c, mles |-> mles]),
             !.max_degree = IF Len(mles) > @ THEN Len(mles) ELSE @]

FixProduct(p, r) == [p EXCEPT !.mles = [j \in DOMAIN @ |-> FixVariable(@[j], r)]]
VpFix(vp, r) == [vp EXCEPT !.products = [k \in DOMAIN @ |-> FixProduct(@[k], r)]]

\* evaluate.
VpEvaluate(vp, point) ==
  SumSeq(Collect(Len(vp.products), LAMBDA k :
    (vp.products[k].c * ProdSeq(Collect(Len(vp.products[k].mles),
       LAMBDA j : MleEvaluate(vp.products[k].mles[j], point)))) % P))

----------------------------------------------------------------------------
\* compute_lagrange_interpolated_poly: the polynomial with the given values at
\* 0, 1, .., from the basis polynomials, without leading zeros.  The differences of
\* those points have inverses, in a field of more than three elements and prime order.
ASSUME InvertibleAssumption == \A d \in 1 .. 3 : \E y \in Fp : (d * y) % P = 1
InverseMod(a)   == CHOOSE y \in Fp : (a * y) % P = 1
TimesLinear(c, a) == PolyAdd(<<0>> \o c, PolyScale(c, (-a) % P))
LagrangeBasis ==
  [n \in 1 .. 4 |-> [j \in 0 .. n - 1 |->
    LET f[m \in -1 .. n - 1] ==
          IF m = -1 THEN <<1>>
          ELSE IF m = j THEN f[m - 1]
          ELSE PolyScale(TimesLinear(f[m - 1], m), InverseMod((j - m) % P))
    IN  f[n - 1]]]

Trim(c) ==
  SubSeq(c, 1, CHOOSE n \in 0 .. Len(c) :
    (n > 0 => c[n] # 0) /\ \A j \in n + 1 .. Len(c) : c[j] = 0)

LagrangeInterpolated(evals) ==
  Trim(Collect(Len(evals), LAMBDA k :
    SumSeq(Collect(Len(evals), LAMBDA j : (evals[j] * LagrangeBasis[Len(evals)][j - 1][k]) % P))))

\* The sums of one product at 0, .., its number of factors, over all values of the
\* other free variables, as many values as determine it.
ProductSums(p) ==
  Collect(Len(p.mles) + 1, LAMBDA x :
    SumSeq(Collect(Len(p.mles[1]) \div 2, LAMBDA b :
      (p.c * ProdSeq(Collect(Len(p.mles), LAMBDA j :
        Rlc(p.mles[j][2 * b - 1], x - 1, p.mles[j][2 * b] - p.mles[j][2 * b - 1])))) % P)))

\* Its value at x, extrapolated where no sum was taken.
ProductSumAt(sums, x) ==
  IF x < Len(sums) THEN sums[x + 1] ELSE PolyEval(LagrangeInterpolated(sums), x)

\* The coefficients of a round's message: the polynomial in the first free variable.
RoundMessage(vp) ==
  LET sums == [k \in DOMAIN vp.products |-> ProductSums(vp.products[k])]
  IN  LagrangeInterpolated(Collect(vp.max_degree + 1, LAMBDA x :
        SumSeq(Collect(Len(vp.products), LAMBDA k : ProductSumAt(sums[k], x - 1)))))

----------------------------------------------------------------------------
\* The prover (IOPProverState): what is left of the polynomial and the challenges.
ProverInit(vp) == [poly |-> vp, challenges |-> <<>>]

\* prove_round_and_update_state, given the challenge of the round before, if any.
ProveRound(ps, challenge) ==
  IF challenge = <<>> THEN ps
  ELSE [poly |-> VpFix(ps.poly, challenge[1]), challenges |-> Append(ps.challenges, challenge[1])]

\* SumCheck::prove.  The message of a round is absorbed, the challenge squeezed.
AfterRound(h, ps, tr, msg) ==
  LET g == GetChallenge(Absorb(tr, msg))
  IN  [ps |-> ps, challenge |-> <<g.r>>, proofs |-> Append(h.proofs, msg), tr |-> g.tr]
ProverRound(h) ==
  LET ps == ProveRound(h.ps, h.challenge) IN AfterRound(h, ps, h.tr, RoundMessage(ps.poly))
SumCheckProve(vp, tr) ==
  LET h[j \in 0 .. vp.num_variables] ==
        IF j = 0 THEN [ps |-> ProverInit(vp), challenge |-> <<>>, proofs |-> <<>>,
                       tr |-> Absorb(tr, <<vp.num_variables, vp.max_degree>>)]
        ELSE ProverRound(h[j - 1])
      Proof(e) == [point |-> e.ps.challenges \o e.challenge, proofs |-> e.proofs, tr |-> e.tr]
  IN  Proof(h[vp.num_variables])

\* The challenges the verifier, native or in-circuit, draws for the messages.
VerifierChallenges(proofs, n, degree, tr) ==
  LET h[j \in 0 .. n] ==
        IF j = 0 THEN [rs |-> <<>>, tr |-> Absorb(tr, <<n, degree>>)]
        ELSE LET g == GetChallenge(Absorb(h[j - 1].tr, proofs[j]))
             IN  [rs |-> Append(h[j - 1].rs, g.r), tr |-> g.tr]
  IN  h[n]

\* P(0) + P(1), which is also extract_sum of a proof's first message.
SumOverBit(c) == (PolyEval(c, 0) + PolyEval(c, 1)) % P

\* The values the messages should sum to: the asserted sum, then each message at its
\* challenge.
Expected(sum, proofs, rs) ==
  <<sum>> \o Collect(Len(proofs), LAMBDA j : PolyEval(proofs[j], rs[j]))

CheckAndGenerateSubclaim_SumUnchecked(sum, proofs, rs) ==
  LET e == Expected(sum, proofs, rs)
  IN  [ok |-> \A j \in 2 .. Len(proofs) : SumOverBit(proofs[j]) = e[j],
       point |-> rs, expected_evaluation |-> e[Len(proofs) + 1]]

\* check_and_generate_subclaim, the deferred checks of all rounds.
CheckAndGenerateSubclaim(sum, proofs, rs) ==
  LET e == Expected(sum, proofs, rs)
  IN  [ok |-> \A j \in 1 .. Len(proofs) : SumOverBit(proofs[j]) = e[j],
       point |-> rs, expected_evaluation |-> e[Len(proofs) + 1]]

\* SumCheckVerifierGadget::verify: the claim is read off the proof.
SumCheckGadget(proofs, rs) ==
  CheckAndGenerateSubclaim(SumOverBit(proofs[1]), proofs, rs)
=============================================================================

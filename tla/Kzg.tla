---------------------------------- MODULE Kzg ----------------------------------
(***************************************************************************)
(* commitment/kzg.rs.  A vector is committed to as the polynomial that     *)
(* takes its entries on the points of a domain, at the secret Beta.  The   *)
(* curve group is Fp: the pairing check is the equation it stands for.     *)
(***************************************************************************)
EXTENDS Polynomials, Transcript

CONSTANTS Beta,      \* the secret of the setup
          Omega      \* the root of unity that generates the domain

ASSUME KzgAssumption == Beta \in Fp /\ Omega \in Fp /\ Pow(Omega, 4) = P - 1

\* poly_from_vec: the domain has the next power of two of elements, and coefficient j of
\* the n values is the sum of the vals[k] w^(-jk) / n, for the root w = Omega^(8/n).
DomainSize(len) == CHOOSE n \in {1, 2, 4, 8} : n >= len /\ n < 2 * len
InverseDomain == [n \in {1, 2, 4, 8} |-> Collect(n, LAMBDA j : Collect(n, LAMBDA k :
  (Pow(Omega, ((8 \div n) * (n - 1) * (j - 1) * (k - 1)) % 8) * (P - (P - 1) \div n)) % P))]
Interpolation(n, vals) == Collect(n, LAMBDA j : Inner(vals, InverseDomain[n][j]))
PolyFromVec(vals)      == Interpolation(DomainSize(Len(vals)), vals)

\* The sum of the coefficients, each times its power of Beta.
Msm(coeffs) == PolyEval(coeffs, Beta)

KzgCommit(vals) == Msm(PolyFromVec(vals))

\* check_degree_is_too_large, for a polynomial committed to with so many powers.
DegreeOf(coeffs) == CHOOSE d \in 0 .. Len(coeffs) :
  /\ \A j \in d + 2 .. Len(coeffs) : coeffs[j] = 0
  /\ d = 0 \/ coeffs[d + 1] # 0
DegreeTooLarge(coeffs, powers) == DegreeOf(coeffs) + 1 > powers

\* divide_with_q_and_r by X - c: the remainder, then the quotient.
DivideByLinear(p, c) ==
  LET q[j \in 1 .. Len(p) + 1] == IF j > Len(p) THEN 0 ELSE (p[j] + c * q[j + 1]) % P
  IN  Collect(Len(p), LAMBDA j : q[j])

OpeningAt(d) == [eval |-> Head(d), proof |-> Msm(Tail(d))]
KzgProveWithChallenge(c, vals) == OpeningAt(DivideByLinear(PolyFromVec(vals), c))

\* e(cm - eval g, h) = e(proof, (Beta - c) h)
KzgVerifyWithChallenge(c, cm, pf) == (cm - pf.eval) % P = (pf.proof * (Beta - c)) % P

\* The one challenge of prove and of verify.
KzgChallenge(tr, cm) == GetChallenge(Absorb(tr, <<cm>>))

----------------------------------------------------------------------------
\* KZGChallengesGadget and EvalGadget of folding/circuits/decider/mod.rs, native and in
\* circuit: one challenge after each commitment.
KzgChallenges(tr, cms) ==
  LET g[j \in 0 .. Len(cms)] ==
        IF j = 0 THEN [tr |-> tr, rs |-> <<>>]
        ELSE LET ch == GetChallenge(Absorb(g[j - 1].tr, <<cms[j]>>))
             IN  [tr |-> ch.tr, rs |-> Append(g[j - 1].rs, ch.r)]
  IN  g[Len(cms)].rs

EvalVec(vals, c) == PolyEval(PolyFromVec(vals), c)

\* The entries of a vector of Field.
Entries(v) == [k \in 1 .. 8 |-> v[k - 1]]
=============================================================================

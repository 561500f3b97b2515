------------------------------ MODULE PedersenIpa ------------------------------
(***************************************************************************)
(* The two commitments with opening proofs that need no pairing, over the  *)
(* group Fp: commitment/pedersen.rs, and the inner product argument of     *)
(* commitment/ipa.rs, which commits as Pedersen does, with its prover, its *)
(* native verifier and the verifier's gadget.  H says whether a commitment *)
(* hides, gens and h are its parameters and Base generates the group.      *)
(***************************************************************************)
EXTENDS Polynomials, Transcript

CONSTANT Base

ASSUME BaseAssumption == Base \in Fp

\* The checks that commit and the prover make of a vector v with the blinder r.
ParamsRet(H, gens, v, r) ==
  IF Len(gens) < Len(v) THEN "PedersenParamsLen"
  ELSE IF ~H /\ r # 0 THEN "BlindingNotZero"
  ELSE "Ok"

BlinderTerm(H, h, r) == IF H THEN (h * r) % P ELSE 0
PedersenCommit(H, gens, h, v, r) == (Inner(v, gens) + BlinderTerm(H, h, r)) % P

\* The gadget adds one multiple after the other.
PedersenGadgetCommit_NoBlinder(H, gens, h, v, r) == Inner(v, gens)
PedersenGadgetCommit(H, gens, h, v, r) ==
  LET f[j \in 0 .. Len(v)] == IF j = 0 THEN BlinderTerm(H, h, r) ELSE Rlc(f[j - 1], gens[j], v[j])
  IN  f[Len(v)]

\* The challenges r_1, d and e of a proof.  The prover makes R of the first two, the
\* verifier takes that of the proof.
AfterR(r_1, d, R, e) == [r_1 |-> r_1, d |-> d, R |-> R, e |-> e.r, tr |-> e.tr]
WithR(r_1, d, R)     == AfterR(r_1, d.rs, R, GetChallenge(Absorb(d.tr, <<R>>)))
Masks(c, n)          == [r_1 |-> c.r, d |-> GetChallenges(c.tr, n)]
MasksFor(tr, cm, n)  == Masks(GetChallenge(Absorb(tr, <<cm>>)), n)

ProverChallengeOf(H, gens, h, m) == WithR(m.r_1, m.d, PedersenCommit(H, gens, h, m.d.rs, m.r_1))
ProverChallenge(H, gens, h, tr, cm, n) == ProverChallengeOf(H, gens, h, MasksFor(tr, cm, n))

VerifierChallengeOf(m, pf)    == WithR(m.r_1, m.d, pf.R)
VerifierChallenge_DNotSqueezed(tr, cm, pf) ==
  VerifierChallengeOf([MasksFor(tr, cm, 0) EXCEPT !.d.tr = GetChallenge(Absorb(tr, <<cm>>)).tr], pf)
VerifierChallenge(tr, cm, pf) == VerifierChallengeOf(MasksFor(tr, cm, Len(pf.u)), pf)

PedersenProveWithChallenge(H, v, r, ch) ==
  [R |-> ch.R, u |-> PolyAdd(PolyScale(v, ch.e), ch.d),
   r_u |-> IF H THEN (ch.e * r + ch.r_1) % P ELSE 0]

PedersenVerifyWithChallenge(H, gens, h, e, cm, pf) ==
  IF ParamsRet(H, gens, pf.u, pf.r_u) # "Ok" THEN ParamsRet(H, gens, pf.u, pf.r_u)
  ELSE IF (pf.R + cm * e) % P # PedersenCommit(H, gens, h, pf.u, pf.r_u)
  THEN "CommitmentVerificationFail"
  ELSE "Ok"

----------------------------------------------------------------------------
Inv(a) == Pow(a, P - 2)

Lo(s) == SubSeq(s, 1, Len(s) \div 2)
Hi(s) == SubSeq(s, Len(s) \div 2 + 1, Len(s))

PowersOf(x, n) == Collect(n, LAMBDA j : Pow(x, j - 1))

\* a ca + b cb
Combined(a, ca, b, cb) == PolyAdd(PolyScale(a, ca), PolyScale(b, cb))

----------------------------------------------------------------------------
\* One round of the prover, with the blinders l and r when it hides: the vectors a and b
\* and the generators G are halved, those of a with the challenge the other way round.  A
\* challenge of zero ends the rounds.
Halved_HalfOfG(s, L, R, ch) ==
  [a  |-> Combined(Lo(s.a), ch.r, Hi(s.a), Inv(ch.r)),
   b  |-> Combined(Lo(s.b), Inv(ch.r), Hi(s.b), ch.r),
   G  |-> Combined(Lo(s.G), Inv(ch.r), Hi(s.G), ch.r),
   L  |-> <<L>> \o s.L, R |-> <<R>> \o s.R, tr |-> ch.tr, ok |-> ch.r # 0]
Halved(s, L, R, ch) ==
  [a  |-> Combined(Lo(s.a), ch.r, Hi(s.a), Inv(ch.r)),
   b  |-> Combined(Lo(s.b), Inv(ch.r), Hi(s.b), ch.r),
   G  |-> Combined(SubSeq(s.G, 1, Len(s.a) \div 2), Inv(ch.r),
                   SubSeq(s.G, Len(s.a) \div 2 + 1, Len(s.a)), ch.r),
   L  |-> <<L>> \o s.L, R |-> <<R>> \o s.R, tr |-> ch.tr, ok |-> ch.r # 0]

RoundWith(s, L, R) == Halved(s, L, R, GetChallenge(Absorb(s.tr, <<L, R>>)))
Round(H, h, U, l, r, s) ==
  LET m == Len(s.a) \div 2
  IN  IF ~s.ok THEN s ELSE RoundWith(s,
        Rlc(BlinderTerm(H, h, l) + Inner(Lo(s.a), SubSeq(s.G, m + 1, 2 * m)), U, Inner(Lo(s.a), Hi(s.b))),
        Rlc(BlinderTerm(H, h, r) + Inner(Hi(s.a), SubSeq(s.G, 1, m)), U, Inner(Hi(s.a), Lo(s.b))))

Rounds(H, h, U, l, r, s) ==
  LET k == Len(l)
      f[j \in 0 .. k] == IF j = k THEN s ELSE Round(H, h, U, l[j + 1], r[j + 1], f[j + 1])
  IN  f[0]

\* The vectors before the rounds; the generators are all those of the parameters.
Start(gens, a, x, tr) ==
  [a |-> a, b |-> PowersOf(x, Len(a)), G |-> gens, L |-> <<>>, R |-> <<>>, tr |-> tr, ok |-> TRUE]

IpaAnswer(H, v, blind, l, r, s) ==
  IF ~s.ok THEN [ret |-> "Other", tr |-> s.tr]
  ELSE IF Len(s.G) # 1 THEN [ret |-> "NotExpectedLength", tr |-> s.tr]
  ELSE [ret |-> "Ok", tr |-> s.tr,
        proof |-> [a |-> s.a[1], l |-> IF H THEN l ELSE <<>>, r |-> IF H THEN r ELSE <<>>,
                   L |-> s.L, R |-> s.R, v |-> v, blind |-> blind]]

\* The point x and the base U = s times the generator, from the commitment alone.
IpaUWith(x, s) == [x |-> x.r, U |-> (Base * s.r) % P, tr |-> s.tr]
IpaUAfter(x)   == IpaUWith(x, GetChallenge(x.tr))
IpaU(tr, cm)   == IpaUAfter(GetChallenge(Absorb(tr, <<cm>>)))

ProveAt(H, gens, h, a, blind, l, r, ch) ==
  IpaAnswer(H, Inner(a, PowersOf(ch.x, Len(a))), blind, l, r,
            Rounds(H, h, ch.U, l, r, Start(gens, a, ch.x, ch.tr)))

\* prove, of a vector whose length is a power of two: l and r are the blinders that the
\* rng draws, one for each round.
IpaProve(H, gens, h, tr, cm, a, blind, l, r) ==
  IF ~(Len(a) \in {1, 2, 4, 8}) THEN [ret |-> "NotPowerOfTwo", tr |-> tr]
  ELSE IF ~H /\ blind # 0 THEN [ret |-> "BlindingNotZero", tr |-> tr]
  ELSE IF Len(gens) < Len(a) THEN [ret |-> "PedersenParamsLen", tr |-> tr]
  ELSE ProveAt(H, gens, h, a, blind, l, r, IpaU(tr, cm))

----------------------------------------------------------------------------
\* build_s: the products of the u[j], inverted where the bit j of the index is zero.
BuildS_Reversed(u) ==
  Collect(2^Len(u), LAMBDA i :
    LET f[j \in 0 .. Len(u)] ==
          IF j = 0 THEN 1
          ELSE (f[j - 1] * (IF ((i - 1) \div 2^(Len(u) - j)) % 2 = 1 THEN u[j] ELSE Inv(u[j]))) % P
    IN  f[Len(u)])
BuildS(u) ==
  Collect(2^Len(u), LAMBDA i :
    LET f[j \in 0 .. Len(u)] ==
          IF j = 0 THEN 1
          ELSE (f[j - 1] * (IF ((i - 1) \div 2^(j - 1)) % 2 = 1 THEN u[j] ELSE Inv(u[j]))) % P
    IN  f[Len(u)])

\* s_b_inner: <s, b> as the product of the u[j] x^(2^j) + u[j]^-1.
SBInner(u, x) ==
  LET sq[j \in 1 .. Len(u) + 1] == IF j = 1 THEN x ELSE Sq(sq[j - 1])
      f[j \in 0 .. Len(u)] ==
        IF j = 0 THEN 1 ELSE (f[j - 1] * Rlc(Inv(u[j]), u[j], sq[j])) % P
  IN  f[Len(u)]

\* The challenges of the rounds, last one first.
RoundChallenges(tr, pf) ==
  LET f[j \in 0 .. Len(pf.L)] ==
        IF j = Len(pf.L) THEN [tr |-> tr, u |-> <<>>]
        ELSE LET ch == GetChallenge(Absorb(f[j + 1].tr, <<pf.L[j + 1], pf.R[j + 1]>>))
             IN  [tr |-> ch.tr, u |-> <<ch.r>> \o f[j + 1].u]
  IN  f[0]

IpaChallengesAfter(ch, rounds) == [x |-> ch.x, U |-> ch.U, u |-> rounds.u, tr |-> rounds.tr]
IpaChallengesAt(ch, pf)        == IpaChallengesAfter(ch, RoundChallenges(ch.tr, pf))
IpaChallenges(tr, cm, pf)      == IpaChallengesAt(IpaU(tr, cm), pf)

\* The sum of base and, for each j, lo[j] u[j]^2 + hi[j] u[j]^-2.
Unrounded(base, lo, hi, u) ==
  LET f[j \in 0 .. Len(u)] ==
        IF j = 0 THEN base
        ELSE Rlc(Rlc(f[j - 1], Sq(u[j]), lo[j]), Sq(Inv(u[j])), hi[j])
  IN  f[Len(u)]

Blinding(H, h, pf, u) == IF H THEN BlinderTerm(H, h, Unrounded(pf.blind, pf.l, pf.r, u)) ELSE 0

\* q_0 = q_1
FinalCheck(H, gens, h, cm, pf, ch, s) ==
  Unrounded((cm + ch.U * pf.v) % P, pf.L, pf.R, ch.u)
    = Rlc(Rlc(Blinding(H, h, pf, ch.u), pf.a, Inner(s, gens)),
          ch.U, (pf.a * SBInner(ch.u, ch.x)) % P)

\* verify_with_challenge.
IpaVerifyWithChallenge(H, gens, h, cm, pf, ch) ==
  LET k == Len(pf.L) IN
  IF Len(pf.R) # k THEN "CommitmentVerificationFail"
  ELSE IF ~H /\ pf.blind # 0 THEN "BlindingNotZero"
  ELSE IF (IF H THEN Len(pf.l) # k \/ Len(pf.r) # k ELSE pf.l # <<>> \/ pf.r # <<>>)
       THEN "CommitmentVerificationFail"
  ELSE IF \E j \in 1 .. k : ch.u[j] = 0 THEN "Other"
  ELSE IF Len(gens) < 2^k THEN "PedersenParamsLen"
  ELSE IF FinalCheck(H, gens, h, cm, pf, ch, BuildS(ch.u)) THEN "Ok"
  ELSE "CommitmentVerificationFail"

\* IPAGadget::verify for k rounds: it is satisfiable and returns a Boolean.  The number of
\* the blinders is not looked at, that of the generators is compared with k.
IpaGadgetVerify(H, gens, h, cm, pf, ch, k) ==
  /\ Len(pf.L) = k /\ Len(pf.R) = k
  /\ \A j \in 1 .. k : ch.u[j] # 0
  /\ Len(gens) >= k
  /\ FinalCheck(H, gens, h, cm, pf, ch, BuildS(ch.u))
=============================================================================

----------------------------- MODULE NovaVariants -----------------------------
(***************************************************************************)
(* The two variants of Nova's folding scheme that commit to no error term: *)
(* Mova (nifs/mova.rs, nifs/pointvsline.rs), whose instance holds an       *)
(* evaluation of the error vector's multilinear extension, and Ova         *)
(* (nifs/ova.rs, nifs/ova_circuits.rs), which commits to the witness and   *)
(* the error vector at once.                                               *)
(***************************************************************************)
EXTENDS NovaNIFS, Polynomials

CONSTANTS GensE,      \* Ova: the generators past those of the witness
          NumVars     \* Mova: log2 of the number of constraints

ASSUME VariantsAssumption == GensE \in Vec /\ NumVars \in 1 .. 2

----------------------------------------------------------------------------
\* Mova.

\* Trailing zeros are not kept in a DensePolynomial.
Trimmed(c) ==
  SubSeq(c, 1, CHOOSE n \in 0 .. Len(c) :
                 (n = 0 \/ c[n] # 0) /\ \A j \in n + 1 .. Len(c) : c[j] = 0)

\* The first variable of a multilinear polynomial, whose values are polynomials
\* themselves, is set to a + b X.
SetVariable(polys, a, b) ==
  Collect(Len(polys) \div 2, LAMBDA j :
    LET left  == polys[2 * j - 1]
        slope == PolyAdd(polys[2 * j], PolyScale(left, P - 1))
    IN  PolyAdd(left, PolyAdd(PolyScale(slope, a), <<0>> \o PolyScale(slope, b))))

\* compute_h: the multilinear extension of E on the line r1 + d X.
ComputeH(E, r1, d) ==
  LET h[i \in 0 .. NumVars] ==
        IF i = 0 THEN Collect(2 ^ NumVars, LAMBDA j : <<E[j]>>)
        ELSE SetVariable(h[i - 1], r1[i], d[i])
  IN  Trimmed(h[NumVars][1])
MleAt(E, r) == PolyEval(ComputeH(E, r, Collect(NumVars, LAMBDA i : 0)), 0)

\* The direction both sides take for the line, and compute_l.
Direction(r1, r2)    == Collect(Len(r1), LAMBDA i : (r1[i] - r2[i]) % P)
ComputeL(r1, d, x)   == Collect(Len(r1), LAMBDA i : (r1[i] + x * d[i]) % P)

\* Witness::new, and new_instance: a point is drawn unless aux names one.
MovaWitness(W, rW)   == [E |-> ZeroVec, W |-> W, rW |-> IF Hiding THEN rW ELSE 0]
MovaPoint(aux, draw) == IF \A i \in DOMAIN aux : aux[i] = 0 THEN draw ELSE aux
MovaInstance(g, w, x, aux, draw) ==
  LET rE == MovaPoint(aux, draw)
  IN  [rE |-> rE, mleE |-> IF w.E = ZeroVec THEN 0 ELSE MleAt(w.E, rE), u |-> 1,
       cmW |-> Commit(g, w.W, w.rW), x |-> x]

MovaElements(U) == <<U.u>> \o U.x \o U.rE \o <<U.mleE, U.cmW>>
MovaOpening(tr, pp_hash, U, u) ==
  Absorb(tr, <<pp_hash>> \o MovaElements(U) \o MovaElements(u))

\* What both sides absorb of the two polynomials before beta, and of the three
\* evaluations before alpha.
CONSTANT BetaLabel      \* the field element of the bytes "beta"
LineChallenge(tr, h1, h2)  == GetChallenge(Absorb(tr, h1 \o h2 \o <<BetaLabel>>))
FoldChallenge(tr, e1, e2, t) == GetChallenge(Absorb(tr, <<e1, e2, t>>))

MovaFoldWitness(a, W, w, T) ==
  [E  |-> VecRlc(VecRlc(W.E, a, T), Sq(a), w.E),
   W  |-> VecRlc(W.W, a, w.W),
   rW |-> Rlc(W.rW, a, w.rW)]

\* A plausible bug: the folded instance keeps the point of the running one.
MovaFoldInstance_OldPoint(a, U, u, rE, e1, e2, t) ==
  [rE |-> U.rE, mleE |-> Rlc(Rlc(e1, a, t), Sq(a), e2), u |-> Rlc(U.u, a, u.u),
   cmW |-> Rlc(U.cmW, a, u.cmW), x |-> [k \in DOMAIN U.x |-> Rlc(U.x[k], a, u.x[k])]]
MovaFoldInstance(a, U, u, rE, e1, e2, t) ==
  [rE |-> rE, mleE |-> Rlc(Rlc(e1, a, t), Sq(a), e2), u |-> Rlc(U.u, a, u.u),
   cmW |-> Rlc(U.cmW, a, u.cmW), x |-> [k \in DOMAIN U.x |-> Rlc(U.x[k], a, u.x[k])]]

\* PointVsLine::prove: the restrictions of both error vectors to the line through the
\* two points, and their values at beta.
LineProve(tr, W, U, w, u) ==
  LET d    == Direction(U.rE, u.rE)
      h1   == ComputeH(W.E, U.rE, d)
      h2   == ComputeH(w.E, U.rE, d)
      beta == LineChallenge(tr, h1, h2)
  IN  IF Len(U.rE) # NumVars \/ Len(u.rE) < NumVars THEN [ret |-> "NotEqual", tr |-> tr]
      ELSE [ret |-> "Ok", tr |-> beta.tr, h1 |-> h1, h2 |-> h2,
            e1 |-> PolyEval(h1, beta.r), e2 |-> PolyEval(h2, beta.r),
            rE |-> ComputeL(U.rE, d, beta.r)]

\* NIFS::prove.  The instances are absorbed before a point of the wrong length is
\* refused, so that the transcript has changed when it is.
MovaProve(cs, tr, pp_hash, W, U, w, u) ==
  LET line  == LineProve(MovaOpening(tr, pp_hash, U, u), W, U, w, u)
      T     == ComputeT(cs, U, W, u, w)
      t     == MleAt(T, line.rE)
      alpha == FoldChallenge(line.tr, line.e1, line.e2, t)
  IN  IF line.ret # "Ok" THEN line
      ELSE [ret |-> "Ok", tr |-> alpha.tr,
            W |-> MovaFoldWitness(alpha.r, W, w, T),
            U |-> MovaFoldInstance(alpha.r, U, u, line.rE, line.e1, line.e2, t),
            proof |-> [h1 |-> line.h1, h2 |-> line.h2,
                       e1 |-> line.e1, e2 |-> line.e2, t |-> t]]

\* PointVsLine::verify.
LineVerify(tr, U, u, proof) ==
  LET beta == LineChallenge(tr, proof.h1, proof.h2)
  IN  IF PolyEval(proof.h1, 0) # U.mleE \/ PolyEval(proof.h2, 1) # u.mleE
      THEN [ret |-> "NotEqual", tr |-> tr]
      ELSE IF proof.e1 # PolyEval(proof.h1, beta.r) \/ proof.e2 # PolyEval(proof.h2, beta.r)
      THEN [ret |-> "NotEqual", tr |-> beta.tr]
      ELSE [ret |-> "Ok", tr |-> beta.tr,
            rE |-> ComputeL(U.rE, Direction(U.rE, u.rE), beta.r)]

\* A plausible bug: the verifier squeezes alpha without the evaluation of T.
MovaVerify_TNotAbsorbed(tr, pp_hash, U, u, proof) ==
  LET line  == LineVerify(MovaOpening(tr, pp_hash, U, u), U, u, proof)
      alpha == GetChallenge(Absorb(line.tr, <<proof.e1, proof.e2>>))
  IN  IF line.ret # "Ok" THEN line
      ELSE [ret |-> "Ok", tr |-> alpha.tr,
            U |-> MovaFoldInstance(alpha.r, U, u, line.rE, proof.e1, proof.e2, proof.t)]

\* NIFS::verify.
MovaVerify(tr, pp_hash, U, u, proof) ==
  LET line  == LineVerify(MovaOpening(tr, pp_hash, U, u), U, u, proof)
      alpha == FoldChallenge(line.tr, proof.e1, proof.e2, proof.t)
  IN  IF line.ret # "Ok" THEN line
      ELSE [ret |-> "Ok", tr |-> alpha.tr,
            U |-> MovaFoldInstance(alpha.r, U, u, line.rE, proof.e1, proof.e2, proof.t)]

----------------------------------------------------------------------------
\* Ova.

OvaWitness(W, rW) == [w |-> W, rW |-> IF Hiding THEN rW ELSE 0]

\* Witness::commit, to the witness followed by t_or_e.
CommitBoth(g, w, t_or_e, rW) == (Commit(g, w, rW) + Dot(GensE, t_or_e)) % P
OvaInstance(g, w, x, t_or_e) == [u |-> 1, cmWE |-> CommitBoth(g, w.w, t_or_e, w.rW), x |-> x]

OvaElements(U) == <<U.u>> \o U.x \o <<U.cmWE>>
OvaChallenge(tr, pp_hash, U, u) ==
  Squeeze(Absorb(tr, <<pp_hash>> \o OvaElements(U) \o OvaElements(u)))

OvaFoldWitness_OldBlinder(r, W, w) == [w |-> VecRlc(W.w, r, w.w), rW |-> W.rW]
OvaFoldWitness(r, W, w) == [w |-> VecRlc(W.w, r, w.w), rW |-> Rlc(W.rW, r, w.rW)]

\* NIFS::verify: u_i.u is taken to be one.  NIFSGadget::verify does the same for u and
\* x, and leaves the commitment to CycleFold.
OvaFoldPublic(r, U, u) ==
  [u |-> (U.u + r) % P, x |-> [k \in DOMAIN U.x |-> Rlc(U.x[k], r, u.x[k])]]
OvaVerify(tr, pp_hash, U, u) ==
  LET sq   == OvaChallenge(tr, pp_hash, U, u)
      pub  == OvaFoldPublic(sq.r, U, u)
  IN  [U |-> [u |-> pub.u, cmWE |-> Rlc(U.cmWE, sq.r, u.cmWE), x |-> pub.x],
       r |-> sq.r, tr |-> sq.tr]

\* NIFS::prove: the instance is that of verify, on a clone of the transcript.
OvaProve(tr, pp_hash, W, U, w, u) ==
  LET sq == OvaChallenge(tr, pp_hash, U, u)
  IN  [W |-> OvaFoldWitness(sq.r, W, w), U |-> OvaVerify(tr, pp_hash, U, u).U, tr |-> sq.tr]

\* compute_E, and the cross term the caller commits to with a fresh witness.
ComputeE(cs, W, U) == EvalAtZ(cs, Assignment(U.u, U.x, W.w))
CrossTerm(cs, W, U, w, x) ==
  VecSub(VecSub(EvalAtZ(cs, VecAdd(Assignment(U.u, U.x, W.w), Assignment(1, x, w.w))),
                ComputeE(cs, W, U)),
         EvalAtZ(cs, Assignment(1, x, w.w)))
=============================================================================

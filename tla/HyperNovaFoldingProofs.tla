------------------------ MODULE HyperNovaFoldingProofs ------------------------
(***************************************************************************)
(* The running pair of a chain of multifolds always satisfies its relation, *)
(* and a fold is accepted exactly if the challenges weigh the errors of its  *)
(* pairs to nothing.                                                        *)
(***************************************************************************)
EXTENDS HyperNovaFolding, HyperNovaNIMFSProofs

IsSequence(p) == Len(p) \in Nat /\ p = [i \in 1 .. Len(p) |-> p[i]]

LEMMA AppendIsSequence ==
  ASSUME NEW p, NEW msg, IsSequence(p)
  PROVE  /\ IsSequence(Append(p, msg)) /\ Len(Append(p, msg)) = Len(p) + 1
         /\ Append(p, msg)[Len(p) + 1] = msg
         /\ \A i \in 1 .. Len(p) : Append(p, msg)[i] = p[i]
<1> DEFINE S == {p[i] : i \in 1 .. Len(p)} \cup {msg}
           n == Len(p)
<1>1. n \in Nat /\ p = [i \in 1 .. n |-> p[i]]
  BY DEF IsSequence
<1>2. [i \in 1 .. n |-> p[i]] \in [1 .. n -> S]
  OBVIOUS
<1> HIDE DEF S, n
<1>3. p \in Seq(S) /\ msg \in S
  <2>1. p \in [1 .. n -> S]
    BY <1>1, <1>2
  <2> QED BY <1>1, <2>1, SeqDef DEF S
<1>4. /\ Append(p, msg) \in Seq(S) /\ Len(Append(p, msg)) = Len(p) + 1
      /\ Append(p, msg)[Len(p) + 1] = msg
      /\ \A i \in 1 .. Len(p) : Append(p, msg)[i] = p[i]
  BY <1>3, AppendProperties
<1> QED
  BY <1>4, LenProperties DEF IsSequence

\* The challenges of the rounds so far: those the prover has put to use, and the one
\* it has not.
ChallengesOk(f) ==
  /\ f.ps.challenges \in Seq(Fp)
  /\ \/ f.challenge = <<>> /\ Len(f.ps.challenges) = 0 /\ Len(f.proofs) = 0
     \/ \E r \in Fp : f.challenge = <<r>> /\ Len(f.proofs) = Len(f.ps.challenges) + 1

\* A fold in progress is of two running pairs and an incoming one.
PairsOk(f) ==
  \E Ws \in List(HnWitness(Ccs.l), 2), ws \in List(HnWitness(Ccs.l), 1) :
    /\ f.Ws = Ws \o ws
    /\ PairsToFold(Ccs.l, Ccs.s, 2, 1, f.Us, f.us, Ws, ws, f.zLs, f.zCs)

\* Its polynomial is compute_g's for the pairs and its challenges.
StartedOk(f) ==
  /\ f.gamma \in Fp /\ f.beta \in List(Fp, Ccs.s)
  /\ f.g = ComputeG(Ccs, f.Us, f.zLs, f.zCs, f.gamma, f.beta)

\* The challenges in the order they were drawn, and the rounds they stand for: each
\* message is of the polynomial at the challenges before it.
PointOf(f) == f.ps.challenges \o f.challenge
RoundsOk(f) ==
  /\ Len(f.proofs) <= Ccs.s
  /\ Rounds(f.g, PointOf(f), f.proofs, Len(f.proofs), ProveRound(f.ps, f.challenge).poly)

FoldOk(f) ==
  IsSequence(f.proofs) /\ ChallengesOk(f) /\ PairsOk(f) /\ StartedOk(f) /\ RoundsOk(f)

RunningOk ==
  /\ W \in HnWitness(Ccs.l) /\ U \in Lcccs(Ccs.l, Ccs.s)
  /\ CheckLcccs(Ccs, W, U)

\* The inductive invariant.
MultifoldInvariant == RunningOk /\ (InProgress => FoldOk(fold))

\* The point of a fold is the prover's once it has put its last challenge to use.
LEMMA PointIs ==
  ASSUME NEW f, FoldOk(f)
  PROVE  /\ PointOf(f) \in Seq(Fp) /\ Len(PointOf(f)) = Len(f.proofs) /\ Len(f.proofs) \in Nat
         /\ ProveRound(f.ps, f.challenge).challenges = PointOf(f)
         /\ f.challenge # <<>> => PointOf(f)[Len(f.proofs)] = f.challenge[1]
         /\ f.challenge = <<>> <=> Len(f.proofs) = 0
<1> DEFINE a == f.ps.challenges  b == f.challenge  k == Len(f.proofs)
<1>1. a \in Seq(Fp) /\ k \in Nat
  BY DEF FoldOk, ChallengesOk, IsSequence
<1>2. CASE b = <<>> /\ Len(a) = 0 /\ k = 0
  <2>1. a = <<>> /\ a \o b = <<>>
    BY <1>1, <1>2
  <2> QED BY <1>1, <1>2, <2>1 DEF PointOf, ProveRound
<1>3. CASE \E r \in Fp : b = <<r>> /\ k = Len(a) + 1
  <2>1. PICK r \in Fp : b = <<r>> /\ k = Len(a) + 1
    BY <1>3
  <2>2. b # <<>> /\ b[1] = r
    BY <2>1
  <2>3. ProveRound(f.ps, b).challenges = Append(a, r)
    BY <2>2 DEF ProveRound
  <2>4. PointOf(f) = a \o <<r>>
    BY <2>1 DEF PointOf
  <2>5. PointOf(f) = Append(a, r)
    <3> HIDE DEF a
    <3> QED BY <1>1, <2>4
  <2>6. /\ Append(a, r) \in Seq(Fp) /\ Len(Append(a, r)) = Len(a) + 1
        /\ Append(a, r)[Len(a) + 1] = r
    BY <1>1, AppendProperties
  <2>7. k # 0
    BY <1>1, <2>1, LenProperties
  <2> QED BY <1>1, <2>1, <2>2, <2>3, <2>5, <2>6, <2>7
<1> QED BY <1>2, <1>3 DEF FoldOk, ChallengesOk

LEMMA CcsIsOk == CcsOk(Ccs)
BY CcsAssumption DEF CcsOk, MatricesOk

LEMMA InitRunning == Init => RunningOk
<1> SUFFICES ASSUME Init PROVE RunningOk
  OBVIOUS
<1>1. W \in HnWitness(Ccs.l)
  BY ZeroOneInFp, CcsAssumption DEF Init, DummyHnWitness, HnWitness, WitnessVec, ZeroVec, Vec, Slot
<1>2. U \in Lcccs(Ccs.l, Ccs.s)
  BY ZeroOneInFp DEF Init, DummyLcccs, Lcccs
<1>3. LcccsZ(U, W) = ZeroVec
  BY DEF Init, DummyLcccs, DummyHnWitness, LcccsZ, Assignment, ZeroVec
<1>4. U.r_x \in List(Fp, Ccs.s) /\ U.v = [j \in 1 .. 3 |-> 0]
  BY <1>2 DEF Init, DummyLcccs, Lcccs, List
<1>5. \A j \in 1 .. 3 : MzAt(Ccs, ZeroVec, U.r_x)[j] = 0
  BY <1>4, CcsIsOk, MzAtZero
<1>6. MzAt(Ccs, ZeroVec, U.r_x) \in [1 .. 3 -> Fp]
  BY <1>4, CcsIsOk, ZeroVecInVec, ZeroOneInFp, MzAtLinear
<1>7. U.v = MzAt(Ccs, ZeroVec, U.r_x)
  BY <1>4, <1>5, <1>6
<1> QED
  BY <1>1, <1>2, <1>3, <1>7 DEF RunningOk, CheckLcccs

LEMMA StartKeeps ==
  ASSUME MultifoldInvariant, NEW o \in Others, NEW n \in Incoming,
         NEW gamma \in Gammas, NEW beta \in Betas, Start(o, n, gamma, beta)
  PROVE  MultifoldInvariant'
<1> DEFINE Us == <<U, o.U>>  us == <<n.u>>  Ws == <<W, o.W>>  ws == <<n.w>>
           zLs == <<LcccsZ(U, W), LcccsZ(o.U, o.W)>>  zCs == <<CccsZ(n.u, n.w)>>
<1>1. /\ o.U \in Lcccs(Ccs.l, Ccs.s) /\ o.W \in HnWitness(Ccs.l)
      /\ n.u \in Cccs(Ccs.l) /\ n.w \in HnWitness(Ccs.l)
  BY PairsAssumption
<1>2. U \in Lcccs(Ccs.l, Ccs.s) /\ W \in HnWitness(Ccs.l)
  BY DEF MultifoldInvariant, RunningOk
<1>3. PairsToFold(Ccs.l, Ccs.s, 2, 1, Us, us, Ws, ws, zLs, zCs)
  <2>1. Us \in List(Lcccs(Ccs.l, Ccs.s), 2) /\ Ws \in List(HnWitness(Ccs.l), 2)
    BY <1>1, <1>2 DEF List
  <2>2. us \in List(Cccs(Ccs.l), 1) /\ ws \in List(HnWitness(Ccs.l), 1)
    BY <1>1 DEF List
  <2>3. /\ zLs = [i \in 1 .. 2 |-> LcccsZ(Us[i], Ws[i])]
        /\ zCs = [i \in 1 .. 1 |-> CccsZ(us[i], ws[i])]
    OBVIOUS
  <2> QED BY <2>1, <2>2, <2>3, CcsAssumption DEF PairsToFold
<1>4. Ws \in List(HnWitness(Ccs.l), 2) /\ ws \in List(HnWitness(Ccs.l), 1)
  BY <1>3 DEF PairsToFold
<1> HIDE DEF Us, us, Ws, ws, zLs, zCs
<1> DEFINE g == ComputeG(Ccs, Us, zLs, zCs, gamma, beta)
           f == Begin(Us, Ws, us, ws, zLs, zCs, gamma, beta, g)
<1>5. fold' = f
  BY DEF Start, BeginWith, Us, us, Ws, ws, zLs, zCs
<1> HIDE DEF g
<1>6. /\ f.Us = Us /\ f.us = us /\ f.Ws = Ws \o ws /\ f.zLs = zLs /\ f.zCs = zCs
      /\ f.proofs = <<>> /\ f.challenge = <<>> /\ f.ps.challenges = <<>>
      /\ f.gamma = gamma /\ f.beta = beta /\ f.g = g /\ f.ps.poly = g
  BY DEF Begin, ProverInit
<1> HIDE DEF f
<1>7. FoldOk(f)
  <2>1. IsSequence(f.proofs)
    BY <1>6 DEF IsSequence
  <2>2. ChallengesOk(f)
    BY <1>6 DEF ChallengesOk
  <2>3. PairsOk(f)
    BY <1>3, <1>4, <1>6 DEF PairsOk
  <2>4. StartedOk(f)
    BY <1>6, ChallengesAssumption DEF StartedOk, List, g
  <2>5. RoundsOk(f)
    <3>1. Len(f.proofs) = 0 /\ ProveRound(f.ps, f.challenge).poly = g
      BY <1>6 DEF ProveRound
    <3> QED BY <1>6, <3>1, RoundsNone, CcsAssumption DEF RoundsOk
  <2> QED BY <2>1, <2>2, <2>3, <2>4, <2>5 DEF FoldOk
<1>8. RunningOk'
  BY DEF MultifoldInvariant, RunningOk, Start
<1> QED
  BY <1>5, <1>7, <1>8 DEF MultifoldInvariant

LEMMA RoundKeeps ==
  ASSUME MultifoldInvariant, NEW r \in Fp, Round(r)
  PROVE  MultifoldInvariant'
<1> DEFINE f == fold  ps == ProveRound(f.ps, f.challenge)  msg == RoundMessage(ps.poly)
           h == Received(f, ps, msg, r)
<1>1. FoldOk(f)
  BY DEF Round, MultifoldInvariant
<1>2. fold' = h
  BY DEF Round, Answer, AnswerWith
<1> HIDE DEF msg, ps
<1>3. /\ h.Us = f.Us /\ h.us = f.us /\ h.Ws = f.Ws /\ h.zLs = f.zLs /\ h.zCs = f.zCs
      /\ h.proofs = Append(f.proofs, msg) /\ h.challenge = <<r>> /\ h.ps = ps
      /\ h.gamma = f.gamma /\ h.beta = f.beta /\ h.g = f.g
  BY DEF Received
<1> HIDE DEF h
<1>4. /\ IsSequence(h.proofs) /\ Len(h.proofs) = Len(f.proofs) + 1
      /\ h.proofs[Len(f.proofs) + 1] = msg
      /\ \A i \in 1 .. Len(f.proofs) : h.proofs[i] = f.proofs[i]
  BY <1>1, <1>3, AppendIsSequence DEF FoldOk
<1>5. /\ ps.challenges = PointOf(f) /\ PointOf(f) \in Seq(Fp)
      /\ Len(PointOf(f)) = Len(f.proofs) /\ Len(f.proofs) \in Nat
  BY <1>1, PointIs DEF ps
<1>6. FoldOk(h)
  <2>1. ChallengesOk(h)
    BY <1>3, <1>4, <1>5 DEF ChallengesOk
  <2>2. PairsOk(h)
    BY <1>1, <1>3 DEF FoldOk, PairsOk
  <2>3. StartedOk(h)
    BY <1>1, <1>3 DEF FoldOk, StartedOk
  <2>4. RoundsOk(h)
    <3> DEFINE k == Len(f.proofs)  p == PointOf(f)  q == PointOf(h)
    <3>1. Rounds(f.g, p, f.proofs, k, ps.poly)
      BY <1>1 DEF FoldOk, RoundsOk, ps
    <3>2. q = p \o <<r>>
      BY <1>3, <1>5 DEF PointOf
    <3>3. q[k + 1] = r /\ \A i \in 1 .. k : q[i] = p[i]
      <4> HIDE DEF p, q, k
      <4>1. p \in Seq(Fp) /\ Len(p) = k /\ k \in Nat
        BY <1>5 DEF p, k
      <4> QED BY <3>2, <4>1
    <3>4. ProveRound(h.ps, h.challenge).poly = VpFix(ps.poly, r)
      <4>1. h.challenge # <<>> /\ h.challenge[1] = r
        BY <1>3
      <4> QED BY <1>3, <4>1 DEF ProveRound
    <3>5. h.proofs[k + 1] = RoundMessage(ps.poly) /\ \A i \in 1 .. k : h.proofs[i] = f.proofs[i]
      BY <1>4 DEF msg
    <3> HIDE DEF k, p, q
    <3>6. Rounds(f.g, q, h.proofs, k + 1, VpFix(ps.poly, r))
      <4>1. k \in Nat
        BY <1>5 DEF k
      <4>2. \A i \in 1 .. k : q[i] = p[i] /\ h.proofs[i] = f.proofs[i]
        BY <3>3, <3>5
      <4> QED BY <3>1, <3>3, <3>5, <4>1, <4>2, RoundsNext
    <3>7. Len(h.proofs) = k + 1 /\ k + 1 <= Ccs.s
      <4>1. k < Ccs.s /\ k \in Nat
        BY <1>5 DEF Round, k
      <4> QED BY <1>4, <4>1, CcsAssumption DEF k
    <3> QED BY <1>3, <3>4, <3>6, <3>7 DEF RoundsOk, q
  <2> QED BY <1>4, <2>1, <2>2, <2>3, <2>4 DEF FoldOk
<1>7. RunningOk'
  BY DEF MultifoldInvariant, RunningOk, Round
<1> QED
  BY <1>2, <1>6, <1>7 DEF MultifoldInvariant

LEMMA FinishKeeps ==
  ASSUME MultifoldInvariant, NEW rho \in Fp, Finish(rho)
  PROVE  MultifoldInvariant'
<1> DEFINE f == fold
           point == f.ps.challenges \o f.challenge
           st == SigmasThetas(Ccs, f.zLs, f.zCs, point)
<1>1. FoldOk(f) /\ Len(f.proofs) = Ccs.s
  BY DEF Finish, MultifoldInvariant
<1>2. point \in List(Fp, Ccs.s)
  <2>1. point \in Seq(Fp) /\ Len(point) = Ccs.s
    BY <1>1, PointIs DEF PointOf
  <2> QED BY <2>1, LenProperties DEF List
<1>3. InProgress' = FALSE
  BY DEF Finish, InProgress
<1>4. CASE UNCHANGED <<W, U>>
  BY <1>3, <1>4 DEF MultifoldInvariant, RunningOk
<1>5. CASE U' = Fold(f.Us, f.us, st, point, rho) /\ W' = FoldHnWitness(f.Ws, rho)
  <2>1. PICK Ws \in List(HnWitness(Ccs.l), 2), ws \in List(HnWitness(Ccs.l), 1) :
          /\ f.Ws = Ws \o ws
          /\ PairsToFold(Ccs.l, Ccs.s, 2, 1, f.Us, f.us, Ws, ws, f.zLs, f.zCs)
    BY <1>1 DEF FoldOk, PairsOk
  <2> HIDE DEF point
  <2>2. /\ Fold(f.Us, f.us, st, point, rho) \in Lcccs(Ccs.l, Ccs.s)
        /\ FoldHnWitness(Ws \o ws, rho) \in HnWitness(Ccs.l)
        /\ CheckLcccs(Ccs, FoldHnWitness(Ws \o ws, rho), Fold(f.Us, f.us, st, point, rho))
    BY <1>2, <2>1, CcsIsOk, MultifoldSatisfies
  <2> QED BY <1>3, <1>5, <2>1, <2>2 DEF MultifoldInvariant, RunningOk
<1>6. \/ UNCHANGED <<W, U>>
      \/ U' = Fold(f.Us, f.us, st, point, rho) /\ W' = FoldHnWitness(f.Ws, rho)
  BY DEF Finish, Answered, Proof
<1> QED
  BY <1>4, <1>5, <1>6

LEMMA InitInvariant == Init => MultifoldInvariant
BY InitRunning DEF Init, MultifoldInvariant, InProgress

LEMMA NextKeepsInvariant == MultifoldInvariant /\ [Next]_vars => MultifoldInvariant'
<1> SUFFICES ASSUME MultifoldInvariant, [Next]_vars PROVE MultifoldInvariant'
  OBVIOUS
<1>1. ASSUME NEW o \in Others, NEW n \in Incoming, NEW gamma \in Gammas, NEW beta \in Betas,
             Start(o, n, gamma, beta)
      PROVE  MultifoldInvariant'
  BY <1>1, StartKeeps
<1>2. ASSUME NEW r \in Points, Round(r) PROVE MultifoldInvariant'
  BY <1>2, RoundKeeps, ChallengesAssumption
<1>3. ASSUME NEW rho \in Rhos, Finish(rho) PROVE MultifoldInvariant'
  BY <1>3, FinishKeeps, ChallengesAssumption
<1>4. CASE UNCHANGED vars
  BY <1>4 DEF vars, MultifoldInvariant, RunningOk, InProgress
<1> QED
  BY <1>1, <1>2, <1>3, <1>4 DEF Next

THEOREM MultifoldInvariantHolds == Spec => []MultifoldInvariant
BY InitInvariant, NextKeepsInvariant, PTL DEF Spec

\* The running pair satisfies the linearized relation after every fold, whether or not
\* the pairs folded into it did and whatever the challenges.
THEOREM MultifoldingSatisfied == Spec => [](CheckLcccs(Ccs, W, U) /\ Satisfied)
<1>1. MultifoldInvariant => CheckLcccs(Ccs, W, U) /\ Satisfied
  BY DEF MultifoldInvariant, RunningOk, Satisfied
<1> QED
  BY <1>1, MultifoldInvariantHolds, PTL
----------------------------------------------------------------------------
\* What a fold in progress is of, as compute_g wants it.
LEMMA FoldWeighs ==
  ASSUME NEW f, FoldOk(f)
  PROVE  /\ ToWeigh(Ccs, f.Us, f.zLs, f.zCs, f.gamma, f.beta, 2)
         /\ DOMAIN f.Us = 1 .. 2 /\ Len(f.us) = 1
<1> DEFINE m == 2  o == 1
<1>1. PICK Ws \in List(HnWitness(Ccs.l), 2), ws \in List(HnWitness(Ccs.l), 1) :
        PairsToFold(Ccs.l, Ccs.s, 2, 1, f.Us, f.us, Ws, ws, f.zLs, f.zCs)
  BY DEF FoldOk, PairsOk
<1>2. m \in Nat /\ o \in Nat /\ m \in {1, 2} /\ 1 \in 1 .. o
  OBVIOUS
<1>3. PairsToFold(Ccs.l, Ccs.s, m, o, f.Us, f.us, Ws, ws, f.zLs, f.zCs)
  BY <1>1
<1>4. DOMAIN f.Us = 1 .. 2 /\ Len(f.us) = 1
  <2>1. f.Us \in List(Lcccs(Ccs.l, Ccs.s), 2) /\ f.us \in List(Cccs(Ccs.l), 1)
    BY <1>1 DEF PairsToFold
  <2>2. f.us \in List(Cccs(Ccs.l), o)
    BY <2>1
  <2> HIDE DEF o
  <2>3. Len(f.us) = o
    BY <1>2, <2>2, LenProperties DEF List
  <2> QED BY <2>1, <2>3 DEF List, o
<1> HIDE DEF m, o
<1>5. ZParts(Ccs.l, m, o, f.Us, f.us, Ws, ws, f.zLs, f.zCs)
  BY <1>3, PairsToFoldZ
<1>6. f.zLs \in List(Vec, m) /\ f.zCs \in List(Vec, 1) /\ f.zCs[1][0] = 1
  BY <1>2, <1>5 DEF ZParts, o
<1>7. f.Us \in List(Lcccs(Ccs.l, Ccs.s), m)
  BY <1>3 DEF PairsToFold
<1>8. Len(f.Us) = m
  BY <1>2, <1>7, LenProperties DEF List
<1>9. \A i \in 1 .. m : f.Us[i].r_x \in List(Fp, Ccs.s) /\ f.Us[i].v \in List(Fp, 3)
  <2>1. \A i \in 1 .. m : f.Us[i] \in Lcccs(Ccs.l, Ccs.s)
    BY <1>7 DEF List
  <2> QED BY <2>1 DEF Lcccs, List
<1>10. f.gamma \in Fp /\ f.beta \in List(Fp, Ccs.s)
  BY DEF FoldOk, StartedOk
<1>11. ToWeigh(Ccs, f.Us, f.zLs, f.zCs, f.gamma, f.beta, m)
  BY <1>2, <1>6, <1>8, <1>9, <1>10, CcsIsOk DEF ToWeigh
<1> QED
  BY <1>4, <1>11 DEF m

LEMMA FinishAnswers ==
  ASSUME MultifoldInvariant, NEW rho, Finish(rho)
  PROVE  AcceptedExactly'
<1> DEFINE f == fold
           point == f.ps.challenges \o f.challenge
           proof == Proof(f, point)
           poly == ProveRound(f.ps, f.challenge).poly
<1>1. FoldOk(f) /\ Len(f.proofs) = Ccs.s
  BY DEF Finish, MultifoldInvariant
<1>2. point \in List(Fp, Ccs.s)
  <2>1. point \in Seq(Fp) /\ Len(point) = Ccs.s
    BY <1>1, PointIs DEF PointOf
  <2> QED BY <2>1, LenProperties DEF List
<1>3. verdict' = [says |-> Verdict(f.Us, proof, f.gamma, f.beta, point), f |-> f,
                  proof |-> proof, point |-> point]
  BY DEF Finish, Answered
<1>4. Rounds(f.g, point, f.proofs, Ccs.s, poly) /\ f.g = ComputeG(Ccs, f.Us, f.zLs, f.zCs, f.gamma, f.beta)
  BY <1>1 DEF FoldOk, RoundsOk, StartedOk, PointOf
<1>5. proof.proofs = f.proofs /\ proof.st = SigmasThetas(Ccs, f.zLs, f.zCs, point)
  BY DEF Proof
<1> HIDE DEF point, proof, poly, f
<1>6. Verdict(f.Us, proof, f.gamma, f.beta, point)
        = Answers(f.Us, SigmasThetas(Ccs, f.zLs, f.zCs, point), f.proofs, f.gamma, f.beta, point)
  BY <1>5 DEF Verdict, Answers
<1>7. (Answers(f.Us, SigmasThetas(Ccs, f.zLs, f.zCs, point), f.proofs, f.gamma, f.beta, point) = "Ok")
        <=> (Missed(Ccs, f.Us, f.us, f.zLs, f.zCs, f.gamma, f.beta) = 0)
  BY <1>1, <1>2, <1>4, FoldWeighs, SumCheckAccepts, ZenonT(60)
<1>8. WeighedError(f) = Missed(Ccs, f.Us, f.us, f.zLs, f.zCs, f.gamma, f.beta)
  BY DEF WeighedError, Missed, RunningMiss, IncomingMiss, MzFor, VFor, ErrorTable
<1>9. verdict'.says = Verdict(f.Us, proof, f.gamma, f.beta, point) /\ verdict'.f = f
  BY <1>3
<1>10. verdict'.says # "None" => ((verdict'.says = "Ok") = (WeighedError(verdict'.f) = 0))
  BY <1>6, <1>7, <1>8, <1>9
<1> QED
  BY <1>10, Zenon DEF AcceptedExactly

LEMMA InitAnswers == Init => AcceptedExactly
BY DEF Init, AcceptedExactly

LEMMA NextAnswers == MultifoldInvariant /\ AcceptedExactly /\ [Next]_vars => AcceptedExactly'
<1> SUFFICES ASSUME MultifoldInvariant, AcceptedExactly, [Next]_vars PROVE AcceptedExactly'
  OBVIOUS
<1>1. CASE UNCHANGED verdict
  BY <1>1 DEF AcceptedExactly
<1>2. CASE \E rho \in Rhos : Finish(rho)
  BY <1>2, FinishAnswers
<1>3. UNCHANGED verdict \/ \E rho \in Rhos : Finish(rho)
  BY DEF Next, Start, Round, vars
<1> QED
  BY <1>1, <1>2, <1>3

\* A fold is accepted exactly if the challenges weigh the errors of its pairs to
\* nothing: NIMFS::verify agrees with compute_g, the prover's rounds and compute_c,
\* for every pair, right or wrong, and all challenges.
THEOREM VerifierIsExact == Spec => []AcceptedExactly
BY InitAnswers, NextAnswers, MultifoldInvariantHolds, PTL DEF Spec

\* In a fold whose invariant holds, the last message at the last challenge is the sum
\* of the polynomial over what has no challenge yet.
CornerOf(free, b) == [j \in 1 .. free |-> ((b - 1) \div 2^(j - 1)) % 2]

LEMMA BitInFp ==
  ASSUME NEW k \in 0 .. 2, NEW b \in Nat, b > 0, NEW j \in 1 .. k
  PROVE  Bit(b, j) \in Fp
<1>1. j = 1 \/ j = 2
  OBVIOUS
<1>2. 2^(1 - 1) = 1 /\ 2^(2 - 1) = 2
  <2>1. 1 - 1 = 0 /\ 2 - 1 = 1
    OBVIOUS
  <2> QED BY <2>1, PowersOfTwo
<1>3. ((b - 1) \div 2^(j - 1)) \in Int
  <2>1. CASE j = 1
    BY <1>2, <2>1
  <2>2. CASE j = 2
    BY <1>2, <2>2
  <2> QED BY <1>1, <2>1, <2>2
<1>4. Bit(b, j) \in 0 .. 1
  <2> DEFINE v == (b - 1) \div 2^(j - 1)
  <2>1. v \in Int
    BY <1>3
  <2> HIDE DEF v
  <2>2. v % 2 \in 0 .. 1
    BY <2>1
  <2> QED BY <2>2 DEF Bit, v
<1> QED
  BY <1>4, ZeroOneInFp

LEMMA CornersContinue ==
  ASSUME NEW s \in 1 .. 3, NEW n \in 1 .. s, NEW point \in Seq(Fp), Len(point) = n
  PROVE  Continues([b \in 1 .. Corners(s - n) |-> point \o CornerOf(s - n, b)], s, n, point)
<1> DEFINE k == s - n  M == Corners(k)
<1>0. k \in 0 .. 2
  OBVIOUS
<1>1. k \in Nat /\ n \in Nat /\ n + k = s
  OBVIOUS
<1> HIDE DEF k
<1>3. M \in Nat
  <2>1. k \in 0 .. 3
    BY <1>0
  <2> QED BY <2>1, CornersIs
<1> HIDE DEF M
<1>2. ASSUME NEW b \in 1 .. M
      PROVE  /\ CornerOf(k, b) \in Seq(Fp) /\ Len(CornerOf(k, b)) = k
             /\ \A j \in 1 .. k : CornerOf(k, b)[j] = Bit(b, j)
  <2>1. \A j \in 1 .. k : CornerOf(k, b)[j] = Bit(b, j)
    BY DEF CornerOf, Bit
  <2>2. \A j \in 1 .. k : Bit(b, j) \in Fp
    BY <1>0, <1>3, BitInFp
  <2>3. CornerOf(k, b) \in [1 .. k -> Fp]
    BY <2>1, <2>2 DEF CornerOf
  <2> QED BY <1>1, <2>1, <2>3, LenProperties
<1> DEFINE Q == [b \in 1 .. M |-> point \o CornerOf(k, b)]
<1>4. ASSUME NEW b \in 1 .. M
      PROVE  /\ Q[b] \in List(Fp, s) /\ \A i \in 1 .. n : Q[b][i] = point[i]
             /\ \A j \in 1 .. k : Q[b][n + j] = Bit(b, j)
  <2> DEFINE c == CornerOf(k, b)  q == point \o c
  <2>1. c \in Seq(Fp) /\ Len(c) = k /\ \A j \in 1 .. k : c[j] = Bit(b, j)
    BY <1>2
  <2>2. Q[b] = q
    OBVIOUS
  <2> HIDE DEF c, Q
  <2>3. q \in Seq(Fp) /\ Len(q) = Len(point) + Len(c)
        /\ \A i \in 1 .. Len(point) + Len(c) : q[i] = IF i <= Len(point) THEN point[i] ELSE c[i - Len(point)]
    BY <2>1, ConcatProperties
  <2>4. q \in Seq(Fp) /\ Len(q) = s
    BY <1>1, <2>1, <2>3
  <2>5. q \in List(Fp, s)
    BY <2>4, LenProperties DEF List
  <2>6. \A i \in 1 .. n : q[i] = point[i]
    BY <1>1, <2>1, <2>3
  <2>7. ASSUME NEW j \in 1 .. k PROVE q[n + j] = Bit(b, j)
    <3>1. n + j \in 1 .. n + k /\ ~(n + j <= n) /\ (n + j) - n = j
      BY <1>1
    <3> QED BY <2>1, <2>3, <3>1
  <2> HIDE DEF q
  <2> QED BY <2>2, <2>5, <2>6, <2>7
<1> QED
  BY <1>4 DEF Continues, M, k

LEMMA InvariantKeepsSum == MultifoldInvariant => SumKept
<1> SUFFICES ASSUME MultifoldInvariant, InProgress, fold.proofs # <<>>
             PROVE  SumSeq(Collect(2^(Ccs.s - Len(fold.proofs)), LAMBDA b :
                      VpEvaluate(fold.g, fold.ps.challenges \o fold.challenge
                                           \o CornerOf(Ccs.s - Len(fold.proofs), b))))
                      = PolyEval(fold.proofs[Len(fold.proofs)], fold.challenge[1])
  BY DEF SumKept, CornerOf
<1> DEFINE f == fold  s == Ccs.s  n == Len(f.proofs)  K == 3 * 2 + 2  p == PointOf(f)  g == f.g
           Q == [b \in 1 .. Corners(s - n) |-> p \o CornerOf(s - n, b)]
           poly == ProveRound(f.ps, f.challenge).poly
<1>1. FoldOk(f)
  BY DEF MultifoldInvariant
<1>2. n \in Nat /\ n # 0
  <2>1. n \in Nat /\ f.proofs = [i \in 1 .. n |-> f.proofs[i]]
    BY <1>1 DEF FoldOk, IsSequence
  <2> HIDE DEF n
  <2>2. n = 0 => f.proofs = <<>>
    BY <2>1
  <2> QED BY <2>1, <2>2
<1>3. s \in 1 .. 3 /\ n \in 1 .. s
  <2>1. n <= s
    BY <1>1 DEF FoldOk, RoundsOk
  <2> QED BY <1>2, <2>1, CcsAssumption
<1>4. p \in Seq(Fp) /\ Len(p) = n /\ p[n] = f.challenge[1]
  BY <1>1, <1>2, PointIs
<1>5. Rounds(g, p, f.proofs, n, poly)
  BY <1>1 DEF FoldOk, RoundsOk
<1>6. K \in Nat /\ IsVirtual(g, K, Corners(s))
  <2> DEFINE m == 2
  <2>1. ToWeigh(Ccs, f.Us, f.zLs, f.zCs, f.gamma, f.beta, m) /\ K = 3 * m + 2 /\ K \in Nat
    BY <1>1, FoldWeighs
  <2>2. g = ComputeG(Ccs, f.Us, f.zLs, f.zCs, f.gamma, f.beta)
    BY <1>1 DEF FoldOk, StartedOk
  <2> HIDE DEF m, K, g
  <2> QED BY <2>1, <2>2, ComputeGIs
<1>7. p \in List(Fp, n)
  BY <1>4, LenProperties DEF List
<1>8. [b \in 1 .. Corners(s - n) |-> VpEvaluate(g, Q[b])]
        = [b \in 1 .. Corners(s - n) |-> VpEvaluate(g, p \o CornerOf(s - n, b))]
  OBVIOUS
<1>9. Continues(Q, s, n, p)
  <2> HIDE DEF n, s, p
  <2> QED BY <1>3, <1>4, CornersContinue
<1> HIDE DEF Q, K, poly
<1>10. SumSeq(Collect(Corners(s - n), LAMBDA b : VpEvaluate(g, Q[b]))) = PolyEval(f.proofs[n], p[n])
  <2> HIDE DEF n, s, p, g
  <2> QED BY <1>3, <1>5, <1>6, <1>7, <1>9, MessagesKeepSum, SMTT(30) DEF Collect
<1> DEFINE x == SumSeq(Collect(Corners(s - n), LAMBDA b : VpEvaluate(g, p \o CornerOf(s - n, b))))
<1>11. x = PolyEval(f.proofs[n], f.challenge[1])
  <2>1. x = SumSeq(Collect(Corners(s - n), LAMBDA b : VpEvaluate(g, Q[b])))
    BY <1>8 DEF Collect
  <2> QED BY <1>4, <1>10, <2>1
<1> QED
  BY <1>11 DEF Corners, PointOf

\* After each round of IOPSumCheck::prove, the fold's polynomial at the challenges in
\* the order they were drawn, summed over its other variables, is the last message at
\* the last challenge.
THEOREM SumCheckKeepsSum == Spec => []SumKept
BY InvariantKeepsSum, MultifoldInvariantHolds, PTL
=============================================================================

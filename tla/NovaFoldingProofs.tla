--------------------------- MODULE NovaFoldingProofs ---------------------------
(***************************************************************************)
(* The running instance of Nova folding, for every field, circuit, set of  *)
(* folded instances, challenge and number of folds: it stays well typed    *)
(* and satisfied, and its witness opens its commitments; and of two pairs  *)
(* that are wrong at most two challenges make one that is right.           *)
(*                                                                         *)
(* Then the running pairs of VariantFolding, for every oracle as well.  A  *)
(* fold of Mova, and one of Ova with the error that compute_E finds, is    *)
(* Nova's fold of the same witnesses: the theorems of NIFSProofs serve all *)
(* three.                                                                  *)
(***************************************************************************)
EXTENDS VariantFolding, NIFSProofs, FiniteSetTheorems

LEMMA CsCircuit == Circuit(Cs)
BY CsAssumption DEF Circuit, MatricesOk

\* The inductive invariant: the running pair is sound.
IInv == Sound(Cs, Gens, W, U) /\ folds \in 0 .. MaxFolds

\* One fold of a sound pair keeps the running pair sound.
LEMMA FoldKeepsSound ==
  ASSUME IInv, NEW w, NEW u, Sound(Cs, Gens, w, u), NEW r \in Fp, Fold(w, u, r)
  PROVE  IInv'
<1> DEFINE T == ComputeT(Cs, U, W, u, w)
<1>1. W' = FoldWitness(r, W, w, T) /\ U' = FoldCommittedInstances(r, U, u, Commit(Gens, T, 0))
      /\ folds < MaxFolds /\ folds' = folds + 1
  BY DEF Fold
<1>2. Sound(Cs, Gens, W', U')
  BY <1>1, CsCircuit, GensAssumption, FoldSound DEF IInv
<1>3. folds' \in 0 .. MaxFolds
  BY <1>1, MaxFoldsAssumption DEF IInv
<1> QED
  BY <1>2, <1>3 DEF IInv

LEMMA InitSound == Init => IInv
BY CsCircuit, GensAssumption, DummySound, MaxFoldsAssumption DEF Init, IInv

LEMMA NextSound == IInv /\ [Next]_vars => IInv'
<1> SUFFICES ASSUME IInv, [Next]_vars PROVE IInv'
  OBVIOUS
<1> USE CsCircuit, GensAssumption
<1>1. ASSUME NEW rW \in Blinders, NEW rE \in Blinders, NEW r \in Fp, NEW z \in Incoming,
             FoldIncoming(z, rW, rE, r)
      PROVE  IInv'
  <2>1. z \in Vec /\ z[0] = 1 /\ EvalAtZ(Cs, z) = ZeroVec /\ rW \in Fp /\ rE \in Fp
    BY IncomingAssumption, BlindersAssumption DEF Satisfies
  <2> DEFINE w == NewWitness(WitnessOf(z, Cs.l), rW, rE)
  <2>2. Sound(Cs, Gens, w, CommitWitness(Gens, w, PublicOf(z, Cs.l)))
    BY <2>1, FreshSound
  <2> QED BY <1>1, <2>2, FoldKeepsSound DEF FoldIncoming
<1>2. ASSUME NEW rW \in Blinders, NEW rE \in Blinders, NEW r \in Fp, NEW z \in Sampled,
             FoldSampled(z, rW, rE, r)
      PROVE  IInv'
  <2>1. z \in Vec /\ rW \in Fp /\ rE \in Fp
    BY SampledAssumption, BlindersAssumption
  <2> QED BY <1>2, <2>1, SampledSound, FoldKeepsSound DEF FoldSampled
<1>3. CASE UNCHANGED vars
  BY <1>3 DEF vars, IInv
<1> QED
  BY <1>1, <1>2, <1>3 DEF Next

LEMMA SoundInvariant == Spec => []IInv
BY InitSound, NextSound, PTL DEF Spec

\* The running pair keeps its shape.
THEOREM TypeInvariant == Spec => []TypeOK
<1>1. IInv => TypeOK
  BY DEF IInv, Sound, TypeOK
<1> QED
  BY <1>1, SoundInvariant, PTL

\* Folding never leaves the relaxed relation: every state of every execution of
\* Spec satisfies the relation that IVC.V checks on W_i, U_i.
THEOREM SatisfiedInvariant == Spec => []Satisfied
<1>1. IInv => Satisfied
  BY DEF IInv, Sound, Satisfied
<1> QED
  BY <1>1, SoundInvariant, PTL

\* With or without blinding the running witness opens its commitment cmW.
THEOREM WitnessOpensInvariant == Spec => []WitnessOpens
<1>1. IInv => WitnessOpens
  BY DEF IInv, Sound, WitnessOpens
<1> QED
  BY <1>1, SoundInvariant, PTL

\* Without blinding it opens both commitments.
THEOREM OpeningsInvariant == ASSUME ~Hiding PROVE Spec => []OpeningsValid
<1>1. IInv => OpeningsValid
  BY DEF IInv, Sound, OpeningsValid, Opens
<1> QED
  BY <1>1, SoundInvariant, PTL

----------------------------------------------------------------------------
\* Quadratic equations.

\* P is prime: the modulus of a field has no divisors of zero.
PrimeModulus == \A a, b \in Fp : (a * b) % P = 0 => a = 0 \/ b = 0

\* A multiple of P.
Zero(a) == a \in Int /\ Cong(a, 0)

\* A product that is a multiple of P has a factor that is.
LEMMA NoZeroDivisors ==
  ASSUME PrimeModulus, NEW a \in Int, NEW b \in Int, Zero(a * b)
  PROVE  Zero(a) \/ Zero(b)
<1> DEFINE x == a % P  y == b % P
<1>1. x \in Fp /\ y \in Fp /\ Cong(x, a) /\ Cong(y, b)
  BY ModInFp, CongOfMod
<1> HIDE DEF x, y
<1>2. x \in Int /\ y \in Int /\ x * y \in Int /\ a * b \in Int /\ 0 \in Int
  BY <1>1, FpIsInt
<1>3. Cong(x * y, a * b)
  BY <1>1, <1>2, CongMul
<1>4. Cong(x * y, 0)
  BY <1>2, <1>3, CongTrans DEF Zero
<1>5. (x * y) % P = 0
  <2>1. (x * y) % P \in Fp /\ Cong((x * y) % P, x * y)
    BY <1>2, ModInFp, CongOfMod
  <2>2. (x * y) % P \in Int
    BY <2>1, FpIsInt
  <2>3. Cong((x * y) % P, 0)
    BY <1>2, <1>4, <2>1, <2>2, CongTrans
  <2> QED BY <2>1, <2>3, ZeroOneInFp, EqOfCong
<1>6. x = 0 \/ y = 0
  BY <1>1, <1>5 DEF PrimeModulus
<1>7. ASSUME NEW c \in Int, NEW z \in Int, Cong(z, c), z = 0 PROVE Zero(c)
  BY <1>7, CongSym DEF Zero
<1> QED
  BY <1>1, <1>2, <1>6, <1>7

\* r solves a quadratic equation.
Solves(a, b, c, r) == Zero(a + r * b + (r * r) * c)

LEMMA RootsDiffer ==
  ASSUME PrimeModulus, NEW a \in Int, NEW b \in Int, NEW c \in Int,
         NEW r \in Fp, NEW s \in Fp, r # s, Solves(a, b, c, r), Solves(a, b, c, s)
  PROVE  Zero(b + (r + s) * c)
<1>1. r \in Int /\ s \in Int
  BY FpIsInt
<1>2. PICK k \in Int : a + r * b + (r * r) * c = 0 + k * P
  BY DEF Solves, Zero, Cong
<1>3. PICK l \in Int : a + s * b + (s * s) * c = 0 + l * P
  BY DEF Solves, Zero, Cong
<1>4. (r - s) * (b + (r + s) * c) = (a + r * b + (r * r) * c) - (a + s * b + (s * s) * c)
  BY <1>1
<1>5. (r - s) * (b + (r + s) * c) = 0 + (k - l) * P /\ k - l \in Int
  BY <1>2, <1>3, <1>4, PAssumption
<1>6. r - s \in Int /\ b + (r + s) * c \in Int /\ (r - s) * (b + (r + s) * c) \in Int
  <2>1. (r + s) * c \in Int
    BY <1>1
  <2> QED BY <1>1, <2>1
<1>7. Zero((r - s) * (b + (r + s) * c))
  BY <1>5, <1>6 DEF Zero, Cong
<1>8. ~Zero(r - s)
  <2> SUFFICES ASSUME Zero(r - s) PROVE FALSE
    OBVIOUS
  <2>1. PICK m \in Int : r - s = 0 + m * P
    BY DEF Zero, Cong
  <2>2. r = s + m * P
    BY <1>1, <2>1, PAssumption
  <2>3. Cong(r, s)
    BY <2>2 DEF Cong
  <2> QED BY <2>3, EqOfCong
<1> QED
  BY <1>6, <1>7, <1>8, NoZeroDivisors

LEMMA ThreeRoots ==
  ASSUME PrimeModulus, NEW a \in Int, NEW b \in Int, NEW c \in Int,
         NEW r \in Fp, NEW s \in Fp, NEW t \in Fp, r # s, r # t, s # t,
         Solves(a, b, c, r), Solves(a, b, c, s), Solves(a, b, c, t)
  PROVE  Zero(a) /\ Zero(b) /\ Zero(c)
<1>1. Zero(b + (r + s) * c) /\ Zero(b + (r + t) * c)
  BY RootsDiffer
<1>2. r \in Int /\ s \in Int /\ t \in Int
  BY FpIsInt
<1>3. PICK k \in Int : b + (r + s) * c = 0 + k * P
  BY <1>1 DEF Zero, Cong
<1>4. PICK l \in Int : b + (r + t) * c = 0 + l * P
  BY <1>1 DEF Zero, Cong
<1>5. (s - t) * c = (b + (r + s) * c) - (b + (r + t) * c)
  BY <1>2
<1>6. (s - t) * c = 0 + (k - l) * P /\ k - l \in Int /\ (s - t) * c \in Int /\ s - t \in Int
  BY <1>2, <1>3, <1>4, <1>5, PAssumption
<1>7. Zero((s - t) * c)
  BY <1>6 DEF Zero, Cong
<1>8. ~Zero(s - t)
  <2> SUFFICES ASSUME Zero(s - t) PROVE FALSE
    OBVIOUS
  <2>1. PICK m \in Int : s - t = 0 + m * P
    BY DEF Zero, Cong
  <2>2. s = t + m * P
    BY <1>2, <2>1, PAssumption
  <2>3. Cong(s, t)
    BY <2>2 DEF Cong
  <2> QED BY <2>3, EqOfCong
<1>9. Zero(c)
  BY <1>6, <1>7, <1>8, NoZeroDivisors
<1>10. PICK m \in Int : c = 0 + m * P
  BY <1>9 DEF Zero, Cong
<1>11. Zero(b)
  <2> DEFINE q == k - (r + s) * m
  <2>1. q \in Int
    BY <1>2
  <2>2. b = k * P - (r + s) * (m * P)
    BY <1>2, <1>3, <1>10, PAssumption
  <2>3. b = 0 + q * P
    BY <1>2, <2>2, PAssumption
  <2> HIDE DEF q
  <2> QED BY <2>1, <2>3 DEF Zero, Cong
<1>12. PICK n \in Int : b = 0 + n * P
  BY <1>11 DEF Zero, Cong
<1>13. Zero(a)
  <2>1. PICK j \in Int : a + r * b + (r * r) * c = 0 + j * P
    BY DEF Solves, Zero, Cong
  <2> DEFINE q == j - r * n - (r * r) * m
  <2>2. q \in Int
    BY <1>2
  <2>3. a = j * P - r * (n * P) - (r * r) * (m * P)
    BY <1>2, <1>10, <1>12, <2>1, PAssumption
  <2>4. a = 0 + q * P
    BY <1>2, <2>3, PAssumption
  <2> HIDE DEF q
  <2> QED BY <2>2, <2>4 DEF Zero, Cong
<1> QED
  BY <1>9, <1>11, <1>13

AtMostTwo(S) == IsFiniteSet(S) /\ Cardinality(S) <= 2

\* Over a prime field a quadratic polynomial that is not zero has at most two roots.
LEMMA TwoRoots ==
  ASSUME PrimeModulus, NEW a \in Int, NEW b \in Int, NEW c \in Int,
         NEW S \in SUBSET Fp, \A r \in S : Solves(a, b, c, r),
         ~(Zero(a) /\ Zero(b) /\ Zero(c))
  PROVE  AtMostTwo(S)
<1>1. \E x \in Fp, y \in Fp : S \subseteq {x, y}
  <2>1. CASE S = {}
    BY <2>1, ZeroOneInFp
  <2>2. CASE S # {}
    <3>1. PICK x \in S : TRUE
      BY <2>2
    <3>2. CASE S = {x}
      BY <3>2
    <3>3. CASE S # {x}
      <4>1. PICK y \in S : y # x
        BY <3>1, <3>3
      <4>2. ASSUME NEW z \in S PROVE z \in {x, y}
        BY <4>1, ThreeRoots
      <4> QED BY <4>2
    <3> QED BY <3>2, <3>3
  <2> QED BY <2>1, <2>2
<1>2. PICK x \in Fp, y \in Fp : S \subseteq {x, y}
  BY <1>1
<1>3. IsFiniteSet({x, y}) /\ Cardinality({x, y}) \in Nat /\ Cardinality({x, y}) <= 2
  <2>1. IsFiniteSet({x}) /\ Cardinality({x}) = 1
    BY FS_Singleton
  <2>2. {x, y} = {x} \cup {y}
    OBVIOUS
  <2>3. /\ IsFiniteSet({x} \cup {y})
        /\ Cardinality({x} \cup {y}) = IF y \in {x} THEN Cardinality({x}) ELSE Cardinality({x}) + 1
    BY <2>1, FS_AddElement
  <2> QED BY <2>1, <2>2, <2>3
<1>4. IsFiniteSet(S) /\ Cardinality(S) <= Cardinality({x, y}) /\ Cardinality(S) \in Nat
  BY <1>2, <1>3, FS_Subset, FS_CardinalityType
<1> QED
  BY <1>3, <1>4 DEF AtMostTwo

----------------------------------------------------------------------------
\* What a challenge can hide.

\* Two pairs of one circuit, wrong ones too.
Pairs(cs, V, X, w, u) ==
  /\ Circuit(cs)
  /\ V \in Witness(cs.l) /\ X \in CommittedInstance(cs.l)
  /\ w \in Witness(cs.l) /\ u \in CommittedInstance(cs.l)

LEMMA Spread ==
  ASSUME NEW r \in Int, NEW a \in Int, NEW b \in Int
  PROVE  r * a - r * b = r * (a - b) /\ r * a \in Int /\ r * b \in Int /\ r * 0 = 0
OBVIOUS

\* What the error of a witness should be.
ErrorIs(cs, v, x) == EvalAtZ(cs, Assignment(x.u, x.x, v.W))

\* The relation of a fold is a quadratic equation in the challenge, in every slot.
LEMMA FoldedErrorIsQuadratic ==
  ASSUME NEW cs, NEW V, NEW X, NEW w, NEW u, Pairs(cs, V, X, w, u), NEW r \in Fp, NEW cmT,
         CheckRelation(cs, FoldWitness(r, V, w, ComputeT(cs, X, V, u, w)),
                           FoldCommittedInstances(r, X, u, cmT)),
         NEW k \in Slot,
         NEW d1, d1 = V.E[k] - ErrorIs(cs, V, X)[k], NEW d2, d2 = w.E[k] - ErrorIs(cs, w, u)[k]
  PROVE  d1 \in Int /\ d2 \in Int /\ Solves(d1, -(d1 + d2), d2, r)
<1> DEFINE z1 == Assignment(X.u, X.x, V.W)
           z2 == Assignment(u.u, u.x, w.W)
           v  == EvalAtZ(cs, VecAdd(z1, z2))
           V2 == [V EXCEPT !.E = EvalAtZ(cs, z1)]
           w2 == [w EXCEPT !.E = EvalAtZ(cs, z2)]
           T  == ComputeT(cs, X, V, u, w)
           T2 == ComputeT(cs, X, V2, u, w2)
           F  == FoldWitness(r, V, w, T)
           F2 == FoldWitness(r, V2, w2, T2)
           Xf == FoldCommittedInstances(r, X, u, cmT)
<1>1. /\ MatricesOk(cs) /\ cs.l \in 0 .. 7
      /\ V \in Witness(cs.l) /\ X \in CommittedInstance(cs.l)
      /\ w \in Witness(cs.l) /\ u \in CommittedInstance(cs.l)
  BY DEF Pairs, Circuit, MatricesOk
<1>2. z1 \in Vec /\ z2 \in Vec
  BY <1>1, WitnessParts, InstanceParts, AssignmentInVec
<1>3. EvalAtZ(cs, z1) \in ErrorVec /\ EvalAtZ(cs, z2) \in ErrorVec
  BY <1>2, EvalIsError DEF Pairs
<1>4. /\ V2 \in Witness(cs.l) /\ w2 \in Witness(cs.l) /\ V2.W = V.W /\ w2.W = w.W
      /\ V2.E = EvalAtZ(cs, z1) /\ w2.E = EvalAtZ(cs, z2)
  BY <1>1, <1>3 DEF Witness
<1>5. CheckRelation(cs, V2, X) /\ CheckRelation(cs, w2, u)
  <2>1. DOMAIN X.x = 1 .. cs.l /\ DOMAIN u.x = 1 .. cs.l
    BY <1>1, InstanceParts
  <2> HIDE DEF V2, w2
  <2> QED BY <1>4, <2>1 DEF CheckRelation
<1>6. CheckRelation(cs, F2, Xf)
  <2> HIDE DEF V2, w2
  <2> QED BY <1>1, <1>4, <1>5, FoldPreservesRelation
<1>7. F.W = F2.W
  BY <1>4 DEF FoldWitness
<1>8. F.E = F2.E
  <2>1. CheckRelation(cs, F, Xf)
    OBVIOUS
  <2> HIDE DEF F, F2, Xf
  <2> QED BY <1>6, <1>7, <2>1 DEF CheckRelation
<1>9. v = EvalAtZ(cs, VecAdd(Assignment(X.u, X.x, V2.W), Assignment(u.u, u.x, w2.W)))
  BY <1>4
<1>10. /\ v \in Vec /\ T \in Vec /\ T2 \in Vec
       /\ Cong(T[k], v[k] - V.E[k] - w.E[k]) /\ Cong(T2[k], v[k] - V2.E[k] - w2.E[k])
  <2>1. v \in Vec /\ T \in Vec /\ Cong(T[k], v[k] - V.E[k] - w.E[k])
    BY <1>1, CrossTermRow
  <2> HIDE DEF V2, w2
  <2>2. T2 \in Vec /\ Cong(T2[k], v[k] - V2.E[k] - w2.E[k])
    BY <1>1, <1>4, <1>9, CrossTermRow
  <2> QED BY <2>1, <2>2
<1>11. /\ F.E[k] = Rlc(Rlc(V.E[k], r, T[k]), (r * r) % P, w.E[k])
       /\ F2.E[k] = Rlc(Rlc(V2.E[k], r, T2[k]), (r * r) % P, w2.E[k])
  <2> HIDE DEF V2, w2, T, T2
  <2> QED BY DEF FoldWitness, VecRlc
<1> DEFINE e1 == V.E[k]  e2 == w.E[k]  f1 == V2.E[k]  f2 == w2.E[k]  vk == v[k]  t == T[k]  t2 == T2[k]
           q == Rlc(Rlc(e1, r, t), (r * r) % P, e2)
<1>12. /\ e1 \in Fp /\ e2 \in Fp /\ f1 \in Fp /\ f2 \in Fp /\ vk \in Fp /\ t \in Fp /\ t2 \in Fp
  <2> HIDE DEF V2, w2, v, T, T2
  <2> QED BY <1>1, <1>4, <1>10, WitnessParts DEF Vec
<1>13. q = Rlc(Rlc(f1, r, t2), (r * r) % P, f2) /\ d1 = e1 - f1 /\ d2 = e2 - f2
       /\ Cong(t, vk - e1 - e2) /\ Cong(t2, vk - f1 - f2)
  <2>1. Rlc(Rlc(V.E[k], r, T[k]), (r * r) % P, w.E[k])
          = Rlc(Rlc(V2.E[k], r, T2[k]), (r * r) % P, w2.E[k])
    <3> HIDE DEF F, F2, V2, w2, T, T2
    <3> QED BY <1>8, <1>11
  <2>2. d1 = e1 - f1 /\ d2 = e2 - f2
    BY <1>4 DEF ErrorIs
  <2> HIDE DEF V2, w2, T, T2, v
  <2> QED BY <1>10, <2>1, <2>2
<1> HIDE DEF e1, e2, f1, f2, vk, t, t2
<1>14. /\ r \in Int /\ e1 \in Int /\ e2 \in Int /\ f1 \in Int /\ f2 \in Int /\ vk \in Int
  BY <1>12, FpIsInt
<1> DEFINE x == e1 + r * (vk - e1 - e2) + (r * r) * e2
           y == f1 + r * (vk - f1 - f2) + (r * r) * f2
<1>15. Cong(q, x) /\ Cong(q, y)
  <2> DEFINE m == vk - e1 - e2  n == vk - f1 - f2
  <2>1. m \in Int /\ n \in Int /\ Cong(t, m) /\ Cong(t2, n)
    BY <1>13, <1>14
  <2> HIDE DEF m, n
  <2>2. Cong(Rlc(Rlc(e1, r, t), (r * r) % P, e2), e1 + r * m + (r * r) * e2)
    BY <1>12, <2>1, FoldedErrorRow
  <2>3. Cong(Rlc(Rlc(f1, r, t2), (r * r) % P, f2), f1 + r * n + (r * r) * f2)
    BY <1>12, <2>1, FoldedErrorRow
  <2> QED BY <1>13, <2>2, <2>3 DEF m, n
<1>16. x \in Int /\ y \in Int /\ q \in Int
  <2>1. r * (vk - e1 - e2) \in Int /\ (r * r) * e2 \in Int
        /\ r * (vk - f1 - f2) \in Int /\ (r * r) * f2 \in Int
    BY <1>14
  <2>2. q \in Fp
    BY <1>12, SquareInFp, RlcCong
  <2>3. q \in Int
    BY <2>2, FpIsInt
  <2> HIDE DEF q
  <2> QED BY <1>14, <2>1, <2>3
<1> HIDE DEF q
<1>17. PICK i \in Int : q = x + i * P
  BY <1>15 DEF Cong
<1>18. PICK j \in Int : q = y + j * P
  BY <1>15 DEF Cong
<1>19. d1 + r * (-(d1 + d2)) + (r * r) * d2 = x - y
  <2>1. r * (vk - e1 - e2) - r * (vk - f1 - f2) = r * (-(d1 + d2))
    <3>1. (vk - e1 - e2) - (vk - f1 - f2) = -(d1 + d2)
      BY <1>13, <1>14
    <3> DEFINE m == vk - e1 - e2  n == vk - f1 - f2
    <3>2. m \in Int /\ n \in Int /\ m - n = -(d1 + d2)
      BY <1>14, <3>1
    <3> HIDE DEF m, n
    <3>3. r * m - r * n = r * (m - n)
      BY <1>14, <3>2
    <3> QED BY <3>2, <3>3 DEF m, n
  <2>2. (r * r) * e2 - (r * r) * f2 = (r * r) * d2
    <3> DEFINE rr == r * r
    <3>1. rr \in Int /\ d2 = e2 - f2 /\ e2 \in Int /\ f2 \in Int
      <4>1. rr \in Int
        BY <1>14, Spread
      <4> QED BY <1>13, <1>14, <4>1
    <3> HIDE DEF rr
    <3>2. rr * e2 - rr * f2 = rr * (e2 - f2)
      BY <3>1, Spread
    <3> QED BY <3>1, <3>2 DEF rr
  <2> DEFINE a == r * (vk - e1 - e2)  b == r * (vk - f1 - f2)  c == (r * r) * e2  d == (r * r) * f2
             g == r * (-(d1 + d2))  h == (r * r) * d2
  <2>3. a \in Int /\ b \in Int /\ c \in Int /\ d \in Int /\ a - b = g /\ c - d = h /\ d1 = e1 - f1
        /\ x = e1 + a + c /\ y = f1 + b + d
    BY <1>13, <1>14, <2>1, <2>2
  <2> HIDE DEF a, b, c, d, x, y
  <2>4. d1 + (a - b) + (c - d) = x - y
    BY <1>14, <2>3
  <2>5. d1 + g + h = x - y
    BY <2>3, <2>4
  <2> QED BY <2>5
<1>20. /\ d1 \in Int /\ d2 \in Int /\ -(d1 + d2) \in Int /\ d1 + r * (-(d1 + d2)) + (r * r) * d2 \in Int
  <2>1. d1 \in Int /\ d2 \in Int /\ -(d1 + d2) \in Int
    BY <1>13, <1>14
  <2> HIDE DEF x, y
  <2> QED BY <1>16, <1>19, <2>1
<1> HIDE DEF x, y
<1>21. d1 + r * (-(d1 + d2)) + (r * r) * d2 = 0 + (j - i) * P /\ j - i \in Int
  BY <1>16, <1>17, <1>18, <1>19, PAssumption
<1> QED
  BY <1>20, <1>21 DEF Solves, Zero, Cong

\* So are the openings of the fold.
LEMMA FoldedOpeningsAreQuadratic ==
  ASSUME NEW cs, NEW g \in Vec, NEW V, NEW X, NEW w, NEW u, Pairs(cs, V, X, w, u), NEW r \in Fp,
         Opens(g, FoldWitness(r, V, w, ComputeT(cs, X, V, u, w)),
                  FoldCommittedInstances(r, X, u, Commit(g, ComputeT(cs, X, V, u, w), 0))),
         NEW a1, a1 = X.cmW - Commit(g, V.W, V.rW), NEW a2, a2 = u.cmW - Commit(g, w.W, w.rW),
         NEW b1, b1 = X.cmE - Commit(g, V.E, V.rE), NEW b2, b2 = u.cmE - Commit(g, w.E, w.rE)
  PROVE  /\ a1 \in Int /\ a2 \in Int /\ Solves(a1, a2, 0, r)
         /\ b1 \in Int /\ b2 \in Int /\ Solves(b1, 0, b2, r)
<1> DEFINE T  == ComputeT(cs, X, V, u, w)
           cT == Commit(g, T, 0)
           A1 == X.cmW  A2 == u.cmW  C1 == Commit(g, V.W, V.rW)  C2 == Commit(g, w.W, w.rW)
           B1 == X.cmE  B2 == u.cmE  D1 == Commit(g, V.E, V.rE)  D2 == Commit(g, w.E, w.rE)
           X2 == [X EXCEPT !.cmW = C1, !.cmE = D1]
           u2 == [u EXCEPT !.cmW = C2, !.cmE = D2]
           F  == FoldWitness(r, V, w, T)
<1>1. /\ MatricesOk(cs) /\ cs.l \in 0 .. 7
      /\ V \in Witness(cs.l) /\ X \in CommittedInstance(cs.l)
      /\ w \in Witness(cs.l) /\ u \in CommittedInstance(cs.l)
  BY DEF Pairs, Circuit, MatricesOk
<1>2. T \in Vec
  BY <1>1, CrossTermRow
<1>3. /\ V.W \in Vec /\ w.W \in Vec /\ V.E \in Vec /\ w.E \in Vec
      /\ V.rW \in Fp /\ w.rW \in Fp /\ V.rE \in Fp /\ w.rE \in Fp
  BY <1>1, WitnessParts
<1>4. C1 \in Fp /\ C2 \in Fp /\ D1 \in Fp /\ D2 \in Fp /\ cT \in Fp
  <2> DEFINE z == 0
  <2>1. z \in Fp
    BY ZeroOneInFp
  <2> HIDE DEF z, T
  <2>2. C1 \in Fp /\ C2 \in Fp /\ D1 \in Fp /\ D2 \in Fp /\ Commit(g, T, z) \in Fp
    BY <1>2, <1>3, <2>1, CommitCong
  <2> QED BY <2>2 DEF z
<1>5. A1 \in Fp /\ A2 \in Fp /\ B1 \in Fp /\ B2 \in Fp
  BY <1>1, InstanceParts
<1>6. /\ X2 \in CommittedInstance(cs.l) /\ u2 \in CommittedInstance(cs.l)
      /\ X2.cmW = C1 /\ X2.cmE = D1 /\ u2.cmW = C2 /\ u2.cmE = D2
  <2> HIDE DEF C1, C2, D1, D2
  <2> QED BY <1>1, <1>4 DEF CommittedInstance
<1>7. OpensW(g, V, X2) /\ OpensW(g, w, u2) /\ OpensE(g, V, X2) /\ OpensE(g, w, u2)
  <2> HIDE DEF X2, u2
  <2> QED BY <1>6 DEF OpensW, OpensE
<1>8. LET Uf == FoldCommittedInstances(r, X2, u2, cT) IN OpensW(g, F, Uf) /\ OpensE(g, F, Uf)
  <2> HIDE DEF X2, u2, T
  <2> QED BY <1>1, <1>2, <1>6, <1>7, FoldPreservesOpenings
<1>9. Rlc(A1, r, A2) = Rlc(C1, r, C2)
      /\ Rlc(Rlc(B1, r, cT), (r * r) % P, B2) = Rlc(Rlc(D1, r, cT), (r * r) % P, D2)
  <2> HIDE DEF X2, u2
  <2>1. /\ Commit(g, F.W, F.rW) = Rlc(C1, r, C2)
        /\ Commit(g, F.E, F.rE) = Rlc(Rlc(D1, r, cT), (r * r) % P, D2)
    BY <1>6, <1>8 DEF OpensW, OpensE, FoldCommittedInstances
  <2>2. /\ Commit(g, F.W, F.rW) = Rlc(A1, r, A2)
        /\ Commit(g, F.E, F.rE) = Rlc(Rlc(B1, r, cT), (r * r) % P, B2)
    BY DEF Opens, OpensW, OpensE, FoldCommittedInstances
  <2> QED BY <2>1, <2>2
<1>10. a1 = A1 - C1 /\ a2 = A2 - C2 /\ b1 = B1 - D1 /\ b2 = B2 - D2
  OBVIOUS
<1> HIDE DEF A1, A2, B1, B2, C1, C2, D1, D2, cT
<1>11. /\ A1 \in Int /\ A2 \in Int /\ B1 \in Int /\ B2 \in Int /\ C1 \in Int /\ C2 \in Int
       /\ D1 \in Int /\ D2 \in Int /\ cT \in Int /\ r \in Int
  BY <1>4, <1>5, FpIsInt
<1>12. Solves(a1, a2, 0, r)
  <2> DEFINE q == Rlc(A1, r, A2)
  <2>1. Cong(q, A1 + r * A2) /\ Cong(q, C1 + r * C2)
    BY <1>4, <1>5, <1>9, RlcCong
  <2> HIDE DEF q
  <2>2. PICK i \in Int : q = A1 + r * A2 + i * P
    BY <2>1 DEF Cong
  <2>3. PICK j \in Int : q = C1 + r * C2 + j * P
    BY <2>1 DEF Cong
  <2>4. r * A2 - r * C2 = r * a2 /\ r * A2 \in Int /\ r * C2 \in Int /\ (r * r) * 0 = 0
    <3> DEFINE rr == r * r
    <3>1. r * A2 - r * C2 = r * (A2 - C2) /\ r * A2 \in Int /\ r * C2 \in Int /\ rr \in Int
      BY <1>11, Spread
    <3> HIDE DEF rr
    <3>2. rr * 0 = 0
      BY <3>1, Spread
    <3> QED BY <1>10, <3>1, <3>2 DEF rr
  <2>5. a1 + r * a2 + (r * r) * 0 = 0 + (j - i) * P /\ j - i \in Int
    BY <1>10, <1>11, <2>2, <2>3, <2>4, PAssumption
  <2>6. a1 + r * a2 + (r * r) * 0 \in Int
    BY <2>5, PAssumption
  <2> QED BY <2>5, <2>6 DEF Solves, Zero, Cong
<1>13. Solves(b1, 0, b2, r)
  <2> DEFINE q == Rlc(Rlc(B1, r, cT), (r * r) % P, B2)
  <2>1. Cong(cT, cT)
    BY <1>11, CongRefl
  <2>2. Cong(Rlc(Rlc(B1, r, cT), (r * r) % P, B2), B1 + r * cT + (r * r) * B2)
    BY <1>4, <1>5, <1>11, <2>1, FoldedErrorRow
  <2>3. Cong(Rlc(Rlc(D1, r, cT), (r * r) % P, D2), D1 + r * cT + (r * r) * D2)
    BY <1>4, <1>5, <1>11, <2>1, FoldedErrorRow
  <2>4. Cong(q, B1 + r * cT + (r * r) * B2) /\ Cong(q, D1 + r * cT + (r * r) * D2)
    BY <1>9, <2>2, <2>3
  <2> HIDE DEF q
  <2> DEFINE rr == r * r  rt == r * cT
  <2>5. rr \in Int /\ rt \in Int /\ r * 0 = 0
    BY <1>11
  <2>6. PICK i \in Int : q = B1 + rt + rr * B2 + i * P
    BY <2>4 DEF Cong
  <2>7. PICK j \in Int : q = D1 + rt + rr * D2 + j * P
    BY <2>4 DEF Cong
  <2> HIDE DEF rr, rt
  <2>8. rr * B2 - rr * D2 = rr * b2 /\ rr * B2 \in Int /\ rr * D2 \in Int
    <3>1. rr * B2 - rr * D2 = rr * (B2 - D2) /\ rr * B2 \in Int /\ rr * D2 \in Int
      BY <1>11, <2>5, Spread
    <3> QED BY <1>10, <3>1
  <2>9. b1 + 0 + rr * b2 = 0 + (j - i) * P /\ j - i \in Int
    <3> DEFINE x == rr * B2  y == rr * D2  z == rr * b2
    <3>1. x \in Int /\ y \in Int /\ x - y = z
      BY <2>8
    <3>2. q = B1 + rt + x + i * P /\ q = D1 + rt + y + j * P
      BY <2>6, <2>7
    <3> HIDE DEF x, y, z
    <3>3. b1 = B1 - D1 /\ B1 \in Int /\ D1 \in Int
      BY <1>10, <1>11
    <3> DEFINE m == i * P  n == j * P
    <3>4. m \in Int /\ n \in Int /\ (j - i) * P = n - m
      BY PAssumption
    <3>5. B1 + rt + x + m = D1 + rt + y + n
      BY <3>2
    <3> HIDE DEF m, n
    <3>6. (B1 - D1) + (x - y) = n - m
      BY <2>5, <3>1, <3>3, <3>4, <3>5
    <3>7. b1 + 0 + z = 0 + (j - i) * P
      BY <3>1, <3>3, <3>4, <3>6
    <3> QED BY <3>7 DEF z
  <2>10. b1 + r * 0 + rr * b2 = 0 + (j - i) * P /\ b1 + r * 0 + rr * b2 \in Int
    BY <2>5, <2>9, PAssumption
  <2> QED BY <2>9, <2>10 DEF Solves, Zero, Cong, rr
<1>14. a1 \in Int /\ a2 \in Int /\ b1 \in Int /\ b2 \in Int
  BY <1>10, <1>11
<1> QED
  BY <1>12, <1>13, <1>14

FoldRelates(cs, V, X, w, u, r, cmT) ==
  CheckRelation(cs, FoldWitness(r, V, w, ComputeT(cs, X, V, u, w)),
                    FoldCommittedInstances(r, X, u, cmT))
FoldOpens(cs, g, V, X, w, u, r) ==
  LET T == ComputeT(cs, X, V, u, w)
  IN  Opens(g, FoldWitness(r, V, w, T), FoldCommittedInstances(r, X, u, Commit(g, T, 0)))

LEMMA ZeroIsEqual == ASSUME NEW a \in Fp, NEW b \in Fp, Zero(a - b) PROVE a = b
<1>1. a \in Int /\ b \in Int
  BY FpIsInt
<1>2. PICK k \in Int : a - b = 0 + k * P
  BY DEF Zero, Cong
<1>3. a = b + k * P
  BY <1>1, <1>2, PAssumption
<1> QED
  BY <1>3, EqOfCong DEF Cong

\* The error of a pair that is wrong in some slot can be hidden by two challenges at most.
LEMMA FewHideError ==
  ASSUME PrimeModulus, NEW cs, NEW V, NEW X, NEW w, NEW u, Pairs(cs, V, X, w, u),
         ~(CheckRelation(cs, V, X) /\ CheckRelation(cs, w, u)),
         NEW S \in SUBSET Fp, \A r \in S : \E cmT : FoldRelates(cs, V, X, w, u, r, cmT)
  PROVE  AtMostTwo(S)
<1>1. /\ cs.l \in 0 .. 7 /\ V \in Witness(cs.l) /\ X \in CommittedInstance(cs.l)
      /\ w \in Witness(cs.l) /\ u \in CommittedInstance(cs.l)
  BY DEF Pairs, Circuit, MatricesOk
<1>2. /\ V.E \in Vec /\ w.E \in Vec /\ ErrorIs(cs, V, X) \in Vec /\ ErrorIs(cs, w, u) \in Vec
  <2>1. /\ V.E \in Vec /\ w.E \in Vec /\ V.W \in Vec /\ w.W \in Vec
    BY <1>1, WitnessParts
  <2>2. Assignment(X.u, X.x, V.W) \in Vec /\ Assignment(u.u, u.x, w.W) \in Vec
    BY <1>1, <2>1, InstanceParts, AssignmentInVec
  <2> QED BY <2>1, <2>2, EvalIsError DEF Pairs, ErrorIs, ErrorVec
<1>3. DOMAIN X.x = 1 .. cs.l /\ DOMAIN u.x = 1 .. cs.l
  BY <1>1, InstanceParts
<1>4. \E k \in Slot : V.E[k] # ErrorIs(cs, V, X)[k] \/ w.E[k] # ErrorIs(cs, w, u)[k]
  <2>1. V.E # ErrorIs(cs, V, X) \/ w.E # ErrorIs(cs, w, u)
    BY <1>3 DEF CheckRelation, ErrorIs
  <2>2. \A a \in Vec, b \in Vec : (\A k \in Slot : a[k] = b[k]) => a = b
    BY DEF Vec
  <2> QED BY <1>2, <2>1, <2>2
<1>5. PICK k \in Slot : V.E[k] # ErrorIs(cs, V, X)[k] \/ w.E[k] # ErrorIs(cs, w, u)[k]
  BY <1>4
<1> DEFINE d1 == V.E[k] - ErrorIs(cs, V, X)[k]  d2 == w.E[k] - ErrorIs(cs, w, u)[k]
<1>6. V.E[k] \in Fp /\ ErrorIs(cs, V, X)[k] \in Fp /\ w.E[k] \in Fp /\ ErrorIs(cs, w, u)[k] \in Fp
  BY <1>2 DEF Vec
<1>7. ~(Zero(d1) /\ Zero(d2))
  BY <1>5, <1>6, ZeroIsEqual
<1>8. \A r \in S : d1 \in Int /\ d2 \in Int /\ Solves(d1, -(d1 + d2), d2, r)
  <2> SUFFICES ASSUME NEW r \in S PROVE d1 \in Int /\ d2 \in Int /\ Solves(d1, -(d1 + d2), d2, r)
    OBVIOUS
  <2>1. PICK cmT : FoldRelates(cs, V, X, w, u, r, cmT)
    OBVIOUS
  <2>2. CheckRelation(cs, FoldWitness(r, V, w, ComputeT(cs, X, V, u, w)),
                          FoldCommittedInstances(r, X, u, cmT))
    BY <2>1 DEF FoldRelates
  <2>3. r \in Fp /\ d1 = V.E[k] - ErrorIs(cs, V, X)[k] /\ d2 = w.E[k] - ErrorIs(cs, w, u)[k]
    OBVIOUS
  <2> HIDE DEF d1, d2
  <2> QED BY <2>2, <2>3, FoldedErrorIsQuadratic
<1>9. d1 \in Int /\ d2 \in Int /\ -(d1 + d2) \in Int
  BY <1>6, FpIsInt
<1> HIDE DEF d1, d2
<1> DEFINE b == -(d1 + d2)
<1>10. b \in Int /\ \A r \in S : Solves(d1, b, d2, r)
  BY <1>8, <1>9
<1> HIDE DEF b
<1> QED
  BY <1>7, <1>9, <1>10, TwoRoots

\* So can commitments that do not open.
LEMMA FewHideOpening ==
  ASSUME PrimeModulus, NEW cs, NEW g \in Vec, NEW V, NEW X, NEW w, NEW u, Pairs(cs, V, X, w, u),
         ~(Opens(g, V, X) /\ Opens(g, w, u)),
         NEW S \in SUBSET Fp, \A r \in S : FoldOpens(cs, g, V, X, w, u, r)
  PROVE  AtMostTwo(S)
<1> DEFINE a1 == X.cmW - Commit(g, V.W, V.rW)  a2 == u.cmW - Commit(g, w.W, w.rW)
           b1 == X.cmE - Commit(g, V.E, V.rE)  b2 == u.cmE - Commit(g, w.E, w.rE)
<1>1. /\ cs.l \in 0 .. 7 /\ V \in Witness(cs.l) /\ X \in CommittedInstance(cs.l)
      /\ w \in Witness(cs.l) /\ u \in CommittedInstance(cs.l)
  BY DEF Pairs, Circuit, MatricesOk
<1>2. /\ Commit(g, V.W, V.rW) \in Fp /\ Commit(g, w.W, w.rW) \in Fp
      /\ Commit(g, V.E, V.rE) \in Fp /\ Commit(g, w.E, w.rE) \in Fp
      /\ X.cmW \in Fp /\ u.cmW \in Fp /\ X.cmE \in Fp /\ u.cmE \in Fp
  BY <1>1, WitnessParts, InstanceParts, CommitCong
<1>3. ~(Zero(a1) /\ Zero(a2)) \/ ~(Zero(b1) /\ Zero(b2))
  BY <1>2, ZeroIsEqual DEF Opens, OpensW, OpensE
<1>4. \A r \in S : Solves(a1, a2, 0, r) /\ Solves(b1, 0, b2, r)
  <2> SUFFICES ASSUME NEW r \in S PROVE Solves(a1, a2, 0, r) /\ Solves(b1, 0, b2, r)
    OBVIOUS
  <2>1. Opens(g, FoldWitness(r, V, w, ComputeT(cs, X, V, u, w)),
                 FoldCommittedInstances(r, X, u, Commit(g, ComputeT(cs, X, V, u, w), 0)))
    BY DEF FoldOpens
  <2>2. /\ r \in Fp /\ a1 = X.cmW - Commit(g, V.W, V.rW) /\ a2 = u.cmW - Commit(g, w.W, w.rW)
        /\ b1 = X.cmE - Commit(g, V.E, V.rE) /\ b2 = u.cmE - Commit(g, w.E, w.rE)
    OBVIOUS
  <2> HIDE DEF a1, a2, b1, b2
  <2> QED BY <2>1, <2>2, FoldedOpeningsAreQuadratic
<1>5. a1 \in Int /\ a2 \in Int /\ b1 \in Int /\ b2 \in Int
  BY <1>2, FpIsInt
<1> DEFINE z == 0
<1>6. z \in Int /\ \A r \in S : Solves(a1, a2, z, r) /\ Solves(b1, z, b2, r)
  BY <1>4
<1> HIDE DEF a1, a2, b1, b2, z
<1> QED
  BY <1>3, <1>5, <1>6, TwoRoots

\* Nova's fold is sound: over a prime field at most two challenges make a pair that
\* satisfies its relation and opens its commitments of two pairs that do not both.  The
\* deciders look at the last fold only; this is how much that can hide from them.
THEOREM FewChallengesHide ==
  ASSUME PrimeModulus, NEW cs, NEW g \in Vec, NEW V, NEW X, NEW w, NEW u, Pairs(cs, V, X, w, u),
         ~(/\ CheckRelation(cs, V, X) /\ CheckRelation(cs, w, u)
           /\ Opens(g, V, X) /\ Opens(g, w, u))
  PROVE  LET T == ComputeT(cs, X, V, u, w)
             Wf(r) == FoldWitness(r, V, w, T)
             Uf(r) == FoldCommittedInstances(r, X, u, Commit(g, T, 0))
             lucky == {r \in Fp : CheckRelation(cs, Wf(r), Uf(r)) /\ Opens(g, Wf(r), Uf(r))}
         IN  IsFiniteSet(lucky) /\ Cardinality(lucky) <= 2
<1> DEFINE T == ComputeT(cs, X, V, u, w)
           Wf(r) == FoldWitness(r, V, w, T)
           Uf(r) == FoldCommittedInstances(r, X, u, Commit(g, T, 0))
           lucky == {r \in Fp : CheckRelation(cs, Wf(r), Uf(r)) /\ Opens(g, Wf(r), Uf(r))}
<1>1. /\ \A r \in lucky : \E cmT : FoldRelates(cs, V, X, w, u, r, cmT)
      /\ \A r \in lucky : FoldOpens(cs, g, V, X, w, u, r)
  BY DEF FoldRelates, FoldOpens
<1>2. lucky \in SUBSET Fp
  OBVIOUS
<1> HIDE DEF lucky
<1>3. AtMostTwo(lucky)
  BY <1>1, <1>2, FewHideError, FewHideOpening
<1> QED
  BY <1>3 DEF AtMostTwo, lucky

\* A fresh pair of an assignment that is wrong is a pair, and does not satisfy its relation.
LEMMA WrongPair ==
  ASSUME NEW z \in Wrong, NEW w, w = NewWitness(WitnessOf(z, Cs.l), 0, 0),
         NEW u, u = CommitWitness(Gens, w, PublicOf(z, Cs.l))
  PROVE  /\ w \in Witness(Cs.l) /\ u \in CommittedInstance(Cs.l)
         /\ ~CheckRelation(Cs, w, u)
<1>1. z \in Vec /\ z[0] = 1 /\ EvalAtZ(Cs, z) # ZeroVec
  BY WrongAssumption DEF Satisfies
<1>2. /\ PublicOf(z, Cs.l) \in [1 .. Cs.l -> Fp] /\ WitnessOf(z, Cs.l) \in WitnessVec(Cs.l)
      /\ WitnessOf(z, Cs.l) \in Vec /\ Assignment(1, PublicOf(z, Cs.l), WitnessOf(z, Cs.l)) = z
  BY <1>1, CsCircuit, SplitZ DEF WitnessVec
<1>3. /\ w = [E |-> ZeroVec, W |-> WitnessOf(z, Cs.l), rE |-> 0, rW |-> 0]
  BY DEF NewWitness
<1>4. u = [cmE |-> 0, u |-> 1, cmW |-> Commit(Gens, w.W, w.rW), x |-> PublicOf(z, Cs.l)]
  BY <1>3 DEF CommitWitness
<1>5. w \in Witness(Cs.l)
  <2>1. ZeroVec \in ErrorVec
    BY CsCircuit, ZeroIsError
  <2> QED BY <1>2, <1>3, <2>1, ZeroOneInFp DEF Witness
<1>6. Commit(Gens, w.W, w.rW) \in Fp
  <2>1. w.W \in Vec /\ w.rW \in Fp
    BY <1>2, <1>3, ZeroOneInFp
  <2> QED BY <2>1, CommitCong, GensAssumption
<1>7. u \in CommittedInstance(Cs.l)
  BY <1>2, <1>4, <1>6, ZeroOneInFp DEF CommittedInstance
<1>8. ~CheckRelation(Cs, w, u)
  BY <1>1, <1>2, <1>3, <1>4 DEF CheckRelation
<1> QED
  BY <1>5, <1>7, <1>8

\* The test of fold_witness with a wrong instance, for every field, circuit, running
\* pair and wrong instance: at most two challenges hide it.
THEOREM WrongInstanceSpoilsInvariant ==
  ASSUME PrimeModulus PROVE Spec => []WrongInstanceSpoils
<1>1. ASSUME IInv, NEW z \in Wrong
      PROVE  LET w == NewWitness(WitnessOf(z, Cs.l), 0, 0)
                 u == CommitWitness(Gens, w, PublicOf(z, Cs.l))
                 T == ComputeT(Cs, U, W, u, w)
                 lucky == {r \in Fp : CheckRelation(Cs, FoldWitness(r, W, w, T),
                             FoldCommittedInstances(r, U, u, Commit(Gens, T, 0)))}
             IN  Cardinality(lucky) <= 2
  <2> DEFINE w == NewWitness(WitnessOf(z, Cs.l), 0, 0)
             u == CommitWitness(Gens, w, PublicOf(z, Cs.l))
             T == ComputeT(Cs, U, W, u, w)
             lucky == {r \in Fp : CheckRelation(Cs, FoldWitness(r, W, w, T),
                             FoldCommittedInstances(r, U, u, Commit(Gens, T, 0)))}
  <2>1. w \in Witness(Cs.l) /\ u \in CommittedInstance(Cs.l) /\ ~CheckRelation(Cs, w, u)
    BY WrongPair
  <2> HIDE DEF w, u
  <2>2. Pairs(Cs, W, U, w, u)
    BY <1>1, <2>1, CsCircuit DEF IInv, Sound, Pairs
  <2>3. lucky \in SUBSET Fp /\ \A r \in lucky : \E cmT : FoldRelates(Cs, W, U, w, u, r, cmT)
    BY DEF FoldRelates
  <2> HIDE DEF lucky
  <2>4. AtMostTwo(lucky)
    BY <2>1, <2>2, <2>3, FewHideError
  <2> QED BY <2>4 DEF AtMostTwo, lucky, w, u
<1>2. IInv => WrongInstanceSpoils
  BY <1>1 DEF WrongInstanceSpoils
<1> QED
  BY <1>2, SoundInvariant, PTL

----------------------------------------------------------------------------
\* The pairs of the variants as pairs of Nova, with nothing committed for E.
MovaAsWitness(w)   == [E |-> w.E, rE |-> 0, W |-> w.W, rW |-> w.rW]
OvaAsWitness(w, u) == [E |-> ComputeE(Cs, w, u), rE |-> 0, W |-> w.w, rW |-> w.rW]
AsInstance(u)      == [cmE |-> 0, u |-> u.u, cmW |-> 0, x |-> u.x]

Related(w, u) ==
  w \in Witness(Cs.l) /\ u \in CommittedInstance(Cs.l) /\ CheckRelation(Cs, w, u)

\* Folding keeps a pair related, its types and its commitments aside.
LEMMA FoldRelated ==
  ASSUME NEW V, NEW X, NEW w, NEW u, NEW r \in Fp, Related(V, X), Related(w, u)
  PROVE  LET T == ComputeT(Cs, X, V, u, w)
         IN  /\ T \in Vec
             /\ Related(FoldWitness(r, V, w, T), FoldCommittedInstances(r, X, u, 0))
<1> DEFINE T == ComputeT(Cs, X, V, u, w)
<1>1. /\ V \in Witness(Cs.l) /\ X \in CommittedInstance(Cs.l) /\ CheckRelation(Cs, V, X)
      /\ w \in Witness(Cs.l) /\ u \in CommittedInstance(Cs.l) /\ CheckRelation(Cs, w, u)
      /\ MatricesOk(Cs)
  BY CsCircuit DEF Related, Circuit
<1>2. T \in Vec /\ T[0] = 0
  BY <1>1, CsCircuit, CrossTermIsError DEF ErrorVec
<1>3. CheckRelation(Cs, FoldWitness(r, V, w, T), FoldCommittedInstances(r, X, u, 0))
  BY <1>1, FoldPreservesRelation
<1> HIDE DEF T
<1>4. /\ FoldWitness(r, V, w, T) \in Witness(Cs.l)
      /\ FoldCommittedInstances(r, X, u, 0) \in CommittedInstance(Cs.l)
  <2> DEFINE cmT == 0
  <2>1. cmT \in Fp
    BY ZeroOneInFp
  <2> HIDE DEF cmT
  <2>2. /\ FoldWitness(r, V, w, T) \in Witness(Cs.l)
        /\ FoldCommittedInstances(r, X, u, cmT) \in CommittedInstance(Cs.l)
    BY <1>1, <1>2, <2>1, FoldWellFormed
  <2> QED BY <2>2 DEF cmT
<1> QED
  BY <1>2, <1>3, <1>4 DEF Related, T

\* A fresh assignment as a pair with no error.
LEMMA FreshParts ==
  ASSUME NEW z \in Incoming
  PROVE  /\ PublicOf(z, Cs.l) \in [1 .. Cs.l -> Fp]
         /\ WitnessOf(z, Cs.l) \in WitnessVec(Cs.l) /\ WitnessOf(z, Cs.l) \in Vec
         /\ EvalAtZ(Cs, Assignment(1, PublicOf(z, Cs.l), WitnessOf(z, Cs.l))) = ZeroVec
<1>1. z \in Vec /\ z[0] = 1 /\ EvalAtZ(Cs, z) = ZeroVec
  BY IncomingAssumption DEF Satisfies
<1> QED
  BY <1>1, CsCircuit, SplitZ DEF WitnessVec

LEMMA BlinderInFp == \A rW \in Blinders : (IF Hiding THEN rW ELSE 0) \in Fp
BY BlindersAssumption, ZeroOneInFp, HidingAssumption

----------------------------------------------------------------------------
\* Mova.

MovaSound(w, u) ==
  /\ Related(MovaAsWitness(w), AsInstance(u))
  /\ u.cmW = Commit(Gens, w.W, w.rW)

LEMMA MovaFreshSound ==
  ASSUME NEW z \in Incoming, NEW rW \in Blinders, NEW aux, NEW draw
  PROVE  LET w == MovaWitness(WitnessOf(z, Cs.l), rW)
         IN  MovaSound(w, MovaInstance(Gens, w, PublicOf(z, Cs.l), aux, draw))
<1> DEFINE w == MovaWitness(WitnessOf(z, Cs.l), rW)
           u == MovaInstance(Gens, w, PublicOf(z, Cs.l), aux, draw)
<1>1. /\ w.E = ZeroVec /\ w.W = WitnessOf(z, Cs.l) /\ w.rW = (IF Hiding THEN rW ELSE 0)
      /\ u.u = 1 /\ u.x = PublicOf(z, Cs.l) /\ u.cmW = Commit(Gens, w.W, w.rW)
  BY DEF MovaWitness, MovaInstance
<1> HIDE DEF w, u
<1>2. MovaAsWitness(w) \in Witness(Cs.l)
  BY <1>1, FreshParts, BlinderInFp, CsCircuit, ZeroIsError, ZeroOneInFp DEF MovaAsWitness, Witness
<1>3. AsInstance(u) \in CommittedInstance(Cs.l)
  BY <1>1, FreshParts, ZeroOneInFp DEF AsInstance, CommittedInstance
<1>4. CheckRelation(Cs, MovaAsWitness(w), AsInstance(u))
  BY <1>1, FreshParts DEF CheckRelation, MovaAsWitness, AsInstance
<1>5. MovaSound(w, u)
  BY <1>1, <1>2, <1>3, <1>4 DEF MovaSound, Related
<1> QED
  BY <1>5 DEF w, u

\* Mova's fold of sound pairs is sound, whatever its point, evaluations and T's.
LEMMA MovaFoldSound ==
  ASSUME NEW V, NEW X, NEW w, NEW u, NEW a \in Fp, NEW rE, NEW e1, NEW e2, NEW t,
         MovaSound(V, X), MovaSound(w, u)
  PROVE  MovaSound(MovaFoldWitness(a, V, w, ComputeT(Cs, X, V, u, w)),
                   MovaFoldInstance(a, X, u, rE, e1, e2, t))
<1> DEFINE T  == ComputeT(Cs, X, V, u, w)
           Vn == MovaAsWitness(V)   wn == MovaAsWitness(w)
           Xn == AsInstance(X)      un == AsInstance(u)
           Vf == MovaFoldWitness(a, V, w, T)
           Xf == MovaFoldInstance(a, X, u, rE, e1, e2, t)
<1>1. Related(Vn, Xn) /\ Related(wn, un)
  BY DEF MovaSound
<1>2. T = ComputeT(Cs, Xn, Vn, un, wn)
  BY DEF ComputeT, MovaAsWitness, AsInstance
<1>3. Related(FoldWitness(a, Vn, wn, T), FoldCommittedInstances(a, Xn, un, 0))
  BY <1>1, <1>2, FoldRelated
<1>4. (a * a) % P \in Fp /\ Rlc(0, (a * a) % P, 0) = 0 /\ Rlc(0, a, 0) = 0
  BY SquareInFp, RlcZero, ZeroOneInFp
<1> HIDE DEF T
<1>5. MovaAsWitness(Vf) = FoldWitness(a, Vn, wn, T)
  BY <1>4 DEF MovaFoldWitness, FoldWitness, MovaAsWitness, Sq
<1>6. AsInstance(Xf) = FoldCommittedInstances(a, Xn, un, 0)
  BY <1>4 DEF MovaFoldInstance, FoldCommittedInstances, AsInstance
<1>7. /\ V.W \in Vec /\ w.W \in Vec /\ V.rW \in Fp /\ w.rW \in Fp
  BY <1>1 DEF Related, MovaAsWitness, Witness, WitnessVec
<1>8. Xf.cmW = Commit(Gens, Vf.W, Vf.rW)
  <2>1. X.cmW = Commit(Gens, V.W, V.rW) /\ u.cmW = Commit(Gens, w.W, w.rW)
    BY DEF MovaSound
  <2>2. Commit(Gens, VecRlc(V.W, a, w.W), Rlc(V.rW, a, w.rW))
          = Rlc(Commit(Gens, V.W, V.rW), a, Commit(Gens, w.W, w.rW))
    BY <1>7, GensAssumption, CommitLinear
  <2> QED BY <2>1, <2>2 DEF MovaFoldWitness, MovaFoldInstance
<1> HIDE DEF Vf, Xf, Vn, Xn, wn, un
<1>9. MovaSound(Vf, Xf)
  BY <1>3, <1>5, <1>6, <1>8 DEF MovaSound
<1> QED
  BY <1>9 DEF Vf, Xf, T

LEMMA MovaCrossTerm ==
  ASSUME NEW V, NEW X, NEW w, NEW u, MovaSound(V, X), MovaSound(w, u)
  PROVE  V.E \in Vec /\ ComputeT(Cs, X, V, u, w) \in Vec
<1> DEFINE Vn == MovaAsWitness(V)   wn == MovaAsWitness(w)
           Xn == AsInstance(X)      un == AsInstance(u)
<1>1. Related(Vn, Xn) /\ Related(wn, un)
  BY DEF MovaSound
<1>2. ComputeT(Cs, X, V, u, w) = ComputeT(Cs, Xn, Vn, un, wn) /\ V.E = Vn.E
  BY DEF ComputeT, MovaAsWitness, AsInstance
<1>3. Vn.E \in Vec
  <2> HIDE DEF Vn
  <2> QED BY <1>1 DEF Related, Witness, ErrorVec
<1>4. 0 \in Fp
  BY ZeroOneInFp
<1> HIDE DEF Vn, Xn, wn, un
<1>5. ComputeT(Cs, Xn, Vn, un, wn) \in Vec
  BY <1>1, <1>4, FoldRelated
<1> QED
  BY <1>2, <1>3, <1>5

\* A verifier on the prover's transcript that accepts the prover's proof comes to the
\* prover's instance and transcript.
LEMMA MovaVerifyAgrees ==
  ASSUME NEW tr, NEW V, NEW X, NEW w, NEW u, NEW p, NEW v,
         p = MovaProve(Cs, tr, pp_hash, V, X, w, u), p.ret = "Ok",
         v = MovaVerify(tr, pp_hash, X, u, p.proof), v.ret = "Ok"
  PROVE  /\ v.U = p.U /\ v.tr = p.tr
         /\ \E a \in Fp : \E rE, e1, e2, t :
              /\ p.W = MovaFoldWitness(a, V, w, ComputeT(Cs, X, V, u, w))
              /\ p.U = MovaFoldInstance(a, X, u, rE, e1, e2, t)
<1> DEFINE open  == MovaOpening(tr, pp_hash, X, u)
           lp    == LineProve(open, V, X, w, u)
           lv    == LineVerify(open, X, u, p.proof)
           T     == ComputeT(Cs, X, V, u, w)
           t     == MleAt(T, lp.rE)
           alpha == FoldChallenge(lp.tr, lp.e1, lp.e2, t)
<1>1. lp.ret = "Ok"
  BY DEF MovaProve
<1>2. p = [ret |-> "Ok", tr |-> alpha.tr,
            W |-> MovaFoldWitness(alpha.r, V, w, T),
            U |-> MovaFoldInstance(alpha.r, X, u, lp.rE, lp.e1, lp.e2, t),
            proof |-> [h1 |-> lp.h1, h2 |-> lp.h2, e1 |-> lp.e1, e2 |-> lp.e2, t |-> t]]
  BY <1>1 DEF MovaProve
<1>3. lv.ret = "Ok"
  BY DEF MovaVerify
<1>4. /\ lp.tr = LineChallenge(open, lp.h1, lp.h2).tr
      /\ lp.rE = ComputeL(X.rE, Direction(X.rE, u.rE), LineChallenge(open, lp.h1, lp.h2).r)
  BY <1>1 DEF LineProve
<1>5. /\ lv.tr = LineChallenge(open, p.proof.h1, p.proof.h2).tr
      /\ lv.rE = ComputeL(X.rE, Direction(X.rE, u.rE),
                          LineChallenge(open, p.proof.h1, p.proof.h2).r)
  BY <1>3 DEF LineVerify
<1>6. /\ p.proof.h1 = lp.h1 /\ p.proof.h2 = lp.h2 /\ p.proof.e1 = lp.e1
      /\ p.proof.e2 = lp.e2 /\ p.proof.t = t
      /\ p.tr = alpha.tr /\ p.W = MovaFoldWitness(alpha.r, V, w, T)
      /\ p.U = MovaFoldInstance(alpha.r, X, u, lp.rE, lp.e1, lp.e2, t)
  BY <1>2
<1>7. alpha.r \in Fp
  BY RoInFp DEF FoldChallenge, GetChallenge, Squeeze
<1>8. lv.tr = lp.tr /\ lv.rE = lp.rE
  BY <1>4, <1>5, <1>6
<1>9. /\ v.tr = FoldChallenge(lv.tr, p.proof.e1, p.proof.e2, p.proof.t).tr
      /\ v.U = MovaFoldInstance(FoldChallenge(lv.tr, p.proof.e1, p.proof.e2, p.proof.t).r,
                                X, u, lv.rE, p.proof.e1, p.proof.e2, p.proof.t)
  BY <1>3 DEF MovaVerify
<1> HIDE DEF lp, lv, T, t
<1>10. v.U = p.U /\ v.tr = p.tr
  BY <1>6, <1>8, <1>9
<1> QED
  BY <1>6, <1>7, <1>10 DEF T

----------------------------------------------------------------------------
\* Mova: error vectors as multilinear polynomials, restricted to a line.

\* The value at y of the line from p to q, and the extension of E at the point y.
Between(p, q, y) == p + y * (q - p)
Mle(E, y) ==
  IF NumVars = 1 THEN Between(E[1], E[2], y[1])
  ELSE Between(Between(E[1], E[2], y[1]), Between(E[3], E[4], y[1]), y[2])

LEMMA BetweenCong ==
  ASSUME NEW p \in Int, NEW q \in Int, NEW y \in Int, NEW a \in Int, NEW b \in Int, NEW z \in Int,
         Cong(p, a), Cong(q, b), Cong(y, z)
  PROVE  /\ Between(p, q, y) \in Int /\ Between(a, b, z) \in Int
         /\ Cong(Between(p, q, y), Between(a, b, z))
<1>1. q - p \in Int /\ b - a \in Int /\ Cong(q - p, b - a)
  BY CongSub
<1> DEFINE v == q - p  w == b - a
<1> HIDE DEF v, w
<1>2. v \in Int /\ w \in Int /\ Cong(v, w)
  BY <1>1 DEF v, w
<1>3. y * v \in Int /\ z * w \in Int /\ Cong(y * v, z * w)
  BY <1>2, CongMul
<1> DEFINE m == y * v  n == z * w
<1> HIDE DEF m, n
<1>4. m \in Int /\ n \in Int /\ Cong(m, n)
  BY <1>3 DEF m, n
<1>5. p + m \in Int /\ a + n \in Int /\ Cong(p + m, a + n)
  BY <1>4, CongAdd
<1> QED
  BY <1>5 DEF Between, v, w, m, n

\* A combination of lines is the line of the combinations.
LEMMA BetweenLinear ==
  ASSUME NEW p \in Int, NEW q \in Int, NEW y \in Int, NEW s \in Int,
         NEW p1 \in Int, NEW q1 \in Int, NEW p2 \in Int, NEW q2 \in Int,
         Cong(p, p1 + s * p2), Cong(q, q1 + s * q2)
  PROVE  /\ Between(p, q, y) \in Int /\ Between(p1, q1, y) \in Int /\ Between(p2, q2, y) \in Int
         /\ Cong(Between(p, q, y), Between(p1, q1, y) + s * Between(p2, q2, y))
<1>1. p1 + s * p2 \in Int /\ q1 + s * q2 \in Int /\ Cong(y, y)
  BY CongRefl
<1>2. Cong(Between(p, q, y), Between(p1 + s * p2, q1 + s * q2, y))
  BY <1>1, BetweenCong
<1>3. /\ Between(p, q, y) \in Int /\ Between(p1, q1, y) \in Int /\ Between(p2, q2, y) \in Int
      /\ Between(p1 + s * p2, q1 + s * q2, y) = Between(p1, q1, y) + s * Between(p2, q2, y)
  BY DEF Between
<1> QED
  BY <1>2, <1>3

LEMMA Rows ==
  ASSUME NEW E \in Vec
  PROVE  /\ E[1] \in Fp /\ E[2] \in Fp /\ E[3] \in Fp /\ E[4] \in Fp
         /\ E[1] \in Int /\ E[2] \in Int /\ E[3] \in Int /\ E[4] \in Int
<1>1. E[1] \in Fp /\ E[2] \in Fp /\ E[3] \in Fp /\ E[4] \in Fp
  BY DEF Vec, Slot
<1> QED
  BY <1>1, FpIsInt

LEMMA MleCong ==
  ASSUME NEW E \in Vec, NEW y, NEW z,
         \A i \in 1 .. NumVars : y[i] \in Int /\ z[i] \in Int /\ Cong(y[i], z[i])
  PROVE  Mle(E, y) \in Int /\ Mle(E, z) \in Int /\ Cong(Mle(E, y), Mle(E, z))
<1> DEFINE p == E[1]  q == E[2]  u == E[3]  v == E[4]
<1>1. /\ p \in Int /\ q \in Int /\ u \in Int /\ v \in Int
      /\ Cong(p, p) /\ Cong(q, q) /\ Cong(u, u) /\ Cong(v, v)
  BY Rows, CongRefl
<1>2. y[1] \in Int /\ z[1] \in Int /\ Cong(y[1], z[1])
  BY VariantsAssumption
<1>3. /\ Between(p, q, y[1]) \in Int /\ Between(p, q, z[1]) \in Int
      /\ Cong(Between(p, q, y[1]), Between(p, q, z[1]))
  BY <1>1, <1>2, BetweenCong
<1>4. CASE NumVars = 1
  BY <1>3, <1>4 DEF Mle
<1>5. CASE NumVars = 2
  <2>1. y[2] \in Int /\ z[2] \in Int /\ Cong(y[2], z[2])
    BY <1>5
  <2>2. /\ Between(u, v, y[1]) \in Int /\ Between(u, v, z[1]) \in Int
        /\ Cong(Between(u, v, y[1]), Between(u, v, z[1]))
    BY <1>1, <1>2, BetweenCong
  <2> DEFINE a == Between(p, q, y[1])  b == Between(p, q, z[1])
             c == Between(u, v, y[1])  d == Between(u, v, z[1])
  <2> HIDE DEF a, b, c, d
  <2>3. /\ Between(a, c, y[2]) \in Int /\ Between(b, d, z[2]) \in Int
        /\ Cong(Between(a, c, y[2]), Between(b, d, z[2]))
    BY <1>3, <2>1, <2>2, BetweenCong DEF a, b, c, d
  <2> QED BY <1>5, <2>3 DEF Mle, a, b, c, d
<1> QED
  BY <1>4, <1>5, VariantsAssumption

LEMMA MleLinear ==
  ASSUME NEW D1 \in Vec, NEW D2 \in Vec, NEW s \in Fp, NEW y,
         \A i \in 1 .. NumVars : y[i] \in Int
  PROVE  /\ Mle(D1, y) \in Int /\ Mle(D2, y) \in Int /\ Mle(VecRlc(D1, s, D2), y) \in Int
         /\ Cong(Mle(VecRlc(D1, s, D2), y), Mle(D1, y) + s * Mle(D2, y))
<1> DEFINE E == VecRlc(D1, s, D2)
<1>1. E \in Vec /\ \A k \in Slot : Cong(E[k], D1[k] + s * D2[k])
  <2>1. \A k \in Slot : D1[k] \in Fp /\ D2[k] \in Fp
    BY DEF Vec
  <2>2. \A k \in Slot : Cong(E[k], D1[k] + s * D2[k])
    BY <2>1, RlcCong DEF VecRlc
  <2> QED BY <2>2, VecRlcInVec
<1> HIDE DEF E
<1>2. /\ Cong(E[1], D1[1] + s * D2[1]) /\ Cong(E[2], D1[2] + s * D2[2])
      /\ Cong(E[3], D1[3] + s * D2[3]) /\ Cong(E[4], D1[4] + s * D2[4])
  BY <1>1 DEF Slot
<1>3. /\ E[1] \in Int /\ E[2] \in Int /\ E[3] \in Int /\ E[4] \in Int
      /\ D1[1] \in Int /\ D1[2] \in Int /\ D1[3] \in Int /\ D1[4] \in Int
      /\ D2[1] \in Int /\ D2[2] \in Int /\ D2[3] \in Int /\ D2[4] \in Int
  BY <1>1, Rows
<1>4. s \in Int /\ y[1] \in Int
  BY FpIsInt, VariantsAssumption
<1> DEFINE a == Between(E[1], E[2], y[1])    b == Between(E[3], E[4], y[1])
           a1 == Between(D1[1], D1[2], y[1])  b1 == Between(D1[3], D1[4], y[1])
           a2 == Between(D2[1], D2[2], y[1])  b2 == Between(D2[3], D2[4], y[1])
<1>5. a \in Int /\ a1 \in Int /\ a2 \in Int /\ Cong(a, a1 + s * a2)
  BY <1>2, <1>3, <1>4, BetweenLinear
<1>6. b \in Int /\ b1 \in Int /\ b2 \in Int /\ Cong(b, b1 + s * b2)
  BY <1>2, <1>3, <1>4, BetweenLinear
<1>7. CASE NumVars = 1
  BY <1>5, <1>7 DEF Mle, E
<1>8. CASE NumVars = 2
  <2>1. y[2] \in Int
    BY <1>8
  <2> HIDE DEF a, b, a1, b1, a2, b2
  <2>2. /\ Between(a, b, y[2]) \in Int /\ Between(a1, b1, y[2]) \in Int
        /\ Between(a2, b2, y[2]) \in Int
        /\ Cong(Between(a, b, y[2]), Between(a1, b1, y[2]) + s * Between(a2, b2, y[2]))
    BY <1>4, <1>5, <1>6, <2>1, BetweenLinear, ZenonT(60)
  <2>3. /\ Mle(E, y) = Between(a, b, y[2]) /\ Mle(D1, y) = Between(a1, b1, y[2])
        /\ Mle(D2, y) = Between(a2, b2, y[2])
    BY <1>8 DEF Mle, a, b, a1, b1, a2, b2
  <2> QED BY <2>2, <2>3 DEF E
<1> QED
  BY <1>7, <1>8, VariantsAssumption

\* The evaluation of a combination is that of the evaluations.
LEMMA MleRlc ==
  ASSUME NEW D1 \in Vec, NEW D2 \in Vec, NEW s \in Fp, NEW y,
         \A i \in 1 .. NumVars : y[i] \in Int,
         NEW e1 \in Fp, NEW e2 \in Fp, Cong(e1, Mle(D1, y)), Cong(e2, Mle(D2, y))
  PROVE  /\ Rlc(e1, s, e2) \in Fp
         /\ Cong(Rlc(e1, s, e2), Mle(VecRlc(D1, s, D2), y))
<1> DEFINE m1 == Mle(D1, y)  m2 == Mle(D2, y)  m == Mle(VecRlc(D1, s, D2), y)
           e == Rlc(e1, s, e2)
<1>1. m1 \in Int /\ m2 \in Int /\ m \in Int /\ Cong(m, m1 + s * m2)
  BY MleLinear
<1>2. e \in Fp /\ e \in Int /\ Cong(e, e1 + s * e2)
  BY RlcCong, FpIsInt
<1>3. e1 \in Int /\ e2 \in Int /\ s \in Int
  BY FpIsInt
<1> HIDE DEF m1, m2, m, e
<1>4. Cong(e1 + s * e2, m1 + s * m2)
  BY <1>1, <1>3, CongRlc DEF m1, m2
<1>5. m1 + s * m2 \in Int /\ e1 + s * e2 \in Int
  BY <1>1, <1>3
<1>6. Cong(m1 + s * m2, m)
  BY <1>1, <1>5, CongSym
<1>7. Cong(e, m)
  BY <1>1, <1>2, <1>4, <1>5, <1>6, CongTrans
<1> QED
  BY <1>2, <1>7 DEF e, m

LEMMA MleOfZero ==
  ASSUME NEW y, \A i \in 1 .. NumVars : y[i] \in Int PROVE Mle(ZeroVec, y) = 0
<1>1. ZeroVec[1] = 0 /\ ZeroVec[2] = 0 /\ ZeroVec[3] = 0 /\ ZeroVec[4] = 0
  BY DEF ZeroVec, Slot
<1>2. \A i \in 1 .. NumVars : Between(0, 0, y[i]) = 0
  BY DEF Between
<1> QED
  BY <1>1, <1>2, VariantsAssumption DEF Mle

\* A variable of a multilinear polynomial set to a + b X.
Step(l, r, a, b) == AddLinear(a, b, l, PolyAdd(r, PolyScale(l, P - 1)))

LEMMA SlopeIs ==
  ASSUME NEW n \in Nat, NEW l \in List(Fp, n), NEW r \in List(Fp, n)
  PROVE  LET s == PolyAdd(r, PolyScale(l, P - 1))
         IN  s \in List(Fp, n) /\ \A j \in 1 .. n : Cong(s[j], r[j] - l[j])
<1> DEFINE m == PolyScale(l, P - 1)  s == PolyAdd(r, m)
<1>1. P - 1 \in Int /\ n = (IF n < n THEN n ELSE n) /\ l \in List(Int, n) /\ r \in List(Int, n)
  BY PAssumption, FpIsInt DEF List
<1>2. m \in List(Fp, n) /\ \A j \in 1 .. n : m[j] = ((P - 1) * l[j]) % P
  BY <1>1, PolyScaleIs
<1> HIDE DEF m
<1>3. m \in List(Int, n)
  BY <1>2, FpIsInt DEF List
<1>4. /\ s \in List(Fp, n)
      /\ \A j \in 1 .. n : s[j] = (Coefficient(r, n, j) + Coefficient(m, n, j)) % P
  BY <1>1, <1>3, PolyAddIs
<1> HIDE DEF s
<1>5. ASSUME NEW j \in 1 .. n PROVE Cong(s[j], r[j] - l[j])
  <2> DEFINE x == r[j]  y == l[j]  z == m[j]  o == s[j]
  <2>1. x \in Int /\ y \in Int /\ z \in Int
    BY <1>1, <1>3 DEF List
  <2>2. z = (((P - 1) * y) % P) /\ o = (x + z) % P
    BY <1>2, <1>4 DEF Coefficient
  <2> HIDE DEF x, y, z, o
  <2>3. (P - 1) * y \in Int /\ x + z \in Int
    BY <2>1, PAssumption
  <2>4. PICK k1 \in Int : z = (P - 1) * y + k1 * P
    BY <2>2, <2>3, CongOfMod DEF Cong
  <2>5. PICK k2 \in Int : o = x + z + k2 * P
    BY <2>2, <2>3, CongOfMod DEF Cong
  <2>6. o = x - y + (y + k1 + k2) * P /\ y + k1 + k2 \in Int
    BY <2>1, <2>4, <2>5, PAssumption
  <2>7. Cong(o, x - y)
    BY <2>6 DEF Cong
  <2> QED BY <2>7 DEF o, x, y
<1> QED
  BY <1>4, <1>5 DEF s, m

LEMMA StepOfOne ==
  ASSUME NEW l \in List(Fp, 1), NEW r \in List(Fp, 1), NEW a \in Fp, NEW b \in Fp, NEW x \in Int
  PROVE  /\ Step(l, r, a, b) \in List(Fp, 2)
         /\ PolyEval(Step(l, r, a, b), x) \in Fp
         /\ Cong(PolyEval(Step(l, r, a, b), x), Between(l[1], r[1], a + x * b))
<1> DEFINE s == PolyAdd(r, PolyScale(l, P - 1))
           c == Step(l, r, a, b)
           p == l[1]  q == r[1]  m == s[1]  c1 == c[1]  c2 == c[2]
<1>1. s \in List(Fp, 1) /\ Cong(m, q - p)
  <2> DEFINE n == 1
  <2>1. n \in Nat /\ 1 \in 1 .. n
    OBVIOUS
  <2> HIDE DEF n, s
  <2>2. l \in List(Fp, n) /\ r \in List(Fp, n)
    BY DEF n
  <2>3. s \in List(Fp, n) /\ \A j \in 1 .. n : Cong(s[j], r[j] - l[j])
    BY <2>1, <2>2, SlopeIs DEF s
  <2> QED BY <2>1, <2>3 DEF n
<1>2. c = AddLinear(a, b, l, s)
  BY DEF Step
<1> HIDE DEF s, c
<1>3. p \in Fp /\ q \in Fp /\ m \in Fp
  BY <1>1 DEF List
<1>4. l = <<p>> /\ s = <<m>>
  BY <1>1 DEF List
<1>5. /\ c \in List(Fp, 2) /\ Cong(c1, p + a * m) /\ Cong(c2, b * m)
  <2>1. /\ AddLinear(a, b, <<p>>, <<m>>) \in List(Fp, 2)
        /\ Cong(AddLinear(a, b, <<p>>, <<m>>)[1], p + a * m)
        /\ Cong(AddLinear(a, b, <<p>>, <<m>>)[2], b * m)
    BY <1>3, AddLinearToOne
  <2>2. c = AddLinear(a, b, <<p>>, <<m>>)
    BY <1>2, <1>4
  <2> HIDE DEF p, m
  <2> QED BY <2>1, <2>2
<1>6. c \in List(Int, 2) /\ c1 \in Int /\ c2 \in Int
  BY <1>5, FpIsInt DEF List
<1>7. PolyEval(c, x) \in Fp /\ Cong(PolyEval(c, x), c1 + x * c2)
  BY <1>6, PolyOfTwo
<1> DEFINE v == PolyEval(c, x)
<1>8. v \in Int /\ p \in Int /\ q \in Int /\ m \in Int /\ a \in Int /\ b \in Int
  BY <1>3, <1>7, FpIsInt
<1> HIDE DEF v, p, q, m, c1, c2
<1>9. PICK k1 \in Int : c1 = p + a * m + k1 * P
  BY <1>5 DEF Cong
<1>10. PICK k2 \in Int : c2 = b * m + k2 * P
  BY <1>5 DEF Cong
<1>11. PICK k3 \in Int : v = c1 + x * c2 + k3 * P
  BY <1>7 DEF Cong, v
<1>12. Cong(v, p + (a + x * b) * m)
  <2>1. v = p + (a + x * b) * m + (k1 + x * k2 + k3) * P
    BY <1>6, <1>8, <1>9, <1>10, <1>11, PAssumption
  <2>2. k1 + x * k2 + k3 \in Int
    OBVIOUS
  <2> QED BY <2>1, <2>2 DEF Cong
<1>13. Cong(v, Between(p, q, a + x * b))
  <2> DEFINE y == a + x * b  d == q - p
  <2>1. y \in Int /\ d \in Int /\ Cong(p, p)
    BY <1>8, CongRefl
  <2>2. Cong(m, d)
    BY <1>1 DEF m
  <2>3. Between(p, q, y) = p + y * d
    BY DEF Between
  <2>4. Cong(v, p + y * m)
    BY <1>12
  <2> HIDE DEF y, d
  <2>5. Cong(p + y * m, p + y * d)
    BY <1>8, <2>1, <2>2, CongRlc
  <2>6. p + y * m \in Int /\ p + y * d \in Int
    BY <1>8, <2>1
  <2>7. Cong(v, p + y * d)
    BY <1>8, <2>4, <2>5, <2>6, CongTrans
  <2>8. Cong(v, Between(p, q, y))
    BY <2>3, <2>7
  <2> QED BY <2>8 DEF y
<1> QED
  BY <1>5, <1>7, <1>13 DEF v, p, q, c

LEMMA StepOfTwo ==
  ASSUME NEW l \in List(Fp, 2), NEW r \in List(Fp, 2), NEW a \in Fp, NEW b \in Fp, NEW x \in Int
  PROVE  /\ Step(l, r, a, b) \in List(Fp, 3)
         /\ PolyEval(Step(l, r, a, b), x) \in Fp
         /\ Cong(PolyEval(Step(l, r, a, b), x),
                 Between(PolyEval(l, x), PolyEval(r, x), a + x * b))
<1> DEFINE s == PolyAdd(r, PolyScale(l, P - 1))
           c == Step(l, r, a, b)
           l1 == l[1]  l2 == l[2]  r1 == r[1]  r2 == r[2]  s1 == s[1]  s2 == s[2]
           c1 == c[1]  c2 == c[2]  c3 == c[3]
           p == PolyEval(l, x)  q == PolyEval(r, x)  v == PolyEval(c, x)
<1>1. s \in List(Fp, 2) /\ Cong(s1, r1 - l1) /\ Cong(s2, r2 - l2)
  <2> DEFINE n == 2
  <2>1. n \in Nat /\ 1 \in 1 .. n /\ 2 \in 1 .. n
    OBVIOUS
  <2> HIDE DEF n, s
  <2>2. l \in List(Fp, n) /\ r \in List(Fp, n)
    BY DEF n
  <2>3. s \in List(Fp, n) /\ \A j \in 1 .. n : Cong(s[j], r[j] - l[j])
    BY <2>1, <2>2, SlopeIs DEF s
  <2> QED BY <2>1, <2>3 DEF n
<1>2. c = AddLinear(a, b, l, s)
  BY DEF Step
<1> HIDE DEF s, c
<1>3. /\ c \in List(Fp, 3) /\ Cong(c1, l1 + a * s1) /\ Cong(c2, l2 + a * s2 + b * s1)
      /\ Cong(c3, b * s2)
  BY <1>1, <1>2, AddLinearToTwo
<1>4. /\ c \in List(Int, 3) /\ l \in List(Int, 2) /\ r \in List(Int, 2)
      /\ c1 \in Int /\ c2 \in Int /\ c3 \in Int /\ l1 \in Int /\ l2 \in Int
      /\ r1 \in Int /\ r2 \in Int /\ s1 \in Int /\ s2 \in Int /\ a \in Int /\ b \in Int
  BY <1>1, <1>3, FpIsInt DEF List
<1>5. v \in Fp /\ Cong(v, c1 + x * (c2 + x * c3))
  BY <1>4, PolyOfThree
<1>6. p \in Fp /\ q \in Fp /\ Cong(p, l1 + x * l2) /\ Cong(q, r1 + x * r2)
  BY <1>4, PolyOfTwo
<1>7. v \in Int /\ p \in Int /\ q \in Int
  BY <1>5, <1>6, FpIsInt
<1> HIDE DEF v, p, q, l1, l2, r1, r2, s1, s2, c1, c2, c3
<1> DEFINE y == a + x * b  L == l1 + x * l2  S == s1 + x * s2
<1>8. y \in Int /\ L \in Int /\ S \in Int
  BY <1>4
<1>9. Cong(v, L + y * S)
  <2>1. PICK k1 \in Int : c1 = l1 + a * s1 + k1 * P
    BY <1>3 DEF Cong, c1, l1, s1
  <2>2. PICK k2 \in Int : c2 = l2 + a * s2 + b * s1 + k2 * P
    BY <1>3 DEF Cong, c2, l2, s2, s1
  <2>3. PICK k3 \in Int : c3 = b * s2 + k3 * P
    BY <1>3 DEF Cong, c3, s2
  <2>4. PICK k4 \in Int : v = c1 + x * (c2 + x * c3) + k4 * P
    BY <1>5 DEF Cong
  <2> DEFINE k == k1 + x * (k2 + x * k3) + k4
  <2>5. k \in Int
    OBVIOUS
  <2>6. v = L + y * S + k * P
    BY <1>4, <1>7, <2>1, <2>2, <2>3, <2>4, PAssumption
  <2> HIDE DEF k, y, L, S
  <2> QED BY <2>5, <2>6 DEF Cong
<1>10. Cong(S, q - p)
  <2>1. PICK k1 \in Int : s1 = r1 - l1 + k1 * P
    BY <1>1 DEF Cong, r1, l1, s1
  <2>2. PICK k2 \in Int : s2 = r2 - l2 + k2 * P
    BY <1>1 DEF Cong, r2, l2, s2
  <2>3. PICK k3 \in Int : p = l1 + x * l2 + k3 * P
    BY <1>6 DEF Cong
  <2>4. PICK k4 \in Int : q = r1 + x * r2 + k4 * P
    BY <1>6 DEF Cong
  <2> DEFINE k == k1 + x * k2 + k3 - k4
  <2>5. k \in Int
    OBVIOUS
  <2>6. S = q - p + k * P
    BY <1>4, <1>7, <2>1, <2>2, <2>3, <2>4, PAssumption
  <2> HIDE DEF k, S
  <2> QED BY <2>5, <2>6 DEF Cong
<1>11. Cong(L, p)
  <2>1. Cong(p, L)
    BY <1>6 DEF l1, l2
  <2> QED BY <1>7, <1>8, <2>1, CongSym
<1> HIDE DEF y, L, S
<1>12. Cong(v, Between(p, q, y))
  <2> DEFINE d == q - p
  <2>1. d \in Int /\ Between(p, q, y) = p + y * d
    BY <1>7 DEF Between
  <2>2. Cong(S, d)
    BY <1>10
  <2> HIDE DEF d
  <2>3. Cong(L + y * S, p + y * d)
    BY <1>7, <1>8, <1>11, <2>1, <2>2, CongRlc
  <2>4. L + y * S \in Int /\ p + y * d \in Int
    BY <1>7, <1>8, <2>1
  <2>5. Cong(v, p + y * d)
    BY <1>7, <1>9, <2>3, <2>4, CongTrans
  <2> QED BY <2>1, <2>5
<1> QED
  BY <1>3, <1>5, <1>12 DEF v, p, q, c, y

\* Without its trailing zeros a polynomial has the same values.
LEMMA TrimmedLength ==
  ASSUME NEW n \in Nat, NEW c \in List(Fp, n)
  PROVE  \E m \in 0 .. n : (m = 0 \/ c[m] # 0) /\ \A j \in m + 1 .. n : c[j] = 0
<1> DEFINE Ends(m, k) == (m = 0 \/ c[m] # 0) /\ \A j \in m + 1 .. k : c[j] = 0
           T == {k \in Nat : k <= n => \E m \in 0 .. k : Ends(m, k)}
<1>1. 0 \in T
  OBVIOUS
<1>2. ASSUME NEW k \in Nat, k \in T PROVE k + 1 \in T
  <2> SUFFICES ASSUME k + 1 <= n PROVE \E m \in 0 .. k + 1 : Ends(m, k + 1)
    OBVIOUS
  <2>1. PICK m \in 0 .. k : Ends(m, k)
    BY <1>2
  <2>2. CASE c[k + 1] = 0
    <3>1. Ends(m, k + 1)
      BY <2>1, <2>2
    <3> QED BY <3>1
  <2>3. CASE c[k + 1] # 0
    <3>1. Ends(k + 1, k + 1)
      BY <2>3
    <3> QED BY <3>1
  <2> QED BY <2>2, <2>3
<1>3. n \in T
  <2> HIDE DEF T
  <2> QED BY <1>1, <1>2, SetInduction
<1> QED
  BY <1>3

LEMMA TrimmedIs ==
  ASSUME NEW n \in Nat, NEW c \in List(Fp, n), NEW x \in Int
  PROVE  PolyEval(Trimmed(c), x) = PolyEval(c, x)
<1> DEFINE Ends(m) == (m = 0 \/ c[m] # 0) /\ \A j \in m + 1 .. n : c[j] = 0
           m == CHOOSE k \in 0 .. n : Ends(k)
           t == SubSeq(c, 1, m)
<1>1. Len(c) = n
  BY DEF List
<1>2. Trimmed(c) = t
  BY <1>1 DEF Trimmed
<1>3. m \in 0 .. n /\ Ends(m)
  <2>1. \E k \in 0 .. n : Ends(k)
    BY TrimmedLength
  <2> HIDE DEF Ends
  <2> QED BY <2>1
<1> HIDE DEF m
<1>4. c \in List(Int, n)
  BY FpIsInt DEF List
<1>5. t \in List(Int, m) /\ \A j \in 1 .. m : t[j] = c[j]
  <2>1. /\ t \in Seq(Fp) /\ Len(t) = m /\ \A j \in 1 .. m : t[j] = c[j]
    <3>1. \A j \in 1 .. m : c[j] \in Fp
      BY <1>3 DEF List
    <3>2. /\ t \in Seq(Fp) /\ Len(t) = (IF 1 <= m THEN m - 1 + 1 ELSE 0)
          /\ \A j \in 1 .. m - 1 + 1 : t[j] = c[1 + j - 1]
      BY <1>3, <3>1, SubSeqProperties
    <3>3. m - 1 + 1 = m /\ (IF 1 <= m THEN m - 1 + 1 ELSE 0) = m
      BY <1>3
    <3>4. \A j \in 1 .. m : 1 + j - 1 = j
      BY <1>3
    <3> QED BY <3>2, <3>3, <3>4
  <2> HIDE DEF t
  <2>2. t \in [1 .. m -> Fp]
    BY <2>1
  <2> QED BY <2>1, <2>2, FpIsInt DEF List
<1> HIDE DEF t
<1>6. PICK f \in [0 .. n -> Fp] : HornerRun(f, c, x, n) /\ PolyEval(c, x) = f[n]
  BY <1>4, PolyRun
<1>7. \A j \in 0 .. n - m : f[j] = 0
  <2> DEFINE T == {j \in Nat : j <= n - m => f[j] = 0}
  <2>1. 0 \in T
    BY <1>6 DEF HornerRun
  <2>2. ASSUME NEW i \in Nat, i \in T PROVE i + 1 \in T
    <3> SUFFICES ASSUME i + 1 <= n - m PROVE f[i + 1] = 0
      OBVIOUS
    <3> DEFINE j == i + 1
    <3>1. j \in 1 .. n /\ n + 1 - j \in m + 1 .. n /\ j - 1 = i /\ i <= n - m
      BY <1>3
    <3> HIDE DEF j
    <3>2. f[j] = Rlc(c[n + 1 - j], x, f[j - 1])
      BY <1>6, <3>1 DEF HornerRun
    <3>3. c[n + 1 - j] = 0 /\ f[j - 1] = 0
      BY <1>3, <2>2, <3>1
    <3>4. 0 + x * 0 = 0
      OBVIOUS
    <3> QED BY <3>2, <3>3, <3>4, ZeroMod DEF Rlc, j
  <2>3. \A j \in Nat : j \in T
    <3> HIDE DEF T
    <3> QED BY <2>1, <2>2, SetInduction
  <2> QED BY <1>3, <2>3
<1> DEFINE h == [j \in 0 .. m |-> f[n - m + j]]
<1>8. HornerRun(h, t, x, m)
  <2>1. h[0] = 0
    <3>1. n - m + 0 = n - m /\ n - m \in 0 .. n - m /\ 0 \in 0 .. m
      BY <1>3
    <3> QED BY <1>7, <3>1
  <2>2. ASSUME NEW j \in 1 .. m PROVE h[j] = Rlc(t[m + 1 - j], x, h[j - 1])
    <3>1. /\ n - m + j \in 1 .. n /\ n + 1 - (n - m + j) = m + 1 - j /\ m + 1 - j \in 1 .. m
          /\ (n - m + j) - 1 = n - m + (j - 1) /\ j \in 0 .. m /\ j - 1 \in 0 .. m
      BY <1>3
    <3>2. f[n - m + j] = Rlc(c[n + 1 - (n - m + j)], x, f[(n - m + j) - 1])
      BY <1>6, <3>1 DEF HornerRun
    <3>3. h[j] = f[n - m + j] /\ h[j - 1] = f[n - m + (j - 1)] /\ t[m + 1 - j] = c[m + 1 - j]
      BY <1>5, <3>1
    <3> QED BY <3>1, <3>2, <3>3
  <2> QED BY <2>1, <2>2 DEF HornerRun
<1>9. h[m] = f[n]
  <2>1. m \in 0 .. m /\ n - m + m = n
    BY <1>3
  <2> QED BY <2>1
<1> HIDE DEF h
<1>10. PolyEval(t, x) = h[m]
  <2>1. m \in Nat
    BY <1>3
  <2> QED BY <1>5, <1>8, <2>1, PolyValue
<1> QED
  BY <1>2, <1>6, <1>9, <1>10

LEMMA SetVariableIs ==
  ASSUME NEW n \in {1, 2}, NEW k \in {1, 2}, NEW q \in List(List(Fp, n), 2 * k),
         NEW a \in Fp, NEW b \in Fp
  PROVE  /\ SetVariable(q, a, b) \in List(List(Fp, n + 1), k)
         /\ \A j \in 1 .. k : SetVariable(q, a, b)[j] = Step(q[2 * j - 1], q[2 * j], a, b)
<1> DEFINE f == [j \in 1 .. k |-> Step(q[2 * j - 1], q[2 * j], a, b)]
<1>1. Len(q) \div 2 = k
  <2>1. Len(q) = 2 * k
    BY DEF List
  <2> QED BY <2>1
<1>2. SetVariable(q, a, b) = <<>> \o f
  BY <1>1 DEF SetVariable, Collect, Step, AddLinear
<1>3. ASSUME NEW j \in 1 .. k PROVE f[j] \in List(Fp, n + 1)
  <2> DEFINE l == q[2 * j - 1]  r == q[2 * j]
  <2>1. l \in List(Fp, n) /\ r \in List(Fp, n) /\ f[j] = Step(l, r, a, b)
    BY DEF List
  <2> HIDE DEF l, r, f
  <2> DEFINE x == 0
  <2>2. x \in Int
    OBVIOUS
  <2> HIDE DEF x
  <2>3. CASE n = 1
    <3>1. n + 1 = 2
      BY <2>3
    <3> QED BY <2>1, <2>2, <2>3, <3>1, StepOfOne
  <2>4. CASE n = 2
    <3>1. n + 1 = 3
      BY <2>4
    <3> QED BY <2>1, <2>2, <2>4, <3>1, StepOfTwo
  <2> QED BY <2>3, <2>4
<1> DEFINE S == List(Fp, n + 1)
<1>4. f \in [1 .. k -> S]
  <2> HIDE DEF S
  <2>1. \A j \in 1 .. k : f[j] \in S
    BY <1>3 DEF S
  <2>2. f = [j \in 1 .. k |-> f[j]]
    OBVIOUS
  <2> HIDE DEF f
  <2> QED BY <2>1, <2>2
<1>5. \A j \in 1 .. k : f[j] = Step(q[2 * j - 1], q[2 * j], a, b)
  OBVIOUS
<1> HIDE DEF f, S
<1>6. <<>> \o f = f
  <2>1. k \in Nat
    OBVIOUS
  <2> QED BY <1>4, <2>1, CollectIs
<1> QED
  BY <1>2, <1>4, <1>5, <1>6 DEF List, S

\* The extension after each of its variables is set.
Table0(E)       == <<>> \o [j \in 1 .. 2 ^ NumVars |-> <<E[j]>>]
Table1(E, r, d) == SetVariable(Table0(E), r[1], d[1])
Table2(E, r, d) == SetVariable(Table1(E, r, d), r[2], d[2])

LEMMA ComputeHUnrolled ==
  ASSUME NEW E, NEW r, NEW d
  PROVE  ComputeH(E, r, d)
           = Trimmed((IF NumVars = 1 THEN Table1(E, r, d) ELSE Table2(E, r, d))[1])
<1> DEFINE t0 == Table0(E)  t1 == Table1(E, r, d)  t2 == Table2(E, r, d)
           Rec(h) == h = [i \in 0 .. NumVars |-> IF i = 0 THEN t0
                                                 ELSE SetVariable(h[i - 1], r[i], d[i])]
           c == CHOOSE h : Rec(h)
           e == [i \in 0 .. NumVars |-> IF i = 0 THEN t0 ELSE IF i = 1 THEN t1 ELSE t2]
<1>1. ComputeH(E, r, d) = Trimmed(c[NumVars][1])
  BY DEF ComputeH, Collect, Table0
<1>2. t1 = SetVariable(t0, r[1], d[1]) /\ t2 = SetVariable(t1, r[2], d[2])
  BY DEF Table1, Table2
<1> HIDE DEF t0, t1, t2
<1>3. Rec(e)
  <2>1. ASSUME NEW i \in 0 .. NumVars
        PROVE  e[i] = IF i = 0 THEN t0 ELSE SetVariable(e[i - 1], r[i], d[i])
    <3>1. i = 0 \/ i = 1 \/ i = 2
      BY VariantsAssumption
    <3>2. CASE i = 0
      BY <3>2
    <3>3. CASE i = 1
      <4>1. e[0] = t0 /\ e[i] = t1 /\ i - 1 = 0
        BY <3>3, VariantsAssumption
      <4> HIDE DEF e
      <4> QED BY <1>2, <3>3, <4>1
    <3>4. CASE i = 2
      <4>1. e[1] = t1 /\ e[i] = t2 /\ i - 1 = 1
        BY <3>4, VariantsAssumption
      <4> HIDE DEF e
      <4> QED BY <1>2, <3>4, <4>1
    <3> QED BY <3>1, <3>2, <3>3, <3>4
  <2>2. e = [i \in 0 .. NumVars |-> e[i]]
    OBVIOUS
  <2> HIDE DEF e
  <2> QED BY <2>1, <2>2
<1>4. Rec(c)
  <2> HIDE DEF Rec
  <2> QED BY <1>3
<1> HIDE DEF c
<1>5. /\ c[0] = t0
      /\ \A i \in 1 .. NumVars : c[i] = SetVariable(c[i - 1], r[i], d[i])
  <2>1. c[0] = t0
    BY <1>4, VariantsAssumption
  <2>2. ASSUME NEW i \in 1 .. NumVars PROVE c[i] = SetVariable(c[i - 1], r[i], d[i])
    BY <1>4, VariantsAssumption
  <2> QED BY <2>1, <2>2
<1>6. c[1] = t1
  <2>1. 1 \in 1 .. NumVars /\ 1 - 1 = 0
    BY VariantsAssumption
  <2>2. c[1] = SetVariable(c[1 - 1], r[1], d[1])
    BY <1>5, <2>1
  <2> QED BY <1>2, <1>5, <2>1, <2>2
<1>7. CASE NumVars = 1
  BY <1>1, <1>6, <1>7 DEF t1
<1>8. CASE NumVars = 2
  <2>1. 2 \in 1 .. NumVars /\ 2 - 1 = 1
    BY <1>8
  <2>2. c[2] = SetVariable(c[2 - 1], r[2], d[2])
    BY <1>5, <2>1
  <2>3. c[NumVars] = t2
    BY <1>2, <1>6, <1>8, <2>1, <2>2
  <2> QED BY <1>1, <1>8, <2>3 DEF t2
<1> QED
  BY <1>7, <1>8, VariantsAssumption

LEMMA Table0Is ==
  ASSUME NEW E \in Vec
  PROVE  /\ Table0(E) \in List(List(Fp, 1), 2 ^ NumVars)
         /\ \A j \in 1 .. 2 ^ NumVars : Table0(E)[j] = <<E[j]>>
<1> DEFINE n == 2 ^ NumVars
           f == [j \in 1 .. n |-> <<E[j]>>]
           S == List(Fp, 1)
<1>1. n = 2 \/ n = 4
  <2>1. CASE NumVars = 1
    BY <2>1
  <2>2. CASE NumVars = 2
    BY <2>2
  <2> QED BY <2>1, <2>2, VariantsAssumption
<1> HIDE DEF n
<1>2. ASSUME NEW j \in 1 .. n PROVE <<E[j]>> \in List(Fp, 1)
  <2>1. E[j] \in Fp
    BY <1>1 DEF Vec, Slot
  <2> QED BY <2>1 DEF List
<1>3. f \in [1 .. n -> S]
  <2> HIDE DEF S
  <2> QED BY <1>2 DEF S
<1>4. \A j \in 1 .. n : f[j] = <<E[j]>>
  OBVIOUS
<1>5. Table0(E) = <<>> \o f
  BY DEF Table0, n
<1> HIDE DEF f, S
<1>6. <<>> \o f = f
  <2>1. n \in Nat
    BY <1>1
  <2> QED BY <1>3, <2>1, CollectIs
<1> QED
  BY <1>3, <1>4, <1>5, <1>6 DEF List, S, n

\* compute_h: its values on the line r + d X are those of E's extension.
LEMMA ComputeHIs ==
  ASSUME NEW E \in Vec, NEW r, NEW d, NEW x \in Int, NEW y,
         \A i \in 1 .. NumVars : r[i] \in Fp /\ d[i] \in Fp,
         \A i \in 1 .. NumVars : y[i] \in Int /\ Cong(y[i], r[i] + x * d[i])
  PROVE  PolyEval(ComputeH(E, r, d), x) \in Fp /\ Cong(PolyEval(ComputeH(E, r, d), x), Mle(E, y))
<1> DEFINE t0 == Table0(E)  t1 == Table1(E, r, d)  t2 == Table2(E, r, d)
           w == [i \in 1 .. NumVars |-> r[i] + x * d[i]]
<1>1. t1 = SetVariable(t0, r[1], d[1]) /\ t2 = SetVariable(t1, r[2], d[2])
  BY DEF Table1, Table2
<1>2. t0 \in List(List(Fp, 1), 2 ^ NumVars) /\ \A j \in 1 .. 2 ^ NumVars : t0[j] = <<E[j]>>
  BY Table0Is
<1>3. \A i \in 1 .. NumVars : w[i] = r[i] + x * d[i] /\ w[i] \in Int /\ r[i] \in Fp /\ d[i] \in Fp
  BY FpIsInt
<1>4. Cong(Mle(E, w), Mle(E, y)) /\ Mle(E, w) \in Int /\ Mle(E, y) \in Int
  <2>1. \A i \in 1 .. NumVars : w[i] \in Int /\ y[i] \in Int /\ Cong(w[i], y[i])
    BY <1>3, CongSym
  <2> HIDE DEF w
  <2> QED BY <2>1, MleCong
<1> HIDE DEF t0, t1, t2, w
<1>5. r[1] \in Fp /\ d[1] \in Fp /\ w[1] = r[1] + x * d[1]
  BY <1>3, VariantsAssumption
<1>6. /\ E[1] \in Fp /\ E[2] \in Fp /\ E[3] \in Fp /\ E[4] \in Fp
  BY Rows
<1>7. ASSUME NEW j \in {1, 2}, 2 * j <= 2 ^ NumVars
      PROVE  LET s == Step(t0[2 * j - 1], t0[2 * j], r[1], d[1])
             IN  /\ s \in List(Fp, 2) /\ PolyEval(s, x) \in Fp
                 /\ Cong(PolyEval(s, x), Between(E[2 * j - 1], E[2 * j], w[1]))
  <2> DEFINE p == t0[2 * j - 1]  q == t0[2 * j]
  <2>1. p = <<E[2 * j - 1]>> /\ q = <<E[2 * j]>>
    <3>1. 2 * j - 1 \in 1 .. 2 ^ NumVars /\ 2 * j \in 1 .. 2 ^ NumVars
      <4> DEFINE n == 2 ^ NumVars
      <4>1. n \in Int /\ 2 * j <= n
        BY <1>7, VariantsAssumption
      <4> HIDE DEF n
      <4>2. 2 * j - 1 \in 1 .. n /\ 2 * j \in 1 .. n
        BY <4>1
      <4> QED BY <4>2 DEF n
    <3> QED BY <1>2, <3>1
  <2>2. E[2 * j - 1] \in Fp /\ E[2 * j] \in Fp
    BY <1>6
  <2>3. p \in List(Fp, 1) /\ q \in List(Fp, 1) /\ p[1] = E[2 * j - 1] /\ q[1] = E[2 * j]
    BY <2>1, <2>2 DEF List
  <2> HIDE DEF p, q
  <2>4. /\ Step(p, q, r[1], d[1]) \in List(Fp, 2) /\ PolyEval(Step(p, q, r[1], d[1]), x) \in Fp
        /\ Cong(PolyEval(Step(p, q, r[1], d[1]), x), Between(p[1], q[1], r[1] + x * d[1]))
    BY <1>5, <2>3, StepOfOne
  <2> QED BY <1>5, <2>3, <2>4 DEF p, q
<1> DEFINE h == ComputeH(E, r, d)  v == PolyEval(h, x)
<1>8. v \in Fp /\ Cong(v, Mle(E, w))
  <2>1. CASE NumVars = 1
    <3> DEFINE o == 1  p == Step(t0[1], t0[2], r[1], d[1])
    <3>1. t0 \in List(List(Fp, o), 2 * o) /\ o \in {1, 2} /\ 1 \in 1 .. o
      <4>1. 2 ^ NumVars = 2 * o
        BY <2>1
      <4> HIDE DEF o
      <4>2. List(List(Fp, 1), 2 ^ NumVars) = List(List(Fp, o), 2 * o)
        BY <4>1 DEF o
      <4> QED BY <1>2, <4>2 DEF o
    <3>2. 2 * 1 = 2 /\ 2 * 1 - 1 = 1 /\ 2 * 1 <= 2 ^ NumVars
      BY <2>1
    <3> HIDE DEF o
    <3>3. \A j \in 1 .. o : t1[j] = Step(t0[2 * j - 1], t0[2 * j], r[1], d[1])
      BY <1>1, <1>5, <3>1, SetVariableIs
    <3>4. t1[1] = p
      BY <3>1, <3>2, <3>3
    <3>5. p \in List(Fp, 2) /\ PolyEval(p, x) \in Fp
          /\ Cong(PolyEval(p, x), Between(E[1], E[2], w[1]))
      BY <1>7, <3>2
    <3>6. h = Trimmed(p)
      BY <2>1, <3>4, ComputeHUnrolled DEF t1
    <3> HIDE DEF h, p
    <3>7. PolyEval(Trimmed(p), x) = PolyEval(p, x)
      BY <3>5, TrimmedIs
    <3> QED BY <2>1, <3>5, <3>6, <3>7 DEF Mle
  <2>2. CASE NumVars = 2
    <3> DEFINE o == 1  m == 2
               p == Step(t0[1], t0[2], r[1], d[1])  q == Step(t0[3], t0[4], r[1], d[1])
               s == Step(p, q, r[2], d[2])
    <3>1. t0 \in List(List(Fp, o), 2 * m) /\ o \in {1, 2} /\ m \in {1, 2}
      <4>1. 2 ^ NumVars = 2 * m
        BY <2>2
      <4> HIDE DEF o, m
      <4>2. List(List(Fp, 1), 2 ^ NumVars) = List(List(Fp, o), 2 * m)
        BY <4>1 DEF o
      <4> QED BY <1>2, <4>2 DEF o, m
    <3>2. /\ 2 * 1 = 2 /\ 2 * 1 - 1 = 1 /\ 2 * 2 = 4 /\ 2 * 2 - 1 = 3
          /\ 2 * 1 <= 2 ^ NumVars /\ 2 * 2 <= 2 ^ NumVars /\ o + 1 = m
          /\ 1 \in 1 .. m /\ 2 \in 1 .. m /\ 1 \in 1 .. o /\ m = 2 * o
      BY <2>2
    <3> HIDE DEF o, m
    <3>3. /\ t1 \in List(List(Fp, o + 1), m)
          /\ \A j \in 1 .. m : t1[j] = Step(t0[2 * j - 1], t0[2 * j], r[1], d[1])
      BY <1>1, <1>5, <3>1, SetVariableIs
    <3>4. t1[1] = p /\ t1[2] = q
      BY <3>2, <3>3
    <3>5. r[2] \in Fp /\ d[2] \in Fp /\ w[2] = r[2] + x * d[2]
      BY <1>3, <2>2
    <3>6. \A j \in 1 .. o : t2[j] = Step(t1[2 * j - 1], t1[2 * j], r[2], d[2])
      <4>1. t1 \in List(List(Fp, m), 2 * o)
        BY <3>2, <3>3
      <4> QED BY <1>1, <3>1, <3>5, <4>1, SetVariableIs
    <3>7. t2[1] = s
      BY <3>2, <3>4, <3>6
    <3>8. p \in List(Fp, 2) /\ PolyEval(p, x) \in Fp
          /\ Cong(PolyEval(p, x), Between(E[1], E[2], w[1]))
      BY <1>7, <3>2
    <3>9. q \in List(Fp, 2) /\ PolyEval(q, x) \in Fp
          /\ Cong(PolyEval(q, x), Between(E[3], E[4], w[1]))
      BY <1>7, <3>2
    <3>10. h = Trimmed(s)
      BY <2>2, <3>7, ComputeHUnrolled DEF t2
    <3> HIDE DEF h, p, q
    <3>11. s \in List(Fp, 3) /\ PolyEval(s, x) \in Fp
           /\ Cong(PolyEval(s, x), Between(PolyEval(p, x), PolyEval(q, x), w[2]))
      BY <3>5, <3>8, <3>9, StepOfTwo
    <3> HIDE DEF s
    <3>12. PolyEval(Trimmed(s), x) = PolyEval(s, x)
      BY <3>11, TrimmedIs
    <3> DEFINE a == PolyEval(p, x)  b == PolyEval(q, x)
               e == Between(E[1], E[2], w[1])  f == Between(E[3], E[4], w[1])
    <3>13. /\ a \in Int /\ b \in Int /\ w[2] \in Int /\ w[1] \in Int /\ e \in Int /\ f \in Int
           /\ Cong(w[2], w[2])
      <4>1. /\ E[1] \in Int /\ E[2] \in Int /\ E[3] \in Int /\ E[4] \in Int
            /\ w[1] \in Int /\ w[2] \in Int
        BY <1>3, <2>2, Rows
      <4> QED BY <3>8, <3>9, <4>1, FpIsInt, CongRefl DEF Between
    <3> HIDE DEF a, b, e, f
    <3>14. /\ Between(a, b, w[2]) \in Int /\ Between(e, f, w[2]) \in Int
           /\ Cong(Between(a, b, w[2]), Between(e, f, w[2]))
      BY <3>8, <3>9, <3>13, BetweenCong DEF a, b, e, f
    <3>15. Mle(E, w) = Between(e, f, w[2])
      BY <2>2 DEF Mle, e, f
    <3>16. Cong(PolyEval(s, x), Between(a, b, w[2])) /\ PolyEval(s, x) \in Int
      BY <3>11, FpIsInt DEF a, b
    <3>17. Cong(PolyEval(s, x), Mle(E, w))
      BY <3>14, <3>15, <3>16, CongTrans
    <3> QED BY <3>10, <3>11, <3>12, <3>17
  <2> QED BY <2>1, <2>2, VariantsAssumption
<1> HIDE DEF v
<1>9. Cong(v, Mle(E, y))
  BY <1>4, <1>8, CongTrans, FpIsInt
<1> QED
  BY <1>8, <1>9 DEF v, h

LEMMA MleAtIs ==
  ASSUME NEW E \in Vec, NEW r, \A i \in 1 .. NumVars : r[i] \in Fp
  PROVE  MleAt(E, r) \in Fp /\ Cong(MleAt(E, r), Mle(E, r))
<1> DEFINE d == [i \in 1 .. NumVars |-> 0]  o == 0
<1>1. <<>> \o d = d
  <2>1. d \in [1 .. NumVars -> Fp] /\ NumVars \in Nat
    BY VariantsAssumption, ZeroOneInFp
  <2> HIDE DEF d
  <2> QED BY <2>1, CollectIs
<1>2. MleAt(E, r) = PolyEval(ComputeH(E, r, d), o)
  BY <1>1 DEF MleAt, Collect
<1>3. o \in Int /\ \A i \in 1 .. NumVars : r[i] \in Fp /\ d[i] \in Fp
  BY ZeroOneInFp
<1>4. ASSUME NEW i \in 1 .. NumVars PROVE r[i] \in Int /\ Cong(r[i], r[i] + o * d[i])
  <2>1. r[i] \in Int /\ r[i] + o * d[i] = r[i]
    BY FpIsInt
  <2> QED BY <2>1, CongRefl
<1> HIDE DEF d, o
<1> QED
  BY <1>2, <1>3, <1>4, ComputeHIs

\* Where the running error vector is evaluated, and to what.
MovaPlaced(w, u) == u.rE \in [1 .. NumVars -> Fp] /\ u.mleE = MleAt(w.E, u.rE)

\* A fresh pair without aux is at a point drawn; all fresh ones are zero wherever they are.
LEMMA MovaFreshPlaced ==
  ASSUME NEW z \in Incoming, NEW rW \in Blinders, NEW aux \in Seq(Fp), NEW draw \in Points
  PROVE  LET w == MovaWitness(WitnessOf(z, Cs.l), rW)
             u == MovaInstance(Gens, w, PublicOf(z, Cs.l), aux, draw)
         IN  /\ w.E = ZeroVec /\ u.mleE = 0 /\ u.rE \in Seq(Fp)
             /\ aux = <<>> => MovaPlaced(w, u)
<1> DEFINE w == MovaWitness(WitnessOf(z, Cs.l), rW)
           u == MovaInstance(Gens, w, PublicOf(z, Cs.l), aux, draw)
<1>1. w.E = ZeroVec /\ u.mleE = 0 /\ u.rE = MovaPoint(aux, draw)
  BY DEF MovaWitness, MovaInstance
<1> HIDE DEF w, u
<1>2. draw \in [1 .. NumVars -> Fp] /\ draw \in Seq(Fp)
  <2>1. draw \in [1 .. NumVars -> Fp] /\ NumVars \in Nat
    BY VariantsAssumption, VariantInputsAssumption
  <2> QED BY <2>1, CollectIs
<1>3. u.rE \in Seq(Fp) /\ (aux = <<>> => u.rE = draw)
  <2>1. aux = <<>> => DOMAIN aux = {}
    OBVIOUS
  <2> QED BY <1>1, <1>2, <2>1 DEF MovaPoint
<1>4. ASSUME aux = <<>> PROVE MovaPlaced(w, u)
  <2>1. \A i \in 1 .. NumVars : draw[i] \in Fp /\ draw[i] \in Int
    BY <1>2, FpIsInt
  <2>2. MleAt(ZeroVec, draw) \in Fp /\ Cong(MleAt(ZeroVec, draw), Mle(ZeroVec, draw))
    BY <2>1, ZeroVecInVec, MleAtIs
  <2>3. Mle(ZeroVec, draw) = 0
    BY <2>1, MleOfZero
  <2>4. MleAt(ZeroVec, draw) = 0
    BY <2>2, <2>3, ZeroOneInFp, EqOfCong
  <2> QED BY <1>1, <1>2, <1>3, <1>4, <2>4 DEF MovaPlaced
<1> QED
  BY <1>1, <1>3, <1>4 DEF w, u

\* The line through a point and a point of no less coordinates.
LEMMA LineIs ==
  ASSUME NEW p \in [1 .. NumVars -> Fp], NEW q \in Seq(Fp), Len(q) >= NumVars, NEW x \in Fp
  PROVE  LET d == Direction(p, q)
             l == ComputeL(p, d, x)
         IN  /\ \A i \in 1 .. NumVars : p[i] \in Fp /\ d[i] \in Fp
             /\ l \in [1 .. NumVars -> Fp]
             /\ \A i \in 1 .. NumVars : l[i] \in Int /\ Cong(l[i], p[i] + x * d[i])
<1> DEFINE f == [i \in 1 .. NumVars |-> (p[i] - q[i]) % P]
           d == Direction(p, q)
           g == [i \in 1 .. NumVars |-> (p[i] + x * d[i]) % P]
           l == ComputeL(p, d, x)
<1>1. NumVars \in Nat /\ Len(p) = NumVars
  BY VariantsAssumption, CollectIs
<1>2. \A i \in 1 .. NumVars : p[i] \in Fp /\ q[i] \in Fp /\ p[i] \in Int /\ q[i] \in Int
  BY VariantsAssumption, FpIsInt
<1>3. f \in [1 .. NumVars -> Fp]
  <2>1. ASSUME NEW i \in 1 .. NumVars PROVE (p[i] - q[i]) % P \in Fp
    <3>1. p[i] - q[i] \in Int
      BY <1>2
    <3> QED BY <3>1, ModInFp
  <2> QED BY <2>1
<1>4. d = <<>> \o f
  BY <1>1 DEF Direction, Collect
<1>5. d \in [1 .. NumVars -> Fp]
  <2> HIDE DEF f, d
  <2> QED BY <1>1, <1>3, <1>4, CollectIs
<1>6. l = <<>> \o g
  BY <1>1 DEF ComputeL, Collect
<1> HIDE DEF d
<1>7. ASSUME NEW i \in 1 .. NumVars
      PROVE  p[i] + x * d[i] \in Int /\ d[i] \in Fp
  BY <1>2, <1>5, FpIsInt
<1>8. g \in [1 .. NumVars -> Fp] /\ \A i \in 1 .. NumVars : g[i] = (p[i] + x * d[i]) % P
  BY <1>7, ModInFp
<1> HIDE DEF g, l
<1>9. l = g
  BY <1>1, <1>6, <1>8, CollectIs
<1>10. \A i \in 1 .. NumVars : l[i] \in Int /\ Cong(l[i], p[i] + x * d[i])
  BY <1>7, <1>8, <1>9, FpIsInt, CongOfMod
<1> QED
  BY <1>2, <1>7, <1>8, <1>9, <1>10 DEF d, l

\* The verifier who has the running evaluation refuses no proof of the prover's, and
\* the folded error vector has the folded evaluation at the point both move to.
LEMMA MovaVerifyAccepts ==
  ASSUME NEW tr, NEW V, NEW X, NEW w, NEW u, NEW p, NEW v,
         p = MovaProve(Cs, tr, pp_hash, V, X, w, u), p.ret = "Ok",
         v = MovaVerify(tr, pp_hash, X, u, p.proof),
         V.E \in Vec, ComputeT(Cs, X, V, u, w) \in Vec, MovaPlaced(V, X),
         w.E = ZeroVec, u.mleE = 0, u.rE \in Seq(Fp)
  PROVE  v.ret = "Ok" /\ MovaPlaced(p.W, p.U)
<1> DEFINE open  == MovaOpening(tr, pp_hash, X, u)
           lp    == LineProve(open, V, X, w, u)
           lv    == LineVerify(open, X, u, p.proof)
           T     == ComputeT(Cs, X, V, u, w)
           t     == MleAt(T, lp.rE)
           alpha == FoldChallenge(lp.tr, lp.e1, lp.e2, t)
           d     == Direction(X.rE, u.rE)
           h1    == ComputeH(V.E, X.rE, d)
           h2    == ComputeH(w.E, X.rE, d)
           beta  == LineChallenge(open, h1, h2)
           l     == ComputeL(X.rE, d, beta.r)
           a     == alpha.r
<1>1. lp.ret = "Ok"
  BY DEF MovaProve
<1>2. p = [ret |-> "Ok", tr |-> alpha.tr,
            W |-> MovaFoldWitness(alpha.r, V, w, T),
            U |-> MovaFoldInstance(alpha.r, X, u, lp.rE, lp.e1, lp.e2, t),
            proof |-> [h1 |-> lp.h1, h2 |-> lp.h2, e1 |-> lp.e1, e2 |-> lp.e2, t |-> t]]
  BY <1>1 DEF MovaProve
<1>3. /\ lp.h1 = h1 /\ lp.h2 = h2 /\ lp.rE = l
      /\ lp.e1 = PolyEval(h1, beta.r) /\ lp.e2 = PolyEval(h2, beta.r)
      /\ ~(Len(u.rE) < NumVars)
  BY <1>1 DEF LineProve
<1>4. /\ p.proof.h1 = h1 /\ p.proof.h2 = h2
      /\ p.proof.e1 = PolyEval(h1, beta.r) /\ p.proof.e2 = PolyEval(h2, beta.r)
      /\ p.W.E = VecRlc(VecRlc(V.E, a, T), Sq(a), w.E)
      /\ p.U.rE = l /\ p.U.mleE = Rlc(Rlc(lp.e1, a, t), Sq(a), lp.e2)
  <2>1. /\ p.W = MovaFoldWitness(a, V, w, T)
        /\ p.U = MovaFoldInstance(a, X, u, lp.rE, lp.e1, lp.e2, t)
        /\ p.proof = [h1 |-> lp.h1, h2 |-> lp.h2, e1 |-> lp.e1, e2 |-> lp.e2, t |-> t]
    BY <1>2
  <2> HIDE DEF a, T, t, lp, h1, h2, beta, l
  <2>2. /\ p.W.E = VecRlc(VecRlc(V.E, a, T), Sq(a), w.E)
        /\ p.U.rE = lp.rE /\ p.U.mleE = Rlc(Rlc(lp.e1, a, t), Sq(a), lp.e2)
    BY <2>1 DEF MovaFoldWitness, MovaFoldInstance
  <2> QED BY <1>3, <2>1, <2>2
<1>5. /\ X.rE \in [1 .. NumVars -> Fp] /\ X.mleE = MleAt(V.E, X.rE)
      /\ Len(u.rE) >= NumVars /\ beta.r \in Fp /\ a \in Fp
  <2>1. Len(u.rE) \in Nat /\ NumVars \in Nat
    BY VariantsAssumption
  <2>2. Len(u.rE) >= NumVars
    BY <1>3, <2>1
  <2>3. beta.r \in Fp /\ a \in Fp
    BY RoInFp DEF LineChallenge, FoldChallenge, GetChallenge, Squeeze
  <2> QED BY <2>2, <2>3 DEF MovaPlaced
<1>6. /\ \A i \in 1 .. NumVars : X.rE[i] \in Fp /\ d[i] \in Fp
      /\ l \in [1 .. NumVars -> Fp]
      /\ \A i \in 1 .. NumVars : l[i] \in Int /\ l[i] \in Fp /\ Cong(l[i], X.rE[i] + beta.r * d[i])
  <2> HIDE DEF beta, a
  <2>1. /\ \A i \in 1 .. NumVars : X.rE[i] \in Fp /\ d[i] \in Fp
        /\ l \in [1 .. NumVars -> Fp]
        /\ \A i \in 1 .. NumVars : l[i] \in Int /\ Cong(l[i], X.rE[i] + beta.r * d[i])
    BY <1>5, LineIs
  <2> HIDE DEF l, d
  <2> QED BY <2>1
<1>7. lv.ret = "Ok" => v.ret = "Ok"
  BY DEF MovaVerify
<1>8. PolyEval(h1, 0) = X.mleE /\ PolyEval(h2, 1) = u.mleE => lv.ret = "Ok"
  BY <1>4 DEF LineVerify
<1> HIDE DEF lp, lv, d, l, beta, a, T
<1>9. PolyEval(h1, 0) = X.mleE
  <2> DEFINE o == 0
  <2>1. o \in Int /\ \A i \in 1 .. NumVars : X.rE[i] \in Int /\ Cong(X.rE[i], X.rE[i] + o * d[i])
    <3>1. ASSUME NEW i \in 1 .. NumVars PROVE X.rE[i] \in Int /\ X.rE[i] + 0 * d[i] = X.rE[i]
      BY <1>6, FpIsInt
    <3> QED BY <3>1, CongRefl
  <2> HIDE DEF o
  <2>2. PolyEval(h1, o) \in Fp /\ Cong(PolyEval(h1, o), Mle(V.E, X.rE))
    BY <1>6, <2>1, ComputeHIs
  <2>3. MleAt(V.E, X.rE) \in Fp /\ Cong(MleAt(V.E, X.rE), Mle(V.E, X.rE)) /\ Mle(V.E, X.rE) \in Int
    BY <1>6, <2>1, MleAtIs, MleCong, CongRefl
  <2>4. PolyEval(h1, o) = MleAt(V.E, X.rE)
    BY <2>2, <2>3, CongSym, CongTrans, EqOfCong, FpIsInt
  <2> QED BY <1>5, <2>4 DEF o
<1>10. PolyEval(h2, 1) = u.mleE
  <2> DEFINE o == 1  y == [i \in 1 .. NumVars |-> X.rE[i] + o * d[i]]
  <2>1. o \in Int /\ \A i \in 1 .. NumVars : y[i] \in Int /\ Cong(y[i], X.rE[i] + o * d[i])
    <3>1. ASSUME NEW i \in 1 .. NumVars PROVE y[i] \in Int /\ y[i] = X.rE[i] + o * d[i]
      BY <1>6, FpIsInt
    <3> HIDE DEF y, o
    <3> QED BY <3>1, CongRefl DEF o
  <2> HIDE DEF o, y
  <2>2. PolyEval(h2, o) \in Fp /\ Cong(PolyEval(h2, o), Mle(ZeroVec, y))
    BY <1>6, <2>1, ZeroVecInVec, ComputeHIs
  <2>3. Mle(ZeroVec, y) = 0
    BY <2>1, MleOfZero
  <2>4. PolyEval(h2, o) = 0
    BY <2>2, <2>3, ZeroOneInFp, EqOfCong
  <2> QED BY <2>4 DEF o
<1>11. v.ret = "Ok"
  BY <1>7, <1>8, <1>9, <1>10
<1> DEFINE e1 == PolyEval(h1, beta.r)  e2 == PolyEval(h2, beta.r)
           M == VecRlc(V.E, a, T)  E == VecRlc(M, Sq(a), w.E)
<1>12. /\ e1 \in Fp /\ Cong(e1, Mle(V.E, l))
       /\ e2 \in Fp /\ Cong(e2, Mle(w.E, l))
  <2>1. beta.r \in Int /\ w.E \in Vec
    BY <1>5, FpIsInt, ZeroVecInVec
  <2> QED BY <1>6, <2>1, ComputeHIs
<1>13. t \in Fp /\ Cong(t, Mle(T, l))
  BY <1>3, <1>6, MleAtIs DEF T
<1> HIDE DEF t, e1, e2, h1, h2
<1>14. Rlc(e1, a, t) \in Fp /\ Cong(Rlc(e1, a, t), Mle(M, l)) /\ M \in Vec /\ T \in Vec
  <2>1. T \in Vec
    BY DEF T
  <2> QED BY <1>5, <1>6, <1>12, <1>13, <2>1, MleRlc, VecRlcInVec
<1>15. Sq(a) \in Fp
  BY <1>5, SquareInFp DEF Sq
<1> DEFINE m == Rlc(e1, a, t)
<1> HIDE DEF m, M
<1>16. Rlc(m, Sq(a), e2) \in Fp /\ Cong(Rlc(m, Sq(a), e2), Mle(E, l)) /\ E \in Vec
  <2>1. w.E \in Vec /\ m \in Fp /\ Cong(m, Mle(M, l))
    BY <1>14, ZeroVecInVec DEF m
  <2> QED BY <1>6, <1>12, <1>14, <1>15, <2>1, MleRlc, VecRlcInVec
<1> HIDE DEF E
<1>17. MleAt(E, l) \in Fp /\ Cong(MleAt(E, l), Mle(E, l)) /\ Mle(E, l) \in Int
  BY <1>6, <1>16, MleAtIs, MleCong, CongRefl
<1>18. Rlc(m, Sq(a), e2) = MleAt(E, l)
  BY <1>16, <1>17, CongSym, CongTrans, EqOfCong, FpIsInt
<1>19. p.U.mleE = MleAt(p.W.E, p.U.rE) /\ p.U.rE \in [1 .. NumVars -> Fp]
  BY <1>3, <1>4, <1>6, <1>18 DEF m, M, E, e1, e2
<1> QED
  BY <1>11, <1>19 DEF MovaPlaced

----------------------------------------------------------------------------
\* Ova.

OvaSound(w, u, e) ==
  /\ OvaAsWitness(w, u) \in Witness(Cs.l) /\ AsInstance(u) \in CommittedInstance(Cs.l)
  /\ u.cmWE = CommitBoth(Gens, w.w, e, w.rW)

LEMMA CommitBothCong ==
  ASSUME NEW v \in Vec, NEW e \in Vec, NEW r \in Fp
  PROVE  /\ CommitBoth(Gens, v, e, r) \in Fp
         /\ Commit(Gens, v, r) \in Fp /\ Dot(GensE, e) \in Fp
         /\ Cong(CommitBoth(Gens, v, e, r), Commit(Gens, v, r) + Dot(GensE, e))
<1>1. Commit(Gens, v, r) \in Fp /\ Dot(GensE, e) \in Fp
  BY GensAssumption, VariantsAssumption, CommitCong, DotIsSum
<1>2. Commit(Gens, v, r) + Dot(GensE, e) \in Int
  BY <1>1, FpIsInt
<1> QED
  BY <1>1, <1>2, ModInFp, CongOfMod DEF CommitBoth

\* The commitment to both vectors is linear in both and in the blinder.
LEMMA CommitBothLinear ==
  ASSUME NEW v1 \in Vec, NEW v2 \in Vec, NEW e1 \in Vec, NEW e2 \in Vec,
         NEW r1 \in Fp, NEW r2 \in Fp, NEW s \in Fp
  PROVE  CommitBoth(Gens, VecRlc(v1, s, v2), VecRlc(e1, s, e2), Rlc(r1, s, r2))
           = Rlc(CommitBoth(Gens, v1, e1, r1), s, CommitBoth(Gens, v2, e2, r2))
<1> DEFINE v == VecRlc(v1, s, v2)   e == VecRlc(e1, s, e2)   r == Rlc(r1, s, r2)
           b == CommitBoth(Gens, v, e, r)
           b1 == CommitBoth(Gens, v1, e1, r1)   b2 == CommitBoth(Gens, v2, e2, r2)
           c == Commit(Gens, v, r)
           c1 == Commit(Gens, v1, r1)   c2 == Commit(Gens, v2, r2)
           d == Dot(GensE, e)   d1 == Dot(GensE, e1)   d2 == Dot(GensE, e2)
<1>1. v \in Vec /\ e \in Vec /\ r \in Fp /\ s \in Int
  BY VecRlcInVec, RlcCong, FpIsInt
<1>2. /\ b \in Fp /\ c \in Fp /\ d \in Fp /\ Cong(b, c + d)
      /\ b1 \in Fp /\ c1 \in Fp /\ d1 \in Fp /\ Cong(b1, c1 + d1)
      /\ b2 \in Fp /\ c2 \in Fp /\ d2 \in Fp /\ Cong(b2, c2 + d2)
  <2> HIDE DEF v, e, r
  <2> QED BY <1>1, CommitBothCong
<1>3. c = Rlc(c1, s, c2)
  BY GensAssumption, CommitLinear
<1>4. Cong(d, d1 + s * d2)
  <2>1. \A k \in Slot : Cong(e[k], e1[k] + s * e2[k])
    BY RlcCong DEF VecRlc, Vec
  <2> HIDE DEF e
  <2> QED BY <1>1, <2>1, VariantsAssumption, DotLinear
<1> HIDE DEF v, e, r, b, b1, b2, c, c1, c2, d, d1, d2
<1>5. /\ b \in Int /\ c \in Int /\ d \in Int /\ b1 \in Int /\ c1 \in Int /\ d1 \in Int
      /\ b2 \in Int /\ c2 \in Int /\ d2 \in Int
  BY <1>2, FpIsInt
<1>6. Cong(c, c1 + s * c2)
  BY <1>2, <1>3, RlcCong
<1>7. /\ s * c2 \in Int /\ s * d2 \in Int /\ s * b2 \in Int /\ s * (c2 + d2) \in Int
      /\ c + d \in Int /\ c1 + d1 \in Int /\ c2 + d2 \in Int
  BY <1>1, <1>5
<1>8. /\ c1 + s * c2 \in Int /\ d1 + s * d2 \in Int /\ b1 + s * b2 \in Int
      /\ (c1 + d1) + s * (c2 + d2) \in Int
  BY <1>5, <1>7
<1>9. Cong(c + d, (c1 + s * c2) + (d1 + s * d2))
  BY <1>4, <1>5, <1>6, <1>8, CongAdd
<1>10. (c1 + s * c2) + (d1 + s * d2) = (c1 + d1) + s * (c2 + d2)
  BY <1>1, <1>5
<1>11. Cong(b, (c1 + d1) + s * (c2 + d2))
  BY <1>2, <1>5, <1>7, <1>8, <1>9, <1>10, CongTrans
<1>12. Cong(s * b2, s * (c2 + d2))
  BY <1>1, <1>2, <1>5, <1>7, CongRefl, CongMul
<1>13. Cong(b1 + s * b2, (c1 + d1) + s * (c2 + d2))
  BY <1>2, <1>5, <1>7, <1>12, CongAdd
<1>14. Cong((c1 + d1) + s * (c2 + d2), b1 + s * b2)
  BY <1>8, <1>13, CongSym
<1>15. Cong(b, b1 + s * b2)
  BY <1>5, <1>8, <1>11, <1>14, CongTrans
<1>16. Rlc(b1, s, b2) \in Fp /\ Cong(Rlc(b1, s, b2), b1 + s * b2)
  BY <1>2, RlcCong
<1>17. Cong(b1 + s * b2, Rlc(b1, s, b2))
  BY <1>8, <1>16, CongSym, FpIsInt
<1>18. Cong(b, Rlc(b1, s, b2))
  BY <1>5, <1>8, <1>15, <1>16, <1>17, CongTrans, FpIsInt
<1>19. b = Rlc(b1, s, b2)
  BY <1>2, <1>16, <1>18, EqOfCong
<1> QED
  BY <1>19 DEF b, b1, b2, v, e, r

\* A fresh pair of Ova carries no error, whatever its caller commits to with it.
LEMMA OvaFreshSound ==
  ASSUME NEW z \in Incoming, NEW rW \in Blinders, NEW t
  PROVE  LET w == OvaWitness(WitnessOf(z, Cs.l), rW)
             u == OvaInstance(Gens, w, PublicOf(z, Cs.l), t)
         IN  OvaSound(w, u, t) /\ ComputeE(Cs, w, u) = ZeroVec /\ u.u = 1
<1> DEFINE w == OvaWitness(WitnessOf(z, Cs.l), rW)
           u == OvaInstance(Gens, w, PublicOf(z, Cs.l), t)
<1>1. /\ w.w = WitnessOf(z, Cs.l) /\ w.rW = (IF Hiding THEN rW ELSE 0)
      /\ u.u = 1 /\ u.x = PublicOf(z, Cs.l) /\ u.cmWE = CommitBoth(Gens, w.w, t, w.rW)
  BY DEF OvaWitness, OvaInstance
<1> HIDE DEF w, u
<1>2. ComputeE(Cs, w, u) = ZeroVec
  BY <1>1, FreshParts DEF ComputeE
<1>3. OvaAsWitness(w, u) \in Witness(Cs.l)
  BY <1>1, <1>2, FreshParts, BlinderInFp, CsCircuit, ZeroIsError, ZeroOneInFp
     DEF OvaAsWitness, Witness
<1>4. AsInstance(u) \in CommittedInstance(Cs.l)
  BY <1>1, FreshParts, ZeroOneInFp DEF AsInstance, CommittedInstance
<1>5. OvaSound(w, u, t) /\ ComputeE(Cs, w, u) = ZeroVec /\ u.u = 1
  BY <1>1, <1>2, <1>3, <1>4 DEF OvaSound
<1> QED
  BY <1>5 DEF w, u

\* Its error is what the relation asks for.
LEMMA OvaRelated ==
  ASSUME NEW w, NEW u, NEW e, OvaSound(w, u, e)
  PROVE  Related(OvaAsWitness(w, u), AsInstance(u))
<1>1. DOMAIN u.x = 1 .. Cs.l
  BY DEF OvaSound, AsInstance, CommittedInstance
<1> QED
  BY <1>1 DEF OvaSound, Related, CheckRelation, OvaAsWitness, AsInstance, ComputeE

\* The fold of a pair that opens to its error, or to no error, and a fresh one that
\* opens to the cross term, or to none.
LEMMA OvaFoldSound ==
  ASSUME NEW V, NEW X, NEW w, NEW u, NEW r \in Fp, NEW both \in BOOLEAN,
         ComputeE(Cs, w, u) = ZeroVec, u.u = 1,
         OvaSound(V, X, IF both THEN ComputeE(Cs, V, X) ELSE ZeroVec),
         OvaSound(w, u, IF both THEN CrossTerm(Cs, V, X, w, u.x) ELSE ZeroVec),
         NEW Vf, Vf = OvaFoldWitness(r, V, w),
         NEW Xf, Xf = [u |-> OvaFoldPublic(r, X, u).u, cmWE |-> Rlc(X.cmWE, r, u.cmWE),
                       x |-> OvaFoldPublic(r, X, u).x]
  PROVE  OvaSound(Vf, Xf, IF both THEN ComputeE(Cs, Vf, Xf) ELSE ZeroVec)
<1> DEFINE Vn == OvaAsWitness(V, X)   wn == OvaAsWitness(w, u)
           Xn == AsInstance(X)        un == AsInstance(u)
           T  == ComputeT(Cs, Xn, Vn, un, wn)
           Fn == FoldWitness(r, Vn, wn, T)
           Gn == FoldCommittedInstances(r, Xn, un, 0)
<1>1. Related(Vn, Xn) /\ Related(wn, un)
  BY OvaRelated
<1>2. T \in Vec /\ Related(Fn, Gn)
  BY <1>1, FoldRelated
<1>3. /\ Vn.E \in Vec /\ V.w \in Vec /\ V.rW \in Fp /\ X.u \in Fp
      /\ w.w \in Vec /\ w.rW \in Fp
  BY <1>1 DEF Related, OvaAsWitness, AsInstance, Witness, CommittedInstance, ErrorVec,
              WitnessVec
<1>4. T = CrossTerm(Cs, V, X, w, u.x)
  BY DEF ComputeT, CrossTerm, OvaAsWitness, AsInstance, ComputeE
<1>5. (r * r) % P \in Fp /\ Rlc(0, (r * r) % P, 0) = 0 /\ Rlc(0, r, 0) = 0
  BY SquareInFp, RlcZero, ZeroOneInFp
<1>6. Rlc(X.u, r, 1) = (X.u + r) % P
  <2>1. X.u + r * 1 = X.u + r
    BY <1>3, FpIsInt
  <2> QED BY <2>1 DEF Rlc
<1>7. wn.E = ZeroVec /\ Vn.E = ComputeE(Cs, V, X)
  BY DEF OvaAsWitness
<1> HIDE DEF T
<1>8. AsInstance(Xf) = Gn
  BY <1>5, <1>6 DEF AsInstance, FoldCommittedInstances, OvaFoldPublic
<1>9. Fn.E = VecRlc(Vn.E, r, T)
  <2>1. Fn.E = VecRlc(VecRlc(Vn.E, r, T), (r * r) % P, ZeroVec)
    BY <1>7 DEF FoldWitness
  <2>2. VecRlc(Vn.E, r, T) \in Vec
    BY <1>2, <1>3, VecRlcInVec
  <2> QED BY <1>5, <2>1, <2>2, VecRlcZero
<1>10. Fn.W = Vf.w /\ Fn.rW = Vf.rW /\ Fn.rE = 0
  BY <1>5 DEF FoldWitness, OvaFoldWitness, OvaAsWitness
<1>11. Fn.E = ComputeE(Cs, Vf, Xf)
  <2>1. Gn.u = Xf.u /\ Gn.x = Xf.x
    BY <1>8 DEF AsInstance
  <2> HIDE DEF Fn, Gn
  <2> QED BY <1>2, <1>10, <2>1 DEF Related, CheckRelation, ComputeE
<1>12. OvaAsWitness(Vf, Xf) = Fn
  <2>1. Fn = [E |-> Fn.E, rE |-> Fn.rE, W |-> Fn.W, rW |-> Fn.rW]
    BY DEF FoldWitness
  <2> HIDE DEF Fn
  <2> QED BY <1>10, <1>11, <2>1 DEF OvaAsWitness
<1> DEFINE e1 == IF both THEN Vn.E ELSE ZeroVec
           e2 == IF both THEN T ELSE ZeroVec
<1>13. e1 \in Vec /\ e2 \in Vec
  BY <1>2, <1>3, ZeroVecInVec
<1>14. /\ X.cmWE = CommitBoth(Gens, V.w, e1, V.rW)
       /\ u.cmWE = CommitBoth(Gens, w.w, e2, w.rW)
  BY <1>4, <1>7 DEF OvaSound
<1>15. VecRlc(e1, r, e2) = IF both THEN ComputeE(Cs, Vf, Xf) ELSE ZeroVec
  BY <1>9, <1>11, ZeroVecInVec, VecRlcZero
<1> HIDE DEF e1, e2
<1>16. Rlc(X.cmWE, r, u.cmWE)
         = CommitBoth(Gens, VecRlc(V.w, r, w.w), VecRlc(e1, r, e2), Rlc(V.rW, r, w.rW))
  BY <1>3, <1>13, <1>14, CommitBothLinear, SMTT(30)
<1>17. Xf.cmWE = CommitBoth(Gens, Vf.w, VecRlc(e1, r, e2), Vf.rW)
  BY <1>16 DEF OvaFoldWitness
<1> HIDE DEF Fn, Gn
<1> QED
  BY <1>2, <1>8, <1>12, <1>15, <1>17 DEF OvaSound, Related

----------------------------------------------------------------------------
\* The inductive invariant: Nova's, and what is known of the running pair of the
\* variant.  That the transcripts agree is what makes the prover's witness and the
\* verifier's instance a pair.
VariantInv ==
  /\ Sound(Cs, Gens, W, U) /\ folds \in 0 .. MaxFolds
  /\ withT \in BOOLEAN /\ (scheme = "Ova" => refused = "nobody") /\ refused # "verifier"
  /\ proverU = run.U /\ (refused = "nobody" => proverTr = verifierTr)
  /\ scheme = "Mova" => MovaSound(run.W, run.U) /\ MovaPlaced(run.W, run.U)
  /\ scheme = "Ova" =>
       OvaSound(run.W, run.U, IF withT THEN ComputeE(Cs, run.W, run.U) ELSE ZeroVec)

LEMMA VariantInitSound == VariantInit => VariantInv
<1> SUFFICES ASSUME VariantInit PROVE VariantInv
  OBVIOUS
<1>1. Sound(Cs, Gens, W, U) /\ folds \in 0 .. MaxFolds
  BY InitSound DEF VariantInit, IInv
<1>2. PICK z \in Incoming, rW \in Blinders, draw \in Points : run = OpeningCall(z, rW, draw)
  BY DEF VariantInit
<1>3. CASE scheme = "Nova"
  BY <1>1, <1>3 DEF VariantInit, VariantInv
<1>4. CASE scheme = "Mova"
  <2> DEFINE w == MovaWitness(WitnessOf(z, Cs.l), rW)
             u == MovaInstance(Gens, w, PublicOf(z, Cs.l), <<>>, draw)
  <2>1. MovaSound(w, u) /\ MovaPlaced(w, u)
    <3>1. <<>> \in Seq(Fp)
      OBVIOUS
    <3> QED BY <3>1, MovaFreshSound, MovaFreshPlaced
  <2>2. run = [W |-> w, U |-> u]
    BY <1>2, <1>4 DEF OpeningCall
  <2> HIDE DEF w, u
  <2>3. MovaSound(run.W, run.U) /\ MovaPlaced(run.W, run.U)
    BY <2>1, <2>2
  <2> QED BY <1>1, <1>4, <2>3 DEF VariantInit, VariantInv
<1>5. CASE scheme = "Ova"
  <2> DEFINE w == OvaWitness(WitnessOf(z, Cs.l), rW)
             u == OvaInstance(Gens, w, PublicOf(z, Cs.l), ZeroVec)
  <2>1. OvaSound(w, u, ZeroVec) /\ ComputeE(Cs, w, u) = ZeroVec
    BY OvaFreshSound
  <2>2. run = [W |-> w, U |-> u]
    BY <1>2, <1>5 DEF OpeningCall
  <2> HIDE DEF w, u
  <2>3. OvaSound(run.W, run.U, IF withT THEN ComputeE(Cs, run.W, run.U) ELSE ZeroVec)
    BY <2>1, <2>2
  <2> QED BY <1>1, <1>5, <2>3 DEF VariantInit, VariantInv
<1> QED
  BY <1>3, <1>4, <1>5 DEF VariantInit

LEMMA FoldNovaSound ==
  ASSUME VariantInv, scheme = "Nova", Next, UNCHANGED variantVars
  PROVE  VariantInv'
<1>1. IInv'
  BY NextSound DEF VariantInv, IInv
<1> QED
  BY <1>1 DEF VariantInv, IInv, variantVars

LEMMA FoldMovaSound ==
  ASSUME VariantInv, NEW z \in Incoming, NEW rW \in Blinders, NEW aux \in Auxes,
         NEW draw \in Points, FoldMova(z, rW, aux, draw)
  PROVE  VariantInv'
<1> DEFINE w == MovaWitness(WitnessOf(z, Cs.l), rW)
           u == MovaInstance(Gens, w, PublicOf(z, Cs.l), aux, draw)
           p == MovaProve(Cs, proverTr, pp_hash, run.W, run.U, w, u)
           v == MovaVerify(verifierTr, pp_hash, run.U, u, p.proof)
<1>1. /\ scheme = "Mova" /\ refused = "nobody" /\ folds < MaxFolds /\ folds' = folds + 1
      /\ proverTr' = p.tr
      /\ UNCHANGED <<W, U, scheme, pp_hash, withT>>
      /\ \/ p.ret # "Ok" /\ refused' = "prover" /\ UNCHANGED <<run, proverU, verifierTr>>
         \/ /\ p.ret = "Ok" /\ v.ret # "Ok"
            /\ refused' = "verifier" /\ UNCHANGED <<run, proverU>>
         \/ /\ p.ret = "Ok" /\ v.ret = "Ok" /\ verifierTr' = v.tr
            /\ run' = [W |-> p.W, U |-> v.U] /\ proverU' = p.U /\ UNCHANGED refused
  BY DEF FoldMova
<1>2. /\ MovaSound(w, u) /\ w.E = ZeroVec /\ u.mleE = 0 /\ u.rE \in Seq(Fp)
      /\ MovaSound(run.W, run.U) /\ MovaPlaced(run.W, run.U) /\ proverTr = verifierTr
  <2>1. aux \in Seq(Fp)
    BY VariantInputsAssumption
  <2> QED BY <1>1, <2>1, MovaFreshSound, MovaFreshPlaced DEF VariantInv
<1> HIDE DEF w, u, p, v
<1>3. (Sound(Cs, Gens, W, U) /\ folds \in 0 .. MaxFolds /\ withT \in BOOLEAN)'
  BY <1>1, MaxFoldsAssumption DEF VariantInv
<1>4. CASE refused' = "prover" /\ UNCHANGED <<run, proverU>>
  BY <1>1, <1>3, <1>4 DEF VariantInv
<1>5. p.ret = "Ok" => v.ret = "Ok" /\ MovaPlaced(p.W, p.U)
  <2>1. run.W.E \in Vec /\ ComputeT(Cs, run.U, run.W, u, w) \in Vec
    BY <1>2, MovaCrossTerm
  <2> QED BY <1>2, <2>1, MovaVerifyAccepts DEF p, v
<1>6. CASE /\ p.ret = "Ok" /\ v.ret = "Ok" /\ verifierTr' = v.tr
           /\ run' = [W |-> p.W, U |-> v.U] /\ proverU' = p.U /\ UNCHANGED refused
  <2>1. /\ v.U = p.U /\ v.tr = p.tr
        /\ \E a \in Fp : \E rE, e1, e2, t :
             /\ p.W = MovaFoldWitness(a, run.W, w, ComputeT(Cs, run.U, run.W, u, w))
             /\ p.U = MovaFoldInstance(a, run.U, u, rE, e1, e2, t)
    BY <1>2, <1>6, MovaVerifyAgrees DEF p, v
  <2>2. MovaSound(p.W, p.U)
    BY <1>2, <2>1, MovaFoldSound
  <2> QED BY <1>1, <1>3, <1>5, <1>6, <2>1, <2>2 DEF VariantInv
<1> QED
  BY <1>1, <1>4, <1>5, <1>6

LEMMA FoldOvaSound ==
  ASSUME VariantInv, NEW z \in Incoming, NEW rW \in Blinders, FoldOva(z, rW)
  PROVE  VariantInv'
<1> DEFINE w == OvaWitness(WitnessOf(z, Cs.l), rW)
           x == PublicOf(z, Cs.l)
           t == IF withT THEN CrossTerm(Cs, run.W, run.U, w, x) ELSE ZeroVec
           u == OvaInstance(Gens, w, x, t)
           r == OvaChallenge(proverTr, pp_hash, run.U, u).r
           p == OvaProve(proverTr, pp_hash, run.W, run.U, w, u)
           v == OvaVerify(verifierTr, pp_hash, run.U, u)
<1>1. /\ scheme = "Ova" /\ folds < MaxFolds /\ folds' = folds + 1
      /\ run' = [W |-> p.W, U |-> v.U] /\ proverU' = p.U
      /\ proverTr' = p.tr /\ verifierTr' = v.tr
      /\ UNCHANGED <<W, U, scheme, pp_hash, withT, refused>>
  BY DEF FoldOva
<1>2. /\ refused = "nobody" /\ proverTr = verifierTr /\ withT \in BOOLEAN
      /\ OvaSound(run.W, run.U, IF withT THEN ComputeE(Cs, run.W, run.U) ELSE ZeroVec)
  BY <1>1 DEF VariantInv
<1>3. OvaSound(w, u, t) /\ ComputeE(Cs, w, u) = ZeroVec /\ u.u = 1
  BY OvaFreshSound
<1>4. u.x = x
  BY DEF OvaInstance
<1>5. r \in Fp
  BY RoInFp DEF OvaChallenge, Squeeze
<1>6. /\ p.U = v.U /\ p.tr = v.tr /\ p.W = OvaFoldWitness(r, run.W, w)
      /\ v.U = [u |-> OvaFoldPublic(r, run.U, u).u, cmWE |-> Rlc(run.U.cmWE, r, u.cmWE),
                x |-> OvaFoldPublic(r, run.U, u).x]
  BY <1>2 DEF OvaProve, OvaVerify
<1> HIDE DEF w, x, u, r, p, v
<1>7. OvaSound(p.W, v.U, IF withT THEN ComputeE(Cs, p.W, v.U) ELSE ZeroVec)
  BY <1>2, <1>3, <1>4, <1>5, <1>6, OvaFoldSound
<1>8. (Sound(Cs, Gens, W, U) /\ folds \in 0 .. MaxFolds)'
  BY <1>1, MaxFoldsAssumption DEF VariantInv
<1> QED
  BY <1>1, <1>2, <1>6, <1>7, <1>8 DEF VariantInv

LEMMA VariantInvariant == VariantSpec => []VariantInv
<1>1. VariantInv /\ [VariantNext]_<<vars, variantVars>> => VariantInv'
  <2> SUFFICES ASSUME VariantInv, [VariantNext]_<<vars, variantVars>> PROVE VariantInv'
    OBVIOUS
  <2>1. CASE scheme = "Nova" /\ Next /\ UNCHANGED variantVars
    BY <2>1, FoldNovaSound
  <2>2. ASSUME NEW z \in Incoming, NEW rW \in Blinders, FoldOva(z, rW) PROVE VariantInv'
    BY <2>2, FoldOvaSound
  <2>3. ASSUME NEW z \in Incoming, NEW rW \in Blinders, NEW aux \in Auxes,
               NEW draw \in Points, FoldMova(z, rW, aux, draw)
        PROVE  VariantInv'
    BY <2>3, FoldMovaSound
  <2>4. CASE UNCHANGED <<vars, variantVars>>
    BY <2>4 DEF vars, variantVars, VariantInv
  <2> QED BY <2>1, <2>2, <2>3, <2>4 DEF VariantNext
<1> QED
  BY <1>1, VariantInitSound, PTL DEF VariantSpec

\* The run's Nova pair is that of Spec: it stays in the relation, and its witness
\* opens cmW.
THEOREM VariantSatisfied == VariantSpec => [](Satisfied /\ WitnessOpens)
<1>1. VariantInv => Satisfied /\ WitnessOpens
  BY DEF VariantInv, Sound, Satisfied, WitnessOpens
<1> QED
  BY <1>1, VariantInvariant, PTL

\* Mova: the prover's folded witness satisfies the relation with the instance the
\* verifier folded from the proof alone, opens its commitment, and its error vector
\* evaluates to mleE at the point that the verifier, too, moved to.
THEOREM MovaSatisfiedInvariant == VariantSpec => []MovaSatisfied
<1>1. VariantInv => MovaSatisfied
  BY DEF VariantInv, MovaSound, MovaPlaced, Related, MovaSatisfied, CheckRelation,
         MovaAsWitness, AsInstance
<1> QED
  BY <1>1, VariantInvariant, PTL

\* Ova: the one commitment, which is folded without looking at any error, opens to
\* the folded witness and the error compute_E finds in it.
THEOREM OvaOpensInvariant == VariantSpec => []OvaOpens
<1>1. VariantInv => OvaOpens
  BY DEF VariantInv, OvaSound, OvaOpens
<1> QED
  BY <1>1, VariantInvariant, PTL

\* Both variants: a verifier who folds without the witness refuses no honest proof, and
\* has the prover's instance and, while no one refuses, its transcript.
THEOREM SidesAgreeInvariant == VariantSpec => []SidesAgree
<1>1. VariantInv => SidesAgree
  BY DEF VariantInv, SidesAgree
<1> QED
  BY <1>1, VariantInvariant, PTL
=============================================================================

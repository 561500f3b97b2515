------------------------------ MODULE NIFSProofs ------------------------------
(***************************************************************************)
(* Arithmetic modulo P, for any P > 1, and what one fold preserves.  An    *)
(* equation between field elements is proved by reducing it to congruences *)
(* between integers, which the first lemmas compose, and an identity of    *)
(* integer polynomials.  Folding preserves the relaxed R1CS relation and   *)
(* the openings of the commitments: for every modulus, constraint system,  *)
(* pair of instances, generators and challenge.  KZG's proofs are accepted *)
(* of one commitment only, and the public inputs of a decider's circuit    *)
(* determine the claim and the commitments they were made of.              *)
(***************************************************************************)
EXTENDS CycleFold, Kzg, TLAPS, SequenceTheorems, WellFoundedInduction

Cong(a, b) == \E k \in Int : a = b + k * P

\* Division with remainder.
LEMMA DivMod ==
  ASSUME NEW a \in Int
  PROVE  /\ (a % P) \in Int /\ (a % P) >= 0 /\ (a % P) < P
         /\ (a \div P) \in Int /\ a = P * (a \div P) + (a % P)
BY PAssumption

\* A remainder is a field element.
LEMMA ModInFp == ASSUME NEW a \in Int PROVE (a % P) \in Fp
BY DivMod, PAssumption DEF Fp

LEMMA FpIsInt == ASSUME NEW a \in Fp PROVE a \in Int
BY PAssumption DEF Fp

LEMMA ZeroOneInFp == 0 \in Fp /\ 1 \in Fp
BY PAssumption DEF Fp

\* A number is congruent to its remainder.
LEMMA CongOfMod == ASSUME NEW a \in Int PROVE Cong(a % P, a)
<1>1. (a % P) = a + (-(a \div P)) * P
  BY DivMod, PAssumption
<1>2. -(a \div P) \in Int
  BY DivMod
<1> QED
  BY <1>1, <1>2 DEF Cong

LEMMA CongRefl == ASSUME NEW a \in Int PROVE Cong(a, a)
<1>1. a = a + 0 * P
  BY PAssumption
<1> QED
  BY <1>1 DEF Cong

LEMMA CongSym == ASSUME NEW a \in Int, NEW b \in Int, Cong(a, b) PROVE Cong(b, a)
<1>1. PICK k \in Int : a = b + k * P
  BY DEF Cong
<1>2. b = a + (-k) * P
  BY <1>1, PAssumption
<1> QED
  BY <1>2 DEF Cong

LEMMA CongTrans ==
  ASSUME NEW a \in Int, NEW b \in Int, NEW c \in Int, Cong(a, b), Cong(b, c)
  PROVE  Cong(a, c)
<1>1. PICK k \in Int : a = b + k * P
  BY DEF Cong
<1>2. PICK l \in Int : b = c + l * P
  BY DEF Cong
<1>3. a = c + (k + l) * P
  BY <1>1, <1>2, PAssumption
<1> QED
  BY <1>3 DEF Cong

LEMMA CongAdd ==
  ASSUME NEW a \in Int, NEW b \in Int, NEW c \in Int, NEW d \in Int, Cong(a, b), Cong(c, d)
  PROVE  Cong(a + c, b + d)
<1>1. PICK k \in Int : a = b + k * P
  BY DEF Cong
<1>2. PICK l \in Int : c = d + l * P
  BY DEF Cong
<1>3. a + c = b + d + (k + l) * P
  BY <1>1, <1>2, PAssumption
<1> QED
  BY <1>3 DEF Cong

LEMMA CongSub ==
  ASSUME NEW a \in Int, NEW b \in Int, NEW c \in Int, NEW d \in Int, Cong(a, b), Cong(c, d)
  PROVE  Cong(a - c, b - d)
<1>1. PICK k \in Int : a = b + k * P
  BY DEF Cong
<1>2. PICK l \in Int : c = d + l * P
  BY DEF Cong
<1>3. a - c = b - d + (k - l) * P
  BY <1>1, <1>2, PAssumption
<1> QED
  BY <1>3 DEF Cong

LEMMA CongMul ==
  ASSUME NEW a \in Int, NEW b \in Int, NEW c \in Int, NEW d \in Int, Cong(a, b), Cong(c, d)
  PROVE  Cong(a * c, b * d)
<1>1. PICK k \in Int : a = b + k * P
  BY DEF Cong
<1>2. PICK l \in Int : c = d + l * P
  BY DEF Cong
<1>3. a * c = b * d + (b * l + k * d + k * l * P) * P
  BY <1>1, <1>2, PAssumption
<1>4. b * l + k * d + k * l * P \in Int
  BY PAssumption
<1> QED
  BY <1>3, <1>4 DEF Cong

\* No multiple of P other than 0 lies strictly between -P and P.
LEMMA MultipleGap == ASSUME NEW m \in Int, m # 0 PROVE P * m >= P \/ P * m <= -P
<1>1. CASE m >= 1
  <2>1. P * (m - 1) >= 0
    BY <1>1, PAssumption
  <2> QED
    BY <2>1, PAssumption
<1>2. CASE m <= -1
  <2>1. P * (m + 1) <= 0
    BY <1>2, PAssumption
  <2> QED
    BY <2>1, PAssumption
<1> QED
  BY <1>1, <1>2

\* Congruent numbers have the same remainder.
LEMMA ModOfCong ==
  ASSUME NEW a \in Int, NEW b \in Int, Cong(a, b)
  PROVE  (a % P) = (b % P)
<1>1. PICK k \in Int : a = b + k * P
  BY DEF Cong
<1> DEFINE m == (a \div P) - (b \div P) - k
<1>2. m \in Int
  BY DivMod
<1>3. (b % P) - (a % P) = P * m
  BY <1>1, DivMod, PAssumption
<1>4. (b % P) - (a % P) < P /\ (b % P) - (a % P) > -P
  BY DivMod, PAssumption
<1>5. m = 0
  BY <1>2, <1>3, <1>4, MultipleGap, PAssumption
<1> QED
  BY <1>5, <1>3, DivMod, PAssumption

\* A field element is its own remainder, so congruent field elements are equal.
LEMMA ModOfFp == ASSUME NEW a \in Fp PROVE (a % P) = a
<1>1. a \in Int /\ a >= 0 /\ a < P
  BY PAssumption DEF Fp
<1>2. a - (a % P) = P * (a \div P)
  BY <1>1, DivMod, PAssumption
<1>3. a - (a % P) < P /\ a - (a % P) > -P
  BY <1>1, DivMod, PAssumption
<1>4. (a \div P) = 0
  BY <1>1, <1>2, <1>3, DivMod, MultipleGap, PAssumption
<1> QED
  BY <1>1, <1>2, <1>4, DivMod, PAssumption

LEMMA EqOfCong == ASSUME NEW a \in Fp, NEW b \in Fp, Cong(a, b) PROVE a = b
BY ModOfFp, ModOfCong, FpIsInt

----------------------------------------------------------------------------
\* Summing the entries of a vector over the integers.
Sum8(f) == f[0] + f[1] + f[2] + f[3] + f[4] + f[5] + f[6] + f[7]

\* Distributivity, on the eight terms of a sum.
LEMMA Sum8Distributes ==
  ASSUME NEW f \in [Slot -> Int], NEW g \in [Slot -> Int], NEW h \in [Slot -> Int], NEW c \in Int,
         \A k \in Slot : f[k] = g[k] + c * h[k]
  PROVE  Sum8(f) = Sum8(g) + c * Sum8(h)
<1>1. 0 \in Slot /\ 1 \in Slot /\ 2 \in Slot /\ 3 \in Slot /\ 4 \in Slot /\ 5 \in Slot
      /\ 6 \in Slot /\ 7 \in Slot
  BY DEF Slot
<1>2. ASSUME NEW k \in Slot PROVE g[k] \in Int /\ h[k] \in Int
  OBVIOUS
<1>3. ASSUME NEW h0 \in Int, NEW h1 \in Int, NEW h2 \in Int, NEW h3 \in Int,
             NEW h4 \in Int, NEW h5 \in Int, NEW h6 \in Int, NEW h7 \in Int
      PROVE  c * (h0 + h1 + h2 + h3 + h4 + h5 + h6 + h7)
               = c * h0 + c * h1 + c * h2 + c * h3 + c * h4 + c * h5 + c * h6 + c * h7
  OBVIOUS
<1>4. c * Sum8(h) = c * h[0] + c * h[1] + c * h[2] + c * h[3] + c * h[4] + c * h[5]
                    + c * h[6] + c * h[7]
  BY <1>1, <1>2, <1>3 DEF Sum8
<1>5. /\ f[0] = g[0] + c * h[0] /\ f[1] = g[1] + c * h[1] /\ f[2] = g[2] + c * h[2]
      /\ f[3] = g[3] + c * h[3] /\ f[4] = g[4] + c * h[4] /\ f[5] = g[5] + c * h[5]
      /\ f[6] = g[6] + c * h[6] /\ f[7] = g[7] + c * h[7]
  BY <1>1
<1>6. ASSUME NEW k \in Slot PROVE c * h[k] \in Int
  BY <1>2
<1> QED
  BY <1>1, <1>2, <1>4, <1>5, <1>6 DEF Sum8

LEMMA Sum8InInt == ASSUME NEW f \in [Slot -> Int] PROVE Sum8(f) \in Int
BY DEF Sum8, Slot

\* Sums of congruent terms are congruent.
LEMMA CongSum8 ==
  ASSUME NEW f \in [Slot -> Int], NEW g \in [Slot -> Int], \A k \in Slot : Cong(f[k], g[k])
  PROVE  Cong(Sum8(f), Sum8(g))
<1> DEFINE q == [k \in Slot |-> CHOOSE n \in Int : f[k] = g[k] + n * P]
<1>1. \A k \in Slot : q[k] \in Int /\ f[k] = g[k] + q[k] * P
  BY DEF Cong
<1>2. q \in [Slot -> Int]
  BY <1>1
<1> HIDE DEF q
<1>3. Sum8(f) = Sum8(g) + P * Sum8(q)
  <2>1. \A k \in Slot : f[k] = g[k] + P * q[k]
    BY <1>1, <1>2, PAssumption
  <2> QED
    BY <2>1, <1>2, Sum8Distributes, PAssumption
<1>4. Sum8(q) \in Int /\ Sum8(g) \in Int
  BY <1>2, Sum8InInt
<1>5. Sum8(f) = Sum8(g) + Sum8(q) * P
  BY <1>3, <1>4, PAssumption
<1> QED
  BY <1>4, <1>5 DEF Cong

\* The inner product is a field element, congruent to the sum of the products.
LEMMA DotIsSum ==
  ASSUME NEW a \in Vec, NEW z \in Vec
  PROVE  /\ Dot(a, z) \in Fp
         /\ [k \in Slot |-> a[k] * z[k]] \in [Slot -> Int]
         /\ Cong(Dot(a, z), Sum8([k \in Slot |-> a[k] * z[k]]))
<1> DEFINE f == [k \in Slot |-> a[k] * z[k]]
<1>1. f \in [Slot -> Int]
  BY FpIsInt DEF Vec
<1>2. Sum8(f) \in Int
  BY <1>1, Sum8InInt
<1>3. Dot(a, z) = (Sum8(f) % P)
  BY DEF Dot, Sum8, Slot
<1> HIDE DEF f
<1> QED
  BY <1>1, <1>2, <1>3, ModInFp, CongOfMod DEF f

\* The inner product is linear in its second argument.
LEMMA DotLinear ==
  ASSUME NEW a \in Vec, NEW z \in Vec, NEW y1 \in Vec, NEW y2 \in Vec, NEW r \in Int,
         \A k \in Slot : Cong(z[k], y1[k] + r * y2[k])
  PROVE  Cong(Dot(a, z), Dot(a, y1) + r * Dot(a, y2))
<1> DEFINE f  == [k \in Slot |-> a[k] * z[k]]
           f1 == [k \in Slot |-> a[k] * y1[k]]
           f2 == [k \in Slot |-> a[k] * y2[k]]
           g  == [k \in Slot |-> a[k] * (y1[k] + r * y2[k])]
<1>1. /\ f \in [Slot -> Int] /\ f1 \in [Slot -> Int] /\ f2 \in [Slot -> Int]
      /\ g \in [Slot -> Int]
  BY FpIsInt DEF Vec
<1>2. ASSUME NEW k \in Slot PROVE Cong(f[k], g[k])
  <2>1. a[k] \in Int /\ z[k] \in Int /\ y1[k] \in Int /\ y2[k] \in Int
    BY FpIsInt DEF Vec
  <2>2. y1[k] + r * y2[k] \in Int
    BY <2>1
  <2>3. Cong(a[k] * z[k], a[k] * (y1[k] + r * y2[k]))
    BY <2>1, <2>2, CongRefl, CongMul
  <2> QED
    BY <2>3
<1>3. Sum8(g) = Sum8(f1) + r * Sum8(f2)
  <2>1. \A k \in Slot : a[k] \in Int /\ y1[k] \in Int /\ y2[k] \in Int
    BY FpIsInt DEF Vec
  <2>2. ASSUME NEW k \in Slot PROVE g[k] = f1[k] + r * f2[k]
    <3>1. a[k] * (y1[k] + r * y2[k]) = a[k] * y1[k] + r * (a[k] * y2[k])
      BY <2>1
    <3> QED BY <3>1
  <2> HIDE DEF g, f1, f2
  <2> QED BY <1>1, <2>2, Sum8Distributes
<1>4. Cong(Dot(a, z), Sum8(f)) /\ Cong(Dot(a, y1), Sum8(f1)) /\ Cong(Dot(a, y2), Sum8(f2))
  BY DotIsSum
<1>5. Dot(a, z) \in Int /\ Dot(a, y1) \in Int /\ Dot(a, y2) \in Int
  BY DotIsSum, FpIsInt
<1> HIDE DEF f, f1, f2, g
<1>6. Cong(Sum8(f), Sum8(g))
  BY <1>1, <1>2, CongSum8
<1>7. Sum8(f) \in Int /\ Sum8(g) \in Int /\ Sum8(f1) \in Int /\ Sum8(f2) \in Int
  BY <1>1, Sum8InInt
<1>8. Cong(Dot(a, z), Sum8(g))
  BY <1>4, <1>5, <1>6, <1>7, CongTrans
<1>9. Cong(r * Dot(a, y2), r * Sum8(f2))
  BY <1>4, <1>5, <1>7, CongRefl, CongMul
<1>10. Cong(Dot(a, y1) + r * Dot(a, y2), Sum8(f1) + r * Sum8(f2))
  BY <1>4, <1>5, <1>7, <1>9, CongAdd
<1>11. Cong(Sum8(g), Dot(a, y1) + r * Dot(a, y2))
  BY <1>3, <1>5, <1>7, <1>10, CongSym
<1> QED
  BY <1>5, <1>7, <1>8, <1>11, CongTrans

----------------------------------------------------------------------------
\* The shape of a folding's data.
MatricesOk(cs) == cs.l \in 0 .. 7 /\ cs.A \in Matrix /\ cs.B \in Matrix /\ cs.C \in Matrix

\* Random linear combinations of field elements and of vectors.
LEMMA RlcCong ==
  ASSUME NEW a \in Fp, NEW r \in Fp, NEW b \in Fp
  PROVE  Rlc(a, r, b) \in Fp /\ Cong(Rlc(a, r, b), a + r * b)
<1>1. a \in Int /\ r \in Int /\ b \in Int
  BY FpIsInt
<1>2. a + r * b \in Int
  BY <1>1
<1> QED
  BY <1>2, ModInFp, CongOfMod DEF Rlc

LEMMA VecRlcInVec ==
  ASSUME NEW a \in Vec, NEW r \in Fp, NEW b \in Vec
  PROVE  VecRlc(a, r, b) \in Vec
BY RlcCong DEF VecRlc, Vec

LEMMA RlcZero == ASSUME NEW a \in Fp, NEW r \in Fp PROVE Rlc(a, r, 0) = a
<1>1. a + r * 0 = a
  BY FpIsInt
<1> QED
  BY <1>1, ModOfFp DEF Rlc

LEMMA VecRlcZero == ASSUME NEW v \in Vec, NEW r \in Fp PROVE VecRlc(v, r, ZeroVec) = v
BY RlcZero DEF VecRlc, ZeroVec, Vec

\* A challenge is a field element, whatever the oracle.
LEMMA RoInFp == \A tr : RoElement(tr) \in Fp
BY ZeroOneInFp DEF RoElement

LEMMA SquareInFp == ASSUME NEW r \in Fp PROVE (r * r) % P \in Fp
<1>1. r * r \in Int
  BY FpIsInt
<1> QED
  BY <1>1, ModInFp

LEMMA VecSubInVec ==
  ASSUME NEW a \in Vec, NEW b \in Vec
  PROVE  /\ VecSub(a, b) \in Vec
         /\ \A k \in Slot : Cong(VecSub(a, b)[k], a[k] - b[k])
<1>1. ASSUME NEW k \in Slot PROVE a[k] - b[k] \in Int
  BY FpIsInt DEF Vec
<1> QED
  BY <1>1, ModInFp, CongOfMod DEF VecSub, Vec

LEMMA VecAddInVec ==
  ASSUME NEW a \in Vec, NEW b \in Vec
  PROVE  /\ VecAdd(a, b) \in Vec
         /\ \A k \in Slot : Cong(VecAdd(a, b)[k], a[k] + b[k])
<1>1. ASSUME NEW k \in Slot PROVE a[k] + b[k] \in Int
  BY FpIsInt DEF Vec
<1> QED
  BY <1>1, ModInFp, CongOfMod DEF VecAdd, Vec

LEMMA ZeroVecInVec == ZeroVec \in Vec
BY ZeroOneInFp DEF ZeroVec, Vec

\* Each entry of the evaluation is congruent to Az Bz - u Cz of its row.
LEMMA EvalRow ==
  ASSUME NEW cs, MatricesOk(cs), NEW z \in Vec
  PROVE  /\ EvalAtZ(cs, z) \in Vec
         /\ \A k \in Slot : Cong(EvalAtZ(cs, z)[k],
              Dot(cs.A[k], z) * Dot(cs.B[k], z) - z[0] * Dot(cs.C[k], z))
<1> DEFINE ab == Hadamard(MatVecMul(cs.A, z), MatVecMul(cs.B, z))
           uc == VecScalarMul(MatVecMul(cs.C, z), z[0])
<1>1. ASSUME NEW k \in Slot
      PROVE  /\ Dot(cs.A[k], z) \in Int /\ Dot(cs.B[k], z) \in Int /\ Dot(cs.C[k], z) \in Int
             /\ z[0] \in Int
  <2>1. cs.A[k] \in Vec /\ cs.B[k] \in Vec /\ cs.C[k] \in Vec
    BY DEF MatricesOk, Matrix
  <2>2. Dot(cs.A[k], z) \in Fp /\ Dot(cs.B[k], z) \in Fp /\ Dot(cs.C[k], z) \in Fp
    BY <2>1, DotIsSum
  <2>3. z[0] \in Fp
    BY DEF Vec, Slot
  <2> QED BY <2>2, <2>3, FpIsInt
<1>2. ASSUME NEW k \in Slot
      PROVE  /\ ab[k] = (Dot(cs.A[k], z) * Dot(cs.B[k], z)) % P
             /\ uc[k] = (Dot(cs.C[k], z) * z[0]) % P
  BY DEF Hadamard, MatVecMul, VecScalarMul
<1>3. ab \in Vec /\ uc \in Vec
  <2>1. ASSUME NEW k \in Slot PROVE ab[k] \in Fp /\ uc[k] \in Fp
    <3>1. Dot(cs.A[k], z) * Dot(cs.B[k], z) \in Int /\ Dot(cs.C[k], z) * z[0] \in Int
      BY <1>1
    <3> QED BY <1>2, <3>1, ModInFp
  <2> QED BY <2>1 DEF Vec, Hadamard, VecScalarMul
<1>4. EvalAtZ(cs, z) = VecSub(ab, uc)
  BY DEF EvalAtZ
<1>5. ASSUME NEW k \in Slot
      PROVE  Cong(EvalAtZ(cs, z)[k], Dot(cs.A[k], z) * Dot(cs.B[k], z) - z[0] * Dot(cs.C[k], z))
  <2> DEFINE a == Dot(cs.A[k], z) * Dot(cs.B[k], z)
             c == Dot(cs.C[k], z) * z[0]
  <2>1. a \in Int /\ c \in Int
    BY <1>1
  <2>2. Cong(ab[k], a) /\ Cong(uc[k], c)
    BY <1>2, <2>1, CongOfMod
  <2>3. ab[k] \in Int /\ uc[k] \in Int /\ VecSub(ab, uc)[k] \in Int
    BY <1>3, VecSubInVec, FpIsInt DEF Vec
  <2>4. Cong(VecSub(ab, uc)[k], ab[k] - uc[k])
    BY <1>3, VecSubInVec
  <2>5. Cong(ab[k] - uc[k], a - c)
    BY <2>1, <2>2, <2>3, CongSub
  <2>6. Cong(VecSub(ab, uc)[k], a - c)
    BY <2>1, <2>3, <2>4, <2>5, CongTrans
  <2>7. c = z[0] * Dot(cs.C[k], z)
    BY <1>1
  <2> QED BY <1>4, <2>6, <2>7
<1> QED
  BY <1>3, <1>4, <1>5, VecSubInVec

\* The identity behind Nova's folding, on one constraint: e1 and e2 are the error
\* terms of the two instances, v is the relation evaluated at the sum of the two
\* assignments.
LEMMA CrossTermIdentity ==
  ASSUME NEW a1 \in Int, NEW a2 \in Int, NEW b1 \in Int, NEW b2 \in Int,
         NEW c1 \in Int, NEW c2 \in Int, NEW u1 \in Int, NEW u2 \in Int,
         NEW e1 \in Int, NEW e2 \in Int, NEW v \in Int, NEW r \in Int,
         Cong(e1, a1 * b1 - u1 * c1), Cong(e2, a2 * b2 - u2 * c2),
         Cong(v, (a1 + a2) * (b1 + b2) - (u1 + u2) * (c1 + c2))
  PROVE  Cong(e1 + r * (v - e1 - e2) + (r * r) * e2,
              (a1 + r * a2) * (b1 + r * b2) - (u1 + r * u2) * (c1 + r * c2))
<1>1. PICK k1 \in Int : e1 = a1 * b1 - u1 * c1 + k1 * P
  BY DEF Cong
<1>2. PICK k2 \in Int : e2 = a2 * b2 - u2 * c2 + k2 * P
  BY DEF Cong
<1>3. PICK k3 \in Int : v = (a1 + a2) * (b1 + b2) - (u1 + u2) * (c1 + c2) + k3 * P
  BY DEF Cong
<1> DEFINE k == k1 + r * (k3 - k1 - k2) + (r * r) * k2
<1>4. v - e1 - e2 = a1 * b2 + a2 * b1 - u1 * c2 - u2 * c1 + (k3 - k1 - k2) * P
  BY <1>1, <1>2, <1>3, PAssumption
<1>5. (a1 + r * a2) * (b1 + r * b2) - (u1 + r * u2) * (c1 + r * c2)
        = (a1 * b1 - u1 * c1) + r * (a1 * b2 + a2 * b1 - u1 * c2 - u2 * c1)
          + (r * r) * (a2 * b2 - u2 * c2)
  OBVIOUS
<1>6. e1 + r * (v - e1 - e2) + (r * r) * e2
        = (a1 * b1 - u1 * c1) + r * (a1 * b2 + a2 * b1 - u1 * c2 - u2 * c1)
          + (r * r) * (a2 * b2 - u2 * c2) + k * P
  BY <1>1, <1>2, <1>4, PAssumption
<1>7. k \in Int
  OBVIOUS
<1> HIDE DEF k
<1> QED
  BY <1>5, <1>6, <1>7 DEF Cong

\* What goes into an assignment comes out of it.
LEMMA AssignmentInVec ==
  ASSUME NEW l \in 0 .. 7, NEW u \in Fp, NEW x \in [1 .. l -> Fp], NEW W \in Vec
  PROVE  Assignment(u, x, W) \in Vec
BY DEF Assignment, Vec, Slot

LEMMA WitnessParts ==
  ASSUME NEW l \in 0 .. 7, NEW w \in Witness(l)
  PROVE  w.E \in Vec /\ w.W \in Vec /\ w.rE \in Fp /\ w.rW \in Fp /\ w.E[0] = 0
         /\ \A k \in 0 .. l : w.W[k] = 0
BY DEF Witness, ErrorVec, WitnessVec

LEMMA InstanceParts ==
  ASSUME NEW l \in 0 .. 7, NEW u \in CommittedInstance(l)
  PROVE  u.cmE \in Fp /\ u.u \in Fp /\ u.cmW \in Fp /\ u.x \in [1 .. l -> Fp]
BY DEF CommittedInstance

\* The cross term is a vector, congruent to v - e1 - e2 entry by entry.
LEMMA CrossTermRow ==
  ASSUME NEW cs, MatricesOk(cs),
         NEW W \in Witness(cs.l), NEW U \in CommittedInstance(cs.l),
         NEW w \in Witness(cs.l), NEW u \in CommittedInstance(cs.l),
         NEW v, v = EvalAtZ(cs, VecAdd(Assignment(U.u, U.x, W.W), Assignment(u.u, u.x, w.W)))
  PROVE  /\ v \in Vec
         /\ ComputeT(cs, U, W, u, w) \in Vec
         /\ \A k \in Slot : Cong(ComputeT(cs, U, W, u, w)[k], v[k] - W.E[k] - w.E[k])
<1> DEFINE z1 == Assignment(U.u, U.x, W.W)
           z2 == Assignment(u.u, u.x, w.W)
           T  == ComputeT(cs, U, W, u, w)
           d  == VecSub(v, W.E)
<1>1. cs.l \in 0 .. 7
  BY DEF MatricesOk
<1>2. z1 \in Vec /\ z2 \in Vec
  BY <1>1, WitnessParts, InstanceParts, AssignmentInVec
<1>3. W.E \in Vec /\ w.E \in Vec
  BY <1>1, WitnessParts
<1>4. v \in Vec
  BY <1>2, VecAddInVec, EvalRow
<1>5. d \in Vec /\ T \in Vec /\ T = VecSub(d, w.E)
  BY <1>3, <1>4, VecSubInVec DEF ComputeT
<1>6. ASSUME NEW k \in Slot PROVE Cong(T[k], v[k] - W.E[k] - w.E[k])
  <2>1. T[k] \in Int /\ d[k] \in Int /\ v[k] \in Int /\ W.E[k] \in Int /\ w.E[k] \in Int
    BY <1>3, <1>4, <1>5, FpIsInt DEF Vec
  <2>2. Cong(T[k], d[k] - w.E[k])
    BY <1>3, <1>5, VecSubInVec
  <2>3. Cong(d[k], v[k] - W.E[k])
    BY <1>3, <1>4, VecSubInVec
  <2>4. v[k] - W.E[k] \in Int /\ Cong(w.E[k], w.E[k])
    BY <2>1, CongRefl
  <2>5. Cong(d[k] - w.E[k], (v[k] - W.E[k]) - w.E[k])
    BY <2>1, <2>3, <2>4, CongSub
  <2> QED
    BY <2>1, <2>2, <2>5, CongTrans
<1> QED
  BY <1>4, <1>5, <1>6

\* The relation at a combination of two assignments, on one constraint: a1, b1, c1
\* are the inner products of its rows with the first assignment, u1 the entry 0.
\* (The hypotheses are predicates so that the lemmas can be instantiated.)
Relates(ev, a, b, c, z0) ==
  /\ ev \in Int /\ a \in Int /\ b \in Int /\ c \in Int /\ z0 \in Int
  /\ Cong(ev, a * b - z0 * c)

Combines(s, s1, r, s2) ==
  s \in Int /\ s1 \in Int /\ r \in Int /\ s2 \in Int /\ Cong(s, s1 + r * s2)

LEMMA CombinedRow ==
  ASSUME NEW ev, NEW a, NEW b, NEW c, NEW z0, NEW a1, NEW a2, NEW b1, NEW b2,
         NEW c1, NEW c2, NEW u1, NEW u2, NEW r,
         Relates(ev, a, b, c, z0), Combines(a, a1, r, a2), Combines(b, b1, r, b2),
         Combines(c, c1, r, c2), Combines(z0, u1, r, u2)
  PROVE  Cong(ev, (a1 + r * a2) * (b1 + r * b2) - (u1 + r * u2) * (c1 + r * c2))
<1> USE DEF Relates, Combines
<1> DEFINE af == a1 + r * a2  bf == b1 + r * b2  cf == c1 + r * c2  uf == u1 + r * u2
<1>1. af \in Int /\ bf \in Int /\ cf \in Int /\ uf \in Int
  OBVIOUS
<1>2. Cong(a, af) /\ Cong(b, bf) /\ Cong(c, cf) /\ Cong(z0, uf)
  OBVIOUS
<1> HIDE DEF af, bf, cf, uf
<1>3. Cong(a * b, af * bf) /\ Cong(z0 * c, uf * cf)
  BY <1>1, <1>2, CongMul
<1>4. a * b \in Int /\ z0 * c \in Int /\ af * bf \in Int /\ uf * cf \in Int
  BY <1>1
<1>5. Cong(a * b - z0 * c, af * bf - uf * cf)
  BY <1>3, <1>4, CongSub
<1>6. a * b - z0 * c \in Int /\ af * bf - uf * cf \in Int
  BY <1>4
<1>7. Cong(ev, af * bf - uf * cf)
  BY <1>5, <1>6, CongTrans
<1> QED
  BY <1>7 DEF af, bf, cf, uf

\* The folded error term, on one constraint.
LEMMA FoldedErrorRow ==
  ASSUME NEW e1 \in Fp, NEW e2 \in Fp, NEW t \in Fp, NEW r \in Fp, NEW d \in Int, Cong(t, d)
  PROVE  Cong(Rlc(Rlc(e1, r, t), (r * r) % P, e2), e1 + r * d + (r * r) * e2)
<1> DEFINE m  == Rlc(e1, r, t)
           r2 == (r * r) % P
           e  == Rlc(m, r2, e2)
<1>1. e1 \in Int /\ e2 \in Int /\ t \in Int /\ r \in Int /\ r * r \in Int
  BY FpIsInt
<1>2. r2 \in Fp /\ Cong(r2, r * r)
  BY <1>1, SquareInFp, CongOfMod
<1>3. m \in Fp /\ Cong(m, e1 + r * t)
  BY RlcCong
<1> HIDE DEF m, r2
<1>4. e \in Fp /\ Cong(e, m + r2 * e2)
  BY <1>2, <1>3, RlcCong
<1> HIDE DEF e
<1>5. e \in Int /\ m \in Int /\ r2 \in Int
  BY <1>2, <1>3, <1>4, FpIsInt
<1>6. r * t \in Int /\ r * d \in Int /\ r2 * e2 \in Int /\ (r * r) * e2 \in Int
  BY <1>1, <1>5
<1>7. e1 + r * t \in Int /\ e1 + r * d \in Int
  BY <1>1, <1>6
<1>8. m + r2 * e2 \in Int /\ e1 + r * d + (r * r) * e2 \in Int
  BY <1>5, <1>6, <1>7
<1>9. Cong(r * t, r * d)
  BY <1>1, CongRefl, CongMul
<1>10. Cong(e1 + r * t, e1 + r * d)
  BY <1>1, <1>6, <1>9, CongRefl, CongAdd
<1>11. Cong(m, e1 + r * d)
  BY <1>3, <1>5, <1>7, <1>10, CongTrans
<1>12. Cong(r2 * e2, (r * r) * e2)
  BY <1>1, <1>2, <1>5, CongRefl, CongMul
<1>13. Cong(m + r2 * e2, (e1 + r * d) + (r * r) * e2)
  BY <1>5, <1>6, <1>7, <1>11, <1>12, CongAdd
<1>14. Cong(e, e1 + r * d + (r * r) * e2)
  BY <1>4, <1>5, <1>8, <1>13, CongTrans
<1> QED
  BY <1>14 DEF e, m, r2

\* What the fold of two satisfying rows comes to: the folded error term is the
\* relation at the combined assignment.
LEMMA FoldedRow ==
  ASSUME NEW a1, NEW a2, NEW b1, NEW b2, NEW c1, NEW c2, NEW u1, NEW u2,
         NEW e1 \in Fp, NEW e2 \in Fp, NEW t \in Fp, NEW v \in Int, NEW r \in Fp,
         NEW ev \in Fp,
         Relates(e1, a1, b1, c1, u1), Relates(e2, a2, b2, c2, u2),
         Cong(v, (a1 + a2) * (b1 + b2) - (u1 + u2) * (c1 + c2)),
         Cong(t, v - e1 - e2),
         Cong(ev, (a1 + r * a2) * (b1 + r * b2) - (u1 + r * u2) * (c1 + r * c2))
  PROVE  Rlc(Rlc(e1, r, t), (r * r) % P, e2) = ev
<1> USE DEF Relates
<1> DEFINE e == Rlc(Rlc(e1, r, t), (r * r) % P, e2)
           x == e1 + r * (v - e1 - e2) + (r * r) * e2
           y == (a1 + r * a2) * (b1 + r * b2) - (u1 + r * u2) * (c1 + r * c2)
<1>1. e1 \in Int /\ e2 \in Int /\ t \in Int /\ r \in Int /\ ev \in Int
  BY FpIsInt
<1>2. v - e1 - e2 \in Int
  BY <1>1
<1>3. Cong(e, x)
  BY <1>2, FoldedErrorRow
<1>4. Cong(x, y)
  BY <1>1, CrossTermIdentity, ZenonT(60)
<1>5. e \in Fp
  BY SquareInFp, RlcCong
<1>6. x \in Int
  <2>1. r * (v - e1 - e2) \in Int /\ (r * r) * e2 \in Int
    BY <1>1, <1>2
  <2> QED BY <1>1, <2>1
<1>7. y \in Int
  <2>1. r * a2 \in Int /\ r * b2 \in Int /\ r * u2 \in Int /\ r * c2 \in Int
    BY <1>1
  <2>2. a1 + r * a2 \in Int /\ b1 + r * b2 \in Int /\ u1 + r * u2 \in Int /\ c1 + r * c2 \in Int
    BY <2>1
  <2>3. (a1 + r * a2) * (b1 + r * b2) \in Int /\ (u1 + r * u2) * (c1 + r * c2) \in Int
    BY <2>2
  <2> QED BY <2>3
<1>8. Cong(ev, y)
  OBVIOUS
<1> HIDE DEF e, x, y
<1>9. e \in Int
  BY <1>5, FpIsInt
<1>10. Cong(e, y)
  BY <1>3, <1>4, <1>6, <1>7, <1>9, CongTrans
<1>11. Cong(y, ev)
  BY <1>1, <1>7, <1>8, CongSym
<1>12. Cong(e, ev)
  BY <1>1, <1>7, <1>9, <1>10, <1>11, CongTrans
<1>13. e = ev
  BY <1>5, <1>12, EqOfCong
<1> QED
  BY <1>13 DEF e

\* The evaluation at a combination of two assignments, entry by entry.
LEMMA EvalCombination ==
  ASSUME NEW cs, MatricesOk(cs), NEW z1 \in Vec, NEW z2 \in Vec, NEW z \in Vec, NEW r \in Int,
         \A j \in Slot : Cong(z[j], z1[j] + r * z2[j]),
         NEW k \in Slot
  PROVE  Cong(EvalAtZ(cs, z)[k],
              (Dot(cs.A[k], z1) + r * Dot(cs.A[k], z2)) * (Dot(cs.B[k], z1) + r * Dot(cs.B[k], z2))
              - (z1[0] + r * z2[0]) * (Dot(cs.C[k], z1) + r * Dot(cs.C[k], z2)))
<1>1. cs.A[k] \in Vec /\ cs.B[k] \in Vec /\ cs.C[k] \in Vec
  BY DEF MatricesOk, Matrix
<1>2. /\ Dot(cs.A[k], z1) \in Int /\ Dot(cs.A[k], z2) \in Int /\ Dot(cs.A[k], z) \in Int
      /\ Dot(cs.B[k], z1) \in Int /\ Dot(cs.B[k], z2) \in Int /\ Dot(cs.B[k], z) \in Int
      /\ Dot(cs.C[k], z1) \in Int /\ Dot(cs.C[k], z2) \in Int /\ Dot(cs.C[k], z) \in Int
  BY <1>1, DotIsSum, FpIsInt
<1>3. 0 \in Slot /\ z1[0] \in Int /\ z2[0] \in Int /\ z[0] \in Int /\ EvalAtZ(cs, z)[k] \in Int
  BY EvalRow, FpIsInt DEF Vec, Slot
<1>4. Cong(EvalAtZ(cs, z)[k], Dot(cs.A[k], z) * Dot(cs.B[k], z) - z[0] * Dot(cs.C[k], z))
  BY EvalRow
<1>5. /\ Cong(Dot(cs.A[k], z), Dot(cs.A[k], z1) + r * Dot(cs.A[k], z2))
      /\ Cong(Dot(cs.B[k], z), Dot(cs.B[k], z1) + r * Dot(cs.B[k], z2))
      /\ Cong(Dot(cs.C[k], z), Dot(cs.C[k], z1) + r * Dot(cs.C[k], z2))
  BY <1>1, DotLinear
<1>6. Cong(z[0], z1[0] + r * z2[0])
  BY <1>3
<1>7. Relates(EvalAtZ(cs, z)[k], Dot(cs.A[k], z), Dot(cs.B[k], z), Dot(cs.C[k], z), z[0])
  BY <1>2, <1>3, <1>4 DEF Relates
<1>8. /\ Combines(Dot(cs.A[k], z), Dot(cs.A[k], z1), r, Dot(cs.A[k], z2))
      /\ Combines(Dot(cs.B[k], z), Dot(cs.B[k], z1), r, Dot(cs.B[k], z2))
      /\ Combines(Dot(cs.C[k], z), Dot(cs.C[k], z1), r, Dot(cs.C[k], z2))
      /\ Combines(z[0], z1[0], r, z2[0])
  BY <1>2, <1>3, <1>5, <1>6 DEF Combines
<1> QED
  BY <1>7, <1>8, CombinedRow

\* Folding keeps the relaxed relation: if both pairs satisfy the constraint system
\* then so does their fold, for every challenge and whatever commitment of the
\* cross term is used.
THEOREM FoldPreservesRelation ==
  ASSUME NEW cs, MatricesOk(cs),
         NEW W \in Witness(cs.l), NEW U \in CommittedInstance(cs.l),
         NEW w \in Witness(cs.l), NEW u \in CommittedInstance(cs.l),
         NEW r \in Fp, NEW cmT,
         CheckRelation(cs, W, U), CheckRelation(cs, w, u)
  PROVE  CheckRelation(cs, FoldWitness(r, W, w, ComputeT(cs, U, W, u, w)),
                           FoldCommittedInstances(r, U, u, cmT))
<1> DEFINE z1 == Assignment(U.u, U.x, W.W)
           z2 == Assignment(u.u, u.x, w.W)
           zs == VecAdd(z1, z2)
           zf == VecRlc(z1, r, z2)
           v  == EvalAtZ(cs, zs)
           T  == ComputeT(cs, U, W, u, w)
           E  == VecRlc(VecRlc(W.E, r, T), (r * r) % P, w.E)
<1>1. /\ cs.l \in 0 .. 7 /\ r \in Int
      /\ W.E \in Vec /\ W.W \in Vec /\ w.E \in Vec /\ w.W \in Vec
      /\ U.u \in Fp /\ u.u \in Fp /\ U.x \in [1 .. cs.l -> Fp] /\ u.x \in [1 .. cs.l -> Fp]
  BY WitnessParts, InstanceParts, FpIsInt DEF MatricesOk
<1>2. z1 \in Vec /\ z2 \in Vec
  BY <1>1, AssignmentInVec
<1>3. zs \in Vec /\ zf \in Vec
  BY <1>2, VecAddInVec, VecRlcInVec
<1>4. v \in Vec /\ T \in Vec /\ \A k \in Slot : Cong(T[k], v[k] - W.E[k] - w.E[k])
  BY CrossTermRow
<1>5. E \in Vec
  BY <1>1, <1>4, SquareInFp, VecRlcInVec
<1>6. W.E = EvalAtZ(cs, z1) /\ w.E = EvalAtZ(cs, z2)
  BY DEF CheckRelation
<1>7. Assignment(Rlc(U.u, r, u.u), [k \in DOMAIN U.x |-> Rlc(U.x[k], r, u.x[k])],
                 VecRlc(W.W, r, w.W)) = zf
  <2>1. DOMAIN U.x = 1 .. cs.l /\ DOMAIN u.x = 1 .. cs.l
    BY <1>1
  <2> QED BY <2>1 DEF Assignment, VecRlc
<1>8. /\ \A j \in Slot : Cong(zs[j], z1[j] + 1 * z2[j])
      /\ \A j \in Slot : Cong(zf[j], z1[j] + r * z2[j])
  <2>1. ASSUME NEW j \in Slot PROVE z1[j] \in Fp /\ z2[j] \in Fp
    BY <1>2 DEF Vec
  <2>2. ASSUME NEW j \in Slot PROVE z1[j] + z2[j] = z1[j] + 1 * z2[j]
    BY <2>1, FpIsInt
  <2>3. ASSUME NEW j \in Slot PROVE Cong(zf[j], z1[j] + r * z2[j])
    BY <2>1, RlcCong DEF VecRlc
  <2> QED BY <1>2, <2>2, <2>3, VecAddInVec
<1> HIDE DEF z1, z2, zs, zf, T
<1>9. ASSUME NEW k \in Slot PROVE E[k] = EvalAtZ(cs, zf)[k]
  <2> DEFINE a1 == Dot(cs.A[k], z1)  a2 == Dot(cs.A[k], z2)
             b1 == Dot(cs.B[k], z1)  b2 == Dot(cs.B[k], z2)
             c1 == Dot(cs.C[k], z1)  c2 == Dot(cs.C[k], z2)
  <2>1. cs.A[k] \in Vec /\ cs.B[k] \in Vec /\ cs.C[k] \in Vec
    BY DEF MatricesOk, Matrix
  <2>2. /\ a1 \in Int /\ a2 \in Int /\ b1 \in Int /\ b2 \in Int /\ c1 \in Int /\ c2 \in Int
    BY <1>2, <2>1, DotIsSum, FpIsInt
  <2>3. z1[0] \in Int /\ z2[0] \in Int
    BY <1>2, FpIsInt DEF Vec, Slot
  <2>4. W.E[k] \in Fp /\ w.E[k] \in Fp /\ T[k] \in Fp /\ v[k] \in Int /\ EvalAtZ(cs, zf)[k] \in Fp
    <3>1. EvalAtZ(cs, zf) \in Vec
      BY <1>3, EvalRow
    <3> HIDE DEF v
    <3>2. v[k] \in Fp
      BY <1>4 DEF Vec
    <3> QED BY <1>1, <1>4, <3>1, <3>2, FpIsInt DEF Vec
  <2>5. Relates(W.E[k], a1, b1, c1, z1[0]) /\ Relates(w.E[k], a2, b2, c2, z2[0])
    BY <1>2, <1>6, <2>2, <2>3, <2>4, EvalRow, FpIsInt DEF Relates
  <2>6. Cong(v[k], (a1 + 1 * a2) * (b1 + 1 * b2) - (z1[0] + 1 * z2[0]) * (c1 + 1 * c2))
    BY <1>2, <1>3, <1>8, EvalCombination
  <2>7. Cong(EvalAtZ(cs, zf)[k],
             (a1 + r * a2) * (b1 + r * b2) - (z1[0] + r * z2[0]) * (c1 + r * c2))
    BY <1>1, <1>2, <1>3, <1>8, EvalCombination
  <2>8. E[k] = Rlc(Rlc(W.E[k], r, T[k]), (r * r) % P, w.E[k])
    BY DEF VecRlc
  <2>9. Cong(T[k], v[k] - W.E[k] - w.E[k])
    BY <1>4
  <2> HIDE DEF a1, a2, b1, b2, c1, c2, v
  <2>10. 1 * a2 = a2 /\ 1 * b2 = b2 /\ 1 * c2 = c2 /\ 1 * z2[0] = z2[0]
    BY <2>2, <2>3
  <2>11. Cong(v[k], (a1 + a2) * (b1 + b2) - (z1[0] + z2[0]) * (c1 + c2))
    BY <2>6, <2>10
  <2>12. Rlc(Rlc(W.E[k], r, T[k]), (r * r) % P, w.E[k]) = EvalAtZ(cs, zf)[k]
    BY <2>2, <2>3, <2>4, <2>5, <2>7, <2>9, <2>11, FoldedRow
  <2> QED BY <2>8, <2>12
<1>10. E = EvalAtZ(cs, zf)
  <2>1. EvalAtZ(cs, zf) \in Vec
    BY <1>3, EvalRow
  <2> QED BY <1>5, <1>9, <2>1 DEF Vec
<1>11. DOMAIN [k \in DOMAIN U.x |-> Rlc(U.x[k], r, u.x[k])] = 1 .. cs.l
  BY <1>1
<1> QED
  BY <1>7, <1>10, <1>11 DEF CheckRelation, FoldWitness, FoldCommittedInstances, T

----------------------------------------------------------------------------
\* A commitment is a field element, congruent to the inner product plus the
\* blinder's term.
Blinding(g, r) == IF Hiding THEN g[0] * r ELSE 0

LEMMA CommitCong ==
  ASSUME NEW g \in Vec, NEW v \in Vec, NEW r \in Fp
  PROVE  /\ Commit(g, v, r) \in Fp
         /\ Dot(g, v) \in Int /\ Blinding(g, r) \in Int
         /\ Cong(Commit(g, v, r), Dot(g, v) + Blinding(g, r))
<1>1. g[0] \in Int /\ r \in Int /\ Dot(g, v) \in Int
  <2>1. g[0] \in Int /\ r \in Int
    BY FpIsInt DEF Vec, Slot
  <2>2. Dot(g, v) \in Int
    BY DotIsSum, FpIsInt
  <2> QED BY <2>1, <2>2
<1>2. g[0] * r \in Int
  BY <1>1
<1>3. Blinding(g, r) \in Int
  BY <1>2, HidingAssumption DEF Blinding
<1>4. Dot(g, v) + Blinding(g, r) \in Int
  BY <1>1, <1>3
<1>5. Commit(g, v, r) = (Dot(g, v) + Blinding(g, r)) % P
  BY DEF Commit, Blinding
<1> QED
  BY <1>1, <1>3, <1>4, <1>5, ModInFp, CongOfMod

\* The blinder's term is linear in the blinder.
LEMMA BlindingLinear ==
  ASSUME NEW g \in Vec, NEW r \in Fp, NEW r1 \in Fp, NEW r2 \in Fp, NEW s \in Fp,
         r = Rlc(r1, s, r2)
  PROVE  Cong(Blinding(g, r), Blinding(g, r1) + s * Blinding(g, r2))
<1>1. g[0] \in Int /\ r \in Int /\ r1 \in Int /\ r2 \in Int /\ s \in Int
  BY FpIsInt DEF Vec, Slot
<1>2. CASE Hiding
  <2>1. Cong(r, r1 + s * r2)
    BY RlcCong
  <2>2. r1 + s * r2 \in Int /\ Cong(g[0], g[0])
    BY <1>1, CongRefl
  <2>3. Cong(g[0] * r, g[0] * (r1 + s * r2))
    BY <1>1, <2>1, <2>2, CongMul
  <2> DEFINE h == g[0]
  <2> HIDE DEF h
  <2>4. h * (r1 + s * r2) = h * r1 + s * (h * r2)
    BY <1>1 DEF h
  <2>5. Cong(h * r, h * r1 + s * (h * r2))
    BY <2>3, <2>4 DEF h
  <2> QED BY <1>2, <2>5 DEF Blinding, h
<1>3. CASE ~Hiding
  <2>1. 0 = 0 + s * 0
    BY <1>1
  <2>2. Cong(0, 0 + s * 0)
    BY <2>1, CongRefl
  <2> QED BY <1>3, <2>2 DEF Blinding
<1> QED
  BY <1>2, <1>3

\* Commitments are linear in the vector and in the blinder.
LEMMA CommitLinear ==
  ASSUME NEW g \in Vec, NEW v1 \in Vec, NEW v2 \in Vec,
         NEW r1 \in Fp, NEW r2 \in Fp, NEW s \in Fp
  PROVE  Commit(g, VecRlc(v1, s, v2), Rlc(r1, s, r2))
           = Rlc(Commit(g, v1, r1), s, Commit(g, v2, r2))
<1> DEFINE v == VecRlc(v1, s, v2)
           r == Rlc(r1, s, r2)
           c == Commit(g, v, r)   c1 == Commit(g, v1, r1)   c2 == Commit(g, v2, r2)
           d == Dot(g, v)         d1 == Dot(g, v1)          d2 == Dot(g, v2)
           b == Blinding(g, r)    b1 == Blinding(g, r1)     b2 == Blinding(g, r2)
<1>1. v \in Vec /\ r \in Fp /\ s \in Int
  BY VecRlcInVec, RlcCong, FpIsInt
<1>2. \A k \in Slot : Cong(v[k], v1[k] + s * v2[k])
  BY RlcCong DEF VecRlc, Vec
<1>3. Cong(d, d1 + s * d2)
  <2> HIDE DEF v
  <2> QED BY <1>1, <1>2, DotLinear
<1>4. Cong(b, b1 + s * b2)
  BY <1>1, BlindingLinear
<1> HIDE DEF v, r
<1>5. /\ c \in Fp /\ c1 \in Fp /\ c2 \in Fp
      /\ d \in Int /\ d1 \in Int /\ d2 \in Int /\ b \in Int /\ b1 \in Int /\ b2 \in Int
      /\ Cong(c, d + b) /\ Cong(c1, d1 + b1) /\ Cong(c2, d2 + b2)
  BY <1>1, CommitCong
<1>6. Rlc(c1, s, c2) \in Fp /\ Cong(Rlc(c1, s, c2), c1 + s * c2)
  BY <1>5, RlcCong
<1> HIDE DEF c, c1, c2, d, d1, d2, b, b1, b2
<1>7. c \in Int /\ c1 \in Int /\ c2 \in Int /\ Rlc(c1, s, c2) \in Int
  BY <1>5, <1>6, FpIsInt
<1>8. /\ s * d2 \in Int /\ s * b2 \in Int /\ s * c2 \in Int
  BY <1>1, <1>5, <1>7
<1>9. /\ d + b \in Int /\ d1 + b1 \in Int /\ d2 + b2 \in Int
      /\ d1 + s * d2 \in Int /\ b1 + s * b2 \in Int /\ c1 + s * c2 \in Int
  BY <1>5, <1>7, <1>8
<1>10. Cong(d + b, (d1 + s * d2) + (b1 + s * b2))
  BY <1>3, <1>4, <1>5, <1>9, CongAdd
<1>11. Cong(s * c2, s * (d2 + b2))
  BY <1>1, <1>5, <1>7, <1>9, CongRefl, CongMul
<1>12. s * (d2 + b2) \in Int
  BY <1>1, <1>9
<1>13. Cong(c1 + s * c2, (d1 + b1) + s * (d2 + b2))
  BY <1>5, <1>7, <1>8, <1>9, <1>11, <1>12, CongAdd
<1>14. (d1 + b1) + s * (d2 + b2) = (d1 + s * d2) + (b1 + s * b2)
  BY <1>1, <1>5
<1>15. (d1 + s * d2) + (b1 + s * b2) \in Int
  BY <1>9
<1>16. Cong(c, (d1 + s * d2) + (b1 + s * b2))
  BY <1>5, <1>7, <1>9, <1>10, <1>15, CongTrans
<1>17. Cong((d1 + s * d2) + (b1 + s * b2), c1 + s * c2)
  BY <1>9, <1>13, <1>14, <1>15, CongSym
<1>18. Cong(c1 + s * c2, Rlc(c1, s, c2))
  BY <1>6, <1>7, <1>9, CongSym
<1>19. Cong(c, Rlc(c1, s, c2))
  BY <1>7, <1>9, <1>15, <1>16, <1>17, <1>18, CongTrans
<1>20. c = Rlc(c1, s, c2)
  BY <1>5, <1>6, <1>19, EqOfCong
<1> QED
  BY <1>20 DEF c, c1, c2, v, r

\* Folding keeps the openings: if both witnesses open both commitments of their
\* instances then so does their fold, for every challenge, with the cross term
\* committed to without a blinder (prove and fold_witness of nifs/nova.rs).
THEOREM FoldPreservesOpenings ==
  ASSUME NEW cs, MatricesOk(cs), NEW g \in Vec,
         NEW W \in Witness(cs.l), NEW U \in CommittedInstance(cs.l),
         NEW w \in Witness(cs.l), NEW u \in CommittedInstance(cs.l),
         NEW r \in Fp, NEW T \in Vec
  PROVE  LET Wf == FoldWitness(r, W, w, T)
             Uf == FoldCommittedInstances(r, U, u, Commit(g, T, 0))
         IN  /\ OpensW(g, W, U) /\ OpensW(g, w, u) => OpensW(g, Wf, Uf)
             /\ OpensE(g, W, U) /\ OpensE(g, w, u) => OpensE(g, Wf, Uf)
<1>1. /\ W.E \in Vec /\ W.W \in Vec /\ W.rE \in Fp /\ W.rW \in Fp
      /\ w.E \in Vec /\ w.W \in Vec /\ w.rE \in Fp /\ w.rW \in Fp
  BY WitnessParts DEF MatricesOk
<1> DEFINE r2 == (r * r) % P
           Ea == VecRlc(W.E, r, T)
<1>2. r2 \in Fp /\ Ea \in Vec
  BY <1>1, SquareInFp, VecRlcInVec
<1>3. W.rE = Rlc(W.rE, r, 0)
  <2>1. W.rE + r * 0 = W.rE
    BY <1>1, FpIsInt
  <2> QED BY <1>1, <2>1, ModOfFp DEF Rlc
<1>4. Commit(g, VecRlc(W.W, r, w.W), Rlc(W.rW, r, w.rW))
        = Rlc(Commit(g, W.W, W.rW), r, Commit(g, w.W, w.rW))
  BY <1>1, CommitLinear, SMTT(30)
<1>5. Commit(g, Ea, W.rE) = Rlc(Commit(g, W.E, W.rE), r, Commit(g, T, 0))
  <2>1. Commit(g, VecRlc(W.E, r, T), Rlc(W.rE, r, 0))
          = Rlc(Commit(g, W.E, W.rE), r, Commit(g, T, 0))
    <3> DEFINE rT == 0
    <3>1. rT \in Fp
      BY ZeroOneInFp
    <3> HIDE DEF rT
    <3>2. Commit(g, VecRlc(W.E, r, T), Rlc(W.rE, r, rT))
            = Rlc(Commit(g, W.E, W.rE), r, Commit(g, T, rT))
      BY <1>1, <3>1, CommitLinear, SMTT(30)
    <3> QED BY <3>2 DEF rT
  <2> QED BY <1>3, <2>1
<1> HIDE DEF Ea, r2
<1>6. Commit(g, VecRlc(Ea, r2, w.E), Rlc(W.rE, r2, w.rE))
        = Rlc(Commit(g, Ea, W.rE), r2, Commit(g, w.E, w.rE))
  BY <1>1, <1>2, CommitLinear, SMTT(30)
<1> QED
  BY <1>4, <1>5, <1>6 DEF OpensW, OpensE, FoldWitness, FoldCommittedInstances, Ea, r2

\* The fold of two well-formed pairs is well formed.
LEMMA FoldWellFormed ==
  ASSUME NEW cs, MatricesOk(cs),
         NEW W \in Witness(cs.l), NEW U \in CommittedInstance(cs.l),
         NEW w \in Witness(cs.l), NEW u \in CommittedInstance(cs.l),
         NEW r \in Fp, NEW T \in Vec, T[0] = 0, NEW cmT \in Fp
  PROVE  /\ FoldWitness(r, W, w, T) \in Witness(cs.l)
         /\ FoldCommittedInstances(r, U, u, cmT) \in CommittedInstance(cs.l)
<1> DEFINE r2 == (r * r) % P
           Ea == VecRlc(W.E, r, T)
<1>1. /\ cs.l \in 0 .. 7
      /\ W.E \in Vec /\ W.W \in Vec /\ W.rE \in Fp /\ W.rW \in Fp
      /\ w.E \in Vec /\ w.W \in Vec /\ w.rE \in Fp /\ w.rW \in Fp
      /\ W.E[0] = 0 /\ w.E[0] = 0
      /\ \A k \in 0 .. cs.l : W.W[k] = 0 /\ w.W[k] = 0
  BY WitnessParts DEF MatricesOk
<1>2. /\ U.cmE \in Fp /\ U.u \in Fp /\ U.cmW \in Fp /\ U.x \in [1 .. cs.l -> Fp]
      /\ u.cmE \in Fp /\ u.u \in Fp /\ u.cmW \in Fp /\ u.x \in [1 .. cs.l -> Fp]
  BY <1>1, InstanceParts
<1>3. r2 \in Fp /\ Ea \in Vec
  BY <1>1, SquareInFp, VecRlcInVec
<1>4. ASSUME NEW s \in Fp PROVE Rlc(0, s, 0) = 0
  <2>1. 0 + s * 0 = 0
    BY FpIsInt
  <2> QED BY <2>1, ZeroOneInFp, ModOfFp DEF Rlc
<1>5. Ea[0] = 0
  BY <1>1, <1>4 DEF VecRlc, Slot
<1> HIDE DEF r2, Ea
<1>6. VecRlc(Ea, r2, w.E) \in ErrorVec
  <2>1. VecRlc(Ea, r2, w.E)[0] = 0
    BY <1>1, <1>3, <1>4, <1>5 DEF VecRlc, Slot
  <2> QED BY <1>1, <1>3, <2>1, VecRlcInVec DEF ErrorVec
<1>7. VecRlc(W.W, r, w.W) \in WitnessVec(cs.l)
  <2>1. ASSUME NEW k \in 0 .. cs.l PROVE VecRlc(W.W, r, w.W)[k] = 0
    <3>1. k \in Slot
      BY <1>1 DEF Slot
    <3> QED BY <1>1, <1>4, <3>1 DEF VecRlc
  <2> QED BY <1>1, <2>1, VecRlcInVec DEF WitnessVec
<1>8. Rlc(W.rE, r2, w.rE) \in Fp /\ Rlc(W.rW, r, w.rW) \in Fp
  BY <1>1, <1>3, RlcCong
<1>9. /\ Rlc(Rlc(U.cmE, r, cmT), r2, u.cmE) \in Fp
      /\ Rlc(U.u, r, u.u) \in Fp /\ Rlc(U.cmW, r, u.cmW) \in Fp
  BY <1>2, <1>3, RlcCong
<1>10. [k \in DOMAIN U.x |-> Rlc(U.x[k], r, u.x[k])] \in [1 .. cs.l -> Fp]
  BY <1>2, RlcCong
<1> QED
  BY <1>6, <1>7, <1>8, <1>9, <1>10
  DEF FoldWitness, FoldCommittedInstances, Witness, CommittedInstance, Ea, r2

----------------------------------------------------------------------------
\* A constraint system as the circuits make them: row 0 is empty.
Circuit(cs) ==
  MatricesOk(cs) /\ cs.A[0] = ZeroVec /\ cs.B[0] = ZeroVec /\ cs.C[0] = ZeroVec

LEMMA ZeroMod == (0 % P) = 0
BY ZeroOneInFp, ModOfFp

LEMMA DotZero ==
  ASSUME NEW a \in Vec
  PROVE  Dot(a, ZeroVec) = 0 /\ Dot(ZeroVec, a) = 0
<1>1. \A k \in Slot : a[k] \in Int
  BY FpIsInt DEF Vec
<1>2. /\ a[0] \in Int /\ a[1] \in Int /\ a[2] \in Int /\ a[3] \in Int
      /\ a[4] \in Int /\ a[5] \in Int /\ a[6] \in Int /\ a[7] \in Int
  BY <1>1 DEF Slot
<1>3. ASSUME NEW k \in Slot PROVE ZeroVec[k] = 0 /\ a[k] * 0 = 0 /\ 0 * a[k] = 0
  BY <1>1 DEF ZeroVec
<1>4. Dot(a, ZeroVec) = (0 % P) /\ Dot(ZeroVec, a) = (0 % P)
  BY <1>2, <1>3 DEF Dot, Slot
<1> QED
  BY <1>4, ZeroMod

\* The relation holds at the zero assignment.
LEMMA EvalZero ==
  ASSUME NEW cs, Circuit(cs) PROVE EvalAtZ(cs, ZeroVec) = ZeroVec
<1>1. ASSUME NEW k \in Slot
      PROVE  Dot(cs.A[k], ZeroVec) = 0 /\ Dot(cs.B[k], ZeroVec) = 0 /\ Dot(cs.C[k], ZeroVec) = 0
  BY DotZero DEF Circuit, MatricesOk, Matrix
<1>2. MatVecMul(cs.A, ZeroVec) = ZeroVec /\ MatVecMul(cs.B, ZeroVec) = ZeroVec
      /\ MatVecMul(cs.C, ZeroVec) = ZeroVec
  BY <1>1 DEF MatVecMul, ZeroVec
<1>3. Hadamard(ZeroVec, ZeroVec) = ZeroVec /\ VecSub(ZeroVec, ZeroVec) = ZeroVec
      /\ VecScalarMul(ZeroVec, ZeroVec[0]) = ZeroVec
  <2>1. 0 * 0 = 0 /\ 0 - 0 = 0
    OBVIOUS
  <2> QED BY <2>1, ZeroMod DEF Hadamard, VecSub, VecScalarMul, ZeroVec, Slot
<1> QED
  BY <1>2, <1>3 DEF EvalAtZ

\* Row 0 is empty: every evaluation is an error vector.
LEMMA EvalIsError ==
  ASSUME NEW cs, Circuit(cs), NEW z \in Vec PROVE EvalAtZ(cs, z) \in ErrorVec
<1>1. EvalAtZ(cs, z) \in Vec
  BY EvalRow DEF Circuit
<1>2. Dot(cs.A[0], z) = 0 /\ Dot(cs.B[0], z) = 0 /\ Dot(cs.C[0], z) = 0
  BY DotZero DEF Circuit
<1>3. z[0] \in Int /\ 0 \in Slot
  BY FpIsInt DEF Vec, Slot
<1>4. EvalAtZ(cs, z)[0] = (((0 * 0) % P) - ((0 * z[0]) % P)) % P
  BY <1>2, <1>3 DEF EvalAtZ, VecSub, Hadamard, MatVecMul, VecScalarMul
<1>5. 0 * 0 = 0 /\ 0 * z[0] = 0 /\ 0 - 0 = 0
  BY <1>3
<1>6. EvalAtZ(cs, z)[0] = 0
  BY <1>4, <1>5, ZeroMod
<1> QED
  BY <1>1, <1>6 DEF ErrorVec

LEMMA ZeroIsError ==
  ASSUME NEW cs, Circuit(cs) PROVE ZeroVec \in ErrorVec /\ ZeroVec \in WitnessVec(cs.l)
<1>1. \A k \in 0 .. cs.l : k \in Slot
  BY DEF Circuit, MatricesOk, Slot
<1> QED
  BY <1>1, ZeroVecInVec DEF ErrorVec, WitnessVec, ZeroVec, Slot

\* An assignment is made of its public part and its witness part.
LEMMA SplitZ ==
  ASSUME NEW cs, Circuit(cs), NEW z \in Vec
  PROVE  /\ PublicOf(z, cs.l) \in [1 .. cs.l -> Fp]
         /\ WitnessOf(z, cs.l) \in WitnessVec(cs.l)
         /\ Assignment(z[0], PublicOf(z, cs.l), WitnessOf(z, cs.l)) = z
<1>1. cs.l \in 0 .. 7
  BY DEF Circuit, MatricesOk
<1>2. PublicOf(z, cs.l) \in [1 .. cs.l -> Fp]
  BY <1>1 DEF PublicOf, Vec, Slot
<1>3. WitnessOf(z, cs.l) \in WitnessVec(cs.l)
  BY <1>1, ZeroOneInFp DEF WitnessOf, WitnessVec, Vec, Slot
<1>4. Assignment(z[0], PublicOf(z, cs.l), WitnessOf(z, cs.l)) = z
  BY <1>1 DEF Assignment, PublicOf, WitnessOf, Vec, Slot
<1> QED
  BY <1>2, <1>3, <1>4

\* Without blinding, the zero vector is committed to by the zero point.
LEMMA CommitZero == ASSUME NEW g \in Vec PROVE Commit(g, ZeroVec, 0) = 0
<1>1. g[0] \in Int /\ Dot(g, ZeroVec) = 0
  BY DotZero, FpIsInt DEF Vec, Slot
<1>2. g[0] * 0 = 0 /\ 0 + 0 = 0
  BY <1>1
<1> QED
  BY <1>1, <1>2, ZeroMod, HidingAssumption DEF Commit

----------------------------------------------------------------------------
\* What is known of every pair: it satisfies the relation and opens cmW, and without
\* blinding cmE too.  (With blinding a fresh E is committed to by the zero point.)
Sound(cs, g, w, u) ==
  /\ w \in Witness(cs.l) /\ u \in CommittedInstance(cs.l)
  /\ CheckRelation(cs, w, u)
  /\ OpensW(g, w, u)
  /\ ~Hiding => OpensE(g, w, u)

\* The dummy pair is sound: the running pair of init.
LEMMA DummySound ==
  ASSUME NEW cs, Circuit(cs), NEW g \in Vec
  PROVE  Sound(cs, g, DummyWitness, DummyInstance(cs.l))
<1>1. DummyWitness \in Witness(cs.l)
  BY ZeroIsError, ZeroOneInFp DEF DummyWitness, Witness
<1>2. DummyInstance(cs.l) \in CommittedInstance(cs.l)
  BY ZeroOneInFp DEF DummyInstance, CommittedInstance
<1>3. CheckRelation(cs, DummyWitness, DummyInstance(cs.l))
  <2>1. Assignment(0, [k \in 1 .. cs.l |-> 0], ZeroVec) = ZeroVec
    BY DEF Assignment, ZeroVec
  <2> QED BY <2>1, EvalZero DEF CheckRelation, DummyWitness, DummyInstance
<1>4. OpensW(g, DummyWitness, DummyInstance(cs.l))
      /\ OpensE(g, DummyWitness, DummyInstance(cs.l))
  BY CommitZero DEF OpensW, OpensE, DummyWitness, DummyInstance
<1> QED
  BY <1>1, <1>2, <1>3, <1>4 DEF Sound

\* A fresh satisfying assignment makes a sound pair.
LEMMA FreshSound ==
  ASSUME NEW cs, Circuit(cs), NEW g \in Vec,
         NEW z \in Vec, z[0] = 1, EvalAtZ(cs, z) = ZeroVec, NEW rW \in Fp, NEW rE \in Fp
  PROVE  LET w == NewWitness(WitnessOf(z, cs.l), rW, rE)
         IN  Sound(cs, g, w, CommitWitness(g, w, PublicOf(z, cs.l)))
<1> DEFINE w == NewWitness(WitnessOf(z, cs.l), rW, rE)
           u == CommitWitness(g, w, PublicOf(z, cs.l))
<1>2. /\ PublicOf(z, cs.l) \in [1 .. cs.l -> Fp]
      /\ WitnessOf(z, cs.l) \in WitnessVec(cs.l) /\ WitnessOf(z, cs.l) \in Vec
      /\ Assignment(1, PublicOf(z, cs.l), WitnessOf(z, cs.l)) = z
  BY SplitZ DEF WitnessVec
<1>3. /\ w.E = ZeroVec /\ w.W = WitnessOf(z, cs.l) /\ w.rW \in Fp /\ w.rE \in Fp
      /\ ~Hiding => w.rE = 0
  BY HidingAssumption, ZeroOneInFp DEF NewWitness
<1>4. w \in Witness(cs.l)
  BY <1>2, <1>3, ZeroIsError DEF NewWitness, Witness
<1>5. /\ u.cmE = 0 /\ u.u = 1 /\ u.cmW = Commit(g, w.W, w.rW)
      /\ u.x = PublicOf(z, cs.l)
  BY <1>3 DEF CommitWitness
<1>6. Commit(g, w.W, w.rW) \in Fp
  BY <1>2, <1>3, CommitCong
<1>7. u \in CommittedInstance(cs.l)
  BY <1>2, <1>5, <1>6, ZeroOneInFp DEF CommitWitness, CommittedInstance
<1>8. CheckRelation(cs, w, u)
  BY <1>2, <1>3, <1>5 DEF CheckRelation
<1>9. OpensW(g, w, u) /\ (~Hiding => OpensE(g, w, u))
  BY <1>3, <1>5, CommitZero DEF OpensW, OpensE
<1> HIDE DEF w, u
<1>10. Sound(cs, g, w, u)
  BY <1>4, <1>7, <1>8, <1>9 DEF Sound
<1> QED
  BY <1>10 DEF w, u

\* So does every assignment that is sampled, with its evaluation as the error vector.
LEMMA SampledSound ==
  ASSUME NEW cs, Circuit(cs), NEW g \in Vec,
         NEW z \in Vec, NEW rW \in Fp, NEW rE \in Fp, Hiding
  PROVE  LET w == SampledWitness(cs, z, rW, rE)
         IN  Sound(cs, g, w, SampledInstance(g, cs, z, w))
<1> DEFINE w == SampledWitness(cs, z, rW, rE)
           u == SampledInstance(g, cs, z, w)
<1>1. z[0] \in Fp
  BY DEF Vec, Slot
<1>2. /\ PublicOf(z, cs.l) \in [1 .. cs.l -> Fp]
      /\ WitnessOf(z, cs.l) \in WitnessVec(cs.l) /\ WitnessOf(z, cs.l) \in Vec
      /\ Assignment(z[0], PublicOf(z, cs.l), WitnessOf(z, cs.l)) = z
  BY SplitZ DEF WitnessVec
<1>3. EvalAtZ(cs, z) \in ErrorVec /\ EvalAtZ(cs, z) \in Vec
  BY EvalIsError DEF ErrorVec
<1>4. /\ w.E = EvalAtZ(cs, z) /\ w.W = WitnessOf(z, cs.l) /\ w.rW = rW /\ w.rE = rE
  BY DEF SampledWitness
<1>6. w \in Witness(cs.l)
  BY <1>2, <1>3 DEF SampledWitness, Witness
<1>7. /\ u.cmE = (IF w.E = ZeroVec THEN 0 ELSE Commit(g, w.E, w.rE))
      /\ u.u = z[0] /\ u.cmW = Commit(g, w.W, w.rW) /\ u.x = PublicOf(z, cs.l)
  BY DEF SampledInstance, CommitWitness
<1>8. Commit(g, w.W, w.rW) \in Fp /\ Commit(g, w.E, w.rE) \in Fp
  BY <1>2, <1>3, <1>4, CommitCong
<1>9. u = [cmE |-> u.cmE, u |-> u.u, cmW |-> u.cmW, x |-> u.x]
  BY DEF SampledInstance, CommitWitness
<1>10. CheckRelation(cs, w, u)
  BY <1>2, <1>4, <1>7 DEF CheckRelation
<1>11. OpensW(g, w, u)
  BY <1>7 DEF OpensW
<1> HIDE DEF w, u
<1>12. u \in CommittedInstance(cs.l)
  BY <1>1, <1>2, <1>7, <1>8, <1>9, ZeroOneInFp DEF CommittedInstance
<1>13. Sound(cs, g, w, u)
  BY <1>6, <1>10, <1>11, <1>12 DEF Sound
<1> QED
  BY <1>13 DEF w, u

\* Row 0 of a cross term is empty too.
LEMMA CrossTermIsError ==
  ASSUME NEW cs, Circuit(cs),
         NEW W \in Witness(cs.l), NEW U \in CommittedInstance(cs.l),
         NEW w \in Witness(cs.l), NEW u \in CommittedInstance(cs.l)
  PROVE  ComputeT(cs, U, W, u, w) \in ErrorVec
<1> DEFINE T  == ComputeT(cs, U, W, u, w)
           zs == VecAdd(Assignment(U.u, U.x, W.W), Assignment(u.u, u.x, w.W))
<1>1. T \in Vec /\ cs.l \in 0 .. 7
  BY CrossTermRow DEF Circuit, MatricesOk
<1>2. zs \in Vec
  <2>1. /\ W.W \in Vec /\ w.W \in Vec /\ U.u \in Fp /\ u.u \in Fp
        /\ U.x \in [1 .. cs.l -> Fp] /\ u.x \in [1 .. cs.l -> Fp]
    BY <1>1, WitnessParts, InstanceParts
  <2>2. Assignment(U.u, U.x, W.W) \in Vec /\ Assignment(u.u, u.x, w.W) \in Vec
    BY <1>1, <2>1, AssignmentInVec
  <2> QED BY <2>2, VecAddInVec
<1>3. EvalAtZ(cs, zs)[0] = 0
  BY <1>2, EvalIsError DEF ErrorVec
<1>4. W.E[0] = 0 /\ w.E[0] = 0
  BY <1>1, WitnessParts
<1>5. T = VecSub(VecSub(EvalAtZ(cs, zs), W.E), w.E)
  BY DEF ComputeT
<1>6. 0 \in Slot /\ 0 - 0 = 0
  BY DEF Slot
<1> HIDE DEF T, zs
<1>7. T[0] = 0
  BY <1>3, <1>4, <1>5, <1>6, ZeroMod DEF VecSub
<1> QED
  BY <1>1, <1>7 DEF ErrorVec, T

\* The commitment to a cross term, without a blinder.
LEMMA CrossCommitInFp ==
  ASSUME NEW g \in Vec, NEW T \in Vec PROVE Commit(g, T, 0) \in Fp
<1> DEFINE rT == 0
<1>1. rT \in Fp
  BY ZeroOneInFp
<1> HIDE DEF rT
<1>2. Commit(g, T, rT) \in Fp
  BY <1>1, CommitCong
<1> QED
  BY <1>2 DEF rT

\* The fold of two sound pairs is sound, whatever the challenge.
THEOREM FoldSound ==
  ASSUME NEW cs, Circuit(cs), NEW g \in Vec, NEW W, NEW U, NEW w, NEW u, NEW r \in Fp,
         Sound(cs, g, W, U), Sound(cs, g, w, u)
  PROVE  LET T == ComputeT(cs, U, W, u, w)
         IN  Sound(cs, g, FoldWitness(r, W, w, T),
                          FoldCommittedInstances(r, U, u, Commit(g, T, 0)))
<1> DEFINE T   == ComputeT(cs, U, W, u, w)
           cmT == Commit(g, T, 0)
           Wf  == FoldWitness(r, W, w, T)
           Uf  == FoldCommittedInstances(r, U, u, cmT)
<1>1. /\ W \in Witness(cs.l) /\ U \in CommittedInstance(cs.l)
      /\ w \in Witness(cs.l) /\ u \in CommittedInstance(cs.l)
      /\ MatricesOk(cs)
  BY DEF Circuit, Sound
<1>2. T \in Vec /\ T[0] = 0
  BY <1>1, CrossTermIsError DEF ErrorVec
<1>3. CheckRelation(cs, Wf, Uf)
  BY <1>1, FoldPreservesRelation DEF Sound
<1> HIDE DEF T
<1>4. cmT \in Fp
  BY <1>2, CrossCommitInFp
<1>5. /\ OpensW(g, W, U) /\ OpensW(g, w, u) => OpensW(g, Wf, Uf)
      /\ OpensE(g, W, U) /\ OpensE(g, w, u) => OpensE(g, Wf, Uf)
  BY <1>1, <1>2, FoldPreservesOpenings
<1> HIDE DEF cmT
<1>6. Wf \in Witness(cs.l) /\ Uf \in CommittedInstance(cs.l)
  BY <1>1, <1>2, <1>4, FoldWellFormed
<1> HIDE DEF Wf, Uf
<1>7. Sound(cs, g, Wf, Uf)
  BY <1>3, <1>5, <1>6 DEF Sound
<1> QED
  BY <1>7 DEF Wf, Uf, T, cmT

\* The cross term does not depend on which of the two pairs is the running one.
LEMMA CrossTermSymmetric ==
  ASSUME NEW cs, Circuit(cs),
         NEW W \in Witness(cs.l), NEW U \in CommittedInstance(cs.l),
         NEW w \in Witness(cs.l), NEW u \in CommittedInstance(cs.l)
  PROVE  ComputeT(cs, u, w, U, W) = ComputeT(cs, U, W, u, w)
<1> DEFINE z1 == Assignment(U.u, U.x, W.W)
           z2 == Assignment(u.u, u.x, w.W)
           v  == EvalAtZ(cs, VecAdd(z1, z2))
           T1 == ComputeT(cs, U, W, u, w)
           T2 == ComputeT(cs, u, w, U, W)
<1>1. cs.l \in 0 .. 7 /\ MatricesOk(cs)
  BY DEF Circuit, MatricesOk
<1>2. z1 \in Vec /\ z2 \in Vec /\ W.E \in Vec /\ w.E \in Vec
  BY <1>1, WitnessParts, InstanceParts, AssignmentInVec
<1>3. VecAdd(z1, z2) = VecAdd(z2, z1)
  <2> HIDE DEF z1, z2
  <2>1. ASSUME NEW k \in Slot PROVE z1[k] + z2[k] = z2[k] + z1[k]
    BY <1>2, FpIsInt DEF Vec
  <2> QED BY <2>1 DEF VecAdd
<1>4. v \in Vec /\ T1 \in Vec /\ \A k \in Slot : Cong(T1[k], v[k] - W.E[k] - w.E[k])
  BY <1>1, CrossTermRow
<1>5. T2 \in Vec /\ \A k \in Slot : Cong(T2[k], v[k] - w.E[k] - W.E[k])
  BY <1>1, <1>3, CrossTermRow
<1> HIDE DEF v, T1, T2
<1>6. ASSUME NEW k \in Slot PROVE T1[k] = T2[k]
  <2>1. v[k] \in Int /\ W.E[k] \in Int /\ w.E[k] \in Int /\ T1[k] \in Fp /\ T2[k] \in Fp
        /\ T1[k] \in Int /\ T2[k] \in Int
    BY <1>2, <1>4, <1>5, FpIsInt DEF Vec
  <2>2. v[k] - W.E[k] - w.E[k] \in Int /\ v[k] - w.E[k] - W.E[k] = v[k] - W.E[k] - w.E[k]
    BY <2>1
  <2>3. Cong(v[k] - W.E[k] - w.E[k], T2[k])
    BY <1>5, <2>1, <2>2, CongSym
  <2>4. Cong(T1[k], T2[k])
    BY <1>4, <2>1, <2>2, <2>3, CongTrans
  <2> QED BY <2>1, <2>4, EqOfCong
<1>7. T1 = T2
  BY <1>4, <1>5, <1>6 DEF Vec
<1> QED
  BY <1>7 DEF T1, T2

----------------------------------------------------------------------------
\* The circuit of CycleFold and its folds.

LEMMA E1InVec == ASSUME NEW k \in Slot PROVE E1(k) \in Vec
BY ZeroOneInFp DEF E1, Vec

\* The inner product with E1(k) picks entry k.
LEMMA DotE1 == ASSUME NEW k \in Slot, NEW z \in Vec PROVE Dot(E1(k), z) = z[k]
<1>1. \A j \in Slot : z[j] \in Fp /\ z[j] \in Int
  BY FpIsInt DEF Vec
<1>2. \A j \in Slot : E1(k)[j] * z[j] = IF j = k THEN z[k] ELSE 0
  BY <1>1 DEF E1
<1>3. /\ 0 \in Slot /\ 1 \in Slot /\ 2 \in Slot /\ 3 \in Slot /\ 4 \in Slot /\ 5 \in Slot
      /\ 6 \in Slot /\ 7 \in Slot
  BY DEF Slot
<1>4. k = 0 \/ k = 1 \/ k = 2 \/ k = 3 \/ k = 4 \/ k = 5 \/ k = 6 \/ k = 7
  BY DEF Slot
<1>5. /\ E1(k)[0] * z[0] = (IF 0 = k THEN z[k] ELSE 0)
      /\ E1(k)[1] * z[1] = (IF 1 = k THEN z[k] ELSE 0)
      /\ E1(k)[2] * z[2] = (IF 2 = k THEN z[k] ELSE 0)
      /\ E1(k)[3] * z[3] = (IF 3 = k THEN z[k] ELSE 0)
      /\ E1(k)[4] * z[4] = (IF 4 = k THEN z[k] ELSE 0)
      /\ E1(k)[5] * z[5] = (IF 5 = k THEN z[k] ELSE 0)
      /\ E1(k)[6] * z[6] = (IF 6 = k THEN z[k] ELSE 0)
      /\ E1(k)[7] * z[7] = (IF 7 = k THEN z[k] ELSE 0)
  BY <1>2, <1>3
<1>6. Dot(E1(k), z) = (z[k] % P)
  BY <1>1, <1>4, <1>5 DEF Dot
<1> QED
  BY <1>1, <1>6, ModOfFp

LEMMA SparseMatrix ==
  ASSUME NEW n \in 0 .. 7, NEW rows \in [1 .. n -> Vec]
  PROVE  Sparse(rows) \in Matrix /\ Sparse(rows)[0] = ZeroVec
BY ZeroVecInVec DEF Sparse, Matrix, Slot

LEMMA CfCircuit ==
  /\ Circuit(CfR1CS) /\ CfR1CS.l = 4
  /\ CfR1CS.A = [k \in Slot |-> IF k = 1 THEN E1(5) ELSE IF k = 2 THEN E1(5)
                                ELSE IF k = 3 THEN E1(6) ELSE IF k = 4 THEN E1(7) ELSE ZeroVec]
  /\ CfR1CS.B = [k \in Slot |-> IF k = 1 THEN E1(7) ELSE IF k = 2 THEN E1(0)
                                ELSE IF k = 3 THEN E1(0) ELSE IF k = 4 THEN E1(0) ELSE ZeroVec]
  /\ CfR1CS.C = [k \in Slot |-> IF k = 1 THEN [E1(4) EXCEPT ![6] = P - 1]
                                ELSE IF k = 2 THEN E1(1) ELSE IF k = 3 THEN E1(2)
                                ELSE IF k = 4 THEN E1(3) ELSE ZeroVec]
<1>1. (P - 1) \in Fp
  BY PAssumption DEF Fp
<1>2. \A k \in Slot : E1(k) \in Vec
  BY E1InVec
<1>3. [E1(4) EXCEPT ![6] = P - 1] \in Vec
  BY <1>1, <1>2 DEF Vec, Slot
<1> DEFINE c1 == [E1(4) EXCEPT ![6] = P - 1]
<1> HIDE DEF c1
<1>4. E1(5) \in Vec /\ E1(6) \in Vec /\ E1(7) \in Vec /\ E1(0) \in Vec /\ E1(1) \in Vec
      /\ E1(2) \in Vec /\ E1(3) \in Vec /\ c1 \in Vec
  BY <1>2, <1>3 DEF Slot, c1
<1>5. /\ <<E1(5), E1(5), E1(6), E1(7)>> \in [1 .. 4 -> Vec]
      /\ <<E1(7), E1(0), E1(0), E1(0)>> \in [1 .. 4 -> Vec]
      /\ <<c1, E1(1), E1(2), E1(3)>> \in [1 .. 4 -> Vec]
  BY <1>4
<1>6. ASSUME NEW a, NEW b, NEW c, NEW d
      PROVE  Sparse(<<a, b, c, d>>) = [k \in Slot |->
               IF k = 1 THEN a ELSE IF k = 2 THEN b ELSE IF k = 3 THEN c
               ELSE IF k = 4 THEN d ELSE ZeroVec]
  BY DEF Sparse, Slot
<1>7. /\ CfR1CS.A = Sparse(<<E1(5), E1(5), E1(6), E1(7)>>)
      /\ CfR1CS.B = Sparse(<<E1(7), E1(0), E1(0), E1(0)>>)
      /\ CfR1CS.C = Sparse(<<c1, E1(1), E1(2), E1(3)>>)
      /\ CfR1CS.l = 4
  BY DEF CfR1CS, c1
<1>8. Circuit(CfR1CS)
  BY <1>5, <1>7, SparseMatrix DEF Circuit, MatricesOk
<1> QED
  BY <1>6, <1>7, <1>8 DEF c1

\* A vector is zero if each of its entries is congruent to zero.
LEMMA VecOfZeros ==
  ASSUME NEW v \in Vec, \A k \in Slot : Cong(v[k], 0) PROVE v = ZeroVec
<1>1. \A k \in Slot : v[k] = 0
  BY ZeroOneInFp, EqOfCong DEF Vec
<1> QED
  BY <1>1 DEF Vec, ZeroVec

\* A row of a circuit, at an assignment whose entry 0 is one.
LEMMA RowHolds ==
  ASSUME NEW cs, Circuit(cs), NEW z \in Vec, z[0] = 1, NEW k \in Slot,
         Cong(Dot(cs.A[k], z) * Dot(cs.B[k], z) - Dot(cs.C[k], z), 0)
  PROVE  Cong(EvalAtZ(cs, z)[k], 0)
<1>1. cs.A[k] \in Vec /\ cs.B[k] \in Vec /\ cs.C[k] \in Vec
  BY DEF Circuit, MatricesOk, Matrix
<1>2. Dot(cs.A[k], z) \in Int /\ Dot(cs.B[k], z) \in Int /\ Dot(cs.C[k], z) \in Int
  BY <1>1, DotIsSum, FpIsInt
<1> DEFINE a == Dot(cs.A[k], z)  b == Dot(cs.B[k], z)  c == Dot(cs.C[k], z)
           e == EvalAtZ(cs, z)[k]
<1>3. EvalAtZ(cs, z) \in Vec /\ Cong(e, a * b - z[0] * c)
  BY EvalRow DEF Circuit
<1>4. e \in Int
  BY <1>3, FpIsInt DEF Vec
<1> HIDE DEF a, b, c, e
<1>5. a \in Int /\ b \in Int /\ c \in Int /\ Cong(a * b - c, 0)
  BY <1>2 DEF a, b, c
<1>6. a * b - z[0] * c = a * b - c /\ a * b - c \in Int
  BY <1>5
<1>7. Cong(e, 0)
  BY <1>3, <1>4, <1>5, <1>6, CongTrans
<1> QED
  BY <1>7 DEF e

\* So does that of the CycleFold circuit.
LEMMA CfSatisfied ==
  ASSUME NEW r \in Fp, NEW p0 \in Fp, NEW p1 \in Fp
  PROVE  LET z == CycleFoldAssignment(r, p0, p1)
         IN  /\ z \in Vec /\ z[0] = 1 /\ EvalAtZ(CfR1CS, z) = ZeroVec
             /\ PublicOf(z, 4) = <<r, p0, p1, Rlc(p0, r, p1)>>
<1> DEFINE z == CycleFoldAssignment(r, p0, p1)
           f == Rlc(p0, r, p1)
<1>0. Circuit(CfR1CS)
  BY CfCircuit
<1>1. f \in Fp /\ Cong(f, p0 + r * p1)
  BY RlcCong
<1> HIDE DEF f
<1>2. /\ z[0] = 1 /\ z[1] = r /\ z[2] = p0 /\ z[3] = p1 /\ z[4] = f /\ z[5] = r
      /\ z[6] = p0 /\ z[7] = p1
  BY DEF CycleFoldAssignment, Slot, f
<1>3. z \in Vec
  <2>1. (\A k \in Slot : z[k] \in Fp) => z \in Vec
    BY Zenon DEF CycleFoldAssignment, Vec
  <2>2. ASSUME NEW k \in Slot PROVE z[k] \in Fp
    <3>1. k = 0 \/ k = 1 \/ k = 2 \/ k = 3 \/ k = 4 \/ k = 5 \/ k = 6 \/ k = 7
      BY DEF Slot
    <3> HIDE DEF z
    <3> QED BY <1>1, <1>2, <3>1, ZeroOneInFp
  <2> HIDE DEF z
  <2> QED BY <2>1, <2>2
<1>4. PublicOf(z, 4) = <<r, p0, p1, f>>
  <2> HIDE DEF z
  <2> QED BY <1>2 DEF PublicOf
<1> HIDE DEF z
<1>5. r \in Int /\ p0 \in Int /\ p1 \in Int /\ f \in Int
  BY <1>1, FpIsInt
<1>6. /\ Dot(E1(0), z) = 1 /\ Dot(E1(1), z) = r /\ Dot(E1(2), z) = p0 /\ Dot(E1(3), z) = p1
      /\ Dot(E1(5), z) = r /\ Dot(E1(6), z) = p0 /\ Dot(E1(7), z) = p1 /\ Dot(ZeroVec, z) = 0
  BY <1>2, <1>3, DotE1, DotZero DEF Slot
<1> DEFINE c == Dot([E1(4) EXCEPT ![6] = P - 1], z)
<1>7. c = ((f + (P - 1) * p0) % P)
  <2> DEFINE row == [E1(4) EXCEPT ![6] = P - 1]
  <2>1. /\ row[0] = 0 /\ row[1] = 0 /\ row[2] = 0 /\ row[3] = 0 /\ row[4] = 1
        /\ row[5] = 0 /\ row[6] = P - 1 /\ row[7] = 0
    BY DEF E1, Slot
  <2>2. Dot(row, z) = (  row[0] * z[0] + row[1] * z[1] + row[2] * z[2] + row[3] * z[3]
                       + row[4] * z[4] + row[5] * z[5] + row[6] * z[6] + row[7] * z[7]) % P
    BY DEF Dot
  <2> HIDE DEF row
  <2>3. row[0] * z[0] + row[1] * z[1] + row[2] * z[2] + row[3] * z[3]
          + row[4] * z[4] + row[5] * z[5] + row[6] * z[6] + row[7] * z[7]
          = f + (P - 1) * p0
    BY <1>2, <1>5, <2>1, PAssumption
  <2> QED BY <2>2, <2>3 DEF row
<1>8. Cong(r * p1 - c, 0)
  <2>1. f + (P - 1) * p0 \in Int
    BY <1>5, PAssumption
  <2>2. c \in Int /\ Cong(c, f + (P - 1) * p0)
    BY <1>7, <2>1, ModInFp, CongOfMod, FpIsInt
  <2> HIDE DEF c
  <2>3. PICK k1 \in Int : c = f + (P - 1) * p0 + k1 * P
    BY <2>2 DEF Cong
  <2>4. PICK k2 \in Int : f = p0 + r * p1 + k2 * P
    BY <1>1 DEF Cong
  <2>5. r * p1 - c = 0 + (-(p0 + k1 + k2)) * P
    BY <1>5, <2>2, <2>3, <2>4, PAssumption
  <2>6. -(p0 + k1 + k2) \in Int
    BY <1>5
  <2> QED BY <2>5, <2>6 DEF Cong
<1> HIDE DEF c
<1>9. ASSUME NEW k \in Slot
      PROVE  Cong(Dot(CfR1CS.A[k], z) * Dot(CfR1CS.B[k], z) - Dot(CfR1CS.C[k], z), 0)
  <2> DEFINE x == Dot(CfR1CS.A[k], z) * Dot(CfR1CS.B[k], z) - Dot(CfR1CS.C[k], z)
  <2>1. CASE k = 1
    <3>1. x = r * p1 - c
      BY <1>6, <2>1, CfCircuit DEF c
    <3> QED BY <1>8, <3>1
  <2>2. CASE k = 2
    <3>1. x = r * 1 - r
      BY <1>6, <2>2, CfCircuit
    <3>2. r * 1 - r = 0
      BY <1>5
    <3> QED BY <3>1, <3>2, CongRefl
  <2>3. CASE k = 3
    <3>1. x = p0 * 1 - p0
      BY <1>6, <2>3, CfCircuit
    <3>2. p0 * 1 - p0 = 0
      BY <1>5
    <3> QED BY <3>1, <3>2, CongRefl
  <2>4. CASE k = 4
    <3>1. x = p1 * 1 - p1
      BY <1>6, <2>4, CfCircuit
    <3>2. p1 * 1 - p1 = 0
      BY <1>5
    <3> QED BY <3>1, <3>2, CongRefl
  <2>5. CASE k \notin 1 .. 4
    <3>1. x = 0 * 0 - 0
      BY <1>6, <2>5, CfCircuit
    <3> QED BY <3>1, CongRefl
  <2> QED BY <2>1, <2>2, <2>3, <2>4, <2>5 DEF Slot
<1>10. EvalAtZ(CfR1CS, z) \in Vec
  BY <1>0, <1>3, EvalRow DEF Circuit
<1>11. EvalAtZ(CfR1CS, z) = ZeroVec
  BY <1>0, <1>2, <1>3, <1>9, <1>10, RowHolds, VecOfZeros
<1> QED
  BY <1>2, <1>3, <1>4, <1>11 DEF z, f

LEMMA SqueezeInFp == \A tr : Squeeze(tr).r \in Fp
BY RoInFp DEF Squeeze

\* The fresh instance in a CycleFold fold.
LEMMA CfFresh ==
  ASSUME NEW tr, NEW W, NEW U, NEW r \in Fp, NEW p0 \in Fp, NEW p1 \in Fp,
         NEW rW \in Fp, NEW rE \in Fp
  PROVE  LET c == FoldCycleFoldCircuit(tr, W, U, r, p0, p1, rW, rE)
             w == NewWitness(WitnessOf(CycleFoldAssignment(r, p0, p1), 4), rW, rE)
         IN  /\ Sound(CfR1CS, CfG, w, c.u)
             /\ c.u = IncomingInstance(c.u.cmW, <<r, p0, p1, Rlc(p0, r, p1)>>)
<1> DEFINE z == CycleFoldAssignment(r, p0, p1)
           w == NewWitness(WitnessOf(z, 4), rW, rE)
           u == CommitWitness(CfG, w, PublicOf(z, 4))
<1>1. z \in Vec /\ z[0] = 1 /\ EvalAtZ(CfR1CS, z) = ZeroVec
      /\ PublicOf(z, 4) = <<r, p0, p1, Rlc(p0, r, p1)>>
  BY CfSatisfied
<1>2. FoldCycleFoldCircuit(tr, W, U, r, p0, p1, rW, rE).u = u
  BY DEF FoldCycleFoldCircuit
<1> HIDE DEF z
<1>3. Sound(CfR1CS, CfG, w, u)
  BY <1>1, CfCircuit, CfGAssumption, FreshSound
<1>4. u = IncomingInstance(u.cmW, <<r, p0, p1, Rlc(p0, r, p1)>>)
  BY <1>1 DEF CommitWitness, NewWitness, IncomingInstance
<1> QED
  BY <1>2, <1>3, <1>4 DEF z

LEMMA CfFoldSound ==
  ASSUME NEW tr, NEW W, NEW U, NEW r \in Fp, NEW p0 \in Fp, NEW p1 \in Fp,
         NEW rW \in Fp, NEW rE \in Fp, Sound(CfR1CS, CfG, W, U)
  PROVE  LET c == FoldCycleFoldCircuit(tr, W, U, r, p0, p1, rW, rE)
         IN  Sound(CfR1CS, CfG, c.W, c.U)
<1> DEFINE c == FoldCycleFoldCircuit(tr, W, U, r, p0, p1, rW, rE)
           w == NewWitness(WitnessOf(CycleFoldAssignment(r, p0, p1), 4), rW, rE)
           T == ComputeT(CfR1CS, c.u, w, U, W)
           q == Squeeze(Absorb(tr, ChallengeInput(PpHash, U, c.u, c.cmT))).r
<1>1. Sound(CfR1CS, CfG, w, c.u)
  BY CfFresh
<1>2. c.W = FoldWitness(q, W, w, T) /\ c.U = FoldCommittedInstances(q, U, c.u, Commit(CfG, T, 0))
  BY DEF FoldCycleFoldCircuit
<1> HIDE DEF c, w
<1>3. Circuit(CfR1CS) /\ CfG \in Vec /\ q \in Fp
  BY CfCircuit, CfGAssumption, SqueezeInFp
<1>4. T = ComputeT(CfR1CS, U, W, c.u, w)
  BY <1>1, <1>3, CrossTermSymmetric DEF Sound
<1> HIDE DEF q, T
<1>5. Sound(CfR1CS, CfG, c.W, c.U)
  BY <1>1, <1>2, <1>3, <1>4, FoldSound
<1> QED
  BY <1>5 DEF c

\* What the circuit folds from the parts it is given is what the prover folded.
LEMMA CfGadgetAgrees ==
  ASSUME NEW tr, NEW W, NEW U, NEW r \in Fp, NEW p0 \in Fp, NEW p1 \in Fp,
         NEW rW \in Fp, NEW rE \in Fp, Sound(CfR1CS, CfG, W, U)
  PROVE  LET c == FoldCycleFoldCircuit(tr, W, U, r, p0, p1, rW, rE)
             g == CycleFoldGadget(tr, U, c.u.cmW, <<r, p0, p1, Rlc(p0, r, p1)>>, c.cmT)
         IN  g.U = c.U /\ g.tr = c.tr
<1> DEFINE c  == FoldCycleFoldCircuit(tr, W, U, r, p0, p1, rW, rE)
           x  == <<r, p0, p1, Rlc(p0, r, p1)>>
           sq == Squeeze(Absorb(tr, ChallengeInput(PpHash, U, c.u, c.cmT)))
           g  == CycleFoldGadget(tr, U, c.u.cmW, x, c.cmT)
           w  == NewWitness(WitnessOf(CycleFoldAssignment(r, p0, p1), 4), rW, rE)
           T  == ComputeT(CfR1CS, c.u, w, U, W)
<1>1. /\ Sound(CfR1CS, CfG, w, c.u)
      /\ c.u = IncomingInstance(c.u.cmW, x) /\ c.u.cmE = 0 /\ c.u.u = 1
  BY CfFresh DEF IncomingInstance
<1>2. /\ c.U = FoldCommittedInstances(sq.r, U, c.u, c.cmT) /\ c.tr = sq.tr
      /\ c.cmT = Commit(CfG, T, 0)
  BY DEF FoldCycleFoldCircuit
<1>3. g.U = NIFSFullGadgetFold(sq.r, c.cmT, U, c.u) /\ g.tr = sq.tr
  BY <1>1 DEF CycleFoldGadget
<1> HIDE DEF c, g, w
<1>4. sq.r \in Fp /\ U.cmE \in Fp /\ U.u \in Fp
  BY SqueezeInFp DEF CommittedInstance, Sound
<1>5. c.cmT \in Fp
  <2>1. T \in Vec
    BY <1>1, CfCircuit, CrossTermIsError DEF Sound, ErrorVec
  <2> HIDE DEF T
  <2> QED BY <1>2, <2>1, CfGAssumption, CrossCommitInFp
<1> HIDE DEF sq
<1>6. Rlc(Rlc(U.cmE, sq.r, c.cmT), (sq.r * sq.r) % P, 0) = Rlc(U.cmE, sq.r, c.cmT)
  <2>1. Rlc(U.cmE, sq.r, c.cmT) \in Fp /\ (sq.r * sq.r) % P \in Fp
    BY <1>4, <1>5, RlcCong, SquareInFp
  <2> QED BY <2>1, RlcZero
<1>7. Rlc(U.u, sq.r, 1) = (U.u + sq.r) % P
  <2>1. U.u + sq.r * 1 = U.u + sq.r
    BY <1>4, FpIsInt
  <2> QED BY <2>1 DEF Rlc
<1>8. g.U = c.U
  BY <1>1, <1>2, <1>3, <1>6, <1>7 DEF FoldCommittedInstances, NIFSFullGadgetFold
<1> QED
  BY <1>2, <1>3, <1>8 DEF c, g

----------------------------------------------------------------------------
\* What the hash of a claim binds: it is that of an instance's elements e, too.
ClaimInput(s, e) == <<PpHash, s.i>> \o s.z_0 \o s.z_i \o e

LEMMA PairIsSeq == ASSUME NEW x \in [1 .. 2 -> Int] PROVE x \in Seq(Int) /\ Len(x) = 2
<1>1. x \in Seq(Int)
  BY SeqDef
<1> QED
  BY <1>1, LenProperties

LEMMA Concat ==
  ASSUME NEW s \in Seq(Int), NEW t \in Seq(Int)
  PROVE  /\ s \o t \in Seq(Int) /\ Len(s \o t) = Len(s) + Len(t)
         /\ \A k \in 1 .. Len(s) : (s \o t)[k] = s[k]
         /\ \A k \in 1 .. Len(t) : (s \o t)[Len(s) + k] = t[k]
OBVIOUS

LEMMA ClaimInputParts ==
  ASSUME NEW e \in Seq(Int),
         NEW s, s.i \in Nat, s.z_0 \in Seq(Int), s.z_i \in Seq(Int)
  PROVE  /\ Len(ClaimInput(s, e)) = 2 + Len(s.z_0) + Len(s.z_i) + Len(e)
         /\ ClaimInput(s, e)[2] = s.i
         /\ Len(s.z_0) = 1 /\ Len(s.z_i) = 1 => /\ ClaimInput(s, e)[3] = s.z_0[1]
                                                /\ ClaimInput(s, e)[4] = s.z_i[1]
<1> DEFINE h == PpHash  i == s.i  z == s.z_0  y == s.z_i
           a == <<h, i>>  b == a \o z  c == b \o y  t == c \o e
<1>1. Len(e) \in Nat
  OBVIOUS
<1>2. z \in Seq(Int) /\ y \in Seq(Int) /\ Len(z) \in Nat /\ Len(y) \in Nat
  OBVIOUS
<1>3. h \in Int /\ i \in Int
  BY PpHashAssumption, FpIsInt
<1>4. ClaimInput(s, e) = t
  BY DEF ClaimInput
<1> HIDE DEF h, i, z, y
<1>5. a \in Seq(Int) /\ Len(a) = 2 /\ a[2] = i
  BY <1>3
<1> HIDE DEF a
<1>6. /\ b \in Seq(Int) /\ Len(b) = Len(a) + Len(z)
      /\ \A k \in 1 .. Len(a) : b[k] = a[k]
      /\ \A k \in 1 .. Len(z) : b[Len(a) + k] = z[k]
  BY <1>2, <1>5, Concat, Zenon
<1> HIDE DEF b
<1>7. /\ c \in Seq(Int) /\ Len(c) = Len(b) + Len(y)
      /\ \A k \in 1 .. Len(b) : c[k] = b[k]
      /\ \A k \in 1 .. Len(y) : c[Len(b) + k] = y[k]
  BY <1>2, <1>6, Concat, Zenon
<1> HIDE DEF c
<1>8. /\ Len(t) = Len(c) + Len(e)
      /\ \A k \in 1 .. Len(c) : t[k] = c[k]
  BY <1>7, Concat, Zenon
<1> HIDE DEF t
<1>9. /\ Len(b) = 2 + Len(z) /\ Len(c) = 2 + Len(z) + Len(y)
      /\ Len(t) = 2 + Len(z) + Len(y) + Len(e)
  BY <1>1, <1>2, <1>5, <1>6, <1>7, <1>8
<1>10. t[2] = i
  <2>1. 2 \in 1 .. Len(a) /\ 2 \in 1 .. Len(b) /\ 2 \in 1 .. Len(c)
    BY <1>2, <1>5, <1>9
  <2>2. t[2] = c[2] /\ c[2] = b[2] /\ b[2] = a[2]
    BY <1>6, <1>7, <1>8, <2>1, Zenon
  <2> QED BY <1>5, <2>2
<1>11. ASSUME Len(z) = 1, Len(y) = 1 PROVE t[3] = z[1] /\ t[4] = y[1]
  <2>1. /\ Len(a) + 1 = 3 /\ Len(b) + 1 = 4 /\ 3 \in 1 .. Len(b) /\ 3 \in 1 .. Len(c)
        /\ 4 \in 1 .. Len(c) /\ 1 \in 1 .. Len(z) /\ 1 \in 1 .. Len(y)
    BY <1>5, <1>9, <1>11
  <2>2. b[Len(a) + 1] = z[1] /\ c[Len(b) + 1] = y[1]
    BY <1>6, <1>7, <2>1, Zenon
  <2>3. t[3] = c[3] /\ c[3] = b[3] /\ t[4] = c[4]
    BY <1>7, <1>8, <2>1, Zenon
  <2> QED BY <2>1, <2>2, <2>3, Zenon
<1> QED
  BY <1>4, <1>9, <1>10, <1>11, Zenon DEF z, y, i

\* The sequence a claim is hashed in determines it, if its states and one of the
\* other claim's have length one.
LEMMA ClaimInputBinds ==
  ASSUME NEW e \in Seq(Int), NEW f \in Seq(Int), Len(e) = Len(f),
         NEW a, a.i \in Nat, a.z_0 \in Seq(Int), a.z_i \in Seq(Int),
         NEW c, c.i \in Nat, c.z_0 \in Seq(Int), c.z_i \in Seq(Int),
         c.z_0 # <<>>, c.z_i # <<>>, ClaimInput(a, e) = ClaimInput(c, f)
  PROVE  /\ a.i = c.i
         /\ Len(a.z_0) = 1 /\ Len(a.z_i) = 1 /\ (Len(c.z_0) = 1 \/ Len(c.z_i) = 1)
              => a.z_0 = c.z_0 /\ a.z_i = c.z_i
<1> DEFINE s == ClaimInput(a, e)  t == ClaimInput(c, f)
           m == Len(c.z_0)  n == Len(c.z_i)  l == Len(e)
<1>1. /\ Len(s) = 2 + Len(a.z_0) + Len(a.z_i) + l
      /\ s[2] = a.i
      /\ Len(a.z_0) = 1 /\ Len(a.z_i) = 1 => s[3] = a.z_0[1] /\ s[4] = a.z_i[1]
  BY ClaimInputParts, Zenon
<1>2. /\ Len(t) = 2 + m + n + l
      /\ t[2] = c.i
      /\ m = 1 /\ n = 1 => t[3] = c.z_0[1] /\ t[4] = c.z_i[1]
  <2>1. /\ Len(t) = 2 + m + n + Len(f)
        /\ t[2] = c.i
        /\ m = 1 /\ n = 1 => t[3] = c.z_0[1] /\ t[4] = c.z_i[1]
    BY ClaimInputParts, Zenon
  <2> HIDE DEF t, m, n
  <2> QED BY <2>1, Zenon
<1>3. s = t
  OBVIOUS
<1>4. m \in Nat /\ n \in Nat /\ m # 0 /\ n # 0 /\ l \in Nat
  OBVIOUS
<1> HIDE DEF s, t, m, n, l
<1>5. ASSUME Len(a.z_0) = 1, Len(a.z_i) = 1, m = 1 \/ n = 1
      PROVE  a.z_0 = c.z_0 /\ a.z_i = c.z_i
  <2>1. 2 + m + n + l = 2 + 1 + 1 + l
    BY <1>1, <1>2, <1>3, <1>5, Zenon
  <2>2. m = 1 /\ n = 1
    BY <1>4, <1>5, <2>1
  <2>3. a.z_0[1] = c.z_0[1] /\ a.z_i[1] = c.z_i[1]
    BY <1>1, <1>2, <1>3, <1>5, <2>2, Zenon
  <2>4. \A k \in 1 .. 1 : a.z_0[k] = c.z_0[k] /\ a.z_i[k] = c.z_i[k]
    BY <2>3
  <2> QED BY <1>5, <2>2, <2>4, SeqEqual, ZenonT(30) DEF m, n
<1> QED
  BY <1>1, <1>2, <1>3, <1>5, Zenon DEF m, n

----------------------------------------------------------------------------
\* Recursive functions.

\* The sequences of length n, as functions.
List(S, n) == [1 .. n -> S]

\* Induction, for sets.
LEMMA SetInduction ==
  ASSUME NEW S, 0 \in S, \A n \in Nat : n \in S => n + 1 \in S
  PROVE  \A n \in Nat : n \in S
<1> DEFINE T == {n \in Nat : n \notin S}
           R == OpToRel(<, Nat)
<1>1. SUFFICES ASSUME T # {} PROVE FALSE
  OBVIOUS
<1>2. IsWellFoundedOn(R, Nat)
  BY NatLessThanWellFounded
<1>3. PICK x \in T : \A y \in T : ~(<<y, x>> \in R)
  <2> HIDE DEF R
  <2> QED BY <1>1, <1>2, WFMin
<1>4. x \in Nat /\ x \notin S /\ x # 0 /\ x - 1 \in Nat
  OBVIOUS
<1>5. <<x - 1, x>> \in R
  BY <1>4 DEF OpToRel
<1>6. x - 1 \in S
  BY <1>3, <1>4, <1>5
<1> QED
  BY <1>4, <1>6

\* A recursion over 0 .. n has a solution.
LEMMA Recursion ==
  ASSUME NEW S, NEW a \in S, NEW n \in Nat, NEW g \in [1 .. n -> [S -> S]]
  PROVE  \E f \in [0 .. n -> S] : f[0] = a /\ \A j \in 1 .. n : f[j] = g[j][f[j - 1]]
<1> DEFINE Runs(m, f) == f[0] = a /\ \A j \in 1 .. m : f[j] = g[j][f[j - 1]]
           T == {m \in Nat : m <= n => \E f \in [0 .. m -> S] : Runs(m, f)}
<1>1. 0 \in T
  <2>1. [j \in 0 .. 0 |-> a] \in [0 .. 0 -> S] /\ Runs(0, [j \in 0 .. 0 |-> a])
    OBVIOUS
  <2> QED BY <2>1
<1>2. ASSUME NEW m \in Nat, m \in T PROVE m + 1 \in T
  <2> SUFFICES ASSUME m + 1 <= n PROVE \E f \in [0 .. m + 1 -> S] : Runs(m + 1, f)
    OBVIOUS
  <2>1. PICK f \in [0 .. m -> S] : Runs(m, f)
    BY <1>2
  <2> DEFINE h == [j \in 0 .. m + 1 |-> IF j = m + 1 THEN g[m + 1][f[m]] ELSE f[j]]
  <2>2. m + 1 \in 1 .. n /\ f[m] \in S
    OBVIOUS
  <2>3. g[m + 1] \in [S -> S]
    BY <2>2
  <2>4. g[m + 1][f[m]] \in S
    BY <2>3
  <2>5. h \in [0 .. m + 1 -> S]
    BY <2>4
  <2>6. h[0] = a /\ h[m + 1] = g[m + 1][h[m]]
    <3>1. h[0] = f[0] /\ h[m] = f[m]
      OBVIOUS
    <3>2. h[m + 1] = g[m + 1][f[m]]
      OBVIOUS
    <3> HIDE DEF h
    <3> QED BY <2>1, <3>1, <3>2
  <2>7. ASSUME NEW j \in 1 .. m PROVE h[j] = g[j][h[j - 1]]
    <3>1. h[j] = f[j] /\ h[j - 1] = f[j - 1]
      OBVIOUS
    <3> QED BY <2>1, <3>1
  <2>8. Runs(m + 1, h)
    <3> HIDE DEF h
    <3>1. ASSUME NEW j \in 1 .. m + 1 PROVE h[j] = g[j][h[j - 1]]
      <4>1. CASE j = m + 1
        <5>1. j - 1 = m
          BY <4>1
        <5> QED BY <2>6, <4>1, <5>1
      <4>2. CASE j # m + 1
        <5>1. j \in 1 .. m
          BY <4>2
        <5> QED BY <2>7, <5>1
      <4> QED BY <4>1, <4>2
    <3> QED BY <2>6, <3>1
  <2> QED BY <2>5, <2>8
<1>3. n \in T
  <2> HIDE DEF T
  <2> QED BY <1>1, <1>2, SetInduction
<1> QED
  BY <1>3

\* Two runs of one recursion are the same.
LEMMA SameRun ==
  ASSUME NEW n \in Nat, NEW f, NEW h, f[0] = h[0],
         \A j \in 1 .. n : f[j - 1] = h[j - 1] => f[j] = h[j]
  PROVE  \A j \in 0 .. n : f[j] = h[j]
<1> DEFINE T == {j \in Nat : j <= n => f[j] = h[j]}
<1>1. 0 \in T
  OBVIOUS
<1>2. ASSUME NEW j \in Nat, j \in T PROVE j + 1 \in T
  <2> SUFFICES ASSUME j + 1 <= n PROVE f[j + 1] = h[j + 1]
    OBVIOUS
  <2>1. j + 1 \in 1 .. n /\ (j + 1) - 1 = j /\ f[j] = h[j]
    BY <1>2
  <2> QED BY <2>1
<1>3. \A j \in Nat : j \in T
  <2> HIDE DEF T
  <2> QED BY <1>1, <1>2, SetInduction
<1> QED
  BY <1>3

\* The partial sums of a sequence.
LEMMA SumSeqRun ==
  ASSUME NEW n \in Nat, NEW s \in List(Int, n)
  PROVE  \E f \in [0 .. n -> Fp] :
           f[0] = 0 /\ (\A j \in 1 .. n : f[j] = (f[j - 1] + s[j]) % P) /\ SumSeq(s) = f[n]
<1> DEFINE g == [j \in 1 .. n |-> [y \in Fp |-> (y + s[j]) % P]]
<1>1. g \in [1 .. n -> [Fp -> Fp]]
  BY ModInFp, FpIsInt DEF List
<1>2. \A y \in Fp, j \in 1 .. n : g[j][y] = (y + s[j]) % P
  OBVIOUS
<1> DEFINE a == 0
<1> HIDE DEF g, a
<1>3. PICK f \in [0 .. n -> Fp] : f[0] = 0 /\ \A j \in 1 .. n : f[j] = g[j][f[j - 1]]
  <2>1. a \in Fp
    BY ZeroOneInFp DEF a
  <2>2. \E f \in [0 .. n -> Fp] : f[0] = a /\ \A j \in 1 .. n : f[j] = g[j][f[j - 1]]
    BY <1>1, <2>1, Recursion
  <2> QED BY <2>2 DEF a
<1>4. \A j \in 1 .. n : f[j] = (f[j - 1] + s[j]) % P
  <2>1. \A j \in 1 .. n : f[j - 1] \in Fp
    OBVIOUS
  <2> QED BY <1>2, <1>3, <2>1
<1> DEFINE Rec(h) == h = [j \in 0 .. n |-> IF j = 0 THEN 0 ELSE (h[j - 1] + s[j]) % P]
           c == CHOOSE h : Rec(h)
<1>5. Rec(f)
  <2>1. \A j \in 0 .. n : f[j] = IF j = 0 THEN 0 ELSE (f[j - 1] + s[j]) % P
    BY <1>3, <1>4
  <2> QED BY <2>1
<1>6. SumSeq(s) = c[n]
  <2>1. Len(s) = n
    BY DEF List
  <2> QED BY <2>1 DEF SumSeq
<1>7. Rec(c)
  <2> HIDE DEF Rec
  <2> QED BY <1>5
<1>8. c[0] = f[0] /\ \A j \in 1 .. n : c[j - 1] = f[j - 1] => c[j] = f[j]
  <2> HIDE DEF c
  <2>1. c[0] = 0
    BY <1>7
  <2>2. ASSUME NEW j \in 1 .. n PROVE c[j] = (c[j - 1] + s[j]) % P
    BY <1>7
  <2> QED BY <1>3, <1>4, <2>1, <2>2
<1> HIDE DEF c
<1>9. c[n] = f[n]
  <2>1. \A j \in 0 .. n : c[j] = f[j]
    BY <1>8, SameRun, ZenonT(60)
  <2> QED BY <2>1
<1> QED
  BY <1>3, <1>4, <1>6, <1>9

\* Horner's scheme, from the last coefficient on.
HornerRun(h, c, x, n) == h[0] = 0 /\ \A j \in 1 .. n : h[j] = Rlc(c[n + 1 - j], x, h[j - 1])

LEMMA PolyRun ==
  ASSUME NEW n \in Nat, NEW c \in List(Int, n), NEW x \in Int
  PROVE  \E f \in [0 .. n -> Fp] : HornerRun(f, c, x, n) /\ PolyEval(c, x) = f[n]
<1> DEFINE g == [j \in 1 .. n |-> [y \in Fp |-> Rlc(c[n + 1 - j], x, y)]]
<1>1. g \in [1 .. n -> [Fp -> Fp]]
  <2>1. ASSUME NEW j \in 1 .. n, NEW y \in Fp PROVE Rlc(c[n + 1 - j], x, y) \in Fp
    <3>1. n + 1 - j \in 1 .. n
      OBVIOUS
    <3>2. c[n + 1 - j] \in Int /\ y \in Int
      BY <3>1, FpIsInt DEF List
    <3> QED BY <3>2, ModInFp DEF Rlc
  <2> QED BY <2>1
<1>2. \A y \in Fp, j \in 1 .. n : g[j][y] = Rlc(c[n + 1 - j], x, y)
  OBVIOUS
<1> DEFINE a == 0
<1> HIDE DEF g, a
<1>3. PICK f \in [0 .. n -> Fp] : f[0] = 0 /\ \A j \in 1 .. n : f[j] = g[j][f[j - 1]]
  <2>1. a \in Fp
    BY ZeroOneInFp DEF a
  <2>2. \E f \in [0 .. n -> Fp] : f[0] = a /\ \A j \in 1 .. n : f[j] = g[j][f[j - 1]]
    BY <1>1, <2>1, Recursion
  <2> QED BY <2>2 DEF a
<1>4. \A j \in 1 .. n : f[j] = Rlc(c[n + 1 - j], x, f[j - 1])
  <2>1. \A j \in 1 .. n : f[j - 1] \in Fp
    OBVIOUS
  <2> QED BY <1>2, <1>3, <2>1
<1> DEFINE Rec(h) == h = [j \in 1 .. n + 1 |-> IF j > n THEN 0 ELSE (c[j] + x * h[j + 1]) % P]
           d == CHOOSE h : Rec(h)
           b == [j \in 1 .. n + 1 |-> f[n + 1 - j]]
<1>5. Rec(b)
  <2>1. ASSUME NEW j \in 1 .. n + 1
        PROVE  b[j] = IF j > n THEN 0 ELSE (c[j] + x * b[j + 1]) % P
    <3>1. CASE j > n
      <4>1. n + 1 - j = 0
        BY <3>1
      <4> QED BY <1>3, <3>1, <4>1
    <3>2. CASE ~(j > n)
      <4>1. n + 1 - j \in 1 .. n /\ n + 1 - (n + 1 - j) = j /\ (n + 1 - j) - 1 = n + 1 - (j + 1)
        BY <3>2
      <4>2. b[j] = f[n + 1 - j] /\ b[j + 1] = f[n + 1 - (j + 1)]
        BY <3>2
      <4>3. f[n + 1 - j] = Rlc(c[j], x, f[n + 1 - (j + 1)])
        BY <1>4, <4>1
      <4> QED BY <3>2, <4>2, <4>3 DEF Rlc
    <3> QED BY <3>1, <3>2
  <2> HIDE DEF b
  <2>2. b = [j \in 1 .. n + 1 |-> b[j]]
    BY DEF b
  <2> QED BY <2>1, <2>2
<1>6. PolyEval(c, x) = d[1]
  <2>1. Len(c) = n
    BY DEF List
  <2> QED BY <2>1 DEF PolyEval
<1>7. Rec(d)
  <2> HIDE DEF Rec
  <2> QED BY <1>5
<1> DEFINE e == [j \in 0 .. n |-> d[n + 1 - j]]
<1>8. e[0] = f[0] /\ \A j \in 1 .. n : e[j - 1] = f[j - 1] => e[j] = f[j]
  <2> HIDE DEF d
  <2>1. e[0] = 0
    BY <1>7
  <2>2. ASSUME NEW j \in 1 .. n PROVE e[j] = Rlc(c[n + 1 - j], x, e[j - 1])
    <3>1. n + 1 - j \in 1 .. n + 1 /\ ~(n + 1 - j > n) /\ (n + 1 - j) + 1 = n + 1 - (j - 1)
      OBVIOUS
    <3>2. d[n + 1 - j] = (c[n + 1 - j] + x * d[n + 1 - (j - 1)]) % P
      BY <1>7, <3>1
    <3> QED BY <3>2 DEF Rlc
  <2> HIDE DEF e
  <2> QED BY <1>3, <1>4, <2>1, <2>2
<1>9. e[n] = d[1]
  <2> HIDE DEF d
  <2> QED OBVIOUS
<1> HIDE DEF e, d
<1>10. e[n] = f[n]
  <2>1. \A j \in 0 .. n : e[j] = f[j]
    BY <1>8, SameRun, ZenonT(60)
  <2> QED BY <2>1
<1> QED
  BY <1>3, <1>4, <1>6, <1>9, <1>10 DEF HornerRun

\* Whatever runs like it has its value.
LEMMA PolyValue ==
  ASSUME NEW n \in Nat, NEW c \in List(Int, n), NEW x \in Int,
         NEW h, HornerRun(h, c, x, n)
  PROVE  PolyEval(c, x) = h[n] /\ PolyEval(c, x) \in Fp
<1>1. PICK f \in [0 .. n -> Fp] : HornerRun(f, c, x, n) /\ PolyEval(c, x) = f[n]
  BY PolyRun
<1>2. h[0] = f[0] /\ \A j \in 1 .. n : h[j - 1] = f[j - 1] => h[j] = f[j]
  BY <1>1 DEF HornerRun
<1>3. \A j \in 0 .. n : h[j] = f[j]
  BY <1>2, SameRun, ZenonT(60)
<1> QED
  BY <1>1, <1>3

LEMMA CollectIs ==
  ASSUME NEW S, NEW n \in Nat, NEW f \in [1 .. n -> S]
  PROVE  <<>> \o f = f /\ f \in Seq(S) /\ Len(f) = n
<1>1. f \in Seq(S)
  BY SeqDef
<1> QED
  BY <1>1, ConcatEmptySeq, LenProperties

LEMMA RlcInt ==
  ASSUME NEW a \in Int, NEW r \in Int, NEW b \in Int
  PROVE  Rlc(a, r, b) \in Fp /\ Rlc(a, r, b) \in Int /\ Cong(Rlc(a, r, b), a + r * b)
<1>1. a + r * b \in Int
  OBVIOUS
<1> QED
  BY <1>1, ModInFp, FpIsInt, CongOfMod DEF Rlc

\* Congruent arguments, congruent combinations.
LEMMA CongRlc ==
  ASSUME NEW a \in Int, NEW b \in Int, NEW x \in Int, NEW c \in Int, NEW d \in Int,
         Cong(a, c), Cong(b, d)
  PROVE  Cong(a + x * b, c + x * d)
<1>1. x * b \in Int /\ x * d \in Int /\ Cong(x, x)
  BY CongRefl
<1>2. Cong(x * b, x * d)
  BY <1>1, CongMul
<1> QED
  BY <1>1, <1>2, CongAdd

LEMMA RlcStep ==
  ASSUME NEW a \in Int, NEW r \in Int, NEW b \in Int
  PROVE  \E k \in Int : Rlc(a, r, b) = a + r * b + k * P
<1>1. Cong(Rlc(a, r, b), a + r * b)
  BY RlcInt
<1> QED
  BY <1>1 DEF Cong

\* Horner's scheme on two or three coefficients.
LEMMA PolyOfTwo ==
  ASSUME NEW c \in List(Int, 2), NEW x \in Int
  PROVE  PolyEval(c, x) \in Fp /\ Cong(PolyEval(c, x), c[1] + x * c[2])
<1>1. PICK f \in [0 .. 2 -> Fp] : HornerRun(f, c, x, 2) /\ PolyEval(c, x) = f[2]
  BY PolyRun
<1>2. f[1] = Rlc(c[2], x, f[0]) /\ f[2] = Rlc(c[1], x, f[1]) /\ f[0] = 0
  <2>1. f[1] = Rlc(c[2 + 1 - 1], x, f[1 - 1]) /\ f[2] = Rlc(c[2 + 1 - 2], x, f[2 - 1]) /\ f[0] = 0
    BY <1>1 DEF HornerRun
  <2>2. 2 + 1 - 1 = 2 /\ 1 - 1 = 0 /\ 2 + 1 - 2 = 1 /\ 2 - 1 = 1
    OBVIOUS
  <2> QED BY <2>1, <2>2
<1>3. c[1] \in Int /\ c[2] \in Int /\ f[0] \in Int /\ f[1] \in Int /\ f[2] \in Fp
  BY FpIsInt DEF List
<1>4. PICK k1 \in Int : f[1] = c[2] + x * f[0] + k1 * P
  <2>1. \E k \in Int : Rlc(c[2], x, f[0]) = c[2] + x * f[0] + k * P
    BY <1>3, RlcStep, Zenon
  <2> QED BY <1>2, <2>1
<1>5. PICK k2 \in Int : f[2] = c[1] + x * f[1] + k2 * P
  <2>1. \E k \in Int : Rlc(c[1], x, f[1]) = c[1] + x * f[1] + k * P
    BY <1>3, RlcStep, Zenon
  <2> QED BY <1>2, <2>1
<1>6. f[2] = c[1] + x * c[2] + (x * k1 + k2) * P
  <2>1. f[1] = c[2] + k1 * P
    BY <1>2, <1>3, <1>4, PAssumption
  <2> QED BY <1>3, <1>5, <2>1, PAssumption
<1>7. x * k1 + k2 \in Int
  OBVIOUS
<1> QED
  BY <1>1, <1>3, <1>6, <1>7 DEF Cong

LEMMA PolyOfThree ==
  ASSUME NEW c \in List(Int, 3), NEW x \in Int
  PROVE  PolyEval(c, x) \in Fp /\ Cong(PolyEval(c, x), c[1] + x * (c[2] + x * c[3]))
<1>1. PICK f \in [0 .. 3 -> Fp] : HornerRun(f, c, x, 3) /\ PolyEval(c, x) = f[3]
  BY PolyRun
<1>2. /\ f[1] = Rlc(c[3], x, f[0]) /\ f[2] = Rlc(c[2], x, f[1]) /\ f[3] = Rlc(c[1], x, f[2])
      /\ f[0] = 0
  <2>1. /\ f[1] = Rlc(c[3 + 1 - 1], x, f[1 - 1]) /\ f[2] = Rlc(c[3 + 1 - 2], x, f[2 - 1])
        /\ f[3] = Rlc(c[3 + 1 - 3], x, f[3 - 1]) /\ f[0] = 0
    BY <1>1 DEF HornerRun
  <2>2. /\ 3 + 1 - 1 = 3 /\ 1 - 1 = 0 /\ 3 + 1 - 2 = 2 /\ 2 - 1 = 1
        /\ 3 + 1 - 3 = 1 /\ 3 - 1 = 2
    OBVIOUS
  <2> QED BY <2>1, <2>2
<1> DEFINE c1 == c[1]  c2 == c[2]  c3 == c[3]  f1 == f[1]  f2 == f[2]  f3 == f[3]
<1>3. /\ c1 \in Int /\ c2 \in Int /\ c3 \in Int
      /\ f1 \in Int /\ f2 \in Int /\ f3 \in Fp /\ f3 \in Int
  BY FpIsInt DEF List
<1>4. f1 = Rlc(c3, x, 0) /\ f2 = Rlc(c2, x, f1) /\ f3 = Rlc(c1, x, f2)
  BY <1>2
<1> HIDE DEF c1, c2, c3, f1, f2, f3
<1>5. Cong(f2, c2 + x * c3)
  <2>1. Cong(f1, c3)
    <3>1. Cong(Rlc(c3, x, 0), c3 + x * 0)
      BY <1>3, RlcInt
    <3>2. c3 + x * 0 = c3
      BY <1>3
    <3> QED BY <1>4, <3>1, <3>2
  <2>2. Cong(f2, c2 + x * f1)
    BY <1>3, <1>4, RlcInt
  <2>3. Cong(c2, c2)
    BY <1>3, CongRefl
  <2>4. Cong(c2 + x * f1, c2 + x * c3)
    BY <1>3, <2>1, <2>3, CongRlc
  <2>5. c2 + x * f1 \in Int /\ c2 + x * c3 \in Int
    BY <1>3
  <2> QED BY <1>3, <2>2, <2>4, <2>5, CongTrans
<1> DEFINE y == c2 + x * c3
<1>6. y \in Int
  BY <1>3
<1> HIDE DEF y
<1>7. Cong(f3, c1 + x * y)
  <2>1. Cong(f2, y)
    BY <1>5 DEF y
  <2>2. Cong(f3, c1 + x * f2)
    BY <1>3, <1>4, RlcInt
  <2>3. Cong(c1, c1)
    BY <1>3, CongRefl
  <2>4. Cong(c1 + x * f2, c1 + x * y)
    BY <1>3, <1>6, <2>1, <2>3, CongRlc
  <2>5. c1 + x * f2 \in Int /\ c1 + x * y \in Int
    BY <1>3, <1>6
  <2> QED BY <1>3, <2>2, <2>4, <2>5, CongTrans
<1> QED
  BY <1>1, <1>3, <1>7 DEF c1, c2, c3, f3, y

----------------------------------------------------------------------------
\* Sums and multiples of polynomials.

Coefficient(c, n, j) == IF j <= n THEN c[j] ELSE 0

LEMMA PolyAddIs ==
  ASSUME NEW m \in Nat, NEW n \in Nat, NEW l \in Nat, l = (IF m < n THEN n ELSE m),
         NEW a \in List(Int, m), NEW b \in List(Int, n)
  PROVE  /\ PolyAdd(a, b) \in List(Fp, l) /\ Len(PolyAdd(a, b)) = l
         /\ \A j \in 1 .. l : PolyAdd(a, b)[j] = (Coefficient(a, m, j) + Coefficient(b, n, j)) % P
<1> DEFINE t(j) == (Coefficient(a, m, j) + Coefficient(b, n, j)) % P
           f == [j \in 1 .. l |-> t(j)]
<1>1. Len(a) = m /\ Len(b) = n
  BY DEF List
<1>2. PolyAdd(a, b) = <<>> \o f
  BY <1>1 DEF PolyAdd, Collect, Coefficient
<1>3. f \in [1 .. l -> Fp]
  <2>1. ASSUME NEW j \in 1 .. l PROVE t(j) \in Fp
    <3>1. Coefficient(a, m, j) \in Int /\ Coefficient(b, n, j) \in Int
      BY DEF Coefficient, List
    <3>2. Coefficient(a, m, j) + Coefficient(b, n, j) \in Int
      BY <3>1
    <3> QED BY <3>2, ModInFp
  <2> HIDE DEF t
  <2> QED BY <2>1
<1>4. \A j \in 1 .. l : f[j] = t(j)
  OBVIOUS
<1> HIDE DEF f
<1>5. PolyAdd(a, b) = f /\ Len(f) = l
  BY <1>2, <1>3, CollectIs
<1> QED
  BY <1>3, <1>4, <1>5 DEF List

LEMMA PolyScaleIs ==
  ASSUME NEW n \in Nat, NEW a \in List(Int, n), NEW c \in Int
  PROVE  /\ PolyScale(a, c) \in List(Fp, n) /\ Len(PolyScale(a, c)) = n
         /\ \A j \in 1 .. n : PolyScale(a, c)[j] = (c * a[j]) % P
<1> DEFINE f == [j \in 1 .. n |-> (c * a[j]) % P]
<1>1. Len(a) = n
  BY DEF List
<1>2. PolyScale(a, c) = <<>> \o f
  BY <1>1 DEF PolyScale, Collect
<1>3. f \in [1 .. n -> Fp]
  <2>1. ASSUME NEW j \in 1 .. n PROVE (c * a[j]) % P \in Fp
    <3>1. a[j] \in Int
      BY DEF List
    <3>2. c * a[j] \in Int
      BY <3>1
    <3> QED BY <3>2, ModInFp
  <2> QED BY <2>1
<1>4. \A j \in 1 .. n : f[j] = (c * a[j]) % P
  OBVIOUS
<1> HIDE DEF f
<1>5. PolyScale(a, c) = f /\ Len(f) = n
  BY <1>2, <1>3, CollectIs
<1> QED
  BY <1>3, <1>4, <1>5 DEF List

LEMMA ConcatIs ==
  ASSUME NEW a \in Seq(Fp), NEW b \in Seq(Fp)
  PROVE  /\ a \o b \in Seq(Fp)
         /\ Len(a \o b) = Len(a) + Len(b)
         /\ \A j \in 1 .. Len(a) : (a \o b)[j] = a[j]
         /\ \A j \in 1 .. Len(b) : (a \o b)[Len(a) + j] = b[j]
<1>1. a \o b \in Seq(Fp) /\ Len(a \o b) = Len(a) + Len(b)
  OBVIOUS
<1>2. \A j \in 1 .. Len(a) : (a \o b)[j] = a[j]
  OBVIOUS
<1>3. \A j \in 1 .. Len(b) : (a \o b)[Len(a) + j] = b[j]
  OBVIOUS
<1> QED
  BY <1>1, <1>2, <1>3

LEMMA ShiftIs ==
  ASSUME NEW n \in Nat, NEW s \in List(Fp, n)
  PROVE  /\ <<0>> \o s \in List(Fp, n + 1) /\ (<<0>> \o s)[1] = 0
         /\ \A j \in 1 .. n : (<<0>> \o s)[j + 1] = s[j]
<1> DEFINE z == <<0>>  t == z \o s
<1>1. z \in Seq(Fp) /\ Len(z) = 1 /\ z[1] = 0
  BY ZeroOneInFp
<1>2. s \in Seq(Fp) /\ Len(s) = n
  BY CollectIs DEF List
<1> HIDE DEF z
<1>3. /\ t \in Seq(Fp)
      /\ Len(t) = Len(z) + Len(s)
      /\ \A j \in 1 .. Len(z) : t[j] = z[j]
      /\ \A j \in 1 .. Len(s) : t[Len(z) + j] = s[j]
  BY <1>1, <1>2, ConcatIs DEF t
<1> HIDE DEF t
<1>4. t[1] = 0 /\ Len(t) = n + 1
  <2>1. 1 \in 1 .. Len(z)
    BY <1>1
  <2> QED BY <1>1, <1>2, <1>3, <2>1
<1>5. \A j \in 1 .. n : t[j + 1] = s[j]
  <2>1. \A j \in 1 .. n : 1 + j = j + 1
    OBVIOUS
  <2> QED BY <1>1, <1>2, <1>3, <2>1
<1>6. t \in [1 .. n + 1 -> Fp]
  BY <1>3, <1>4
<1> QED
  BY <1>4, <1>5, <1>6 DEF List, t, z

\* l + (b + d X) r.
AddLinear(b, d, l, r) == PolyAdd(l, PolyAdd(PolyScale(r, b), <<0>> \o PolyScale(r, d)))

Below(r, n, j) == IF j = 1 THEN 0 ELSE r[j - 1]

LEMMA AddLinearIs ==
  ASSUME NEW n \in Nat \ {0}, NEW l \in List(Fp, n), NEW r \in List(Fp, n), NEW b \in Fp, NEW d \in Fp
  PROVE  /\ AddLinear(b, d, l, r) \in List(Fp, n + 1)
         /\ \A j \in 1 .. n + 1 :
              Cong(AddLinear(b, d, l, r)[j],
                   Coefficient(l, n, j) + b * Coefficient(r, n, j) + d * Below(r, n, j))
<1> DEFINE m == n + 1
           p == PolyScale(r, b)
           q == PolyScale(r, d)
           s == <<0>> \o q
           t == PolyAdd(p, s)
           o == PolyAdd(l, t)
<1>1. /\ n \in Nat /\ m \in Nat /\ m = (IF n < m THEN m ELSE n) /\ b \in Int /\ d \in Int
      /\ l \in List(Int, n) /\ r \in List(Int, n)
  BY FpIsInt DEF List
<1>2. /\ p \in List(Fp, n) /\ \A j \in 1 .. n : p[j] = (b * r[j]) % P
  BY <1>1, PolyScaleIs
<1>3. /\ q \in List(Fp, n) /\ \A j \in 1 .. n : q[j] = (d * r[j]) % P
  BY <1>1, PolyScaleIs
<1> HIDE DEF p, q
<1>4. s \in List(Fp, m) /\ s[1] = 0 /\ \A j \in 1 .. n : s[j + 1] = q[j]
  BY <1>1, <1>3, ShiftIs
<1> HIDE DEF s, m
<1>5. p \in List(Int, n) /\ s \in List(Int, m)
  BY <1>2, <1>4, FpIsInt DEF List
<1>6. /\ t \in List(Fp, m)
      /\ \A j \in 1 .. m : t[j] = (Coefficient(p, n, j) + Coefficient(s, m, j)) % P
  BY <1>1, <1>5, PolyAddIs
<1> HIDE DEF t
<1>7. t \in List(Int, m)
  BY <1>6, FpIsInt DEF List
<1>8. /\ o \in List(Fp, m)
      /\ \A j \in 1 .. m : o[j] = (Coefficient(l, n, j) + Coefficient(t, m, j)) % P
  BY <1>1, <1>7, PolyAddIs
<1>9. AddLinear(b, d, l, r) = o
  BY DEF AddLinear, o, t, s, p, q
<1> HIDE DEF o
<1>10. ASSUME NEW j \in 1 .. m
       PROVE  Cong(o[j], Coefficient(l, n, j) + b * Coefficient(r, n, j) + d * Below(r, n, j))
  <2> DEFINE cl == Coefficient(l, n, j)  cr == Coefficient(r, n, j)  cb == Below(r, n, j)
             cp == Coefficient(p, n, j)
  <2>1. cl \in Int /\ cr \in Int /\ cb \in Int
    <3>1. cl \in Int /\ cr \in Int
      BY <1>1 DEF Coefficient, List
    <3>2. j # 1 => j - 1 \in 1 .. n
      BY DEF m
    <3>3. cb \in Int
      BY <1>1, <3>2 DEF Below, List
    <3> QED BY <3>1, <3>3
  <2>2. cp \in Int /\ Cong(cp, b * cr)
    <3>1. CASE j <= n
      <4>1. j \in 1 .. n
        BY <3>1
      <4>2. cp = (b * r[j]) % P /\ cr = r[j]
        BY <1>2, <3>1, <4>1 DEF Coefficient
      <4>3. b * cr \in Int
        BY <1>1, <2>1
      <4> HIDE DEF cp, cr
      <4> QED BY <4>2, <4>3, CongOfMod, ModInFp, FpIsInt
    <3>2. CASE ~(j <= n)
      <4>1. cp = 0 /\ cr = 0
        BY <3>2 DEF Coefficient
      <4>2. b * 0 = 0
        BY <1>1
      <4> QED BY <4>1, <4>2, CongRefl
    <3> QED BY <3>1, <3>2
  <2>3. s[j] \in Int /\ Cong(s[j], d * cb)
    <3>1. CASE j = 1
      <4>1. s[j] = 0 /\ cb = 0
        BY <1>4, <3>1 DEF Below
      <4>2. d * 0 = 0
        BY <1>1
      <4> QED BY <4>1, <4>2, CongRefl
    <3>2. CASE j # 1
      <4>1. j - 1 \in 1 .. n /\ (j - 1) + 1 = j
        BY <3>2 DEF m
      <4>2. s[j] = (d * r[j - 1]) % P /\ cb = r[j - 1]
        BY <1>3, <1>4, <3>2, <4>1 DEF Below
      <4>3. d * cb \in Int
        BY <1>1, <2>1
      <4> HIDE DEF cb
      <4> QED BY <4>2, <4>3, CongOfMod, ModInFp, FpIsInt
    <3> QED BY <3>1, <3>2
  <2>4. t[j] = (cp + s[j]) % P /\ o[j] = (cl + t[j]) % P
    <3>1. j <= m
      BY <1>1
    <3>2. Coefficient(s, m, j) = s[j] /\ Coefficient(t, m, j) = t[j]
      BY <3>1 DEF Coefficient
    <3> QED BY <1>6, <1>8, <3>2
  <2> DEFINE x == b * cr  y == d * cb  sj == s[j]  tj == t[j]  oj == o[j]
  <2>5. x \in Int /\ y \in Int /\ sj \in Int /\ Cong(cp, x) /\ Cong(sj, y)
        /\ tj = (cp + sj) % P /\ oj = (cl + tj) % P
    BY <1>1, <2>1, <2>2, <2>3, <2>4
  <2> HIDE DEF x, y, sj, tj, oj, cl, cr, cb, cp
  <2>6. tj \in Int /\ Cong(tj, cp + sj)
    <3>1. cp + sj \in Int
      BY <2>2, <2>5
    <3> QED BY <2>5, <3>1, CongOfMod, ModInFp, FpIsInt
  <2>7. oj \in Int /\ Cong(oj, cl + tj)
    <3>1. cl + tj \in Int
      BY <2>1, <2>6
    <3> QED BY <2>5, <3>1, CongOfMod, ModInFp, FpIsInt
  <2>8. PICK k1 \in Int : cp = x + k1 * P
    BY <2>5 DEF Cong
  <2>9. PICK k2 \in Int : sj = y + k2 * P
    BY <2>5 DEF Cong
  <2>10. PICK k3 \in Int : tj = cp + sj + k3 * P
    BY <2>6 DEF Cong
  <2>11. PICK k4 \in Int : oj = cl + tj + k4 * P
    BY <2>7 DEF Cong
  <2>12. oj = cl + x + y + (k1 + k2 + k3 + k4) * P
    <3> DEFINE p1 == k1 * P  p2 == k2 * P  p3 == k3 * P  p4 == k4 * P
    <3>1. p1 \in Int /\ p2 \in Int /\ p3 \in Int /\ p4 \in Int
      BY PAssumption
    <3>2. (k1 + k2 + k3 + k4) * P = p1 + p2 + p3 + p4
      BY PAssumption
    <3> HIDE DEF p1, p2, p3, p4
    <3>3. cp = x + p1 /\ sj = y + p2 /\ tj = cp + sj + p3 /\ oj = cl + tj + p4
      BY <2>8, <2>9, <2>10, <2>11 DEF p1, p2, p3, p4
    <3>4. oj = cl + x + y + (p1 + p2 + p3 + p4)
      BY <2>1, <2>5, <3>1, <3>3
    <3> QED BY <3>2, <3>4
  <2>13. Cong(oj, cl + x + y)
    BY <2>12 DEF Cong
  <2> QED BY <2>13 DEF oj, cl, x, y, cr, cb
<1> QED
  BY <1>8, <1>9, <1>10 DEF m

LEMMA AddLinearToOne ==
  ASSUME NEW x \in Fp, NEW y \in Fp, NEW b \in Fp, NEW d \in Fp
  PROVE  /\ AddLinear(b, d, <<x>>, <<y>>) \in List(Fp, 2)
         /\ Cong(AddLinear(b, d, <<x>>, <<y>>)[1], x + b * y)
         /\ Cong(AddLinear(b, d, <<x>>, <<y>>)[2], d * y)
<1> DEFINE l == <<x>>  r == <<y>>  n == 1  c == AddLinear(b, d, l, r)
<1>1. /\ l \in List(Fp, n) /\ r \in List(Fp, n) /\ n \in Nat \ {0} /\ n + 1 = 2
      /\ l[1] = x /\ r[1] = y
  BY DEF List
<1>2. b \in Int /\ d \in Int /\ x \in Int /\ y \in Int
  BY FpIsInt
<1>3. n = 1
  OBVIOUS
<1> HIDE DEF l, r, n
<1>4. /\ c \in List(Fp, n + 1)
      /\ \A j \in 1 .. n + 1 : Cong(c[j], Coefficient(l, n, j) + b * Coefficient(r, n, j) + d * Below(r, n, j))
  BY <1>1, AddLinearIs
<1> HIDE DEF c
<1>5. /\ Cong(c[1], Coefficient(l, n, 1) + b * Coefficient(r, n, 1) + d * Below(r, n, 1))
      /\ Cong(c[2], Coefficient(l, n, 2) + b * Coefficient(r, n, 2) + d * Below(r, n, 2))
  BY <1>1, <1>4
<1>6. /\ Coefficient(l, n, 1) = x /\ Coefficient(r, n, 1) = y /\ Below(r, n, 1) = 0
      /\ Coefficient(l, n, 2) = 0 /\ Coefficient(r, n, 2) = 0 /\ Below(r, n, 2) = y
  <2>1. 2 - 1 = 1
    OBVIOUS
  <2> QED BY <1>1, <1>3, <2>1 DEF Coefficient, Below
<1>7. x + b * y + d * 0 = x + b * y /\ 0 + b * 0 + d * y = d * y
  <2>1. b * 0 = 0 /\ d * 0 = 0
    BY <1>2
  <2> DEFINE u == b * y  v == d * y
  <2>2. u \in Int /\ v \in Int
    BY <1>2
  <2> HIDE DEF u, v
  <2>3. x + u + 0 = x + u /\ 0 + 0 + v = v
    BY <1>2, <2>2
  <2> QED BY <2>1, <2>3 DEF u, v
<1>8. Cong(c[1], x + b * y) /\ Cong(c[2], d * y)
  BY <1>5, <1>6, <1>7
<1> QED
  BY <1>1, <1>4, <1>8 DEF c, l, r

LEMMA AddLinearToTwo ==
  ASSUME NEW l \in List(Fp, 2), NEW r \in List(Fp, 2), NEW b \in Fp, NEW d \in Fp
  PROVE  /\ AddLinear(b, d, l, r) \in List(Fp, 3)
         /\ Cong(AddLinear(b, d, l, r)[1], l[1] + b * r[1])
         /\ Cong(AddLinear(b, d, l, r)[2], l[2] + b * r[2] + d * r[1])
         /\ Cong(AddLinear(b, d, l, r)[3], d * r[2])
<1> DEFINE n == 2  c == AddLinear(b, d, l, r)
<1>1. l \in List(Fp, n) /\ r \in List(Fp, n) /\ n \in Nat \ {0} /\ n + 1 = 3
  OBVIOUS
<1>2. b \in Int /\ d \in Int /\ l[1] \in Int /\ r[1] \in Int /\ l[2] \in Int /\ r[2] \in Int
  BY FpIsInt DEF List
<1>3. n = 2
  OBVIOUS
<1> HIDE DEF n
<1>4. /\ c \in List(Fp, n + 1)
      /\ \A j \in 1 .. n + 1 : Cong(c[j], Coefficient(l, n, j) + b * Coefficient(r, n, j) + d * Below(r, n, j))
  BY <1>1, AddLinearIs
<1> HIDE DEF c
<1>5. /\ Cong(c[1], Coefficient(l, n, 1) + b * Coefficient(r, n, 1) + d * Below(r, n, 1))
      /\ Cong(c[2], Coefficient(l, n, 2) + b * Coefficient(r, n, 2) + d * Below(r, n, 2))
      /\ Cong(c[3], Coefficient(l, n, 3) + b * Coefficient(r, n, 3) + d * Below(r, n, 3))
  BY <1>1, <1>4
<1>6. /\ Coefficient(l, n, 1) = l[1] /\ Coefficient(r, n, 1) = r[1] /\ Below(r, n, 1) = 0
      /\ Coefficient(l, n, 2) = l[2] /\ Coefficient(r, n, 2) = r[2] /\ Below(r, n, 2) = r[1]
      /\ Coefficient(l, n, 3) = 0 /\ Coefficient(r, n, 3) = 0 /\ Below(r, n, 3) = r[2]
  <2>1. 2 - 1 = 1 /\ 3 - 1 = 2
    OBVIOUS
  <2> QED BY <1>3, <2>1 DEF Coefficient, Below
<1>7. l[1] + b * r[1] + d * 0 = l[1] + b * r[1] /\ 0 + b * 0 + d * r[2] = d * r[2]
  <2>1. b * 0 = 0 /\ d * 0 = 0
    BY <1>2
  <2> DEFINE u == b * r[1]  v == d * r[2]
  <2>2. u \in Int /\ v \in Int
    BY <1>2
  <2> HIDE DEF u, v
  <2>3. l[1] + u + 0 = l[1] + u /\ 0 + 0 + v = v
    BY <1>2, <2>2
  <2> QED BY <2>1, <2>3 DEF u, v
<1>8. Cong(c[1], l[1] + b * r[1]) /\ Cong(c[2], l[2] + b * r[2] + d * r[1]) /\ Cong(c[3], d * r[2])
  BY <1>5, <1>6, <1>7
<1> QED
  BY <1>1, <1>4, <1>8 DEF c

----------------------------------------------------------------------------
\* Sums.

Prefix(s, k) == [i \in 1 .. k |-> s[i]]

LEMMA SumInFp == ASSUME NEW n \in Nat, NEW s \in List(Int, n) PROVE SumSeq(s) \in Fp /\ SumSeq(s) \in Int
BY SumSeqRun, FpIsInt

LEMMA SumOfNone ==
  ASSUME NEW s PROVE SumSeq(Prefix(s, 0)) = 0
<1> DEFINE n == 0  t == Prefix(s, 0)
<1>1. n \in Nat /\ t \in List(Int, n)
  BY DEF Prefix, List
<1> HIDE DEF n, t
<1>2. PICK f \in [0 .. n -> Fp] :
        f[0] = 0 /\ (\A j \in 1 .. n : f[j] = (f[j - 1] + t[j]) % P) /\ SumSeq(t) = f[n]
  BY <1>1, SumSeqRun
<1> QED
  BY <1>2 DEF n, t

LEMMA PrefixIs ==
  ASSUME NEW S, NEW n \in Nat, NEW s \in List(S, n), NEW k \in 0 .. n
  PROVE  Prefix(s, k) \in List(S, k) /\ Prefix(s, n) = s
BY DEF Prefix, List

LEMMA SumSnoc ==
  ASSUME NEW n \in Nat, NEW s \in List(Int, n), NEW k \in Nat, k + 1 <= n
  PROVE  Cong(SumSeq(Prefix(s, k + 1)), SumSeq(Prefix(s, k)) + s[k + 1])
<1> DEFINE a == Prefix(s, k + 1)  b == Prefix(s, k)  m == k + 1
<1>1. a \in List(Int, m) /\ b \in List(Int, k) /\ m \in Nat /\ s[k + 1] \in Int
  <2>1. m \in 0 .. n /\ k \in 0 .. n /\ k + 1 \in 1 .. n /\ m \in Nat
    OBVIOUS
  <2>2. s[k + 1] \in Int
    BY <2>1 DEF List
  <2> HIDE DEF m
  <2>3. Prefix(s, m) \in List(Int, m) /\ Prefix(s, k) \in List(Int, k)
    BY <2>1, PrefixIs
  <2> QED BY <2>1, <2>2, <2>3 DEF m
<1>2. \A j \in 1 .. k : a[j] = b[j]
  BY DEF Prefix
<1>3. a[m] = s[k + 1]
  BY DEF Prefix
<1> HIDE DEF a, b
<1>4. PICK f \in [0 .. m -> Fp] :
        f[0] = 0 /\ (\A j \in 1 .. m : f[j] = (f[j - 1] + a[j]) % P) /\ SumSeq(a) = f[m]
  <2> HIDE DEF m
  <2> QED BY <1>1, SumSeqRun
<1>5. PICK g \in [0 .. k -> Fp] :
        g[0] = 0 /\ (\A j \in 1 .. k : g[j] = (g[j - 1] + b[j]) % P) /\ SumSeq(b) = g[k]
  BY <1>1, SumSeqRun
<1>6. f[0] = g[0] /\ \A j \in 1 .. k : f[j - 1] = g[j - 1] => f[j] = g[j]
  BY <1>2, <1>4, <1>5
<1>7. f[k] = g[k]
  <2> DEFINE T == {j \in Nat : j <= k => f[j] = g[j]}
  <2>1. 0 \in T
    BY <1>6
  <2>2. ASSUME NEW j \in Nat, j \in T PROVE j + 1 \in T
    <3> SUFFICES ASSUME j + 1 <= k PROVE f[j + 1] = g[j + 1]
      OBVIOUS
    <3>1. j + 1 \in 1 .. k /\ (j + 1) - 1 = j /\ f[j] = g[j]
      BY <2>2
    <3> QED BY <1>6, <3>1
  <2>3. k \in T
    <3> HIDE DEF T
    <3> QED BY <2>1, <2>2, SetInduction
  <2> QED BY <2>3
<1>8. f[m] = (g[k] + s[k + 1]) % P
  <2>1. m \in 1 .. m /\ m - 1 = k
    OBVIOUS
  <2> QED BY <1>3, <1>4, <1>7, <2>1
<1>9. g[k] + s[k + 1] \in Int
  <2>1. g[k] \in Fp
    OBVIOUS
  <2> QED BY <1>1, <2>1, FpIsInt
<1> QED
  BY <1>4, <1>5, <1>8, <1>9, CongOfMod DEF a, b

\* Adding up combinations combines the sums.
LEMMA SumLinear ==
  ASSUME NEW n \in Nat, NEW a \in List(Int, n), NEW b \in List(Int, n), NEW c \in List(Int, n),
         NEW r \in Int, \A i \in 1 .. n : Cong(a[i], b[i] + r * c[i])
  PROVE  Cong(SumSeq(a), SumSeq(b) + r * SumSeq(c))
<1> DEFINE A(k) == SumSeq(Prefix(a, k))  B(k) == SumSeq(Prefix(b, k))  C(k) == SumSeq(Prefix(c, k))
           T == {k \in Nat : k <= n => Cong(A(k), B(k) + r * C(k))}
<1>1. 0 \in T
  <2>1. A(0) = 0 /\ B(0) = 0 /\ C(0) = 0
    BY SumOfNone
  <2>2. Cong(0, 0) /\ 0 + r * 0 = 0
    BY CongRefl
  <2> HIDE DEF A, B, C
  <2> QED BY <2>1, <2>2
<1>2. ASSUME NEW k \in Nat, k \in T PROVE k + 1 \in T
  <2> SUFFICES ASSUME k + 1 <= n PROVE Cong(A(k + 1), B(k + 1) + r * C(k + 1))
    OBVIOUS
  <2> DEFINE m == k + 1  x == a[m]  y == b[m]  z == c[m]
             A0 == A(k)  B0 == B(k)  C0 == C(k)  A1 == A(m)  B1 == B(m)  C1 == C(m)
  <2>1. m \in 1 .. n /\ k \in 0 .. n /\ m \in 0 .. n
    OBVIOUS
  <2>2. x \in Int /\ y \in Int /\ z \in Int /\ Cong(x, y + r * z)
    BY <2>1 DEF List
  <2>3. /\ A0 \in Int /\ B0 \in Int /\ C0 \in Int
        /\ A1 \in Int /\ B1 \in Int /\ C1 \in Int
    <3>1. /\ Prefix(a, k) \in List(Int, k) /\ Prefix(a, m) \in List(Int, m)
          /\ Prefix(b, k) \in List(Int, k) /\ Prefix(b, m) \in List(Int, m)
          /\ Prefix(c, k) \in List(Int, k) /\ Prefix(c, m) \in List(Int, m)
      BY <2>1, PrefixIs
    <3> QED BY <3>1, SumInFp
  <2>4. Cong(A1, A0 + x) /\ Cong(B1, B0 + y) /\ Cong(C1, C0 + z)
    BY SumSnoc
  <2>5. Cong(A0, B0 + r * C0)
    BY <1>2
  <2> HIDE DEF A, B, C, A0, B0, C0, A1, B1, C1, x, y, z
  <2>a. PICK i1 \in Int : A1 = A0 + x + i1 * P
    BY <2>4 DEF Cong
  <2>b. PICK i2 \in Int : B1 = B0 + y + i2 * P
    BY <2>4 DEF Cong
  <2>c. PICK i3 \in Int : C1 = C0 + z + i3 * P
    BY <2>4 DEF Cong
  <2>d. PICK i4 \in Int : x = y + r * z + i4 * P
    BY <2>2 DEF Cong
  <2>e. PICK i5 \in Int : A0 = B0 + r * C0 + i5 * P
    BY <2>5 DEF Cong
  <2>7. A1 = B1 + r * C1 + (i1 + i4 + i5 - i2 - r * i3) * P
    BY <2>2, <2>3, <2>a, <2>b, <2>c, <2>d, <2>e, PAssumption
  <2>8. Cong(A1, B1 + r * C1)
    BY <2>7 DEF Cong
  <2> QED BY <2>8 DEF A1, B1, C1, m
<1>3. n \in T
  <2> HIDE DEF T
  <2> QED BY <1>1, <1>2, SetInduction
<1> HIDE DEF T
<1>4. Cong(A(n), B(n) + r * C(n))
  BY <1>3 DEF T
<1> QED
  BY <1>4, PrefixIs

LEMMA SumCong ==
  ASSUME NEW n \in Nat, NEW a \in List(Int, n), NEW b \in List(Int, n),
         \A i \in 1 .. n : Cong(a[i], b[i])
  PROVE  Cong(SumSeq(a), SumSeq(b))
<1> DEFINE r == 0
<1>1. ASSUME NEW i \in 1 .. n PROVE Cong(a[i], b[i] + r * b[i])
  <2>1. b[i] + 0 * b[i] = b[i]
    BY DEF List
  <2> QED BY <2>1
<1>2. r \in Int
  OBVIOUS
<1> HIDE DEF r
<1>3. Cong(SumSeq(a), SumSeq(b) + r * SumSeq(b))
  BY <1>1, <1>2, SumLinear
<1>4. SumSeq(b) + 0 * SumSeq(b) = SumSeq(b)
  <2>1. SumSeq(b) \in Int
    BY SumInFp
  <2> QED BY <2>1
<1> QED
  BY <1>3, <1>4 DEF r

LEMMA SumOfZeros ==
  ASSUME NEW n \in Nat, NEW a \in List(Int, n), \A i \in 1 .. n : Cong(a[i], 0)
  PROVE  SumSeq(a) = 0
<1> DEFINE A(k) == SumSeq(Prefix(a, k))
           T == {k \in Nat : k <= n => Cong(A(k), 0)}
<1>1. 0 \in T
  <2>1. A(0) = 0 /\ Cong(0, 0)
    BY SumOfNone, CongRefl
  <2> HIDE DEF A
  <2> QED BY <2>1
<1>2. ASSUME NEW k \in Nat, k \in T PROVE k + 1 \in T
  <2> SUFFICES ASSUME k + 1 <= n PROVE Cong(A(k + 1), 0)
    OBVIOUS
  <2> DEFINE m == k + 1  x == a[m]  A0 == A(k)  A1 == A(m)
  <2>1. m \in 1 .. n /\ k \in 0 .. n /\ m \in 0 .. n
    OBVIOUS
  <2>2. x \in Int /\ Cong(x, 0)
    BY <2>1 DEF List
  <2>3. A0 \in Int /\ A1 \in Int
    <3>1. Prefix(a, k) \in List(Int, k) /\ Prefix(a, m) \in List(Int, m)
      BY <2>1, PrefixIs
    <3> QED BY <3>1, SumInFp
  <2>4. Cong(A1, A0 + x)
    BY SumSnoc
  <2>5. Cong(A0, 0)
    BY <1>2
  <2> HIDE DEF A, A0, A1, x
  <2>6. PICK i1 \in Int : A1 = A0 + x + i1 * P
    BY <2>4 DEF Cong
  <2>7. PICK i2 \in Int : x = 0 + i2 * P
    BY <2>2 DEF Cong
  <2>8. PICK i3 \in Int : A0 = 0 + i3 * P
    BY <2>5 DEF Cong
  <2>9. A1 = 0 + (i1 + i2 + i3) * P
    BY <2>2, <2>3, <2>6, <2>7, <2>8, PAssumption
  <2>10. Cong(A1, 0)
    BY <2>9 DEF Cong
  <2> QED BY <2>10 DEF A1, m
<1>3. n \in T
  <2> HIDE DEF T
  <2> QED BY <1>1, <1>2, SetInduction
<1>4. Cong(SumSeq(a), 0)
  <2>1. Prefix(a, n) = a
    BY PrefixIs
  <2> QED BY <1>3, <2>1
<1> QED
  BY <1>4, SumInFp, ZeroOneInFp, EqOfCong

LEMMA SumScaled ==
  ASSUME NEW n \in Nat, NEW a \in List(Int, n), NEW c \in List(Int, n),
         NEW r \in Int, \A i \in 1 .. n : Cong(a[i], r * c[i])
  PROVE  Cong(SumSeq(a), r * SumSeq(c))
<1> DEFINE z == [i \in 1 .. n |-> 0]
<1>1. z \in List(Int, n) /\ \A i \in 1 .. n : z[i] = 0
  BY DEF List
<1> HIDE DEF z
<1>2. SumSeq(z) = 0
  <2>1. Cong(0, 0)
    BY CongRefl
  <2> QED BY <1>1, <2>1, SumOfZeros
<1>3. \A i \in 1 .. n : Cong(a[i], z[i] + r * c[i])
  <2> TAKE i \in 1 .. n
  <2>1. c[i] \in Int
    BY DEF List
  <2>2. z[i] + r * c[i] = r * c[i]
    BY <1>1, <2>1
  <2> QED BY <2>2
<1>4. Cong(SumSeq(a), SumSeq(z) + r * SumSeq(c))
  BY <1>1, <1>3, SumLinear
<1>5. SumSeq(z) + r * SumSeq(c) = r * SumSeq(c)
  BY <1>2, SumInFp
<1> QED
  BY <1>4, <1>5

LEMMA SumOfOne ==
  ASSUME NEW a \in List(Int, 1) PROVE SumSeq(a) \in Int /\ Cong(SumSeq(a), a[1])
<1> DEFINE k == 0  n == 1
<1>1. n \in Nat /\ k \in Nat /\ k + 1 <= n /\ a \in List(Int, n) /\ k + 1 = 1
  OBVIOUS
<1>2. SumSeq(Prefix(a, k)) = 0
  BY SumOfNone
<1> HIDE DEF k, n
<1>3. Cong(SumSeq(Prefix(a, k + 1)), SumSeq(Prefix(a, k)) + a[k + 1])
  BY <1>1, SumSnoc
<1>4. Prefix(a, n) = a
  BY <1>1, PrefixIs
<1>5. a[1] \in Int /\ 0 + a[1] = a[1] /\ SumSeq(a) \in Int
  BY <1>1, SumInFp DEF List
<1> QED
  BY <1>1, <1>2, <1>3, <1>4, <1>5 DEF n

\* The sum of a list in two parts.
LEMMA SumSplit ==
  ASSUME NEW m \in Nat, NEW n \in Nat, NEW a \in List(Int, m + n)
  PROVE  /\ Prefix(a, m) \in List(Int, m) /\ [i \in 1 .. n |-> a[m + i]] \in List(Int, n)
         /\ Cong(SumSeq(a), SumSeq(Prefix(a, m)) + SumSeq([i \in 1 .. n |-> a[m + i]]))
<1> DEFINE b == [i \in 1 .. n |-> a[m + i]]
           A(k) == SumSeq(Prefix(a, k))  B(k) == SumSeq(Prefix(b, k))
           T == {k \in Nat : k <= n => Cong(A(m + k), A(m) + B(k))}
           l == m + n
<1>0. l \in Nat /\ a \in List(Int, l)
  OBVIOUS
<1>1. b \in List(Int, n) /\ Prefix(a, m) \in List(Int, m) /\ \A i \in 1 .. n : b[i] = a[m + i]
  <2>1. \A i \in 1 .. n : m + i \in 1 .. l
    OBVIOUS
  <2>2. m \in 0 .. l
    OBVIOUS
  <2>3. b \in List(Int, n)
    BY <2>1 DEF List
  <2> HIDE DEF l
  <2>4. Prefix(a, m) \in List(Int, m)
    BY <1>0, <2>2, PrefixIs
  <2> QED BY <2>3, <2>4
<1> HIDE DEF b, l
<1>2. A(m) \in Int
  BY <1>1, SumInFp
<1>3. 0 \in T
  <2>1. B(0) = 0 /\ m + 0 = m /\ A(m) + 0 = A(m) /\ Cong(A(m), A(m))
    BY <1>2, SumOfNone, CongRefl
  <2> HIDE DEF A, B
  <2> QED BY <2>1
<1>4. ASSUME NEW k \in Nat, k \in T PROVE k + 1 \in T
  <2> SUFFICES ASSUME k + 1 <= n PROVE Cong(A(m + (k + 1)), A(m) + B(k + 1))
    OBVIOUS
  <2> DEFINE x == b[k + 1]  A0 == A(m + k)  A1 == A((m + k) + 1)  B0 == B(k)  B1 == B(k + 1)
             M0 == A(m)
  <2>1. /\ m + k \in Nat /\ (m + k) + 1 <= l /\ m + k \in 0 .. l /\ (m + k) + 1 \in 0 .. l
        /\ k + 1 \in 1 .. n /\ k \in 0 .. n /\ k + 1 \in 0 .. n
        /\ (m + k) + 1 = m + (k + 1)
    BY DEF l
  <2>2. x \in Int /\ a[(m + k) + 1] = x
    BY <1>1, <2>1 DEF List
  <2>3. A0 \in Int /\ A1 \in Int /\ B0 \in Int /\ B1 \in Int
    <3>1. Prefix(a, m + k) \in List(Int, m + k) /\ Prefix(a, (m + k) + 1) \in List(Int, (m + k) + 1)
      BY <1>0, <2>1, PrefixIs
    <3>2. Prefix(b, k) \in List(Int, k) /\ Prefix(b, k + 1) \in List(Int, k + 1)
      BY <1>1, <2>1, PrefixIs
    <3>3. m + k \in Nat /\ (m + k) + 1 \in Nat /\ k + 1 \in Nat
      OBVIOUS
    <3> QED BY <3>1, <3>2, <3>3, SumInFp
  <2>4. Cong(A1, A0 + x)
    BY <1>0, <2>1, <2>2, SumSnoc
  <2>5. Cong(B1, B0 + x)
    BY <1>1, SumSnoc
  <2>6. Cong(A0, M0 + B0)
    BY <1>4
  <2> HIDE DEF A, B, A0, A1, B0, B1, x, M0
  <2>7. PICK i1 \in Int : A1 = A0 + x + i1 * P
    BY <2>4 DEF Cong
  <2>8. PICK i2 \in Int : B1 = B0 + x + i2 * P
    BY <2>5 DEF Cong
  <2>9. PICK i3 \in Int : A0 = M0 + B0 + i3 * P
    BY <2>6 DEF Cong
  <2>10. A1 = M0 + B1 + (i1 + i3 - i2) * P
    BY <1>2, <2>2, <2>3, <2>7, <2>8, <2>9, PAssumption DEF M0
  <2>11. Cong(A1, M0 + B1)
    BY <2>10 DEF Cong
  <2> QED BY <2>1, <2>11 DEF A1, B1, M0
<1>5. n \in T
  <2> HIDE DEF T
  <2> QED BY <1>3, <1>4, SetInduction
<1>6. Prefix(a, l) = a /\ Prefix(b, n) = b
  BY <1>0, <1>1, PrefixIs
<1>7. Cong(A(l), A(m) + B(n))
  BY <1>5 DEF l
<1> QED
  BY <1>1, <1>6, <1>7 DEF b

\* The sum of the sums of pairs.
LEMMA SumPairs ==
  ASSUME NEW n \in Nat, NEW a \in List(Int, 2 * n), NEW b \in List(Int, n),
         \A i \in 1 .. n : Cong(b[i], a[2 * i - 1] + a[2 * i])
  PROVE  Cong(SumSeq(a), SumSeq(b))
<1> DEFINE A(k) == SumSeq(Prefix(a, k))  B(k) == SumSeq(Prefix(b, k))
           T == {k \in Nat : k <= n => Cong(A(2 * k), B(k))}
           l == 2 * n
<1>0. l \in Nat /\ a \in List(Int, l)
  OBVIOUS
<1> HIDE DEF l
<1>1. 0 \in T
  <2>1. A(0) = 0 /\ B(0) = 0 /\ 2 * 0 = 0 /\ Cong(0, 0)
    BY SumOfNone, CongRefl
  <2> HIDE DEF A, B
  <2> QED BY <2>1
<1>2. ASSUME NEW k \in Nat, k \in T PROVE k + 1 \in T
  <2> SUFFICES ASSUME k + 1 <= n PROVE Cong(A(2 * (k + 1)), B(k + 1))
    OBVIOUS
  <2> DEFINE h == 2 * k  x == a[h + 1]  y == a[(h + 1) + 1]  z == b[k + 1]
             A0 == A(h)  A1 == A(h + 1)  A2 == A((h + 1) + 1)  B0 == B(k)  B1 == B(k + 1)
  <2>1. /\ h \in Nat /\ h + 1 \in Nat /\ h + 1 <= l /\ (h + 1) + 1 <= l /\ h \in 0 .. l
        /\ (h + 1) + 1 \in Nat
        /\ h + 1 \in 0 .. l /\ (h + 1) + 1 \in 0 .. l /\ h + 1 \in 1 .. l /\ (h + 1) + 1 \in 1 .. l
        /\ k + 1 \in 1 .. n /\ k \in 0 .. n /\ k + 1 \in 0 .. n /\ k + 1 \in Nat
        /\ (h + 1) + 1 = 2 * (k + 1) /\ h + 1 = 2 * (k + 1) - 1
    BY DEF l
  <2>2. x \in Int /\ y \in Int /\ z \in Int /\ Cong(z, x + y)
    <3>1. a[h + 1] \in Int /\ a[(h + 1) + 1] \in Int /\ b[k + 1] \in Int
      BY <1>0, <2>1 DEF List
    <3>2. Cong(b[k + 1], a[2 * (k + 1) - 1] + a[2 * (k + 1)])
      BY <2>1
    <3> QED BY <2>1, <3>1, <3>2
  <2> HIDE DEF h
  <2>3. A0 \in Int /\ A1 \in Int /\ A2 \in Int /\ B0 \in Int /\ B1 \in Int
    <3>1. /\ Prefix(a, h) \in List(Int, h) /\ Prefix(a, h + 1) \in List(Int, h + 1)
          /\ Prefix(a, (h + 1) + 1) \in List(Int, (h + 1) + 1)
      BY <1>0, <2>1, PrefixIs
    <3>2. Prefix(b, k) \in List(Int, k) /\ Prefix(b, k + 1) \in List(Int, k + 1)
      BY <2>1, PrefixIs
    <3> QED BY <2>1, <3>1, <3>2, SumInFp
  <2>4. Cong(A1, A0 + x) /\ Cong(A2, A1 + y)
    BY <1>0, <2>1, SumSnoc
  <2>5. Cong(B1, B0 + z)
    BY SumSnoc
  <2>6. Cong(A0, B0)
    BY <1>2 DEF h
  <2> HIDE DEF A, B, A0, A1, A2, B0, B1, x, y, z
  <2>7. PICK i1 \in Int : A1 = A0 + x + i1 * P
    BY <2>4 DEF Cong
  <2>8. PICK i2 \in Int : A2 = A1 + y + i2 * P
    BY <2>4 DEF Cong
  <2>9. PICK i3 \in Int : B1 = B0 + z + i3 * P
    BY <2>5 DEF Cong
  <2>10. PICK i4 \in Int : A0 = B0 + i4 * P
    BY <2>6 DEF Cong
  <2>11. PICK i5 \in Int : z = x + y + i5 * P
    BY <2>2 DEF Cong
  <2>12. A2 = B1 + (i1 + i2 + i4 - i3 - i5) * P
    BY <2>2, <2>3, <2>7, <2>8, <2>9, <2>10, <2>11, PAssumption
  <2>13. Cong(A2, B1)
    BY <2>12 DEF Cong
  <2> QED BY <2>1, <2>13 DEF A2, B1
<1>3. n \in T
  <2> HIDE DEF T
  <2> QED BY <1>1, <1>2, SetInduction
<1>4. Prefix(a, l) = a /\ Prefix(b, n) = b
  BY <1>0, PrefixIs
<1>5. Cong(A(l), B(n))
  BY <1>3 DEF l
<1> QED
  BY <1>4, <1>5

----------------------------------------------------------------------------
\* Polynomials.

LEMMA PolyInFp ==
  ASSUME NEW n \in Nat, NEW c \in List(Int, n), NEW x \in Int
  PROVE  PolyEval(c, x) \in Fp /\ PolyEval(c, x) \in Int
<1>1. PICK f \in [0 .. n -> Fp] : HornerRun(f, c, x, n) /\ PolyEval(c, x) = f[n]
  BY PolyRun
<1>2. f[n] \in Fp
  OBVIOUS
<1> QED
  BY <1>1, <1>2, FpIsInt

\* The value of a combination is that of the values.
LEMMA PolyLinear ==
  ASSUME NEW n \in Nat, NEW a \in List(Int, n), NEW b \in List(Int, n), NEW c \in List(Int, n),
         NEW r \in Int, NEW x \in Int, \A i \in 1 .. n : Cong(a[i], b[i] + r * c[i])
  PROVE  Cong(PolyEval(a, x), PolyEval(b, x) + r * PolyEval(c, x))
<1>1. PICK f \in [0 .. n -> Fp] : HornerRun(f, a, x, n) /\ PolyEval(a, x) = f[n]
  BY PolyRun
<1>2. PICK g \in [0 .. n -> Fp] : HornerRun(g, b, x, n) /\ PolyEval(b, x) = g[n]
  BY PolyRun
<1>3. PICK h \in [0 .. n -> Fp] : HornerRun(h, c, x, n) /\ PolyEval(c, x) = h[n]
  BY PolyRun
<1> DEFINE T == {k \in Nat : k <= n => Cong(f[k], g[k] + r * h[k])}
<1>4. 0 \in T
  <2>1. f[0] = 0 /\ g[0] = 0 /\ h[0] = 0 /\ Cong(0, 0) /\ 0 + r * 0 = 0
    BY <1>1, <1>2, <1>3, CongRefl DEF HornerRun
  <2> QED BY <2>1
<1>5. ASSUME NEW k \in Nat, k \in T PROVE k + 1 \in T
  <2> SUFFICES ASSUME k + 1 <= n PROVE Cong(f[k + 1], g[k + 1] + r * h[k + 1])
    OBVIOUS
  <2> DEFINE m == k + 1  i == n + 1 - m  u == a[i]  v == b[i]  w == c[i]
             F0 == f[k]  G0 == g[k]  H0 == h[k]  F1 == f[m]  G1 == g[m]  H1 == h[m]
  <2>1. m \in 1 .. n /\ m - 1 = k /\ i \in 1 .. n /\ k \in 0 .. n
    OBVIOUS
  <2>2. u \in Int /\ v \in Int /\ w \in Int /\ Cong(u, v + r * w)
    BY <2>1 DEF List
  <2>3. F0 \in Int /\ G0 \in Int /\ H0 \in Int /\ F1 \in Int /\ G1 \in Int /\ H1 \in Int
    BY <2>1, FpIsInt
  <2>4. F1 = Rlc(u, x, F0) /\ G1 = Rlc(v, x, G0) /\ H1 = Rlc(w, x, H0)
    BY <1>1, <1>2, <1>3, <2>1 DEF HornerRun
  <2>5. Cong(F0, G0 + r * H0)
    BY <1>5
  <2> HIDE DEF u, v, w, F0, G0, H0, F1, G1, H1, i
  <2>6. PICK i1 \in Int : F1 = u + x * F0 + i1 * P
    <3>1. Cong(Rlc(u, x, F0), u + x * F0)
      BY <2>2, <2>3, RlcInt
    <3> QED BY <2>4, <3>1 DEF Cong
  <2>7. PICK i2 \in Int : G1 = v + x * G0 + i2 * P
    <3>1. Cong(Rlc(v, x, G0), v + x * G0)
      BY <2>2, <2>3, RlcInt
    <3> QED BY <2>4, <3>1 DEF Cong
  <2>8. PICK i3 \in Int : H1 = w + x * H0 + i3 * P
    <3>1. Cong(Rlc(w, x, H0), w + x * H0)
      BY <2>2, <2>3, RlcInt
    <3> QED BY <2>4, <3>1 DEF Cong
  <2>9. PICK i4 \in Int : u = v + r * w + i4 * P
    BY <2>2 DEF Cong
  <2>10. PICK i5 \in Int : F0 = G0 + r * H0 + i5 * P
    BY <2>5 DEF Cong
  <2>11. F1 = G1 + r * H1 + (i1 + i4 + x * i5 - i2 - r * i3) * P
    BY <2>2, <2>3, <2>6, <2>7, <2>8, <2>9, <2>10, PAssumption
  <2>12. Cong(F1, G1 + r * H1)
    BY <2>3, <2>11 DEF Cong
  <2> QED BY <2>12 DEF F1, G1, H1, m
<1>6. n \in T
  <2> HIDE DEF T
  <2> QED BY <1>4, <1>5, SetInduction
<1> QED
  BY <1>1, <1>2, <1>3, <1>6

\* Without zeros at its end a polynomial has the same values.
LEMMA PolyPadded ==
  ASSUME NEW n \in Nat, NEW c \in List(Int, n), NEW m \in 0 .. n, NEW t \in List(Int, m),
         NEW x \in Int,
         \A j \in 1 .. m : t[j] = c[j], \A j \in m + 1 .. n : c[j] = 0
  PROVE  PolyEval(t, x) = PolyEval(c, x)
<1>6. PICK f \in [0 .. n -> Fp] : HornerRun(f, c, x, n) /\ PolyEval(c, x) = f[n]
  BY PolyRun
<1>7. \A j \in 0 .. n - m : f[j] = 0
  <2> DEFINE T == {j \in Nat : j <= n - m => f[j] = 0}
  <2>1. 0 \in T
    BY <1>6 DEF HornerRun
  <2>2. ASSUME NEW i \in Nat, i \in T PROVE i + 1 \in T
    <3> SUFFICES ASSUME i + 1 <= n - m PROVE f[i + 1] = 0
      OBVIOUS
    <3> DEFINE j == i + 1
    <3>1. j \in 1 .. n /\ n + 1 - j \in m + 1 .. n /\ j - 1 = i /\ i <= n - m
      OBVIOUS
    <3> HIDE DEF j
    <3>2. f[j] = Rlc(c[n + 1 - j], x, f[j - 1])
      BY <1>6, <3>1 DEF HornerRun
    <3>3. c[n + 1 - j] = 0 /\ f[j - 1] = 0
      BY <2>2, <3>1
    <3>4. 0 + x * 0 = 0
      OBVIOUS
    <3> QED BY <3>2, <3>3, <3>4, ZeroMod DEF Rlc, j
  <2>3. \A j \in Nat : j \in T
    <3> HIDE DEF T
    <3> QED BY <2>1, <2>2, SetInduction
  <2> QED BY <2>3
<1> DEFINE h == [j \in 0 .. m |-> f[n - m + j]]
<1>8. HornerRun(h, t, x, m)
  <2>1. h[0] = 0
    <3>1. n - m + 0 = n - m /\ n - m \in 0 .. n - m /\ 0 \in 0 .. m
      OBVIOUS
    <3> QED BY <1>7, <3>1
  <2>2. ASSUME NEW j \in 1 .. m PROVE h[j] = Rlc(t[m + 1 - j], x, h[j - 1])
    <3>1. /\ n - m + j \in 1 .. n /\ n + 1 - (n - m + j) = m + 1 - j /\ m + 1 - j \in 1 .. m
          /\ (n - m + j) - 1 = n - m + (j - 1) /\ j \in 0 .. m /\ j - 1 \in 0 .. m
      OBVIOUS
    <3>2. f[n - m + j] = Rlc(c[n + 1 - (n - m + j)], x, f[(n - m + j) - 1])
      BY <1>6, <3>1 DEF HornerRun
    <3>3. h[j] = f[n - m + j] /\ h[j - 1] = f[n - m + (j - 1)] /\ t[m + 1 - j] = c[m + 1 - j]
      BY <3>1
    <3> QED BY <3>1, <3>2, <3>3
  <2> QED BY <2>1, <2>2 DEF HornerRun
<1>9. h[m] = f[n]
  <2>1. m \in 0 .. m /\ n - m + m = n
    OBVIOUS
  <2> QED BY <2>1
<1> HIDE DEF h
<1>10. PolyEval(t, x) = h[m]
  <2>1. m \in Nat
    OBVIOUS
  <2> QED BY <1>8, <2>1, PolyValue
<1> QED
  BY <1>6, <1>9, <1>10

\* Multiplication by the variable.
LEMMA PolyShift ==
  ASSUME NEW n \in Nat, NEW c \in List(Int, n), NEW s \in List(Int, n + 1), NEW x \in Int,
         s[1] = 0, \A j \in 1 .. n : s[j + 1] = c[j]
  PROVE  Cong(PolyEval(s, x), x * PolyEval(c, x))
<1>1. PICK f \in [0 .. n -> Fp] : HornerRun(f, c, x, n) /\ PolyEval(c, x) = f[n]
  BY PolyRun
<1> DEFINE m == n + 1
           y == Rlc(0, x, f[n])
           h == [j \in 0 .. m |-> IF j = m THEN y ELSE f[j]]
<1>2. HornerRun(h, s, x, m)
  <2>1. h[0] = 0
    BY <1>1 DEF HornerRun
  <2>2. ASSUME NEW j \in 1 .. m PROVE h[j] = Rlc(s[m + 1 - j], x, h[j - 1])
    <3>1. CASE j = m
      <4>1. m + 1 - j = 1 /\ j - 1 = n /\ n \in 0 .. m /\ n # m
        BY <3>1
      <4>2. h[j - 1] = f[n]
        BY <4>1
      <4>3. h[j] = y
        BY <3>1
      <4> QED BY <4>1, <4>2, <4>3
    <3>2. CASE j # m
      <4>1. /\ j \in 1 .. n /\ n + 1 - j \in 1 .. n /\ m + 1 - j = (n + 1 - j) + 1
            /\ j - 1 \in 0 .. m /\ j - 1 # m
        BY <3>2
      <4>2. h[j] = f[j] /\ h[j - 1] = f[j - 1]
        BY <3>2, <4>1
      <4>3. f[j] = Rlc(c[n + 1 - j], x, f[j - 1])
        BY <1>1, <4>1 DEF HornerRun
      <4>4. s[m + 1 - j] = c[n + 1 - j]
        BY <4>1
      <4> QED BY <4>2, <4>3, <4>4
    <3> QED BY <3>1, <3>2
  <2> QED BY <2>1, <2>2 DEF HornerRun
<1>3. h[m] = y /\ m \in Nat
  OBVIOUS
<1> HIDE DEF h
<1>4. PolyEval(s, x) = y
  <2> HIDE DEF m
  <2>1. s \in List(Int, m)
    BY DEF m
  <2> QED BY <1>2, <1>3, <2>1, PolyValue
<1>5. Cong(y, x * f[n])
  <2>1. f[n] \in Int
    BY FpIsInt
  <2> DEFINE o == 0
  <2>2. o \in Int /\ o + x * f[n] = x * f[n]
    BY <2>1
  <2> HIDE DEF o
  <2>3. Cong(Rlc(o, x, f[n]), o + x * f[n])
    BY <2>1, <2>2, RlcInt
  <2> QED BY <2>2, <2>3 DEF o
<1> QED
  BY <1>1, <1>4, <1>5

LEMMA ListInt == ASSUME NEW n, NEW c \in List(Fp, n) PROVE c \in List(Int, n)
BY FpIsInt DEF List

\* The order of two sums does not matter.
LEMMA SumSwap ==
  ASSUME NEW k \in Nat, NEW m \in Nat, NEW e \in List(List(Int, m), k), NEW r, NEW c,
         r = [i \in 1 .. k |-> SumSeq(e[i])],
         c = [b \in 1 .. m |-> SumSeq([i \in 1 .. k |-> e[i][b]])]
  PROVE  SumSeq(r) = SumSeq(c)
<1> DEFINE col(b) == [i \in 1 .. k |-> e[i][b]]
           cols(j) == [b \in 1 .. m |-> SumSeq(Prefix(col(b), j))]
           A(j) == SumSeq(Prefix(r, j))  B(j) == SumSeq(cols(j))
           T == {j \in Nat : j <= k => Cong(A(j), B(j))}
<1>1. \A i \in 1 .. k : e[i] \in List(Int, m)
  BY DEF List
<1>2. \A i \in 1 .. k, b \in 1 .. m : e[i][b] \in Int
  BY <1>1 DEF List
<1>3. \A i \in 1 .. k : SumSeq(e[i]) \in Int
  BY <1>1, SumInFp
<1>4. r \in List(Int, k) /\ \A i \in 1 .. k : r[i] = SumSeq(e[i])
  <2>1. r \in List(Int, k)
    BY <1>3, Zenon DEF List
  <2> QED BY <2>1
<1>5. ASSUME NEW b \in 1 .. m PROVE col(b) \in List(Int, k) /\ \A i \in 1 .. k : col(b)[i] = e[i][b]
  <2>1. col(b) \in List(Int, k)
    BY <1>2, Zenon DEF List
  <2> QED BY <2>1
<1> HIDE DEF col
<1>6. ASSUME NEW j \in Nat, j <= k
      PROVE  cols(j) \in List(Int, m) /\ \A b \in 1 .. m : cols(j)[b] = SumSeq(Prefix(col(b), j))
  <2>1. \A b \in 1 .. m : SumSeq(Prefix(col(b), j)) \in Int
    <3> TAKE b \in 1 .. m
    <3>1. j \in 0 .. k
      BY <1>6
    <3>2. Prefix(col(b), j) \in List(Int, j)
      BY <1>5, <3>1, PrefixIs
    <3> QED BY <3>2, SumInFp
  <2>2. cols(j) \in List(Int, m)
    BY <2>1, Zenon DEF List
  <2> QED BY <2>2
<1> HIDE DEF cols
<1>7. 0 \in T
  <2>1. A(0) = 0
    BY SumOfNone
  <2>2. \A b \in 1 .. m : cols(0)[b] = 0
    BY <1>6, SumOfNone
  <2>3. Cong(0, 0) /\ cols(0) \in List(Int, m)
    BY <1>6, CongRefl
  <2>4. B(0) = 0
    BY <2>2, <2>3, SumOfZeros
  <2> QED BY <2>1, <2>3, <2>4
<1>8. ASSUME NEW j \in Nat, j \in T PROVE j + 1 \in T
  <2> SUFFICES ASSUME j + 1 <= k PROVE Cong(A(j + 1), B(j + 1))
    OBVIOUS
  <2> DEFINE o == 1  x == e[j + 1]
  <2>1. j <= k /\ j + 1 \in 1 .. k /\ j \in 0 .. k /\ j + 1 \in 0 .. k /\ j + 1 \in Nat
    OBVIOUS
  <2>2. x \in List(Int, m) /\ r[j + 1] = SumSeq(x)
    BY <1>1, <1>4, <2>1
  <2>3. Cong(A(j + 1), A(j) + SumSeq(x))
    <3>1. Cong(SumSeq(Prefix(r, j + 1)), SumSeq(Prefix(r, j)) + r[j + 1])
      BY <1>4, SumSnoc
    <3> QED BY <2>2, <3>1
  <2>4. cols(j) \in List(Int, m) /\ cols(j + 1) \in List(Int, m)
    BY <1>6, <2>1
  <2>5. o \in Int /\ \A b \in 1 .. m : Cong(cols(j + 1)[b], cols(j)[b] + o * x[b])
    <3>1. ASSUME NEW b \in 1 .. m PROVE Cong(cols(j + 1)[b], cols(j)[b] + o * x[b])
      <4>1. cols(j + 1)[b] = SumSeq(Prefix(col(b), j + 1)) /\ cols(j)[b] = SumSeq(Prefix(col(b), j))
        BY <1>6, <2>1
      <4>2. Cong(SumSeq(Prefix(col(b), j + 1)), SumSeq(Prefix(col(b), j)) + col(b)[j + 1])
        BY <1>5, SumSnoc
      <4>3. col(b)[j + 1] = x[b] /\ x[b] \in Int
        BY <1>2, <1>5, <2>1
      <4> HIDE DEF x
      <4>4. o * x[b] = x[b]
        BY <4>3
      <4> QED BY <4>1, <4>2, <4>3, <4>4
    <3> QED BY <3>1
  <2> HIDE DEF o, x
  <2>6. Cong(B(j + 1), B(j) + o * SumSeq(x))
    BY <2>2, <2>4, <2>5, SumLinear
  <2> DEFINE a == A(j)  b == B(j)  a1 == A(j + 1)  b1 == B(j + 1)  X == SumSeq(x)
  <2>7. a \in Int /\ b \in Int /\ a1 \in Int /\ b1 \in Int /\ X \in Int
    <3>1. Prefix(r, j) \in List(Int, j) /\ Prefix(r, j + 1) \in List(Int, j + 1)
      BY <1>4, <2>1, PrefixIs
    <3> QED BY <2>1, <2>2, <2>4, <3>1, SumInFp
  <2>8. o * X = X
    BY <2>7 DEF o
  <2>9. Cong(a, b) /\ Cong(a1, a + X) /\ Cong(b1, b + X)
    BY <1>8, <2>1, <2>3, <2>6, <2>8
  <2> HIDE DEF a, b, a1, b1, X
  <2>10. Cong(a1, b1)
    <3>1. PICK i \in Int : a = b + i * P
      BY <2>9 DEF Cong
    <3>2. PICK l \in Int : a1 = a + X + l * P
      BY <2>9 DEF Cong
    <3>3. PICK h \in Int : b1 = b + X + h * P
      BY <2>9 DEF Cong
    <3>4. a1 = b1 + (i + l - h) * P /\ i + l - h \in Int
      BY <2>7, <3>1, <3>2, <3>3, PAssumption
    <3> QED BY <3>4 DEF Cong
  <2> QED BY <2>10 DEF a1, b1
<1>9. \A j \in Nat : j \in T
  <2> HIDE DEF T
  <2> QED BY <1>7, <1>8, SetInduction
<1>10. Cong(A(k), B(k))
  BY <1>9
<1>11. Prefix(r, k) = r
  BY <1>4, PrefixIs
<1>12. cols(k) = c
  <2>1. ASSUME NEW b \in 1 .. m PROVE Prefix(col(b), k) = col(b)
    BY <1>5, PrefixIs
  <2>2. \A b \in 1 .. m : SumSeq(Prefix(col(b), k)) = SumSeq([i \in 1 .. k |-> e[i][b]])
    BY <2>1 DEF col
  <2> QED BY <2>2, Zenon DEF cols
<1>13. SumSeq(r) \in Fp /\ SumSeq(c) \in Fp
  <2>1. c \in List(Int, m)
    <3>1. k \in Nat /\ k <= k
      OBVIOUS
    <3>2. cols(k) \in List(Int, m)
      BY <1>6, <3>1
    <3> QED BY <1>12, <3>2, Zenon
  <2> QED BY <1>4, <2>1, SumInFp
<1> QED
  BY <1>10, <1>11, <1>12, <1>13, EqOfCong

LEMMA PolyScaled ==
  ASSUME NEW n \in Nat, NEW a \in List(Int, n), NEW c \in List(Int, n),
         NEW r \in Int, NEW x \in Int, \A i \in 1 .. n : Cong(a[i], r * c[i])
  PROVE  Cong(PolyEval(a, x), r * PolyEval(c, x))
<1> DEFINE q == r - 1
<1>1. q \in Int
  OBVIOUS
<1>2. ASSUME NEW i \in 1 .. n PROVE Cong(a[i], c[i] + q * c[i])
  <2>1. c[i] \in Int
    BY DEF List
  <2>2. c[i] + q * c[i] = r * c[i]
    BY <2>1
  <2> QED BY <2>2
<1> HIDE DEF q
<1>3. Cong(PolyEval(a, x), PolyEval(c, x) + q * PolyEval(c, x))
  BY <1>1, <1>2, PolyLinear
<1>4. PolyEval(c, x) + q * PolyEval(c, x) = r * PolyEval(c, x)
  <2>1. PolyEval(c, x) \in Int
    BY PolyInFp
  <2> QED BY <2>1 DEF q
<1> QED
  BY <1>3, <1>4

LEMMA PolyScaleEval ==
  ASSUME NEW n \in Nat, NEW c \in List(Fp, n), NEW r \in Int, NEW x \in Int
  PROVE  /\ PolyScale(c, r) \in List(Fp, n)
         /\ Cong(PolyEval(PolyScale(c, r), x), r * PolyEval(c, x))
<1> DEFINE d == PolyScale(c, r)
<1>1. c \in List(Int, n)
  BY ListInt
<1>2. d \in List(Fp, n) /\ \A j \in 1 .. n : d[j] = (r * c[j]) % P
  BY <1>1, PolyScaleIs
<1> HIDE DEF d
<1>3. d \in List(Int, n)
  BY <1>2, ListInt
<1>4. \A j \in 1 .. n : Cong(d[j], r * c[j])
  <2> TAKE j \in 1 .. n
  <2>1. r * c[j] \in Int
    BY <1>1 DEF List
  <2> QED BY <1>2, <2>1, CongOfMod
<1> QED
  BY <1>1, <1>2, <1>3, <1>4, PolyScaled DEF d

LEMMA PolyOfOne ==
  ASSUME NEW c \in List(Int, 1), NEW x \in Int
  PROVE  PolyEval(c, x) \in Int /\ Cong(PolyEval(c, x), c[1])
<1> DEFINE n == 1  z == 0
<1>1. n \in Nat /\ z \in Int /\ c \in List(Int, n) /\ c[1] \in Int
  BY DEF List
<1> HIDE DEF n
<1>2. PICK f \in [0 .. n -> Fp] : HornerRun(f, c, x, n) /\ PolyEval(c, x) = f[n]
  BY <1>1, PolyRun
<1>3. f[1] = Rlc(c[1], x, z)
  BY <1>2 DEF HornerRun, n
<1> HIDE DEF z
<1>4. Cong(f[1], c[1] + x * z)
  BY <1>1, <1>3, RlcInt
<1>5. c[1] + x * z = c[1]
  BY <1>1 DEF z
<1> QED
  BY <1>1, <1>2, <1>4, <1>5, PolyInFp DEF n

\* Powers up to the eighth, by the squarings that Pow makes.
P2(a) == Sq((1 * a) % P)
P3(a) == (P2(a) * a) % P
P5(a) == (Sq(P2(a)) * a) % P
P7(a) == (Sq(P3(a)) * a) % P
Powers(a) ==
  [j \in 0 .. 8 |-> IF j = 0 THEN 1 ELSE IF j = 1 THEN (1 * a) % P ELSE IF j = 2 THEN P2(a)
                    ELSE IF j = 3 THEN P3(a) ELSE IF j = 4 THEN Sq(P2(a)) ELSE IF j = 5 THEN P5(a)
                    ELSE IF j = 6 THEN Sq(P3(a)) ELSE IF j = 7 THEN P7(a) ELSE Sq(Sq(P2(a)))]

LEMMA PowersSteps ==
  ASSUME NEW a, NEW e, e = Powers(a)
  PROVE  /\ e[0] = 1 /\ e[1] = (e[0] * a) % P /\ e[2] = Sq(e[1]) /\ e[3] = (e[2] * a) % P
         /\ e[4] = Sq(e[2]) /\ e[5] = (e[4] * a) % P /\ e[6] = Sq(e[3]) /\ e[7] = (e[6] * a) % P
         /\ e[8] = Sq(e[4])
<1>1. /\ e[0] = 1 /\ e[1] = (1 * a) % P /\ e[2] = P2(a) /\ e[3] = P3(a) /\ e[4] = Sq(P2(a))
      /\ e[5] = P5(a) /\ e[6] = Sq(P3(a)) /\ e[7] = P7(a) /\ e[8] = Sq(Sq(P2(a)))
  BY DEF Powers
<1> QED
  BY <1>1, Zenon DEF P2, P3, P5, P7

LEMMA PowIs ==
  ASSUME NEW a, NEW n \in 0 .. 8
  PROVE  Pow(a, n) = Powers(a)[n]
<1> DEFINE e == Powers(a)
           Rec(h) == h = [j \in 0 .. n |-> IF j = 0 THEN 1
                                           ELSE IF j % 2 = 0 THEN Sq(h[j \div 2])
                                           ELSE (h[j - 1] * a) % P]
           c == CHOOSE h : Rec(h)
           d == [j \in 0 .. n |-> e[j]]
<1>1. Pow(a, n) = c[n]
  BY DEF Pow
<1>2. /\ e[0] = 1 /\ e[1] = (e[0] * a) % P /\ e[2] = Sq(e[1]) /\ e[3] = (e[2] * a) % P
      /\ e[4] = Sq(e[2]) /\ e[5] = (e[4] * a) % P /\ e[6] = Sq(e[3]) /\ e[7] = (e[6] * a) % P
      /\ e[8] = Sq(e[4])
  BY PowersSteps
<1> HIDE DEF e
<1>3. Rec(d)
  <2>1. ASSUME NEW j \in 0 .. n
        PROVE  d[j] = IF j = 0 THEN 1 ELSE IF j % 2 = 0 THEN Sq(d[j \div 2]) ELSE (d[j - 1] * a) % P
    <3>1. j = 0 \/ j = 1 \/ j = 2 \/ j = 3 \/ j = 4 \/ j = 5 \/ j = 6 \/ j = 7 \/ j = 8
      OBVIOUS
    <3>2. d[j] = e[j] /\ (j # 0 => d[j - 1] = e[j - 1]) /\ d[j \div 2] = e[j \div 2]
      <4>1. j # 0 => j - 1 \in 0 .. n
        OBVIOUS
      <4>2. j \div 2 \in 0 .. n
        BY <3>1
      <4> QED BY <4>1, <4>2
    <3> HIDE DEF d
    <3> QED BY <1>2, <3>1, <3>2
  <2>2. d = [j \in 0 .. n |-> d[j]]
    OBVIOUS
  <2> HIDE DEF d
  <2> QED BY <2>1, <2>2
<1>4. Rec(c)
  <2> HIDE DEF Rec
  <2> QED BY <1>3
<1> HIDE DEF c
<1>5. /\ c[0] = 1 /\ (1 <= n => c[1] = (c[0] * a) % P) /\ (2 <= n => c[2] = Sq(c[1]))
      /\ (3 <= n => c[3] = (c[2] * a) % P) /\ (4 <= n => c[4] = Sq(c[2]))
      /\ (5 <= n => c[5] = (c[4] * a) % P) /\ (6 <= n => c[6] = Sq(c[3]))
      /\ (7 <= n => c[7] = (c[6] * a) % P) /\ (8 <= n => c[8] = Sq(c[4]))
  <2>1. \A j \in 0 .. n : c[j] = IF j = 0 THEN 1 ELSE IF j % 2 = 0 THEN Sq(c[j \div 2])
                                 ELSE (c[j - 1] * a) % P
    BY <1>4
  <2> HIDE DEF Rec
  <2>2. c[0] = 1 /\ (1 <= n => c[1] = (c[0] * a) % P)
    BY <2>1
  <2>3. (2 <= n => c[2] = Sq(c[1])) /\ (3 <= n => c[3] = (c[2] * a) % P)
    BY <2>1
  <2>4. (4 <= n => c[4] = Sq(c[2])) /\ (5 <= n => c[5] = (c[4] * a) % P)
    BY <2>1
  <2>5. (6 <= n => c[6] = Sq(c[3])) /\ (7 <= n => c[7] = (c[6] * a) % P)
    BY <2>1
  <2>6. 8 <= n => c[8] = Sq(c[4])
    BY <2>1
  <2> QED BY <2>2, <2>3, <2>4, <2>5, <2>6
<1> HIDE DEF Rec
<1>6. c[0] = e[0] /\ (1 <= n => c[1] = e[1]) /\ (2 <= n => c[2] = e[2])
  BY <1>2, <1>5
<1>7. (3 <= n => c[3] = e[3]) /\ (4 <= n => c[4] = e[4])
  BY <1>2, <1>5, <1>6
<1>8. /\ (5 <= n => c[5] = e[5]) /\ (6 <= n => c[6] = e[6]) /\ (8 <= n => c[8] = e[8])
  BY <1>2, <1>5, <1>7
<1>9. 7 <= n => c[7] = e[7]
  BY <1>2, <1>5, <1>8
<1>10. n = 0 \/ n = 1 \/ n = 2 \/ n = 3 \/ n = 4 \/ n = 5 \/ n = 6 \/ n = 7 \/ n = 8
  OBVIOUS
<1>11. c[n] = e[n]
  BY <1>6, <1>7, <1>8, <1>9, <1>10
<1> QED
  BY <1>1, <1>11 DEF e
----------------------------------------------------------------------------
\* The constraints of an augmented circuit with its rows from row 0 on, HyperNova's or
\* ProtoGalaxy's.
StepRows(cs) ==
  /\ MatricesOk(cs)
  /\ cs.A = [k \in Slot |-> IF k = 0 THEN E1(6) ELSE IF k = 1 THEN E1(3)
                            ELSE IF k = 2 THEN E1(7) ELSE ZeroVec]
  /\ cs.B = [k \in Slot |-> IF k = 0 THEN E1(0) ELSE IF k = 1 THEN E1(3)
                            ELSE IF k = 2 THEN E1(0) ELSE ZeroVec]
  /\ cs.C = [k \in Slot |-> IF k = 0 THEN E1(1)
                            ELSE IF k = 1 THEN [E1(5) EXCEPT ![4] = P - 1, ![0] = (P - 5) % P]
                            ELSE IF k = 2 THEN E1(2) ELSE ZeroVec]

\* A constraint that an assignment satisfies.
LEMMA ConstraintHolds ==
  ASSUME NEW cs, MatricesOk(cs), NEW z \in Vec, NEW k \in Slot,
         Cong(Dot(cs.A[k], z) * Dot(cs.B[k], z) - z[0] * Dot(cs.C[k], z), 0)
  PROVE  EvalAtZ(cs, z)[k] = 0
<1> DEFINE x == Dot(cs.A[k], z) * Dot(cs.B[k], z) - z[0] * Dot(cs.C[k], z)
           e == EvalAtZ(cs, z)[k]
<1>1. e \in Fp /\ Cong(e, x)
  BY EvalRow DEF Vec
<1>2. x \in Int
  <2>1. cs.A[k] \in Vec /\ cs.B[k] \in Vec /\ cs.C[k] \in Vec /\ z[0] \in Int
    BY FpIsInt DEF MatricesOk, Matrix, Vec, Slot
  <2>2. Dot(cs.A[k], z) \in Int /\ Dot(cs.B[k], z) \in Int /\ Dot(cs.C[k], z) \in Int
    BY <2>1, DotIsSum, FpIsInt
  <2> QED BY <2>1, <2>2
<1> HIDE DEF x, e
<1>3. e \in Int /\ Cong(x, 0)
  BY <1>1, FpIsInt DEF x
<1>4. Cong(e, 0)
  <2> DEFINE o == 0
  <2>1. o \in Int /\ Cong(x, o)
    BY <1>3
  <2> HIDE DEF o
  <2>2. Cong(e, o)
    BY <1>1, <1>2, <1>3, <2>1, CongTrans
  <2> QED BY <2>2 DEF o
<1>5. e = 0
  BY <1>1, <1>4, EqOfCong, ZeroOneInFp
<1> QED
  BY <1>5 DEF e

\* The assignment of such a circuit satisfies it.
LEMMA StepSatisfied ==
  ASSUME NEW cs, StepRows(cs), NEW z \in Vec, z[0] = 1, z[6] = z[1], z[7] = z[2],
         z[5] = (z[3] * z[3] + z[4] + 5) % P
  PROVE  EvalAtZ(cs, z) = ZeroVec
<1>0. MatricesOk(cs)
  BY DEF StepRows
<1>1. /\ z[0] \in Int /\ z[1] \in Int /\ z[2] \in Int /\ z[3] \in Int /\ z[4] \in Int
      /\ z[5] \in Int /\ z[6] \in Int /\ z[7] \in Int /\ \A k \in Slot : z[k] \in Int
  BY FpIsInt DEF Vec, Slot
<1>2. /\ Dot(E1(3), z) = z[3] /\ Dot(E1(6), z) = z[6] /\ Dot(E1(7), z) = z[7]
      /\ Dot(E1(0), z) = z[0] /\ Dot(E1(1), z) = z[1] /\ Dot(E1(2), z) = z[2]
  BY DotE1 DEF Slot
<1>3. Dot(ZeroVec, z) = 0
  BY DotZero
<1> DEFINE m == (P - 5) % P
           c == Dot([E1(5) EXCEPT ![4] = P - 1, ![0] = m], z)
<1>4. m \in Int /\ Cong(m, P - 5)
  BY PAssumption, ModInFp, CongOfMod, FpIsInt
<1>5. c = ((m + (P - 1) * z[4] + z[5]) % P)
  <2> HIDE DEF m
  <2> DEFINE row == [E1(5) EXCEPT ![4] = P - 1, ![0] = m]
  <2>1. /\ row[0] = m /\ row[1] = 0 /\ row[2] = 0 /\ row[3] = 0 /\ row[4] = P - 1
        /\ row[5] = 1 /\ row[6] = 0 /\ row[7] = 0
    <3> DEFINE one == [E1(5) EXCEPT ![4] = P - 1]
    <3>1. /\ one[1] = 0 /\ one[2] = 0 /\ one[3] = 0 /\ one[4] = P - 1 /\ one[5] = 1
          /\ one[6] = 0 /\ one[7] = 0 /\ DOMAIN one = Slot
      BY DEF E1, Slot
    <3>2. row = [one EXCEPT ![0] = m]
      OBVIOUS
    <3> HIDE DEF one, row
    <3> QED BY <3>1, <3>2 DEF Slot
  <2>2. Dot(row, z) = (  row[0] * z[0] + row[1] * z[1] + row[2] * z[2] + row[3] * z[3]
                       + row[4] * z[4] + row[5] * z[5] + row[6] * z[6] + row[7] * z[7]) % P
    BY DEF Dot
  <2> HIDE DEF row
  <2>3. row[0] * z[0] + row[1] * z[1] + row[2] * z[2] + row[3] * z[3]
          + row[4] * z[4] + row[5] * z[5] + row[6] * z[6] + row[7] * z[7]
          = m + (P - 1) * z[4] + z[5]
    BY <1>1, <1>4, <2>1, PAssumption
  <2> QED BY <2>2, <2>3 DEF row
<1>6. Cong(z[3] * z[3] - c, 0) /\ c \in Int
  <2> HIDE DEF m
  <2>1. c \in Int /\ Cong(c, m + (P - 1) * z[4] + z[5])
    <3>1. m + (P - 1) * z[4] + z[5] \in Int
      BY <1>1, <1>4, PAssumption
    <3> QED BY <1>5, <3>1, ModInFp, CongOfMod, FpIsInt
  <2>2. Cong(z[5], z[3] * z[3] + z[4] + 5)
    <3>1. z[3] * z[3] + z[4] + 5 \in Int
      BY <1>1
    <3> QED BY <3>1, CongOfMod
  <2> HIDE DEF c
  <2>3. PICK k1 \in Int : c = m + (P - 1) * z[4] + z[5] + k1 * P
    BY <2>1 DEF Cong
  <2>4. PICK k2 \in Int : z[5] = z[3] * z[3] + z[4] + 5 + k2 * P
    BY <2>2 DEF Cong
  <2>5. PICK k3 \in Int : m = P - 5 + k3 * P
    BY <1>4 DEF Cong
  <2>6. z[3] * z[3] - c = 0 + (-(1 + z[4] + k1 + k2 + k3)) * P
    BY <1>1, <1>4, <2>1, <2>3, <2>4, <2>5, PAssumption
  <2>7. -(1 + z[4] + k1 + k2 + k3) \in Int
    BY <1>1
  <2> QED BY <2>1, <2>6, <2>7 DEF Cong
<1> HIDE DEF m, c
<1>7. ASSUME NEW k \in Slot
      PROVE  Cong(Dot(cs.A[k], z) * Dot(cs.B[k], z) - z[0] * Dot(cs.C[k], z), 0)
  <2> DEFINE x == Dot(cs.A[k], z) * Dot(cs.B[k], z) - z[0] * Dot(cs.C[k], z)
  <2>1. CASE k = 0
    <3>1. x = z[6] * z[0] - z[0] * z[1]
      BY <1>2, <2>1 DEF StepRows
    <3>2. z[6] * z[0] - z[0] * z[1] = 0
      BY <1>1
    <3> QED BY <3>1, <3>2, CongRefl
  <2>2. CASE k = 1
    <3>1. x = z[3] * z[3] - z[0] * c
      BY <1>2, <2>2 DEF StepRows, c, m
    <3>2. z[3] * z[3] - z[0] * c = z[3] * z[3] - c
      BY <1>1, <1>6
    <3> QED BY <1>6, <3>1, <3>2
  <2>3. CASE k = 2
    <3>1. x = z[7] * z[0] - z[0] * z[2]
      BY <1>2, <2>3 DEF StepRows
    <3>2. z[7] * z[0] - z[0] * z[2] = 0
      BY <1>1
    <3> QED BY <3>1, <3>2, CongRefl
  <2>4. CASE k \notin 0 .. 2
    <3>1. x = 0 * 0 - z[0] * 0
      BY <1>3, <2>4 DEF StepRows
    <3>2. 0 * 0 - z[0] * 0 = 0
      BY <1>1
    <3> QED BY <3>1, <3>2, CongRefl
  <2> QED BY <2>1, <2>2, <2>3, <2>4 DEF Slot
<1>8. \A k \in Slot : EvalAtZ(cs, z)[k] = 0
  BY <1>0, <1>7, ConstraintHolds
<1>9. EvalAtZ(cs, z) \in Vec
  BY <1>0, EvalRow
<1> QED
  BY <1>8, <1>9 DEF Vec, ZeroVec

----------------------------------------------------------------------------
\* KZG: an inner product is a sum.
LEMMA InnerIsSum ==
  ASSUME NEW n \in Nat, NEW a \in List(Int, n), NEW b \in List(Int, n)
  PROVE  Inner(a, b) = SumSeq([j \in 1 .. n |-> a[j] * b[j]])
<1> DEFINE s == [j \in 1 .. n |-> a[j] * b[j]]
<1>1. s \in List(Int, n) /\ \A j \in 1 .. n : s[j] = a[j] * b[j]
  <2>1. ASSUME NEW j \in 1 .. n PROVE a[j] * b[j] \in Int
    BY DEF List
  <2> QED BY <2>1 DEF List
<1> HIDE DEF s
<1>2. PICK f \in [0 .. n -> Fp] :
        f[0] = 0 /\ (\A j \in 1 .. n : f[j] = (f[j - 1] + s[j]) % P) /\ SumSeq(s) = f[n]
  BY <1>1, SumSeqRun
<1> DEFINE Rec(h) == h = [j \in 0 .. n |-> IF j = 0 THEN 0 ELSE (h[j - 1] + a[j] * b[j]) % P]
           c == CHOOSE h : Rec(h)
<1>3. Rec(f)
  <2>1. \A j \in 0 .. n : f[j] = IF j = 0 THEN 0 ELSE (f[j - 1] + a[j] * b[j]) % P
    BY <1>1, <1>2
  <2> QED BY <2>1
<1>4. Inner(a, b) = c[n]
  <2>1. Len(a) = n
    BY DEF List
  <2> QED BY <2>1 DEF Inner
<1>5. Rec(c)
  <2> HIDE DEF Rec
  <2> QED BY <1>3
<1>6. c[0] = f[0] /\ \A j \in 1 .. n : c[j - 1] = f[j - 1] => c[j] = f[j]
  <2> HIDE DEF c
  <2>1. c[0] = 0
    BY <1>5
  <2>2. ASSUME NEW j \in 1 .. n PROVE c[j] = (c[j - 1] + s[j]) % P
    BY <1>1, <1>5
  <2> QED BY <1>2, <2>1, <2>2
<1> HIDE DEF c
<1>7. c[n] = f[n]
  <2>1. \A j \in 0 .. n : c[j] = f[j]
    BY <1>6, SameRun, ZenonT(60)
  <2> QED BY <2>1
<1> QED
  BY <1>2, <1>4, <1>7 DEF s

LEMMA InnerInFp ==
  ASSUME NEW n \in Nat, NEW a \in List(Int, n), NEW b \in List(Int, n)
  PROVE  Inner(a, b) \in Fp
<1> DEFINE s == [j \in 1 .. n |-> a[j] * b[j]]
<1>1. s \in List(Int, n)
  <2>1. ASSUME NEW j \in 1 .. n PROVE a[j] * b[j] \in Int
    BY DEF List
  <2> QED BY <2>1 DEF List
<1>2. Inner(a, b) = SumSeq(s)
  BY InnerIsSum
<1> HIDE DEF s
<1> QED
  BY <1>1, <1>2, SumSeqRun

\* A row of the domain's inverse transform.
LEMMA InverseRow ==
  ASSUME NEW j \in 1 .. 8
  PROVE  InverseDomain[8][j] \in List(Fp, 8) /\ InverseDomain[8][j] \in List(Int, 8)
<1> DEFINE at(i, k) == (Pow(Omega, ((8 \div 8) * (8 - 1) * (i - 1) * (k - 1)) % 8)
                          * (P - (P - 1) \div 8)) % P
           row(i) == [k \in 1 .. 8 |-> at(i, k)]
<1>1. ASSUME NEW i \in 1 .. 8, NEW k \in 1 .. 8 PROVE at(i, k) \in Fp
  <2> DEFINE e == ((8 \div 8) * (8 - 1) * (i - 1) * (k - 1)) % 8
             q == P - (P - 1) \div 8
  <2>1. e \in 0 .. 8
    <3> DEFINE h == (i - 1) * (k - 1)  g == (8 \div 8) * (8 - 1) * (i - 1) * (k - 1)
    <3>1. (8 \div 8) * (8 - 1) * (i - 1) * (k - 1) \in Int
      OBVIOUS
    <3> HIDE DEF g
    <3>2. g \in Int
      BY <3>1 DEF g
    <3>3. g % 8 \in 0 .. 8
      BY <3>2
    <3> QED BY <3>3 DEF g
  <2>2. q \in Int
    BY PAssumption
  <2>3. Pow(Omega, e) \in Fp
    <3>1. Pow(Omega, e) = Powers(Omega)[e]
      BY <2>1, PowIs
    <3> HIDE DEF e
    <3>2. Omega \in Int
      BY KzgAssumption, FpIsInt
    <3> DEFINE p == Powers(Omega)
    <3>3. /\ p[0] = 1 /\ p[1] = (p[0] * Omega) % P /\ p[2] = Sq(p[1]) /\ p[3] = (p[2] * Omega) % P
          /\ p[4] = Sq(p[2]) /\ p[5] = (p[4] * Omega) % P /\ p[6] = Sq(p[3])
          /\ p[7] = (p[6] * Omega) % P /\ p[8] = Sq(p[4])
      BY PowersSteps
    <3> HIDE DEF p
    <3>4. p[0] \in Fp
      BY <3>3, ZeroOneInFp
    <3>5. \A x \in Fp : Sq(x) \in Fp /\ (x * Omega) % P \in Fp
      BY <3>2, SquareInFp, FpIsInt, ModInFp DEF Sq
    <3>6. p[1] \in Fp
      BY <3>3, <3>4, <3>5, Zenon
    <3>7. p[2] \in Fp
      BY <3>3, <3>6, <3>5, Zenon
    <3>8. p[3] \in Fp /\ p[4] \in Fp
      BY <3>3, <3>7, <3>5, Zenon
    <3>9. p[5] \in Fp /\ p[6] \in Fp /\ p[8] \in Fp
      BY <3>3, <3>8, <3>5, Zenon
    <3>10. p[7] \in Fp
      BY <3>3, <3>9, <3>5, Zenon
    <3>11. e = 0 \/ e = 1 \/ e = 2 \/ e = 3 \/ e = 4 \/ e = 5 \/ e = 6 \/ e = 7 \/ e = 8
      BY <2>1
    <3>12. p[e] \in Fp
      BY <3>4, <3>6, <3>7, <3>8, <3>9, <3>10, <3>11
    <3> QED BY <3>1, <3>12 DEF p
  <2> HIDE DEF e, q
  <2>4. (Pow(Omega, e) * q) % P \in Fp
    BY <2>2, <2>3, FpIsInt, ModInFp
  <2> QED BY <2>4 DEF e, q
<1> HIDE DEF at
<1>2. ASSUME NEW i \in 1 .. 8 PROVE row(i) \in List(Fp, 8) /\ <<>> \o row(i) = row(i)
  <2> DEFINE n == 8
  <2>1. n \in Nat /\ row(i) \in [1 .. n -> Fp]
    BY <1>1
  <2>2. <<>> \o row(i) = row(i)
    <3> HIDE DEF n, row
    <3> QED BY <2>1, CollectIs
  <2> QED BY <2>1, <2>2 DEF List
<1>3. InverseDomain[8] = <<>> \o [i \in 1 .. 8 |-> <<>> \o row(i)]
  BY DEF InverseDomain, Collect, at
<1> DEFINE rows == [i \in 1 .. 8 |-> <<>> \o row(i)]
<1>4. rows \in [1 .. 8 -> List(Fp, 8)] /\ rows[j] = row(j)
  <2>1. \A i \in 1 .. 8 : rows[i] = <<>> \o row(i)
    OBVIOUS
  <2>2. rows = [i \in 1 .. 8 |-> rows[i]]
    OBVIOUS
  <2> HIDE DEF row, rows
  <2> QED BY <1>2, <2>1, <2>2
<1>5. <<>> \o rows = rows
  <2> DEFINE n == 8
  <2>1. n \in Nat /\ rows \in [1 .. n -> List(Fp, 8)]
    BY <1>4
  <2> HIDE DEF n, rows
  <2> QED BY <2>1, CollectIs
<1> HIDE DEF row
<1>6. InverseDomain[8][j] \in List(Fp, 8)
  <2> HIDE DEF rows
  <2>1. InverseDomain[8] = rows
    BY <1>3, <1>5 DEF rows
  <2> QED BY <2>1, <1>2, <1>4
<1> QED
  BY <1>6, ListInt

\* The polynomial of a full vector of values.
LEMMA PolyFromVecIs ==
  ASSUME NEW v \in List(Int, 8)
  PROVE  /\ PolyFromVec(v) \in List(Fp, 8)
         /\ \A j \in 1 .. 8 : PolyFromVec(v)[j] = Inner(v, InverseDomain[8][j])
<1> DEFINE f == [j \in 1 .. 8 |-> Inner(v, InverseDomain[8][j])]  n == 8
<1>1. ASSUME NEW j \in 1 .. 8 PROVE Inner(v, InverseDomain[8][j]) \in Fp
  <2>1. InverseDomain[8][j] \in List(Int, n) /\ v \in List(Int, n) /\ n \in Nat
    BY InverseRow
  <2> HIDE DEF n
  <2> QED BY <2>1, InnerInFp
<1>2. f \in List(Fp, n) /\ n \in Nat
  BY <1>1 DEF List
<1>3. Len(v) = 8
  BY DEF List
<1>4. DomainSize(8) = 8
  <2>1. \A m : m \in {1, 2, 4, 8} /\ m >= 8 /\ 8 < 2 * m <=> m = 8
    OBVIOUS
  <2>2. \E m \in {1, 2, 4, 8} : m >= 8 /\ m < 2 * 8
    OBVIOUS
  <2>3. \A m \in {1, 2, 4, 8} : m >= 8 /\ m < 2 * 8 => m = 8
    OBVIOUS
  <2> QED BY <2>2, <2>3 DEF DomainSize
<1>5. PolyFromVec(v) = <<>> \o f
  BY <1>3, <1>4 DEF PolyFromVec, Interpolation, Collect
<1>6. <<>> \o f = f
  <2> HIDE DEF f, n
  <2> QED BY <1>2, CollectIs DEF List
<1> QED
  BY <1>2, <1>5, <1>6

\* It is linear in them, and so is its commitment.
LEMMA KzgLinear ==
  ASSUME NEW a \in List(Int, 8), NEW b \in List(Int, 8), NEW c \in List(Int, 8), NEW r \in Int,
         \A i \in 1 .. 8 : Cong(a[i], b[i] + r * c[i])
  PROVE  /\ KzgCommit(a) \in Fp /\ KzgCommit(b) \in Fp /\ KzgCommit(c) \in Fp
         /\ Cong(KzgCommit(a), KzgCommit(b) + r * KzgCommit(c))
<1> DEFINE n == 8  p(v) == PolyFromVec(v)
<1>1. n \in Nat /\ a \in List(Int, n) /\ b \in List(Int, n) /\ c \in List(Int, n)
  OBVIOUS
<1>2. ASSUME NEW v \in List(Int, n)
      PROVE  /\ p(v) \in List(Int, n)
             /\ \A j \in 1 .. n : /\ InverseDomain[8][j] \in List(Int, n)
                                  /\ p(v)[j] = Inner(v, InverseDomain[8][j])
  BY PolyFromVecIs, InverseRow, ListInt
<1>3. Beta \in Int
  BY KzgAssumption, FpIsInt
<1>4. ASSUME NEW v \in List(Int, n) PROVE KzgCommit(v) = PolyEval(p(v), Beta) /\ KzgCommit(v) \in Fp
  <2>1. KzgCommit(v) = PolyEval(p(v), Beta)
    BY DEF KzgCommit, Msm
  <2> HIDE DEF n, p
  <2> QED BY <1>1, <1>2, <1>3, <2>1, PolyInFp
<1> HIDE DEF n, p
<1>5. ASSUME NEW j \in 1 .. n PROVE Cong(p(a)[j], p(b)[j] + r * p(c)[j])
  <2> DEFINE w == InverseDomain[8][j]
             t(v) == [i \in 1 .. n |-> v[i] * w[i]]
  <2>1. w \in List(Int, n)
    BY <1>1, <1>2
  <2> HIDE DEF w
  <2>2. ASSUME NEW v \in List(Int, n) PROVE t(v) \in List(Int, n) /\ Inner(v, w) = SumSeq(t(v))
    <3>1. ASSUME NEW i \in 1 .. n PROVE v[i] * w[i] \in Int
      <4>1. v[i] \in Int /\ w[i] \in Int
        BY <2>1 DEF List
      <4> QED BY <4>1
    <3> QED BY <1>1, <2>1, <3>1, InnerIsSum DEF List
  <2>3. ASSUME NEW i \in 1 .. n PROVE Cong(t(a)[i], t(b)[i] + r * t(c)[i])
    <3>1. /\ a[i] \in Int /\ b[i] \in Int /\ c[i] \in Int /\ w[i] \in Int
          /\ Cong(a[i], b[i] + r * c[i])
      BY <1>1, <2>1 DEF List, n
    <3>2. PICK k \in Int : a[i] = b[i] + r * c[i] + k * P
      BY <3>1 DEF Cong
    <3>3. a[i] * w[i] = b[i] * w[i] + r * (c[i] * w[i]) + (k * w[i]) * P
      BY <3>1, <3>2, PAssumption
    <3>4. k * w[i] \in Int
      BY <3>1
    <3> QED BY <3>3, <3>4 DEF Cong
  <2> HIDE DEF t
  <2>4. Cong(SumSeq(t(a)), SumSeq(t(b)) + r * SumSeq(t(c)))
    BY <1>1, <2>2, <2>3, SumLinear
  <2>5. p(a)[j] = SumSeq(t(a)) /\ p(b)[j] = SumSeq(t(b)) /\ p(c)[j] = SumSeq(t(c))
    BY <1>1, <1>2, <2>2 DEF w
  <2> QED BY <2>4, <2>5
<1>6. Cong(PolyEval(p(a), Beta), PolyEval(p(b), Beta) + r * PolyEval(p(c), Beta))
  BY <1>1, <1>2, <1>3, <1>5, PolyLinear
<1> QED
  BY <1>1, <1>4, <1>6

\* A full vector of Field, as the list that is committed to.
LEMMA EntriesIs ==
  ASSUME NEW v \in Vec
  PROVE  /\ Entries(v) \in List(Fp, 8) /\ Entries(v) \in List(Int, 8)
         /\ \A i \in 1 .. 8 : Entries(v)[i] = v[i - 1]
<1>1. ASSUME NEW i \in 1 .. 8 PROVE v[i - 1] \in Fp
  BY DEF Vec, Slot
<1> QED
  BY <1>1, ListInt DEF Entries, List

\* With the generators of the setup, the sum that Pedersen's commitment is made of
\* is KZG's commitment.
LEMMA KzgIsDot ==
  ASSUME NEW g, \A k \in Slot : g[k] = KzgCommit(Entries(E1(k))), NEW v \in Vec
  PROVE  KzgCommit(Entries(v)) = Dot(g, v) /\ Dot(g, v) \in Fp
<1> DEFINE t(m) == [k \in Slot |-> IF k < m THEN v[k] ELSE 0]
           K(m) == KzgCommit(Entries(t(m)))
<1>1. ASSUME NEW m \in Nat PROVE t(m) \in Vec
  BY ZeroOneInFp DEF Vec
<1>2. ASSUME NEW m \in Slot
      PROVE  /\ K(m + 1) \in Int /\ K(m) \in Int /\ K(m) \in Fp /\ K(m + 1) \in Fp
             /\ g[m] \in Int /\ v[m] \in Int
             /\ Cong(K(m + 1), K(m) + v[m] * g[m])
  <2> DEFINE a == Entries(t(m + 1))  b == Entries(t(m))  c == Entries(E1(m))  r == v[m]
  <2>1. m \in Nat /\ m + 1 \in Nat /\ r \in Int
    BY FpIsInt DEF Slot, Vec
  <2>2. /\ a \in List(Int, 8) /\ b \in List(Int, 8) /\ c \in List(Int, 8)
        /\ \A i \in 1 .. 8 : a[i] = t(m + 1)[i - 1] /\ b[i] = t(m)[i - 1] /\ c[i] = E1(m)[i - 1]
    <3>1. t(m + 1) \in Vec /\ t(m) \in Vec /\ E1(m) \in Vec
      BY <1>1, <2>1, E1InVec
    <3> HIDE DEF t
    <3> QED BY <3>1, EntriesIs
  <2>3. ASSUME NEW i \in 1 .. 8 PROVE Cong(a[i], b[i] + r * c[i])
    <3> DEFINE k == i - 1
    <3>1. k \in Slot /\ a[i] = t(m + 1)[k] /\ b[i] = t(m)[k] /\ c[i] = E1(m)[k]
      BY <2>2 DEF Slot
    <3> HIDE DEF k, a, b, c
    <3>2. v[k] \in Int
      BY <3>1, FpIsInt DEF Vec
    <3>3. CASE k = m
      <4>1. t(m + 1)[k] = r /\ t(m)[k] = 0 /\ E1(m)[k] = 1
        BY <3>1, <3>3, <2>1 DEF E1
      <4>2. a[i] = b[i] + r * c[i] /\ a[i] \in Int
        BY <2>1, <3>1, <4>1
      <4> QED BY <4>2, CongRefl
    <3>4. CASE k # m
      <4>1. t(m + 1)[k] = t(m)[k] /\ E1(m)[k] = 0 /\ t(m)[k] \in Int
        BY <3>1, <3>2, <3>4 DEF E1, Slot
      <4>2. a[i] = b[i] + r * c[i] /\ a[i] \in Int
        BY <2>1, <3>1, <4>1
      <4> QED BY <4>2, CongRefl
    <3> QED BY <3>3, <3>4
  <2>4. /\ KzgCommit(a) \in Fp /\ KzgCommit(b) \in Fp /\ KzgCommit(c) \in Fp
        /\ Cong(KzgCommit(a), KzgCommit(b) + r * KzgCommit(c))
    <3> HIDE DEF a, b, c, r
    <3> QED BY <2>1, <2>2, <2>3, KzgLinear
  <2>5. KzgCommit(a) = K(m + 1) /\ KzgCommit(b) = K(m) /\ KzgCommit(c) = g[m]
    OBVIOUS
  <2> HIDE DEF a, b, c, K
  <2> QED BY <2>1, <2>4, <2>5, FpIsInt
<1>3. K(0) = 0
  <2> DEFINE a == Entries(t(0))  r == 1
  <2>1. a \in List(Int, 8) /\ \A i \in 1 .. 8 : a[i] = 0
    <3>1. t(0) \in Vec /\ \A i \in 1 .. 8 : t(0)[i - 1] = 0
      BY <1>1 DEF Slot
    <3> HIDE DEF t
    <3> QED BY <3>1, EntriesIs
  <2> HIDE DEF a
  <2>2. ASSUME NEW i \in 1 .. 8 PROVE Cong(a[i], a[i] + r * a[i])
    <3>1. a[i] = a[i] + r * a[i] /\ a[i] \in Int
      BY <2>1
    <3> QED BY <3>1, CongRefl
  <2>3. r \in Int
    OBVIOUS
  <2> HIDE DEF r
  <2>4. KzgCommit(a) \in Fp /\ Cong(KzgCommit(a), KzgCommit(a) + r * KzgCommit(a))
    BY <2>1, <2>2, <2>3, KzgLinear
  <2> DEFINE y == KzgCommit(a)
  <2> HIDE DEF y
  <2>5. y \in Fp /\ y \in Int /\ Cong(y, y + 1 * y)
    BY <2>4, FpIsInt DEF y, r
  <2>6. PICK k \in Int : y = y + 1 * y + k * P
    BY <2>5 DEF Cong
  <2>7. 0 = y + k * P
    BY <2>5, <2>6, PAssumption
  <2>8. Cong(0, y)
    BY <2>7 DEF Cong
  <2>9. y = 0
    BY <2>5, <2>8, EqOfCong, ZeroOneInFp
  <2> QED BY <2>9 DEF y, a
<1>4. t(8) = v
  <2>1. \A k \in Slot : t(8)[k] = v[k]
    BY DEF Slot
  <2> QED BY <2>1 DEF Vec
<1>5. KzgCommit(Entries(v)) = K(8)
  BY <1>4
<1> DEFINE x(m) == v[m] * g[m]
<1> HIDE DEF t, K
<1>6. \A m \in Slot : x(m) \in Int
  BY <1>2
<1> HIDE DEF x
<1>7. ASSUME NEW m \in Slot, NEW s \in Int, Cong(K(m), s)
      PROVE  Cong(K(m + 1), s + x(m)) /\ s + x(m) \in Int
  <2>1. /\ K(m + 1) \in Int /\ K(m) \in Int /\ x(m) \in Int /\ Cong(K(m + 1), K(m) + x(m))
    BY <1>2, <1>6 DEF x
  <2>2. PICK i \in Int : K(m) = s + i * P
    BY <1>7 DEF Cong
  <2>3. PICK j \in Int : K(m + 1) = K(m) + x(m) + j * P
    BY <2>1 DEF Cong
  <2>4. K(m + 1) = (s + x(m)) + (i + j) * P /\ i + j \in Int
    BY <2>1, <2>2, <2>3, PAssumption
  <2> QED BY <2>1, <2>4 DEF Cong
<1>8. 0 \in Slot /\ 1 \in Slot /\ 2 \in Slot /\ 3 \in Slot /\ 4 \in Slot /\ 5 \in Slot /\ 6 \in Slot
      /\ 7 \in Slot
  BY DEF Slot
<1>9. Cong(K(8), x(0) + x(1) + x(2) + x(3) + x(4) + x(5) + x(6) + x(7))
  <2>1. Cong(K(0), 0) /\ 0 \in Int
    BY <1>3, CongRefl
  <2>2. Cong(K(0 + 1), 0 + x(0)) /\ 0 + x(0) \in Int
    BY <1>7, <1>8, <2>1
  <2>3. Cong(K(1), x(0)) /\ x(0) \in Int
    BY <1>6, <1>8, <2>2
  <2>4. Cong(K(1 + 1), x(0) + x(1)) /\ x(0) + x(1) \in Int
    BY <1>7, <1>8, <2>3
  <2>5. Cong(K(2 + 1), x(0) + x(1) + x(2)) /\ x(0) + x(1) + x(2) \in Int
    BY <1>7, <1>8, <2>4
  <2>6. Cong(K(3 + 1), x(0) + x(1) + x(2) + x(3)) /\ x(0) + x(1) + x(2) + x(3) \in Int
    BY <1>7, <1>8, <2>5
  <2>7. Cong(K(4 + 1), x(0) + x(1) + x(2) + x(3) + x(4)) /\ x(0) + x(1) + x(2) + x(3) + x(4) \in Int
    BY <1>7, <1>8, <2>6
  <2>8. /\ Cong(K(5 + 1), x(0) + x(1) + x(2) + x(3) + x(4) + x(5))
        /\ x(0) + x(1) + x(2) + x(3) + x(4) + x(5) \in Int
    BY <1>7, <1>8, <2>7
  <2>9. /\ Cong(K(6 + 1), x(0) + x(1) + x(2) + x(3) + x(4) + x(5) + x(6))
        /\ x(0) + x(1) + x(2) + x(3) + x(4) + x(5) + x(6) \in Int
    BY <1>7, <1>8, <2>8
  <2>10. Cong(K(7 + 1), x(0) + x(1) + x(2) + x(3) + x(4) + x(5) + x(6) + x(7))
    BY <1>7, <1>8, <2>9
  <2> QED BY <2>10
<1> DEFINE d ==   g[0] * v[0] + g[1] * v[1] + g[2] * v[2] + g[3] * v[3]
                + g[4] * v[4] + g[5] * v[5] + g[6] * v[6] + g[7] * v[7]
<1>10. d = x(0) + x(1) + x(2) + x(3) + x(4) + x(5) + x(6) + x(7) /\ d \in Int
  BY <1>2, <1>8 DEF x
<1>11. Dot(g, v) = d % P
  BY DEF Dot
<1> HIDE DEF d
<1>12. Dot(g, v) \in Fp /\ Cong(Dot(g, v), d) /\ Dot(g, v) \in Int
  BY <1>10, <1>11, ModInFp, CongOfMod, FpIsInt
<1>13. K(8) \in Fp /\ K(8) \in Int
  <2>1. K(7 + 1) \in Fp /\ K(7 + 1) \in Int
    BY <1>2, <1>8
  <2> QED BY <2>1
<1>14. Cong(K(8), d) /\ Cong(d, Dot(g, v))
  BY <1>9, <1>10, <1>12, CongSym
<1>15. Cong(K(8), Dot(g, v))
  BY <1>10, <1>12, <1>13, <1>14, CongTrans
<1> QED
  BY <1>5, <1>12, <1>13, <1>15, EqOfCong

\* The remainder and the quotient by X - c run like Horner's scheme.
LEMMA DivideByLinearIs ==
  ASSUME NEW n \in Nat, NEW p \in List(Int, n), NEW c \in Int
  PROVE  /\ DivideByLinear(p, c) \in List(Fp, n) /\ Len(DivideByLinear(p, c)) = n
         /\ \A j \in 1 .. n : DivideByLinear(p, c)[j]
              = Rlc(p[j], c, Coefficient(DivideByLinear(p, c), n, j + 1))
<1>1. PICK f \in [0 .. n -> Fp] : HornerRun(f, p, c, n)
  BY PolyRun
<1> DEFINE Rec(h) == h = [j \in 1 .. n + 1 |-> IF j > n THEN 0 ELSE (p[j] + c * h[j + 1]) % P]
           q == CHOOSE h : Rec(h)
           b == [j \in 1 .. n + 1 |-> f[n + 1 - j]]
           e == [j \in 1 .. n |-> q[j]]
<1>2. Rec(b)
  <2>1. ASSUME NEW j \in 1 .. n + 1
        PROVE  b[j] = IF j > n THEN 0 ELSE (p[j] + c * b[j + 1]) % P
    <3>1. CASE j > n
      <4>1. n + 1 - j = 0
        BY <3>1
      <4> QED BY <1>1, <3>1, <4>1 DEF HornerRun
    <3>2. CASE ~(j > n)
      <4>1. n + 1 - j \in 1 .. n /\ n + 1 - (n + 1 - j) = j /\ (n + 1 - j) - 1 = n + 1 - (j + 1)
        BY <3>2
      <4>2. b[j] = f[n + 1 - j] /\ b[j + 1] = f[n + 1 - (j + 1)]
        BY <3>2
      <4>3. f[n + 1 - j] = Rlc(p[j], c, f[n + 1 - (j + 1)])
        BY <1>1, <4>1 DEF HornerRun
      <4> QED BY <3>2, <4>2, <4>3 DEF Rlc
    <3> QED BY <3>1, <3>2
  <2> HIDE DEF b
  <2>2. b = [j \in 1 .. n + 1 |-> b[j]]
    BY DEF b
  <2> QED BY <2>1, <2>2
<1>3. Rec(q)
  <2> HIDE DEF Rec
  <2> QED BY <1>2
<1>4. Len(p) = n
  BY DEF List
<1>5. DivideByLinear(p, c) = <<>> \o e
  BY <1>4 DEF DivideByLinear, Collect
<1>6. \A j \in 1 .. n + 1 : q[j] = IF j > n THEN 0 ELSE (p[j] + c * q[j + 1]) % P
  BY <1>3
<1> HIDE DEF q
<1>7. \A j \in 0 .. n : q[n + 1 - j] = f[j]
  <2> DEFINE h == [j \in 0 .. n |-> q[n + 1 - j]]
  <2>1. h[0] = f[0]
    <3>1. n + 1 > n /\ n + 1 \in 1 .. n + 1 /\ n + 1 - 0 = n + 1 /\ 0 \in 0 .. n
      OBVIOUS
    <3>2. q[n + 1] = 0
      BY <1>6, <3>1
    <3> QED BY <1>1, <3>1, <3>2 DEF HornerRun
  <2>2. ASSUME NEW j \in 1 .. n, h[j - 1] = f[j - 1] PROVE h[j] = f[j]
    <3>1. n + 1 - j \in 1 .. n + 1 /\ ~(n + 1 - j > n) /\ (n + 1 - j) + 1 = n + 1 - (j - 1)
      OBVIOUS
    <3>2. q[n + 1 - j] = (p[n + 1 - j] + c * q[n + 1 - (j - 1)]) % P
      BY <1>6, <3>1
    <3>3. f[j] = Rlc(p[n + 1 - j], c, f[j - 1])
      BY <1>1 DEF HornerRun
    <3>4. h[j] = q[n + 1 - j] /\ h[j - 1] = q[n + 1 - (j - 1)]
      OBVIOUS
    <3> QED BY <2>2, <3>2, <3>3, <3>4 DEF Rlc
  <2>3. \A j \in 0 .. n : h[j] = f[j]
    <3> HIDE DEF h
    <3> QED BY <2>1, <2>2, SameRun, ZenonT(60)
  <2> QED BY <2>3
<1>8. e \in [1 .. n -> Fp]
  <2>1. ASSUME NEW j \in 1 .. n PROVE q[j] \in Fp
    <3>1. n + 1 - j \in 0 .. n /\ n + 1 - (n + 1 - j) = j
      OBVIOUS
    <3> QED BY <1>7, <3>1
  <2> QED BY <2>1
<1>9. <<>> \o e = e /\ Len(e) = n
  <2> HIDE DEF e
  <2> QED BY <1>8, CollectIs
<1>10. ASSUME NEW j \in 1 .. n PROVE e[j] = Rlc(p[j], c, Coefficient(e, n, j + 1))
  <2>1. q[j] = (p[j] + c * q[j + 1]) % P
    BY <1>6
  <2>2. q[j + 1] = Coefficient(e, n, j + 1)
    <3>1. CASE j + 1 <= n
      BY <3>1 DEF Coefficient
    <3>2. CASE ~(j + 1 <= n)
      BY <1>6, <3>2 DEF Coefficient
    <3> QED BY <3>1, <3>2
  <2> QED BY <2>1, <2>2 DEF Rlc
<1> HIDE DEF e
<1> QED
  BY <1>5, <1>8, <1>9, <1>10 DEF List

\* Dividing is exact: with the quotient Tail(d) the remainder d[1] is the value at c.
LEMMA DivisionByLinear ==
  ASSUME NEW p \in List(Int, 8), NEW c \in Int, NEW x \in Int, NEW d, d = DivideByLinear(p, c)
  PROVE  /\ Head(d) \in Fp /\ PolyEval(Tail(d), x) \in Fp
         /\ Cong(PolyEval(p, x), Head(d) + (x - c) * PolyEval(Tail(d), x))
<1> DEFINE n == 8  m == 7
           t == [j \in 1 .. n |-> Coefficient(d, n, j + 1)]
           s == [j \in 1 .. n |-> IF j = 1 THEN 0 ELSE d[j]]
           o == [j \in 1 .. n |-> IF j = 1 THEN d[1] ELSE 0]
           u == Tail(d)
<1>1. /\ n \in Nat /\ m \in Nat /\ n = m + 1 /\ m \in 0 .. n /\ 1 \in 1 .. n /\ p \in List(Int, n)
  OBVIOUS
<1>2. /\ d \in List(Fp, n) /\ Len(d) = n
      /\ \A j \in 1 .. n : d[j] = Rlc(p[j], c, Coefficient(d, n, j + 1))
  <2> HIDE DEF n
  <2> QED BY <1>1, DivideByLinearIs
<1>3. d \in Seq(Fp) /\ d # <<>>
  <2> HIDE DEF n
  <2>1. d \in [1 .. n -> Fp]
    BY <1>2 DEF List
  <2>2. d \in Seq(Fp)
    BY <1>1, <2>1, SeqDef
  <2>3. Len(d) # 0
    BY <1>2 DEF n
  <2> QED BY <2>2, <2>3
<1>4. /\ Head(d) = d[1] /\ Len(u) = m /\ u \in Seq(Fp) /\ \A j \in 1 .. m : u[j] = d[j + 1]
  <2>1. /\ Tail(d) \in Seq(Fp) /\ Len(Tail(d)) = Len(d) - 1
        /\ \A i \in 1 .. Len(Tail(d)) : Tail(d)[i] = d[i + 1]
    BY <1>3, HeadTailProperties
  <2>2. Head(d) = d[1]
    BY <1>3
  <2>3. Len(Tail(d)) = m
    <3> HIDE DEF u
    <3> QED BY <1>2, <2>1
  <2> HIDE DEF m
  <2> QED BY <2>1, <2>2, <2>3
<1>5. u \in List(Int, m) /\ d \in List(Int, n)
  <2>1. u \in [1 .. Len(u) -> Fp]
    BY <1>4, LenProperties
  <2>2. u \in List(Fp, m)
    BY <1>4, <2>1 DEF List
  <2> QED BY <1>2, <2>2, ListInt
<1>6. \A j \in 1 .. n : d[j] \in Fp /\ d[j] \in Int
  BY <1>2, FpIsInt DEF List
<1>7. t \in List(Int, n) /\ s \in List(Int, n) /\ o \in List(Int, n)
  <2>1. \A j \in 1 .. n : Coefficient(d, n, j + 1) \in Int
    BY <1>6 DEF Coefficient
  <2> QED BY <1>6, <2>1 DEF List
<1>8. /\ \A j \in 1 .. n : t[j] = Coefficient(d, n, j + 1)
      /\ \A j \in 1 .. m : t[j] = u[j]
      /\ \A j \in m + 1 .. n : t[j] = 0
      /\ s[1] = 0 /\ (\A j \in 1 .. m : s[j + 1] = u[j])
      /\ o[1] = d[1] /\ \A j \in 2 .. n : o[j] = 0
      /\ \A j \in 1 .. n : d[j] = o[j] + 1 * s[j]
  <2>1. \A j \in 1 .. n : t[j] = Coefficient(d, n, j + 1)
    OBVIOUS
  <2>2. \A j \in 1 .. m : j \in 1 .. n /\ j + 1 \in 1 .. n /\ j + 1 # 1
    OBVIOUS
  <2>3. ASSUME NEW j \in 1 .. m PROVE t[j] = u[j] /\ s[j + 1] = u[j]
    <3>1. t[j] = d[j + 1] /\ s[j + 1] = d[j + 1]
      BY <2>2 DEF Coefficient
    <3> QED BY <1>4, <3>1
  <2>4. \A j \in m + 1 .. n : t[j] = 0
    BY DEF Coefficient
  <2>5. \A j \in 1 .. n : d[j] = o[j] + 1 * s[j]
    BY <1>6
  <2>6. s[1] = 0 /\ o[1] = d[1] /\ \A j \in 2 .. n : o[j] = 0
    OBVIOUS
  <2> HIDE DEF t, s, o, u, n, m
  <2> QED BY <2>1, <2>3, <2>4, <2>5, <2>6
<1> HIDE DEF t, s, o, u
<1> DEFINE a == 1  w == [j \in 1 .. a |-> d[1]]
<1>9. w \in List(Int, 1) /\ w[1] = d[1]
  BY <1>6 DEF List
<1> DEFINE y == PolyEval(u, x)  z == d[1]
<1>10. y \in Fp /\ y \in Int /\ z \in Int
  <2> HIDE DEF n, m
  <2> QED BY <1>1, <1>5, <1>6, PolyInFp
<1>11. PolyEval(t, x) = y
  <2> HIDE DEF n, m
  <2> QED BY <1>1, <1>5, <1>7, <1>8, PolyPadded
<1>12. Cong(PolyEval(s, x), x * y)
  <2> HIDE DEF n, m
  <2> QED BY <1>1, <1>5, <1>7, <1>8, PolyShift
<1>13. Cong(PolyEval(o, x), z)
  <2>1. PolyEval(w, x) \in Int /\ Cong(PolyEval(w, x), w[1])
    BY <1>9, PolyOfOne
  <2>2. a \in 0 .. n /\ w \in List(Int, a) /\ (\A j \in 1 .. a : w[j] = o[j]) /\ \A j \in a + 1 .. n : o[j] = 0
    BY <1>8, <1>9
  <2> HIDE DEF n, a, w
  <2>3. PolyEval(w, x) = PolyEval(o, x)
    BY <1>1, <1>7, <2>2, PolyPadded
  <2> QED BY <1>9, <2>1, <2>3
<1>14. Cong(PolyEval(d, x), PolyEval(o, x) + 1 * PolyEval(s, x))
  <2> DEFINE r == 1
  <2>1. \A j \in 1 .. n : Cong(d[j], o[j] + r * s[j])
    BY <1>6, <1>8, CongRefl
  <2>2. r \in Int
    OBVIOUS
  <2> HIDE DEF n, r
  <2>3. Cong(PolyEval(d, x), PolyEval(o, x) + r * PolyEval(s, x))
    BY <1>1, <1>5, <1>7, <2>1, <2>2, PolyLinear
  <2> QED BY <2>3 DEF r
<1>15. Cong(PolyEval(p, x), PolyEval(d, x) + (-c) * PolyEval(t, x))
  <2> DEFINE r == -c
  <2>1. ASSUME NEW j \in 1 .. n PROVE Cong(p[j], d[j] + r * t[j])
    <3>1. p[j] \in Int /\ t[j] \in Int /\ d[j] = Rlc(p[j], c, t[j])
      BY <1>1, <1>2, <1>7, <1>8 DEF List
    <3>2. PICK k \in Int : d[j] = p[j] + c * t[j] + k * P
      <4>1. \E k \in Int : Rlc(p[j], c, t[j]) = p[j] + c * t[j] + k * P
        BY <3>1, RlcStep
      <4> QED BY <3>1, <4>1
    <3>3. p[j] = d[j] + r * t[j] + (-k) * P
      BY <3>1, <3>2, PAssumption
    <3> QED BY <3>3 DEF Cong
  <2>2. r \in Int
    OBVIOUS
  <2> HIDE DEF n, r
  <2>3. Cong(PolyEval(p, x), PolyEval(d, x) + r * PolyEval(t, x))
    BY <1>1, <1>5, <1>7, <2>1, <2>2, PolyLinear
  <2> QED BY <2>3 DEF r
<1>16. /\ PolyEval(p, x) \in Int /\ PolyEval(d, x) \in Int /\ PolyEval(o, x) \in Int
       /\ PolyEval(s, x) \in Int
  <2> HIDE DEF n
  <2> QED BY <1>1, <1>5, <1>7, PolyInFp
<1> DEFINE pe == PolyEval(p, x)  de == PolyEval(d, x)  oe == PolyEval(o, x)  se == PolyEval(s, x)
<1> HIDE DEF pe, de, oe, se, y, z
<1>17. Cong(pe, z + (x - c) * y)
  <2>1. PICK k1 \in Int : pe = de + (-c) * y + k1 * P
    BY <1>11, <1>15 DEF Cong, pe, de
  <2>2. PICK k2 \in Int : de = oe + 1 * se + k2 * P
    BY <1>14 DEF Cong, de, oe, se
  <2>3. PICK k3 \in Int : oe = z + k3 * P
    BY <1>13 DEF Cong, oe
  <2>4. PICK k4 \in Int : se = x * y + k4 * P
    BY <1>12 DEF Cong, se
  <2>5. pe = z + (x - c) * y + (k1 + k2 + k3 + k4) * P
    <3>1. pe \in Int /\ de \in Int /\ oe \in Int /\ se \in Int
      BY <1>16 DEF pe, de, oe, se
    <3>2. (x - c) * y = x * y + (-c) * y
      BY <1>10
    <3>3. (k1 + k2 + k3 + k4) * P = k1 * P + k2 * P + k3 * P + k4 * P
      BY PAssumption
    <3> DEFINE xy == x * y  cy == (-c) * y
    <3>4. xy \in Int /\ cy \in Int /\ k1 * P \in Int /\ k2 * P \in Int /\ k3 * P \in Int /\ k4 * P \in Int
      BY <1>10, PAssumption
    <3> HIDE DEF xy, cy
    <3>5. pe = de + cy + k1 * P /\ se = xy + k4 * P /\ (x - c) * y = xy + cy
      BY <2>1, <2>4, <3>2 DEF xy, cy
    <3> QED BY <1>10, <2>2, <2>3, <3>1, <3>3, <3>4, <3>5
  <2> QED BY <2>5 DEF Cong
<1>18. Head(d) \in Fp
  BY <1>4, <1>6, <1>1
<1> QED
  BY <1>4, <1>10, <1>17, <1>18 DEF pe, y, z, u

\* prove_with_challenge and verify_with_challenge: a prover's opening at c has the value
\* at c, and is accepted of exactly one commitment, its own.
THEOREM KzgOpens ==
  ASSUME NEW v \in List(Int, 8), NEW c \in Fp, NEW cm \in Fp,
         NEW pf, pf = KzgProveWithChallenge(c, v)
  PROVE  /\ pf.eval = EvalVec(v, c)
         /\ KzgVerifyWithChallenge(c, cm, pf) <=> cm = KzgCommit(v)
<1> DEFINE p == PolyFromVec(v)  d == DivideByLinear(p, c)
<1>1. p \in List(Int, 8) /\ c \in Int /\ Beta \in Int /\ cm \in Int
  BY PolyFromVecIs, ListInt, KzgAssumption, FpIsInt
<1>2. pf.eval = Head(d) /\ pf.proof = PolyEval(Tail(d), Beta)
  BY DEF KzgProveWithChallenge, OpeningAt, Msm
<1>3. EvalVec(v, c) = PolyEval(p, c) /\ KzgCommit(v) = PolyEval(p, Beta)
  BY DEF EvalVec, KzgCommit, Msm
<1> HIDE DEF p
<1>4. \A x \in Int : /\ Head(d) \in Fp /\ PolyEval(Tail(d), x) \in Fp
                     /\ Cong(PolyEval(p, x), Head(d) + (x - c) * PolyEval(Tail(d), x))
  BY <1>1, DivisionByLinear
<1> HIDE DEF d
<1>5. PolyEval(p, c) \in Fp /\ PolyEval(p, Beta) \in Fp
  <2> DEFINE n == 8
  <2>1. n \in Nat /\ p \in List(Int, n)
    BY <1>1
  <2> HIDE DEF n
  <2> QED BY <1>1, <2>1, PolyInFp
<1> DEFINE h == Head(d)  y == PolyEval(Tail(d), Beta)  k == PolyEval(p, Beta)
<1>6. h \in Fp /\ h \in Int /\ y \in Int /\ k \in Fp /\ k \in Int
  BY <1>1, <1>4, <1>5, FpIsInt
<1>7. PolyEval(p, c) = h
  <2>1. PolyEval(Tail(d), c) \in Int
    BY <1>1, <1>4, FpIsInt
  <2>2. (c - c) * PolyEval(Tail(d), c) = 0
    BY <1>1, <2>1
  <2>3. Cong(PolyEval(p, c), h)
    BY <1>1, <1>4, <1>6, <2>2
  <2> QED BY <1>5, <1>6, <2>3, EqOfCong
<1>8. Cong(k, h + (Beta - c) * y)
  BY <1>1, <1>4
<1> HIDE DEF h, y, k
<1> DEFINE w == y * (Beta - c)
<1>9. w \in Int /\ (Beta - c) * y = w
  BY <1>1, <1>6
<1> HIDE DEF w
<1>10. PICK i \in Int : k = h + w + i * P
  BY <1>8, <1>9 DEF Cong
<1>11. ASSUME cm = k PROVE ((cm - h) % P) = (w % P)
  <2>1. cm - h = w + i * P
    BY <1>6, <1>9, <1>10, <1>11, PAssumption
  <2>2. Cong(cm - h, w) /\ cm - h \in Int
    BY <1>1, <1>6, <2>1 DEF Cong
  <2> QED BY <1>9, <2>2, ModOfCong
<1>12. ASSUME ((cm - h) % P) = (w % P) PROVE cm = k
  <2>1. cm - h \in Int
    BY <1>1, <1>6
  <2>2. Cong((cm - h) % P, cm - h) /\ Cong(w % P, w)
    BY <1>9, <2>1, CongOfMod
  <2>3. PICK a \in Int : ((cm - h) % P) = (cm - h) + a * P
    BY <2>2 DEF Cong
  <2>4. PICK b \in Int : (w % P) = w + b * P
    BY <2>2 DEF Cong
  <2>5. cm = k + (b - a - i) * P
    <3>1. (b - a - i) * P = b * P - a * P - i * P
      BY PAssumption
    <3>2. a * P \in Int /\ b * P \in Int /\ i * P \in Int
      BY PAssumption
    <3> QED BY <1>1, <1>6, <1>9, <1>10, <1>12, <2>3, <2>4, <3>1, <3>2
  <2>6. Cong(cm, k)
    BY <2>5 DEF Cong
  <2> QED BY <1>6, <2>6, EqOfCong
<1>13. KzgVerifyWithChallenge(c, cm, pf) <=> ((cm - h) % P) = (w % P)
  BY <1>2 DEF KzgVerifyWithChallenge, h, w, y
<1> QED
  BY <1>2, <1>3, <1>7, <1>11, <1>12, <1>13 DEF h, k

\* The challenges are two field elements.
LEMMA KzgChallengesAre ==
  ASSUME NEW tr, NEW a, NEW b
  PROVE  /\ DOMAIN KzgChallenges(tr, <<a, b>>) = 1 .. 2
         /\ KzgChallenges(tr, <<a, b>>)[1] \in Fp /\ KzgChallenges(tr, <<a, b>>)[2] \in Fp
         /\ Len(KzgChallenges(tr, <<a, b>>)) = 2 /\ KzgChallenges(tr, <<a, b>>) \in Seq(Int)
<1> DEFINE cms == <<a, b>>
           Of(s, j) == GetChallenge(Absorb(s.tr, <<cms[j]>>))
           Next1(s, j) == [tr |-> Of(s, j).tr, rs |-> Append(s.rs, Of(s, j).r)]
           Rec(g) == g = [j \in 0 .. 2 |-> IF j = 0 THEN [tr |-> tr, rs |-> <<>>]
                                           ELSE Next1(g[j - 1], j)]
           s0 == [tr |-> tr, rs |-> <<>>]  s1 == Next1(s0, 1)  s2 == Next1(s1, 2)
           c  == CHOOSE g : Rec(g)
           f  == [j \in 0 .. 2 |-> IF j = 0 THEN s0 ELSE IF j = 1 THEN s1 ELSE s2]
<1>1. Len(cms) = 2
  OBVIOUS
<1>2. KzgChallenges(tr, cms) = c[2].rs
  BY <1>1 DEF KzgChallenges
<1>3. Rec(f)
  <2> HIDE DEF Next1, s0
  <2>1. f[0] = s0 /\ f[1] = s1 /\ f[2] = s2
    OBVIOUS
  <2>2. \A j \in 0 .. 2 : f[j] = IF j = 0 THEN s0 ELSE Next1(f[j - 1], j)
    BY <2>1
  <2> HIDE DEF f
  <2>3. f = [j \in 0 .. 2 |-> f[j]]
    BY DEF f
  <2> QED BY <2>2, <2>3 DEF s0
<1>4. Rec(c)
  <2> HIDE DEF Rec
  <2> QED BY <1>3
<1> HIDE DEF c
<1>5. c[2] = s2
  <2> HIDE DEF Next1
  <2>1. c[0] = s0
    BY <1>4
  <2>2. c[1] = Next1(c[0], 1)
    BY <1>4
  <2>3. c[2] = Next1(c[1], 2)
    BY <1>4
  <2> QED BY <2>1, <2>2, <2>3
<1>6. \A s : GetChallenge(s).r \in Fp
  BY SqueezeInFp DEF GetChallenge
<1> DEFINE r1 == Of(s0, 1).r  r2 == Of(s1, 2).r
<1>7. r1 \in Fp /\ r2 \in Fp
  BY <1>6
<1>8. s1.rs = Append(s0.rs, r1) /\ s2.rs = Append(s1.rs, r2) /\ s0.rs = <<>>
  OBVIOUS
<1> HIDE DEF s0, s1, s2, r1, r2
<1>9. s2.rs = <<r1, r2>>
  <2>1. s1.rs = <<r1>>
    BY <1>7, <1>8
  <2>2. s2.rs = Append(<<r1>>, r2)
    BY <1>8, <2>1
  <2>3. Append(<<r1>>, r2) = <<r1, r2>>
    <3> DEFINE l == <<r1>>  q == Append(l, r2)
    <3>1. l \in Seq(Fp) /\ Len(l) = 1 /\ l[1] = r1
      BY <1>7
    <3> HIDE DEF l
    <3>2. q \in Seq(Fp) /\ Len(q) = 2 /\ q[1] = r1 /\ q[2] = r2
      <4>1. /\ q \in Seq(Fp) /\ Len(q) = Len(l) + 1 /\ q[Len(l) + 1] = r2
            /\ \A i \in 1 .. Len(l) : q[i] = l[i]
        BY <1>7, <3>1, AppendProperties, ZenonT(30)
      <4>2. Len(l) + 1 = 2 /\ 1 \in 1 .. Len(l)
        BY <3>1
      <4> QED BY <3>1, <4>1, <4>2
    <3>3. <<r1, r2>> \in Seq(Fp) /\ Len(<<r1, r2>>) = 2
      BY <1>7
    <3> HIDE DEF q
    <3>4. \A i \in 1 .. 2 : q[i] = <<r1, r2>>[i]
      BY <3>2
    <3>5. q = <<r1, r2>>
      BY <3>2, <3>3, <3>4, SeqEqual
    <3> QED BY <3>5 DEF q, l
  <2> QED BY <2>2, <2>3
<1>10. <<r1, r2>> \in Seq(Int)
  <2>1. r1 \in Int /\ r2 \in Int
    BY <1>7, FpIsInt
  <2> QED BY <2>1
<1>11. KzgChallenges(tr, cms) = <<r1, r2>>
  BY <1>2, <1>5, <1>9
<1> HIDE DEF cms
<1>12. DOMAIN KzgChallenges(tr, cms) = 1 .. 2 /\ KzgChallenges(tr, cms)[1] = r1
       /\ KzgChallenges(tr, cms)[2] = r2 /\ Len(KzgChallenges(tr, cms)) = 2
       /\ KzgChallenges(tr, cms) \in Seq(Int)
  BY <1>10, <1>11
<1> QED
  BY <1>7, <1>12 DEF cms

\* One commitment is followed by one challenge.
LEMMA KzgChallengeIs ==
  ASSUME NEW tr, NEW a
  PROVE  /\ DOMAIN KzgChallenges(tr, <<a>>) = 1 .. 1 /\ KzgChallenges(tr, <<a>>)[1] \in Fp
         /\ KzgChallenges(tr, <<a>>) \in Seq(Int)
<1> DEFINE cms == <<a>>
           Of(s, j) == GetChallenge(Absorb(s.tr, <<cms[j]>>))
           Next1(s, j) == [tr |-> Of(s, j).tr, rs |-> Append(s.rs, Of(s, j).r)]
           Rec(g) == g = [j \in 0 .. 1 |-> IF j = 0 THEN [tr |-> tr, rs |-> <<>>]
                                           ELSE Next1(g[j - 1], j)]
           s0 == [tr |-> tr, rs |-> <<>>]  s1 == Next1(s0, 1)
           c  == CHOOSE g : Rec(g)
           f  == [j \in 0 .. 1 |-> IF j = 0 THEN s0 ELSE s1]
<1>1. Len(cms) = 1
  OBVIOUS
<1>2. KzgChallenges(tr, cms) = c[1].rs
  BY <1>1 DEF KzgChallenges
<1>3. Rec(f)
  <2> HIDE DEF Next1, s0
  <2>1. f[0] = s0 /\ f[1] = s1
    OBVIOUS
  <2>2. \A j \in 0 .. 1 : f[j] = IF j = 0 THEN s0 ELSE Next1(f[j - 1], j)
    BY <2>1
  <2> HIDE DEF f
  <2>3. f = [j \in 0 .. 1 |-> f[j]]
    BY DEF f
  <2> QED BY <2>2, <2>3 DEF s0
<1>4. Rec(c)
  <2> HIDE DEF Rec
  <2> QED BY <1>3
<1> HIDE DEF c
<1>5. c[1] = s1
  <2> HIDE DEF Next1
  <2>1. c[0] = s0
    BY <1>4
  <2>2. c[1] = Next1(c[0], 1)
    BY <1>4
  <2> QED BY <2>1, <2>2
<1>6. \A s : GetChallenge(s).r \in Fp
  BY SqueezeInFp DEF GetChallenge
<1> DEFINE r1 == Of(s0, 1).r
<1>7. r1 \in Fp
  BY <1>6
<1>8. s1.rs = Append(s0.rs, r1) /\ s0.rs = <<>>
  OBVIOUS
<1> HIDE DEF s0, s1, r1
<1>9. s1.rs = <<r1>>
  BY <1>7, <1>8
<1>10. <<r1>> \in Seq(Int)
  BY <1>7, FpIsInt
<1>11. KzgChallenges(tr, cms) = <<r1>>
  BY <1>2, <1>5, <1>9
<1>12. DOMAIN <<r1>> = 1 .. 1 /\ <<r1>>[1] = r1
  OBVIOUS
<1> HIDE DEF cms
<1>13. /\ DOMAIN KzgChallenges(tr, cms) = 1 .. 1 /\ KzgChallenges(tr, cms)[1] = r1
       /\ KzgChallenges(tr, cms) \in Seq(Int)
  BY <1>10, <1>11, <1>12
<1> QED
  BY <1>7, <1>13 DEF cms

----------------------------------------------------------------------------
\* Sequences of public inputs.

\* Two equal concatenations whose last parts are of one length.
Alike(a, e, b, f) ==
  /\ a \in Seq(Int) /\ b \in Seq(Int) /\ e \in Seq(Int) /\ f \in Seq(Int)
  /\ Len(e) = Len(f)
  /\ a \o e = b \o f

\* A concatenation determines its parts once their lengths are known.
LEMMA AlikeBinds ==
  ASSUME NEW a, NEW e, NEW b, NEW f, Alike(a, e, b, f)
  PROVE  a = b /\ e = f
<1>0. /\ a \in Seq(Int) /\ b \in Seq(Int) /\ e \in Seq(Int) /\ f \in Seq(Int)
      /\ Len(e) = Len(f) /\ a \o e = b \o f
  BY DEF Alike
<1>1. /\ Len(a \o e) = Len(a) + Len(e) /\ Len(a) \in Nat /\ Len(e) \in Nat
      /\ \A k \in 1 .. Len(a) : (a \o e)[k] = a[k]
      /\ \A k \in 1 .. Len(e) : (a \o e)[Len(a) + k] = e[k]
  BY <1>0, Concat, LenProperties
<1>2. /\ Len(b \o f) = Len(b) + Len(f) /\ Len(b) \in Nat
      /\ \A k \in 1 .. Len(b) : (b \o f)[k] = b[k]
      /\ \A k \in 1 .. Len(f) : (b \o f)[Len(b) + k] = f[k]
  BY <1>0, Concat, LenProperties
<1>3. Len(a) = Len(b)
  BY <1>0, <1>1, <1>2
<1>4. a = b
  BY <1>0, <1>1, <1>2, <1>3, SeqEqual
<1>5. e = f
  BY <1>0, <1>1, <1>2, <1>3, SeqEqual
<1> QED
  BY <1>4, <1>5

LEMMA CancelRight ==
  ASSUME NEW a \in Seq(Int), NEW b \in Seq(Int), NEW t \in Seq(Int), a \o t = b \o t
  PROVE  a = b
BY AlikeBinds DEF Alike

\* A sequence followed by others.
Followed(a, t1, t2, t3) == ((a \o t1) \o t2) \o t3

LEMMA CancelThree ==
  ASSUME NEW a \in Seq(Int), NEW b \in Seq(Int),
         NEW t1 \in Seq(Int), NEW t2 \in Seq(Int), NEW t3 \in Seq(Int),
         Followed(a, t1, t2, t3) = Followed(b, t1, t2, t3)
  PROVE  a = b
<1>0. ((a \o t1) \o t2) \o t3 = ((b \o t1) \o t2) \o t3
  BY DEF Followed
<1>1. /\ a \o t1 \in Seq(Int) /\ b \o t1 \in Seq(Int)
      /\ (a \o t1) \o t2 \in Seq(Int) /\ (b \o t1) \o t2 \in Seq(Int)
  BY Concat, Zenon
<1>2. (a \o t1) \o t2 = (b \o t1) \o t2
  BY <1>0, <1>1, CancelRight
<1>3. a \o t1 = b \o t1
  BY <1>1, <1>2, CancelRight
<1> QED
  BY <1>3, CancelRight

\* Two claims, two lists of commitments: a sequence of inputs that starts with them belongs
\* to no other ones, whatever the lengths of the states.
LEMMA InputsBind ==
  ASSUME NEW a, a.i \in Nat, a.z_0 \in Seq(Int), a.z_i \in Seq(Int),
         Len(a.z_0) = 1, Len(a.z_i) = 1,
         NEW c, c.i \in Nat, c.z_0 \in Seq(Int), c.z_i \in Seq(Int), c.z_0 # <<>>, c.z_i # <<>>,
         NEW e \in Seq(Int), NEW f \in Seq(Int), Len(e) = Len(f),
         ClaimInput(a, e) = ClaimInput(c, f)
  PROVE  a.i = c.i /\ a.z_0 = c.z_0 /\ a.z_i = c.z_i /\ e = f
<1>2. /\ Len(ClaimInput(a, e)) = 2 + Len(a.z_0) + Len(a.z_i) + Len(e)
      /\ Len(ClaimInput(c, f)) = 2 + Len(c.z_0) + Len(c.z_i) + Len(f)
  BY ClaimInputParts, Zenon
<1>3. Len(c.z_0) \in Nat \ {0} /\ Len(c.z_i) \in Nat \ {0} /\ Len(e) \in Nat
  BY LenProperties
<1>4. Len(c.z_0) = 1 /\ Len(c.z_i) = 1
  <2>1. 2 + 1 + 1 + Len(e) = 2 + Len(c.z_0) + Len(c.z_i) + Len(e)
    BY <1>2, Zenon
  <2> DEFINE m == Len(c.z_0)  n == Len(c.z_i)  l == Len(e)
  <2>2. m \in Nat \ {0} /\ n \in Nat \ {0} /\ l \in Nat /\ 2 + 1 + 1 + l = 2 + m + n + l
    BY <1>3, <2>1
  <2> HIDE DEF m, n, l
  <2>3. m = 1 /\ n = 1
    BY <2>2
  <2> QED BY <2>3 DEF m, n
<1>5. a.i = c.i /\ a.z_0 = c.z_0 /\ a.z_i = c.z_i
  <2>1. a.i = c.i
    BY ClaimInputBinds
  <2>2. a.z_0 = c.z_0 /\ a.z_i = c.z_i
    BY <1>4, ClaimInputBinds
  <2> QED BY <2>1, <2>2
<1>6. e = f
  <2> DEFINE h == (<<PpHash, a.i>> \o a.z_0) \o a.z_i
  <2>1. ClaimInput(a, e) = h \o e /\ ClaimInput(c, f) = h \o f
    BY <1>5 DEF ClaimInput
  <2>2. <<PpHash, a.i>> \in Seq(Int)
    BY PpHashAssumption, FpIsInt
  <2>3. h \in Seq(Int)
    BY <2>2, Concat, Zenon
  <2> HIDE DEF h
  <2>4. Alike(h, e, h, f)
    BY <2>1, <2>3, Zenon DEF Alike
  <2> QED BY <2>4, AlikeBinds
<1> QED
  BY <1>5, <1>6

LEMMA ClaimInputIsSeq ==
  ASSUME NEW a, a.i \in Nat, a.z_0 \in Seq(Int), a.z_i \in Seq(Int), NEW e \in Seq(Int)
  PROVE  ClaimInput(a, e) \in Seq(Int)
<1>1. <<PpHash, a.i>> \in Seq(Int)
  BY PpHashAssumption, FpIsInt
<1> QED
  BY <1>1, Concat, Zenon DEF ClaimInput

LEMMA EvaluationInFp ==
  ASSUME NEW v \in List(Int, 8), NEW c \in Fp PROVE EvalVec(v, c) \in Fp
<1>1. PolyFromVec(v) \in List(Int, 8) /\ c \in Int
  BY PolyFromVecIs, ListInt, FpIsInt
<1> QED
  BY <1>1, PolyInFp DEF EvalVec

LEMMA RlcCancels ==
  ASSUME NEW a \in Fp, NEW b \in Fp, NEW r \in Fp, NEW t \in Fp, Rlc(a, r, t) = Rlc(b, r, t)
  PROVE  a = b
<1> DEFINE m == r * t
<1>1. a \in Int /\ b \in Int /\ m \in Int /\ Rlc(a, r, t) \in Int /\ Rlc(b, r, t) \in Int
  BY FpIsInt, RlcCong
<1>2. Cong(Rlc(a, r, t), a + m) /\ Cong(Rlc(b, r, t), b + m)
  BY RlcCong
<1> HIDE DEF m
<1>3. Cong(a + m, Rlc(a, r, t)) /\ Cong(m, m)
  BY <1>1, <1>2, CongSym, CongRefl
<1>4. Cong(a + m, b + m)
  BY <1>1, <1>2, <1>3, CongTrans
<1>5. Cong((a + m) - m, (b + m) - m)
  BY <1>1, <1>3, <1>4, CongSub
<1>6. (a + m) - m = a /\ (b + m) - m = b
  BY <1>1
<1> QED
  BY <1>5, <1>6, EqOfCong
===============================================================================

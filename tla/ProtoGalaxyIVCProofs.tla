-------------------------- MODULE ProtoGalaxyIVCProofs --------------------------
(***************************************************************************)
(* ProtoGalaxy's fold, of one, three or seven incoming pairs and of two,   *)
(* four or eight constraints, and its IVC, which folds one pair a step.    *)
(*                                                                         *)
(* Functions of X are polynomials with n coefficients, and two that agree  *)
(* on a domain of order n are the same.  So G(X), interpolated, is what it *)
(* was evaluated from; the dividend G(X) - F(alpha) L_0(X) vanishes on the *)
(* domain exactly if all incoming errors weigh nothing; and then what K(X) *)
(* gives at gamma is the error of the folded assignment.  On that rest the *)
(* invariants of ProtoGalaxyFolding, and the promises that                 *)
(* FoldingSchemeProofs asks of a scheme.  At the end is the decider: it    *)
(* accepts the structs that verify accepts, each with its own claim, L and *)
(* commitments only.                                                       *)
(***************************************************************************)
EXTENDS ProtoGalaxyDecider, ProtoGalaxyFolding, NIFSProofs


----------------------------------------------------------------------------
\* Powers.

\* The powers of a, one by one.
PowerRun(e, a, n) == e[0] = 1 /\ \A j \in 1 .. n : e[j] = (e[j - 1] * a) % P

LEMMA PowerRunExists ==
  ASSUME NEW a \in Int, NEW n \in Nat
  PROVE  \E e \in [0 .. n -> Fp] : PowerRun(e, a, n)
<1> DEFINE g == [j \in 1 .. n |-> [y \in Fp |-> (y * a) % P]]  o == 1
<1>1. g \in [1 .. n -> [Fp -> Fp]]
  <2>1. ASSUME NEW y \in Fp PROVE (y * a) % P \in Fp
    BY FpIsInt, ModInFp
  <2> QED BY <2>1
<1>2. \A j \in 1 .. n, y \in Fp : g[j][y] = (y * a) % P
  OBVIOUS
<1>3. o \in Fp
  BY ZeroOneInFp
<1> HIDE DEF g, o
<1>4. PICK e \in [0 .. n -> Fp] : e[0] = o /\ \A j \in 1 .. n : e[j] = g[j][e[j - 1]]
  BY <1>1, <1>3, Recursion
<1>5. \A j \in 1 .. n : e[j - 1] \in Fp
  OBVIOUS
<1> QED
  BY <1>2, <1>4, <1>5 DEF PowerRun, o

LEMMA PowerRunAdds ==
  ASSUME NEW a \in Int, NEW n \in Nat, NEW e \in [0 .. n -> Fp], PowerRun(e, a, n),
         NEW i \in Nat, NEW j \in Nat, i + j <= n
  PROVE  e[i + j] = (e[i] * e[j]) % P
<1> DEFINE T == {k \in Nat : i + k <= n => e[i + k] = (e[i] * e[k]) % P}
<1>1. 0 \in T
  <2> SUFFICES ASSUME i <= n PROVE e[i] = (e[i] * e[0]) % P
    OBVIOUS
  <2>1. e[i] \in Fp /\ e[0] = 1
    BY DEF PowerRun
  <2>2. e[i] * e[0] = e[i]
    BY <2>1, FpIsInt
  <2> QED BY <2>1, <2>2, ModOfFp
<1>2. ASSUME NEW k \in Nat, k \in T PROVE k + 1 \in T
  <2> SUFFICES ASSUME i + (k + 1) <= n PROVE e[i + (k + 1)] = (e[i] * e[k + 1]) % P
    OBVIOUS
  <2> DEFINE x == e[i]  y == e[k]  u == e[i + k]  v == e[k + 1]
  <2>1. i + k \in 0 .. n /\ k \in 0 .. n /\ k + 1 \in 1 .. n /\ i + (k + 1) \in 1 .. n /\ i \in 0 .. n
        /\ (k + 1) - 1 = k /\ (i + (k + 1)) - 1 = i + k
    OBVIOUS
  <2>2. u = (x * y) % P
    BY <1>2, <2>1
  <2>3. v = (y * a) % P /\ e[i + (k + 1)] = (u * a) % P
    BY <2>1 DEF PowerRun
  <2>4. x \in Int /\ y \in Int /\ u \in Int /\ v \in Int
    BY <2>1, FpIsInt
  <2> HIDE DEF x, y, u, v
  <2>5. x * y \in Int /\ y * a \in Int
    BY <2>4
  <2>6. Cong(u, x * y) /\ Cong(v, y * a)
    BY <2>2, <2>3, <2>5, CongOfMod
  <2>7. PICK k1 \in Int : u = x * y + k1 * P
    BY <2>6 DEF Cong
  <2>8. PICK k2 \in Int : v = y * a + k2 * P
    BY <2>6 DEF Cong
  <2>9. u * a = x * v + (k1 * a - x * k2) * P
    <3>1. P \in Int
      BY PAssumption
    <3>2. u * a = (x * y + k1 * P) * a /\ x * v = x * (y * a + k2 * P)
      BY <2>7, <2>8
    <3>3. (x * y + k1 * P) * a = x * (y * a + k2 * P) + (k1 * a - x * k2) * P
      BY <2>4, <3>1
    <3> QED BY <3>2, <3>3
  <2>10. u * a \in Int /\ x * v \in Int /\ k1 * a - x * k2 \in Int
    BY <2>4
  <2>11. Cong(u * a, x * v)
    BY <2>9, <2>10 DEF Cong
  <2>12. (u * a) % P = (x * v) % P
    BY <2>10, <2>11, ModOfCong
  <2> QED BY <2>3, <2>12 DEF x, v
<1>3. j \in T
  <2> HIDE DEF T
  <2> QED BY <1>1, <1>2, SetInduction
<1> QED
  BY <1>3

\* Squaring and multiplying makes the same powers.
LEMMA PowIsRun ==
  ASSUME NEW a \in Int, NEW n \in Nat, NEW e \in [0 .. n -> Fp], PowerRun(e, a, n)
  PROVE  Pow(a, n) = e[n]
<1> DEFINE Rec(h) == h = [j \in 0 .. n |-> IF j = 0 THEN 1
                                           ELSE IF j % 2 = 0 THEN Sq(h[j \div 2])
                                           ELSE (h[j - 1] * a) % P]
           c == CHOOSE h : Rec(h)
<1>1. Pow(a, n) = c[n]
  BY DEF Pow
<1>2. \A j \in 0 .. n : e[j] = IF j = 0 THEN 1 ELSE IF j % 2 = 0 THEN Sq(e[j \div 2])
                                ELSE (e[j - 1] * a) % P
  <2> TAKE j \in 0 .. n
  <2>1. CASE j = 0
    BY <2>1 DEF PowerRun
  <2>2. CASE j # 0 /\ j % 2 = 0
    <3> DEFINE i == j \div 2
    <3>1. i \in Nat /\ i + i = j /\ i + i <= n
      BY <2>2
    <3>2. e[i + i] = (e[i] * e[i]) % P
      BY <3>1, PowerRunAdds
    <3> QED BY <2>2, <3>1, <3>2 DEF Sq
  <2>3. CASE j # 0 /\ j % 2 # 0
    BY <2>3 DEF PowerRun
  <2> QED BY <2>1, <2>2, <2>3
<1>3. Rec(e)
  BY <1>2
<1>4. Rec(c)
  <2> HIDE DEF Rec
  <2> QED BY <1>3
<1>5. \A j \in 0 .. n : c[j] = IF j = 0 THEN 1 ELSE IF j % 2 = 0 THEN Sq(c[j \div 2])
                                ELSE (c[j - 1] * a) % P
  BY <1>4
<1> HIDE DEF Rec, c
<1> DEFINE T == {m \in Nat : \A j \in 0 .. m : j <= n => c[j] = e[j]}
<1>6. 0 \in T
  <2>1. c[0] = e[0]
    BY <1>2, <1>5
  <2> QED BY <2>1
<1>7. ASSUME NEW m \in Nat, m \in T PROVE m + 1 \in T
  <2> SUFFICES ASSUME NEW j \in 0 .. m + 1, j <= n PROVE c[j] = e[j]
    OBVIOUS
  <2>1. CASE j <= m
    BY <1>7, <2>1
  <2>2. CASE j = m + 1
    <3>1. j - 1 \in 0 .. m /\ j \div 2 \in 0 .. m /\ j - 1 <= n /\ j \div 2 <= n
      BY <2>2
    <3>2. c[j - 1] = e[j - 1] /\ c[j \div 2] = e[j \div 2]
      BY <1>7, <3>1
    <3>3. j \in 0 .. n
      OBVIOUS
    <3> QED BY <1>2, <1>5, <3>2, <3>3
  <2> QED BY <2>1, <2>2
<1>8. n \in T
  <2> HIDE DEF T
  <2> QED BY <1>6, <1>7, SetInduction
<1>9. c[n] = e[n]
  BY <1>8
<1> QED
  BY <1>1, <1>9

LEMMA PowStep ==
  ASSUME NEW a \in Int, NEW i \in Nat
  PROVE  /\ Pow(a, 0) = 1 /\ Pow(a, i) \in Fp /\ Pow(a, i) \in Int
         /\ Pow(a, i + 1) = (Pow(a, i) * a) % P
<1> DEFINE n == i + 1  z == 0
<1>1. n \in Nat /\ z \in Nat /\ z \in 0 .. n /\ i \in 0 .. n
  OBVIOUS
<1>2. PICK e \in [0 .. n -> Fp] : PowerRun(e, a, n)
  <2> HIDE DEF n
  <2> QED BY <1>1, PowerRunExists
<1>3. ASSUME NEW k \in 0 .. n PROVE Pow(a, k) = e[k]
  <2> DEFINE d == [j \in 0 .. k |-> e[j]]
  <2>1. d \in [0 .. k -> Fp] /\ k \in Nat /\ \A j \in 0 .. k : d[j] = e[j]
    OBVIOUS
  <2> HIDE DEF d
  <2>2. PowerRun(d, a, k)
    <3>1. \A j \in 1 .. k : j - 1 \in 0 .. k /\ j \in 0 .. k /\ j \in 1 .. n
      OBVIOUS
    <3>2. d[0] = e[0]
      BY <2>1
    <3> HIDE DEF n
    <3> QED BY <1>2, <2>1, <3>1, <3>2 DEF PowerRun
  <2>3. Pow(a, k) = d[k]
    BY <2>1, <2>2, PowIsRun
  <2> QED BY <2>1, <2>3
<1>4. Pow(a, z) = e[z] /\ Pow(a, i) = e[i] /\ Pow(a, n) = e[n]
  <2>1. n \in 0 .. n
    OBVIOUS
  <2> HIDE DEF n, z
  <2> QED BY <1>1, <1>3, <2>1
<1>5. e[n] = (e[i] * a) % P
  <2>1. n \in 1 .. n /\ n - 1 = i
    OBVIOUS
  <2> QED BY <1>2, <2>1 DEF PowerRun
<1>6. e[i] \in Fp /\ e[0] = 1
  BY <1>2 DEF PowerRun
<1> QED
  BY <1>4, <1>5, <1>6, FpIsInt

LEMMA PowPlus ==
  ASSUME NEW a \in Int, NEW i \in Nat, NEW j \in Nat
  PROVE  Pow(a, i + j) = (Pow(a, i) * Pow(a, j)) % P
         /\ Cong(Pow(a, i + j), Pow(a, i) * Pow(a, j))
<1> DEFINE n == i + j
           e == [k \in 0 .. n |-> Pow(a, k)]
<1>1. \A k \in 0 .. n : e[k] = Pow(a, k)
  OBVIOUS
<1>2. e \in [0 .. n -> Fp]
  <2>1. \A k \in 0 .. n : Pow(a, k) \in Fp
    BY PowStep
  <2> QED BY <2>1, Zenon
<1> HIDE DEF e
<1>3. PowerRun(e, a, n)
  <2>1. ASSUME NEW k \in 1 .. n PROVE e[k] = (e[k - 1] * a) % P
    <3> DEFINE m == k - 1
    <3>1. m \in Nat /\ k = m + 1 /\ m \in 0 .. n /\ k \in 0 .. n
      OBVIOUS
    <3>2. Pow(a, m + 1) = (Pow(a, m) * a) % P
      BY <3>1, PowStep
    <3> HIDE DEF m
    <3>3. e[k] = (e[m] * a) % P
      BY <1>1, <3>1, <3>2
    <3> QED BY <3>3 DEF m
  <2>2. e[0] = 1
    <3>1. 0 \in 0 .. n /\ n \in Nat
      OBVIOUS
    <3>2. Pow(a, 0) = 1
      BY PowStep
    <3> QED BY <1>1, <3>1, <3>2
  <2> QED BY <2>1, <2>2 DEF PowerRun
<1>4. e[i + j] = (e[i] * e[j]) % P
  <2>1. n \in Nat /\ i + j <= n
    OBVIOUS
  <2> HIDE DEF n
  <2> QED BY <1>2, <1>3, <2>1, PowerRunAdds
<1>5. Pow(a, i + j) = (Pow(a, i) * Pow(a, j)) % P
  BY <1>1, <1>4
<1>6. Pow(a, i) * Pow(a, j) \in Int
  BY PowStep
<1> QED
  BY <1>5, <1>6, CongOfMod

\* A power of a power.
LEMMA PowTimes ==
  ASSUME NEW a \in Int, NEW i \in Nat, NEW j \in Nat
  PROVE  Pow(Pow(a, i), j) = Pow(a, i * j)
<1> DEFINE b == Pow(a, i)
           T == {k \in Nat : Pow(b, k) = Pow(a, i * k)}
<1>1. b \in Int
  BY PowStep
<1>2. 0 \in T
  <2>1. i * 0 = 0
    OBVIOUS
  <2>2. Pow(b, 0) = 1 /\ Pow(a, 0) = 1
    BY <1>1, PowStep
  <2> QED BY <2>1, <2>2
<1>3. ASSUME NEW k \in Nat, k \in T PROVE k + 1 \in T
  <2> DEFINE m == i * k
  <2>1. i * (k + 1) = m + i /\ m \in Nat
    OBVIOUS
  <2> HIDE DEF b
  <2>2. Pow(b, k + 1) = (Pow(b, k) * b) % P
    BY <1>1, PowStep
  <2>3. Pow(b, k) = Pow(a, m)
    BY <1>3
  <2> HIDE DEF m
  <2>4. Pow(a, m + i) = (Pow(a, m) * Pow(a, i)) % P
    BY <2>1, PowPlus
  <2> QED BY <2>1, <2>2, <2>3, <2>4 DEF b
<1>4. j \in T
  <2> HIDE DEF T
  <2> QED BY <1>2, <1>3, SetInduction
<1> QED
  BY <1>4

LEMMA PowOfOne == ASSUME NEW i \in Nat PROVE Pow(1, i) = 1
<1> DEFINE o == 1  T == {k \in Nat : Pow(o, k) = 1}
<1>1. 0 \in T
  <2>1. o \in Int
    OBVIOUS
  <2> HIDE DEF o
  <2>2. Pow(o, 0) = 1
    BY <2>1, PowStep
  <2> QED BY <2>2
<1>2. ASSUME NEW k \in Nat, k \in T PROVE k + 1 \in T
  <2>1. o \in Int /\ 1 * o = 1
    OBVIOUS
  <2> HIDE DEF o
  <2>2. Pow(o, k + 1) = (Pow(o, k) * o) % P
    BY <2>1, PowStep
  <2>3. 1 % P = 1
    BY ZeroOneInFp, ModOfFp
  <2> QED BY <1>2, <2>1, <2>2, <2>3
<1>3. i \in T
  <2> HIDE DEF T
  <2> QED BY <1>1, <1>2, SetInduction
<1> QED
  BY <1>3

\* The powers of a root of order n repeat after n.
LEMMA PowPeriod ==
  ASSUME NEW a \in Int, NEW n \in Nat, Pow(a, n) = 1, NEW i \in Nat, NEW k \in Nat
  PROVE  Pow(a, i + n * k) = Pow(a, i)
<1> DEFINE m == n * k
<1>1. m \in Nat
  OBVIOUS
<1>2. Pow(a, m) = 1
  <2>1. Pow(Pow(a, n), k) = Pow(a, n * k)
    BY PowTimes
  <2>2. Pow(1, k) = 1
    BY PowOfOne
  <2> QED BY <2>1, <2>2
<1> HIDE DEF m
<1>3. Pow(a, i + m) = (Pow(a, i) * Pow(a, m)) % P /\ Pow(a, i) \in Fp /\ Pow(a, i) \in Int
  BY <1>1, PowPlus, PowStep
<1>4. Pow(a, i) * 1 = Pow(a, i)
  BY <1>3
<1>5. Pow(a, i + m) = Pow(a, i)
  BY <1>2, <1>3, <1>4, ModOfFp
<1> QED
  BY <1>5 DEF m

LEMMA PowMod ==
  ASSUME NEW a \in Int, NEW n \in Nat \ {0}, Pow(a, n) = 1, NEW i \in Nat
  PROVE  Pow(a, i % n) = Pow(a, i)
<1> DEFINE r == i % n  k == i \div n
<1>1. r \in Nat /\ k \in Nat /\ i = r + n * k
  OBVIOUS
<1> HIDE DEF r, k
<1>2. Pow(a, r + n * k) = Pow(a, r)
  BY <1>1, PowPeriod
<1> QED
  BY <1>1, <1>2 DEF r

----------------------------------------------------------------------------
\* A polynomial's value as a sum.

Terms(c, x, n) == [j \in 1 .. n |-> c[j] * Pow(x, j - 1)]

LEMMA TermsInt ==
  ASSUME NEW n \in Nat, NEW c \in List(Int, n), NEW x \in Int
  PROVE  Terms(c, x, n) \in List(Int, n)
         /\ \A j \in 1 .. n : Terms(c, x, n)[j] = c[j] * Pow(x, j - 1)
<1>1. ASSUME NEW j \in 1 .. n PROVE c[j] * Pow(x, j - 1) \in Int
  <2>1. j - 1 \in Nat /\ c[j] \in Int
    BY DEF List
  <2>2. Pow(x, j - 1) \in Int
    BY <2>1, PowStep
  <2> QED BY <2>1, <2>2
<1> QED
  BY <1>1, Zenon DEF List, Terms

LEMMA EvalIsSum ==
  ASSUME NEW n \in Nat, NEW c \in List(Int, n), NEW x \in Int
  PROVE  Cong(PolyEval(c, x), SumSeq(Terms(c, x, n)))
<1> DEFINE Is(m) == \A d \in List(Int, m) : Cong(PolyEval(d, x), SumSeq(Terms(d, x, m)))
           T == {m \in Nat : Is(m)}
<1>1. 0 \in T
  <2> SUFFICES ASSUME NEW d \in List(Int, 0) PROVE Cong(PolyEval(d, x), SumSeq(Terms(d, x, 0)))
    OBVIOUS
  <2> DEFINE z == 0  s == Terms(d, x, z)
  <2>1. z \in Nat /\ d \in List(Int, z) /\ 1 .. z = {}
    OBVIOUS
  <2> HIDE DEF z
  <2>2. s \in List(Int, z)
    BY <2>1, TermsInt
  <2> HIDE DEF s
  <2>3. \A i \in 1 .. z : Cong(s[i], 0)
    BY <2>1
  <2>4. SumSeq(s) = 0
    BY <2>1, <2>2, <2>3, SumOfZeros
  <2>5. PICK f \in [0 .. z -> Fp] : HornerRun(f, d, x, z) /\ PolyEval(d, x) = f[z]
    BY <2>1, PolyRun
  <2>6. PolyEval(d, x) = 0
    BY <2>5 DEF HornerRun, z
  <2>7. Cong(0, 0)
    BY CongRefl
  <2> QED BY <2>4, <2>6, <2>7 DEF s, z
<1>2. ASSUME NEW m \in Nat, m \in T PROVE m + 1 \in T
  <2> SUFFICES ASSUME NEW d \in List(Int, m + 1)
               PROVE  Cong(PolyEval(d, x), SumSeq(Terms(d, x, m + 1)))
    OBVIOUS
  <2> DEFINE n1 == m + 1  o == 1
             t == [j \in 1 .. m |-> d[j + 1]]
             s == [j \in 1 .. n1 |-> IF j = 1 THEN 0 ELSE d[j]]
             h == [j \in 1 .. n1 |-> IF j = 1 THEN d[1] ELSE 0]
             k == [j \in 1 .. o |-> d[1]]
             a == Terms(d, x, n1)
             b == [i \in 1 .. m |-> a[1 + i]]
             e == Terms(t, x, m)
  <2>1. n1 \in Nat /\ o \in Nat /\ o \in Int /\ o \in 0 .. n1 /\ n1 = o + m
        /\ 1 \in 1 .. n1 /\ \A j \in 1 .. m : j + 1 \in 1 .. n1
    OBVIOUS
  <2>2. \A j \in 1 .. n1 : d[j] \in Int
    BY DEF List
  <2>3. t \in List(Int, m) /\ (\A j \in 1 .. m : t[j] = d[j + 1])
    BY <2>1, <2>2 DEF List
  <2>4. s \in List(Int, n1) /\ s[1] = 0 /\ (\A j \in 1 .. m : s[j + 1] = t[j])
    <3>1. \A j \in 1 .. m : j + 1 # 1
      OBVIOUS
    <3> QED BY <2>1, <2>2, <2>3, <3>1 DEF List
  <2>5. h \in List(Int, n1) /\ (\A j \in 1 .. n1 : h[j] = IF j = 1 THEN d[1] ELSE 0)
    BY <2>1, <2>2 DEF List
  <2>6. k \in List(Int, o) /\ k[1] = d[1] /\ \A j \in 1 .. o : j = 1
    BY <2>1, <2>2 DEF List
  <2>7. d \in List(Int, n1) /\ a \in List(Int, n1) /\ e \in List(Int, m)
        /\ (\A j \in 1 .. n1 : a[j] = d[j] * Pow(x, j - 1))
        /\ (\A j \in 1 .. m : e[j] = t[j] * Pow(x, j - 1))
    <3> HIDE DEF n1, t
    <3>1. d \in List(Int, n1)
      BY DEF n1
    <3> QED BY <2>1, <2>3, <3>1, TermsInt
  <2>8. \A j \in 1 .. m : b[j] = a[1 + j]
    OBVIOUS
  <2> HIDE DEF t, s, h, k, a, e, n1
  <2>9. Cong(PolyEval(d, x), PolyEval(h, x) + o * PolyEval(s, x))
    <3>1. ASSUME NEW j \in 1 .. n1 PROVE Cong(d[j], h[j] + o * s[j])
      <4>1. s[j] = IF j = 1 THEN 0 ELSE d[j]
        BY DEF s
      <4>2. h[j] + 1 * s[j] = d[j]
        BY <2>2, <2>5, <4>1
      <4> QED BY <2>2, <4>2, CongRefl
    <3> HIDE DEF o
    <3> QED BY <2>1, <2>4, <2>5, <2>7, <3>1, PolyLinear
  <2>10. PolyEval(k, x) = PolyEval(h, x)
    <3>1. (\A j \in 1 .. o : k[j] = h[j]) /\ (\A j \in o + 1 .. n1 : h[j] = 0)
      BY <2>1, <2>5, <2>6
    <3> HIDE DEF o
    <3> QED BY <2>1, <2>5, <2>6, <3>1, PolyPadded
  <2>11. Cong(PolyEval(k, x), d[1])
    BY <2>6, PolyOfOne
  <2>12. Cong(PolyEval(s, x), x * PolyEval(t, x))
    BY <2>3, <2>4, PolyShift DEF n1
  <2>13. Cong(PolyEval(t, x), SumSeq(e))
    BY <1>2, <2>3 DEF e
  <2>14. b \in List(Int, m) /\ Prefix(a, o) \in List(Int, o)
         /\ Cong(SumSeq(a), SumSeq(Prefix(a, o)) + SumSeq(b))
    <3>1. a \in List(Int, o + m)
      BY <2>1, <2>7
    <3> HIDE DEF o
    <3>2. Cong(SumSeq(a), SumSeq(Prefix(a, o)) + SumSeq([i \in 1 .. m |-> a[o + i]]))
          /\ [i \in 1 .. m |-> a[o + i]] \in List(Int, m) /\ Prefix(a, o) \in List(Int, o)
      BY <2>1, <3>1, SumSplit
    <3> QED BY <3>2 DEF o
  <2> HIDE DEF b
  <2>15. Cong(SumSeq(Prefix(a, o)), d[1])
    <3>1. Prefix(a, o)[1] = a[1] /\ 1 - 1 = 0
      BY DEF Prefix
    <3>2. a[1] = d[1] * Pow(x, 1 - 1) /\ Pow(x, 0) = 1
      BY <2>1, <2>7, PowStep
    <3>3. a[1] = d[1]
      BY <2>1, <2>2, <3>1, <3>2
    <3>4. Cong(SumSeq(Prefix(a, o)), Prefix(a, o)[1])
      BY <2>14, SumOfOne
    <3> QED BY <3>1, <3>3, <3>4
  <2>16. Cong(SumSeq(b), x * SumSeq(e))
    <3>1. ASSUME NEW i \in 1 .. m PROVE Cong(b[i], x * e[i])
      <4> DEFINE q == i - 1  y == Pow(x, q)  u == t[i]
      <4>1. q \in Nat /\ q + 1 = i /\ (1 + i) - 1 = i /\ 1 + i \in 1 .. n1
        BY <2>1
      <4>2. b[i] = a[1 + i] /\ a[1 + i] = d[1 + i] * Pow(x, (1 + i) - 1) /\ d[1 + i] = u
        BY <2>3, <2>7, <2>8, <4>1
      <4> HIDE DEF q
      <4>3. Pow(x, q + 1) = (y * x) % P /\ y \in Int
        BY <4>1, PowStep
      <4>4. e[i] = u * y /\ u \in Int
        <5>1. e[i] = t[i] * Pow(x, i - 1)
          BY <2>7
        <5>2. t[i] \in Int
          BY <2>3 DEF List
        <5> QED BY <5>1, <5>2 DEF q
      <4>5. b[i] = u * Pow(x, i)
        BY <4>1, <4>2
      <4> HIDE DEF y, u
      <4>6. y * x \in Int
        BY <4>3
      <4>7. Cong(Pow(x, i), y * x) /\ Pow(x, i) \in Int
        BY <4>1, <4>3, <4>6, CongOfMod, ModInFp, FpIsInt
      <4>8. Cong(u, u)
        BY <4>4, CongRefl
      <4>9. Cong(u * Pow(x, i), u * (y * x))
        BY <4>4, <4>6, <4>7, <4>8, CongMul
      <4>10. u * (y * x) = x * (u * y)
        BY <4>3, <4>4
      <4> QED BY <4>4, <4>5, <4>9, <4>10
    <3> QED BY <2>7, <2>14, <3>1, SumScaled
  <2> DEFINE A == PolyEval(d, x)  H == PolyEval(h, x)  S == PolyEval(s, x)  V == PolyEval(t, x)
             B == SumSeq(a)  C == SumSeq(Prefix(a, o))  D == SumSeq(b)  E == SumSeq(e)  d1 == d[1]
  <2>17. A \in Int /\ H \in Int /\ S \in Int /\ V \in Int
    BY <2>1, <2>3, <2>4, <2>5, <2>7, PolyInFp
  <2>18. B \in Int /\ D \in Int /\ E \in Int /\ d1 \in Int
    BY <2>1, <2>2, <2>7, <2>14, SumInFp
  <2>19. C \in Int
    <3> HIDE DEF o
    <3> QED BY <2>1, <2>14, SumInFp
  <2>20. o * S = S
    BY <2>17
  <2>21. Cong(A, H + S) /\ Cong(H, d1) /\ Cong(S, x * V) /\ Cong(V, E)
         /\ Cong(B, C + D) /\ Cong(C, d1) /\ Cong(D, x * E)
    BY <2>9, <2>10, <2>11, <2>12, <2>13, <2>14, <2>15, <2>16, <2>20
  <2> HIDE DEF A, H, S, V, B, C, D, E, d1, o
  <2>22. PICK k1 \in Int : A = H + S + k1 * P
    BY <2>21 DEF Cong
  <2>23. PICK k2 \in Int : H = d1 + k2 * P
    BY <2>21 DEF Cong
  <2>24. PICK k3 \in Int : S = x * V + k3 * P
    BY <2>21 DEF Cong
  <2>25. PICK k4 \in Int : V = E + k4 * P
    BY <2>21 DEF Cong
  <2>26. PICK k5 \in Int : B = C + D + k5 * P
    BY <2>21 DEF Cong
  <2>27. PICK k6 \in Int : C = d1 + k6 * P
    BY <2>21 DEF Cong
  <2>28. PICK k7 \in Int : D = x * E + k7 * P
    BY <2>21 DEF Cong
  <2> DEFINE K == k1 + k2 + k3 + x * k4 - k5 - k6 - k7
  <2>29. x * V = x * E + (x * k4) * P
    <3>1. x * V = x * (E + k4 * P)
      BY <2>25
    <3> QED BY <2>18, <3>1, PAssumption
  <2>30. A = B + K * P /\ K \in Int
    <3> DEFINE xe == x * E  xk == x * k4  xv == x * V
    <3>1. xe \in Int /\ xk \in Int /\ P \in Int /\ xv \in Int
      BY <2>17, <2>18, PAssumption
    <3>2. xv = xe + xk * P /\ S = xv + k3 * P /\ D = xe + k7 * P
      BY <2>24, <2>28, <2>29
    <3>3. K = k1 + k2 + k3 + xk - k5 - k6 - k7
      OBVIOUS
    <3> HIDE DEF xe, xk, xv, K
    <3> QED BY <2>18, <2>22, <2>23, <2>26, <2>27, <3>1, <3>2, <3>3
  <2>31. Cong(A, B)
    BY <2>30 DEF Cong
  <2> QED BY <2>31 DEF A, B, a, n1
<1>3. n \in T
  <2> HIDE DEF T
  <2> QED BY <1>1, <1>2, SetInduction
<1> QED
  BY <1>3

----------------------------------------------------------------------------
\* Sums of roots.

\* The sum of the m-th powers of the powers of w.
RootTerms(w, n, m) == [h \in 1 .. n |-> Pow(w, (h - 1) * m)]
RootSum(w, n, m) == SumSeq(RootTerms(w, n, m))

LEMMA RootTermsInt ==
  ASSUME NEW w \in Int, NEW n \in Nat, NEW m \in Nat
  PROVE  /\ RootTerms(w, n, m) \in List(Int, n)
         /\ \A h \in 1 .. n : RootTerms(w, n, m)[h] = Pow(w, (h - 1) * m)
         /\ RootSum(w, n, m) \in Fp /\ RootSum(w, n, m) \in Int
<1>1. ASSUME NEW h \in 1 .. n PROVE Pow(w, (h - 1) * m) \in Int
  <2> DEFINE i == (h - 1) * m
  <2>1. i \in Nat
    <3>1. h - 1 \in Nat
      OBVIOUS
    <3> QED BY <3>1
  <2> HIDE DEF i
  <2>2. Pow(w, i) \in Int
    BY <2>1, PowStep
  <2> QED BY <2>2 DEF i
<1>2. RootTerms(w, n, m) \in List(Int, n)
  BY <1>1, Zenon DEF List, RootTerms
<1>3. \A h \in 1 .. n : RootTerms(w, n, m)[h] = Pow(w, (h - 1) * m)
  BY DEF RootTerms
<1> QED
  BY <1>2, <1>3, SumInFp DEF RootSum

\* The second half of the terms is the first times the n m-th power.
LEMMA RootHalves ==
  ASSUME NEW w \in Int, NEW n \in Nat, NEW m \in Nat, NEW y \in Int, Cong(Pow(w, n * m), y)
  PROVE  Cong(RootSum(w, n + n, m), RootSum(w, n, m) + y * RootSum(w, n, m))
<1> DEFINE a == RootTerms(w, n + n, m)  b == RootTerms(w, n, m)  p == Prefix(a, n)
           d == [i \in 1 .. n |-> a[n + i]]
<1>1. a \in List(Int, n + n) /\ b \in List(Int, n)
      /\ (\A h \in 1 .. n : b[h] = Pow(w, (h - 1) * m))
      /\ RootSum(w, n, m) \in Int
  BY RootTermsInt
<1>2. \A h \in 1 .. n + n : a[h] = Pow(w, (h - 1) * m)
  BY DEF RootTerms
<1> HIDE DEF a
<1>3. p \in List(Int, n) /\ d \in List(Int, n) /\ Cong(SumSeq(a), SumSeq(p) + SumSeq(d))
  BY <1>1, SumSplit
<1>4. p = b
  <2>1. \A h \in 1 .. n : h \in 1 .. n + n
    OBVIOUS
  <2>2. \A h \in 1 .. n : p[h] = b[h]
    BY <1>1, <1>2, <2>1 DEF Prefix
  <2> HIDE DEF b, p
  <2> QED BY <1>1, <1>3, <2>2 DEF List
<1>5. Cong(SumSeq(d), y * SumSeq(b))
  <2>1. ASSUME NEW i \in 1 .. n PROVE Cong(d[i], y * b[i])
    <3> DEFINE q == (i - 1) * m  z == n * m
    <3>1. q \in Nat /\ z \in Nat /\ n + i \in 1 .. n + n
      <4>1. i - 1 \in Nat
        OBVIOUS
      <4> QED BY <4>1
    <3>2. ((n + i) - 1) * m = z + q
      OBVIOUS
    <3>3. d[i] = a[n + i] /\ b[i] = Pow(w, q)
      BY <1>1
    <3>4. a[n + i] = Pow(w, z + q)
      BY <1>2, <3>1, <3>2
    <3>5. Cong(Pow(w, z), y)
      OBVIOUS
    <3> HIDE DEF q, z, d, b
    <3>6. Cong(Pow(w, z + q), Pow(w, z) * Pow(w, q)) /\ Pow(w, z) \in Int /\ Pow(w, q) \in Int
          /\ Pow(w, z + q) \in Int
      <4>1. z + q \in Nat
        BY <3>1
      <4>2. Pow(w, z) \in Int /\ Pow(w, q) \in Int /\ Pow(w, z + q) \in Int
        BY <3>1, <4>1, PowStep
      <4> QED BY <3>1, <4>2, PowPlus
    <3>7. Cong(Pow(w, q), Pow(w, q))
      BY <3>6, CongRefl
    <3>8. Cong(Pow(w, z) * Pow(w, q), y * Pow(w, q))
      BY <3>5, <3>6, <3>7, CongMul
    <3>9. Pow(w, z) * Pow(w, q) \in Int /\ y * Pow(w, q) \in Int
      BY <3>6
    <3>10. Cong(Pow(w, z + q), y * Pow(w, q))
      BY <3>6, <3>8, <3>9, CongTrans
    <3> QED BY <3>3, <3>4, <3>10
  <2> HIDE DEF d, b
  <2> QED BY <1>1, <1>3, <2>1, SumScaled
<1>6. Cong(SumSeq(p) + SumSeq(d), SumSeq(b) + y * SumSeq(b))
  <2>1. SumSeq(b) \in Int /\ SumSeq(d) \in Int /\ y * SumSeq(b) \in Int
    <3>1. SumSeq(b) \in Int /\ SumSeq(d) \in Int
      BY <1>1, <1>3, SumInFp
    <3> QED BY <3>1
  <2>2. Cong(SumSeq(b), SumSeq(b))
    BY <2>1, CongRefl
  <2> HIDE DEF b, d, p
  <2>3. Cong(SumSeq(b) + SumSeq(d), SumSeq(b) + y * SumSeq(b))
    BY <1>5, <2>1, <2>2, CongAdd
  <2> QED BY <1>4, <2>3
<1>7. SumSeq(a) \in Int /\ SumSeq(p) + SumSeq(d) \in Int /\ SumSeq(b) + y * SumSeq(b) \in Int
  <2>1. SumSeq(b) \in Int /\ SumSeq(d) \in Int /\ SumSeq(p) \in Int
    BY <1>1, <1>3, SumInFp
  <2>2. n + n \in Nat
    OBVIOUS
  <2>3. SumSeq(a) \in Int
    BY <1>1, <2>2, SumInFp
  <2> QED BY <2>1, <2>3
<1>8. Cong(SumSeq(a), SumSeq(b) + y * SumSeq(b))
  <2> HIDE DEF b, d, p
  <2> QED BY <1>3, <1>6, <1>7, CongTrans
<1> QED
  BY <1>8 DEF RootSum, a, b

\* Odd powers of -1.
LEMMA OddPower ==
  ASSUME NEW x \in Int, Cong(x, -1), NEW q \in Nat
  PROVE  Cong(Pow(x, 2 * q + 1), -1)
<1> DEFINE z == 2 * q  t == 2  s == Pow(x, t)
<1>1. z \in Nat /\ t \in Nat /\ z = t * q
  OBVIOUS
<1>2. s = 1
  <2> DEFINE y == x * x
  <2>1. y \in Int
    OBVIOUS
  <2>2. Cong(y, (-1) * (-1))
    BY CongMul
  <2> HIDE DEF y
  <2>3. (-1) * (-1) = 1
    OBVIOUS
  <2>4. Cong(y, 1)
    BY <2>2, <2>3
  <2> DEFINE o == 1
  <2>5. o \in Nat /\ o + 1 = t
    OBVIOUS
  <2> HIDE DEF o, t
  <2>6. Pow(x, o + 1) = (Pow(x, o) * x) % P /\ Pow(x, o) \in Int /\ Pow(x, o + 1) \in Fp
    <3>1. o + 1 \in Nat
      BY <2>5
    <3> QED BY <2>5, <3>1, PowStep
  <2> DEFINE n == 0
  <2>7. n \in Nat /\ n + 1 = o
    BY DEF o
  <2> HIDE DEF n
  <2>8. Pow(x, n + 1) = (Pow(x, n) * x) % P
    BY <2>7, PowStep
  <2>9. Pow(x, n) = 1
    BY PowStep DEF n
  <2>10. Cong(Pow(x, o), x)
    <3>1. 1 * x = x
      OBVIOUS
    <3>2. Pow(x, o) = x % P
      BY <2>7, <2>8, <2>9, <3>1
    <3> QED BY <3>2, CongOfMod
  <2>11. Cong(x, x) /\ Pow(x, o) * x \in Int
    BY <2>6, CongRefl
  <2>12. Cong(Pow(x, o) * x, y)
    BY <2>6, <2>10, <2>11, CongMul DEF y
  <2>13. Cong(Pow(x, o + 1), Pow(x, o) * x) /\ Pow(x, o + 1) \in Int
    BY <2>6, <2>11, CongOfMod, FpIsInt
  <2>14. Cong(Pow(x, o + 1), y)
    BY <2>1, <2>11, <2>12, <2>13, CongTrans
  <2>15. Cong(Pow(x, o + 1), 1)
    BY <2>1, <2>4, <2>13, <2>14, CongTrans
  <2>16. Pow(x, o + 1) = 1
    BY <2>6, <2>15, ZeroOneInFp, EqOfCong
  <2> QED BY <2>5, <2>16
<1> HIDE DEF s, t
<1>3. Pow(x, z) = 1
  <2>1. Pow(Pow(x, t), q) = Pow(x, t * q)
    BY <1>1, PowTimes
  <2>2. Pow(1, q) = 1
    BY PowOfOne
  <2> HIDE DEF z
  <2> QED BY <1>1, <1>2, <2>1, <2>2 DEF s
<1> HIDE DEF z
<1>4. Pow(x, z + 1) = (Pow(x, z) * x) % P
  BY <1>1, PowStep
<1>5. 1 * x = x
  OBVIOUS
<1>6. Cong(Pow(x, z + 1), x)
  BY <1>3, <1>4, <1>5, CongOfMod
<1>7. Pow(x, z + 1) \in Int
  <2>1. z + 1 \in Nat
    BY <1>1
  <2> QED BY <2>1, PowStep
<1>8. Cong(Pow(x, z + 1), -1)
  BY <1>6, <1>7, CongTrans
<1> QED
  BY <1>8 DEF z

\* The m-th powers of all powers of a root of order n add up to zero, unless they are
\* all one.
Orthogonal(n) ==
  \A w \in Fp, m \in Nat :
    Cong(Pow(w, n \div 2), -1) /\ m % n # 0 => RootSum(w, n, m) = 0

LEMMA OrthogonalDoubles ==
  ASSUME NEW n \in Nat, n = 1 \/ (n % 2 = 0 /\ n > 0), Orthogonal(n)
  PROVE  Orthogonal(n + n)
<1> SUFFICES ASSUME NEW w \in Fp, NEW m \in Nat, Cong(Pow(w, (n + n) \div 2), -1), m % (n + n) # 0
             PROVE  RootSum(w, n + n, m) = 0
  BY DEF Orthogonal
<1>1. w \in Int /\ Cong(Pow(w, n), -1) /\ Pow(w, n) \in Int
  <2>1. (n + n) \div 2 = n
    OBVIOUS
  <2> QED BY <2>1, FpIsInt, PowStep
<1>2. RootSum(w, n + n, m) \in Fp /\ RootSum(w, n + n, m) \in Int /\ RootSum(w, n, m) \in Int
  <2>1. n + n \in Nat
    OBVIOUS
  <2> QED BY <1>1, <2>1, RootTermsInt
<1>3. Pow(Pow(w, n), m) = Pow(w, n * m)
  BY <1>1, PowTimes
<1>4. CASE m % 2 = 1
  <2> DEFINE q == m \div 2  y == -1
  <2>1. q \in Nat /\ m = 2 * q + 1 /\ y \in Int
    BY <1>4
  <2> HIDE DEF q
  <2>2. Cong(Pow(Pow(w, n), m), y)
    BY <1>1, <2>1, OddPower
  <2> HIDE DEF y
  <2>3. Cong(RootSum(w, n + n, m), RootSum(w, n, m) + y * RootSum(w, n, m))
    BY <1>1, <1>3, <2>1, <2>2, RootHalves
  <2>4. RootSum(w, n, m) + y * RootSum(w, n, m) = 0
    BY <1>2 DEF y
  <2> QED BY <1>2, <2>3, <2>4, ZeroOneInFp, EqOfCong
<1>5. CASE m % 2 = 0
  <2> DEFINE k == m \div 2  t == 2  v == Pow(w, t)
  <2>1. k \in Nat /\ m = t * k /\ t \in Nat
    BY <1>5
  <2>2. k % n # 0
    <3> SUFFICES ASSUME k % n = 0 PROVE FALSE
      OBVIOUS
    <3> DEFINE j == k \div n
    <3>1. n > 0
      OBVIOUS
    <3>2. k = n * j /\ j \in Nat
      BY <2>1, <3>1
    <3> HIDE DEF j, k
    <3>3. m = (n + n) * j /\ n + n > 0
      BY <2>1, <3>1, <3>2
    <3> DEFINE d == n + n
    <3>4. d \in Nat /\ d > 0 /\ m = d * j
      BY <3>3
    <3> HIDE DEF d
    <3>5. m % d = 0
      BY <3>2, <3>4
    <3> QED BY <3>5 DEF d
  <2>3. n % 2 = 0 /\ n > 0
    BY <2>1, <2>2
  <2> HIDE DEF k
  <2>4. v \in Fp /\ v \in Int
    <3> HIDE DEF t
    <3> QED BY <1>1, <2>1, PowStep
  <2>5. Cong(Pow(v, n \div 2), -1)
    <3> DEFINE h == n \div 2
    <3>1. h \in Nat /\ t * h = n
      BY <2>3
    <3> HIDE DEF h, t
    <3>2. Pow(Pow(w, t), h) = Pow(w, t * h)
      BY <1>1, <2>1, <3>1, PowTimes
    <3> QED BY <1>1, <3>1, <3>2 DEF h
  <2>6. RootSum(v, n, k) = 0
    BY <2>1, <2>2, <2>4, <2>5 DEF Orthogonal
  <2>7. RootSum(w, n, m) = RootSum(v, n, k)
    <3>1. ASSUME NEW h \in 1 .. n PROVE Pow(w, (h - 1) * m) = Pow(v, (h - 1) * k)
      <4> DEFINE i == (h - 1) * k
      <4>1. i \in Nat
        <5>1. h - 1 \in Nat
          OBVIOUS
        <5> QED BY <2>1, <5>1
      <4>2. (h - 1) * m = t * i
        BY <2>1
      <4> HIDE DEF i, t
      <4>3. Pow(Pow(w, t), i) = Pow(w, t * i)
        BY <1>1, <2>1, <4>1, PowTimes
      <4> QED BY <4>2, <4>3 DEF i
    <3> HIDE DEF v
    <3>2. RootTerms(w, n, m) = RootTerms(v, n, k)
      BY <3>1 DEF RootTerms
    <3> QED BY <3>2 DEF RootSum
  <2> DEFINE y == 1
  <2>8. Cong(Pow(Pow(w, n), m), y)
    <3> DEFINE s == Pow(w, n)
    <3>1. Pow(Pow(s, t), k) = Pow(s, t * k)
      <4> HIDE DEF t, s
      <4>1. s \in Int
        BY <1>1 DEF s
      <4> QED BY <2>1, <4>1, PowTimes
    <3>2. Pow(s, t) = 1
      <4>1. Cong(Pow(w, n + n), Pow(w, n) * Pow(w, n)) /\ Pow(w, n + n) \in Fp
        <5>1. n + n \in Nat
          OBVIOUS
        <5> QED BY <1>1, <5>1, PowPlus, PowStep
      <4>2. Cong(Pow(w, n) * Pow(w, n), (-1) * (-1)) /\ (-1) * (-1) = 1
        BY <1>1, CongMul
      <4>3. Cong(Pow(w, n + n), 1)
        <5>1. Pow(w, n) * Pow(w, n) \in Int
          BY <1>1
        <5>2. Pow(w, n + n) \in Int
          BY <4>1, FpIsInt
        <5> QED BY <4>1, <4>2, <5>1, <5>2, CongTrans
      <4>4. Pow(w, n + n) = 1
        BY <4>1, <4>3, ZeroOneInFp, EqOfCong
      <4>5. n + n = n * t
        OBVIOUS
      <4> HIDE DEF t
      <4>6. Pow(Pow(w, n), t) = Pow(w, n * t)
        BY <1>1, <2>1, PowTimes
      <4> QED BY <4>4, <4>5, <4>6
    <3>3. Pow(1, k) = 1
      BY <2>1, PowOfOne
    <3> HIDE DEF t
    <3>4. Pow(s, m) = 1
      BY <2>1, <3>1, <3>2, <3>3
    <3> QED BY <3>4, CongRefl
  <2>9. y \in Int
    OBVIOUS
  <2> HIDE DEF y
  <2>10. Cong(RootSum(w, n + n, m), RootSum(w, n, m) + y * RootSum(w, n, m))
    BY <1>1, <1>3, <2>8, <2>9, RootHalves
  <2>11. RootSum(w, n, m) + y * RootSum(w, n, m) = 0
    BY <2>6, <2>7, <2>9
  <2> QED BY <1>2, <2>10, <2>11, ZeroOneInFp, EqOfCong
<1>6. m % 2 = 0 \/ m % 2 = 1
  OBVIOUS
<1> QED
  BY <1>4, <1>5, <1>6

LEMMA OrthogonalRoots == Orthogonal(2) /\ Orthogonal(4) /\ Orthogonal(8) /\ Orthogonal(16)
<1> DEFINE a == 1  b == 2  c == 4  d == 8  e == 16
<1>1. /\ a \in Nat /\ b \in Nat /\ c \in Nat /\ d \in Nat
      /\ a + a = b /\ b + b = c /\ c + c = d /\ d + d = e
      /\ a = 1 /\ b % 2 = 0 /\ b > 0 /\ c % 2 = 0 /\ c > 0 /\ d % 2 = 0 /\ d > 0
  OBVIOUS
<1>2. Orthogonal(a)
  <2>1. \A m \in Nat : m % 1 = 0
    OBVIOUS
  <2> QED BY <2>1 DEF Orthogonal
<1> HIDE DEF a, b, c, d, e
<1>3. Orthogonal(b)
  BY <1>1, <1>2, OrthogonalDoubles
<1>4. Orthogonal(c)
  BY <1>1, <1>3, OrthogonalDoubles
<1>5. Orthogonal(d)
  BY <1>1, <1>4, OrthogonalDoubles
<1>6. Orthogonal(e)
  BY <1>1, <1>5, OrthogonalDoubles
<1> QED
  BY <1>3, <1>4, <1>5, <1>6 DEF b, c, d, e

----------------------------------------------------------------------------
\* Interpolation.

\* Interpolate, without the sequences it goes through.
Weights(w, n, j) == [h \in 1 .. n |-> Pow(w, ((n - h + 1) * (j - 1)) % n)]

LEMMA ResizeIs ==
  ASSUME NEW m \in Nat, NEW n \in Nat, NEW a \in List(Fp, m)
  PROVE  /\ Resize(a, n) \in List(Fp, n) /\ Len(Resize(a, n)) = n
         /\ \A j \in 1 .. n : Resize(a, n)[j] = Coefficient(a, m, j)
<1> DEFINE f == [j \in 1 .. n |-> Coefficient(a, m, j)]
<1>1. Len(a) = m
  BY DEF List
<1>2. Resize(a, n) = <<>> \o f
  BY <1>1 DEF Resize, Collect, Coefficient
<1>3. f \in [1 .. n -> Fp]
  BY ZeroOneInFp DEF Coefficient, List
<1>4. \A j \in 1 .. n : f[j] = Coefficient(a, m, j)
  OBVIOUS
<1> HIDE DEF f
<1>5. Resize(a, n) = f /\ Len(f) = n
  BY <1>2, <1>3, CollectIs
<1> QED
  BY <1>3, <1>4, <1>5 DEF List

\* A sum with one term.
LEMMA SumSingle ==
  ASSUME NEW n \in Nat, NEW a \in List(Int, n), NEW k \in 1 .. n,
         \A j \in 1 .. n : j # k => Cong(a[j], 0)
  PROVE  Cong(SumSeq(a), a[k])
<1> DEFINE E(m) == IF m >= k THEN a[k] ELSE 0
           T == {m \in Nat : m <= n => Cong(SumSeq(Prefix(a, m)), E(m))}
<1>1. a[k] \in Int /\ \A m \in Nat : E(m) \in Int
  BY DEF List
<1>2. 0 \in T
  <2>1. SumSeq(Prefix(a, 0)) = 0 /\ E(0) = 0
    BY SumOfNone
  <2> QED BY <2>1, CongRefl
<1>3. ASSUME NEW m \in Nat, m \in T PROVE m + 1 \in T
  <2> SUFFICES ASSUME m + 1 <= n PROVE Cong(SumSeq(Prefix(a, m + 1)), E(m + 1))
    OBVIOUS
  <2> DEFINE x == SumSeq(Prefix(a, m + 1))  y == SumSeq(Prefix(a, m))  d == a[m + 1]
             e == E(m)  f == E(m + 1)
  <2>1. m \in 0 .. n /\ m + 1 \in 0 .. n /\ m + 1 \in Nat /\ m + 1 \in 1 .. n
    OBVIOUS
  <2>2. x \in Int /\ y \in Int
    <3>1. Prefix(a, m) \in List(Int, m) /\ Prefix(a, m + 1) \in List(Int, m + 1)
      BY <2>1, PrefixIs
    <3> QED BY <2>1, <3>1, SumInFp
  <2>3. d \in Int /\ e \in Int /\ f \in Int
    <3>1. d \in Int
      BY <2>1 DEF List
    <3> HIDE DEF E
    <3> QED BY <1>1, <2>1, <3>1
  <2>4. Cong(x, y + d)
    BY SumSnoc
  <2>5. Cong(y, e)
    BY <1>3, <2>1
  <2>6. Cong(e + d, f)
    <3>1. CASE m + 1 = k
      <4>1. e = 0 /\ f = d
        BY <3>1
      <4> HIDE DEF e, f, d
      <4>2. e + d = f
        BY <2>3, <4>1
      <4> QED BY <2>3, <4>2, CongRefl
    <3>2. CASE m + 1 # k
      <4>1. e = f /\ Cong(d, 0)
        BY <2>1, <3>2
      <4>2. Cong(e, e)
        BY <2>3, CongRefl
      <4> HIDE DEF e, f, d
      <4>3. Cong(e + d, e + 0)
        BY <2>3, <4>1, <4>2, CongAdd
      <4>4. e + 0 = f
        BY <2>3, <4>1
      <4> QED BY <4>3, <4>4
    <3> QED BY <3>1, <3>2
  <2> HIDE DEF x, y, d, e, f
  <2>7. Cong(d, d) /\ y + d \in Int /\ e + d \in Int
    BY <2>2, <2>3, CongRefl
  <2>8. Cong(y + d, e + d)
    BY <2>2, <2>3, <2>5, <2>7, CongAdd
  <2>9. Cong(x, e + d)
    BY <2>2, <2>4, <2>7, <2>8, CongTrans
  <2>10. Cong(x, f)
    BY <2>2, <2>3, <2>6, <2>7, <2>9, CongTrans
  <2> QED BY <2>10 DEF x, f
<1>4. n \in T
  <2> HIDE DEF T
  <2> QED BY <1>2, <1>3, SetInduction
<1>5. Prefix(a, n) = a
  <2>1. n \in 0 .. n
    OBVIOUS
  <2> QED BY <2>1, PrefixIs
<1> QED
  BY <1>4, <1>5

\* The sum of n ones.
LEMMA SumOfOnes ==
  ASSUME NEW n \in Nat, NEW a \in List(Int, n), \A j \in 1 .. n : a[j] = 1
  PROVE  Cong(SumSeq(a), n)
<1> DEFINE T == {m \in Nat : m <= n => Cong(SumSeq(Prefix(a, m)), m)}
<1>1. 0 \in T
  BY SumOfNone, CongRefl
<1>2. ASSUME NEW m \in Nat, m \in T PROVE m + 1 \in T
  <2> SUFFICES ASSUME m + 1 <= n PROVE Cong(SumSeq(Prefix(a, m + 1)), m + 1)
    OBVIOUS
  <2> DEFINE x == SumSeq(Prefix(a, m + 1))  y == SumSeq(Prefix(a, m))
  <2>1. m \in 0 .. n /\ m + 1 \in 0 .. n /\ m + 1 \in Nat /\ m + 1 \in 1 .. n
    OBVIOUS
  <2>2. x \in Int /\ y \in Int
    <3>1. Prefix(a, m) \in List(Int, m) /\ Prefix(a, m + 1) \in List(Int, m + 1)
      BY <2>1, PrefixIs
    <3> QED BY <2>1, <3>1, SumInFp
  <2>3. Cong(x, y + a[m + 1])
    BY SumSnoc
  <2>4. Cong(y, m)
    BY <1>2, <2>1
  <2> HIDE DEF x, y
  <2>5. Cong(x, y + 1) /\ Cong(1, 1)
    BY <2>1, <2>3, CongRefl
  <2>6. Cong(y + 1, m + 1)
    BY <2>2, <2>4, <2>5, CongAdd
  <2>7. Cong(x, m + 1)
    BY <2>2, <2>5, <2>6, CongTrans
  <2> QED BY <2>7 DEF x
<1>3. n \in T
  <2> HIDE DEF T
  <2> QED BY <1>1, <1>2, SetInduction
<1>4. Prefix(a, n) = a
  <2>1. n \in 0 .. n
    OBVIOUS
  <2> QED BY <2>1, PrefixIs
<1> QED
  BY <1>3, <1>4

----------------------------------------------------------------------------
\* The domains.

LEMMA Domains ==
  ASSUME NEW k \in Foldable
  PROVE  /\ k \in {1, 3, 7} /\ GSize(k) = (k + 1) + (k + 1)
         /\ k + 1 \in Orders /\ GSize(k) \in Orders
<1>1. k \in {1, 3, 7} /\ GSize(k) \in Orders
  BY DEF Foldable
<1>2. GSize(k) = (k + 1) + (k + 1)
  <2> DEFINE Fits(n) == n \in {4, 8, 16} /\ 2 * k < n /\ n <= 2 * 2 * k
  <2>1. \A n : Fits(n) <=> n = (k + 1) + (k + 1)
    <3>1. CASE k = 1
      BY <3>1
    <3>2. CASE k = 3
      BY <3>2
    <3>3. CASE k = 7
      BY <3>3
    <3> QED BY <1>1, <3>1, <3>2, <3>3
  <2>2. GSize(k) = CHOOSE n \in {4, 8, 16} : 2 * k < n /\ n <= 2 * 2 * k
    BY DEF GSize, Degree
  <2>3. (CHOOSE n \in {4, 8, 16} : 2 * k < n /\ n <= 2 * 2 * k) = (k + 1) + (k + 1)
    BY <2>1
  <2> QED BY <2>2, <2>3
<1>3. k + 1 \in Orders
  <2>1. P - 1 \in Int /\ (P - 1) % GSize(k) = 0
    BY <1>1, PAssumption DEF Orders
  <2>2. (P - 1) % (k + 1) = 0 /\ k + 1 \in {2, 4, 8}
    BY <1>1, <1>2, <2>1
  <2> QED BY <2>2 DEF Orders
<1> QED
  BY <1>1, <1>2, <1>3

LEMMA LargestMax ==
  ASSUME NEW n \in Orders
  PROVE  LargestOrder \in Orders /\ n <= LargestOrder
<1>1. \E m \in Orders : \A i \in Orders : i <= m
  <2>1. CASE 16 \in Orders
    BY <2>1 DEF Orders
  <2>2. CASE 16 \notin Orders /\ 8 \in Orders
    BY <2>2 DEF Orders
  <2>3. CASE 16 \notin Orders /\ 8 \notin Orders /\ 4 \in Orders
    BY <2>3 DEF Orders
  <2>4. CASE 16 \notin Orders /\ 8 \notin Orders /\ 4 \notin Orders
    BY <2>4 DEF Orders
  <2> QED BY <2>1, <2>2, <2>3, <2>4
<1> QED
  BY <1>1 DEF LargestOrder

\* Half the order takes a root to -1, and the root of half the order is its square.
LEMMA RootIs ==
  ASSUME NEW n \in Orders
  PROVE  /\ Root[n] \in Fp /\ Root[n] \in Int
         /\ Cong(Pow(Root[n], n \div 2), -1) /\ Pow(Root[n], n) = 1
         /\ \A m \in Orders : n = m + m => Root[m] = Pow(Root[n], 2)
<1> DEFINE w == CHOOSE w \in Fp : IsRoot(w)  g == LargestOrder  d == g \div n  h == n \div 2
           r == Root[n]  t == 2
<1>1. w \in Fp /\ Pow(w, g \div 2) = P - 1
  BY RootAssumption DEF IsRoot
<1>2. \A m \in Orders : Root[m] = Pow(w, g \div m)
  BY DEF Root
<1>3. g \in {2, 4, 8, 16} /\ n \in {2, 4, 8, 16} /\ n <= g
  BY LargestMax DEF Orders
<1>4. d \in Nat /\ h \in Nat /\ n \in Nat /\ t \in Nat /\ d * h = g \div 2 /\ h * t = n
  BY <1>3
<1> HIDE DEF w, t
<1>5. w \in Int /\ r = Pow(w, d)
  BY <1>1, <1>2, FpIsInt
<1>6. r \in Fp /\ r \in Int
  <2> HIDE DEF d, r
  <2> QED BY <1>4, <1>5, PowStep
<1>7. Pow(r, h) = P - 1
  <2> HIDE DEF d, h, r
  <2>1. Pow(Pow(w, d), h) = Pow(w, d * h)
    BY <1>4, <1>5, PowTimes
  <2> QED BY <1>1, <1>4, <1>5, <2>1
<1>8. Cong(P - 1, -1)
  <2>1. P - 1 = -1 + 1 * P
    BY PAssumption
  <2> QED BY <2>1 DEF Cong
<1>9. Pow(r, n) = 1
  <2> DEFINE q == 0  s == Pow(r, h)
  <2> HIDE DEF h, r, s
  <2>1. Pow(Pow(r, h), t) = Pow(r, h * t)
    BY <1>4, <1>6, PowTimes
  <2>2. s \in Int /\ Cong(s, -1)
    BY <1>7, <1>8, PAssumption DEF s
  <2>3. Pow(s, t) = 1
    <3> DEFINE o == 1  f == Pow(s, o)
    <3>1. o \in Nat /\ o + o = t /\ q \in Nat /\ 2 * q + 1 = o
      BY DEF t
    <3> HIDE DEF o, q, f
    <3>2. Cong(f, -1)
      <4>1. Cong(Pow(s, 2 * q + 1), -1)
        BY <2>2, <3>1, OddPower
      <4> QED BY <3>1, <4>1 DEF f
    <3>3. Cong(Pow(s, o + o), f * f) /\ Pow(s, o + o) \in Fp /\ f \in Int
      <4>1. o + o \in Nat
        BY <3>1
      <4> QED BY <2>2, <3>1, <4>1, PowPlus, PowStep DEF f
    <3>4. Cong(f * f, (-1) * (-1)) /\ (-1) * (-1) = 1 /\ f * f \in Int
      BY <3>2, <3>3, CongMul
    <3>5. Pow(s, o + o) \in Int
      BY <3>3, FpIsInt
    <3>6. Cong(Pow(s, o + o), 1)
      BY <3>3, <3>4, <3>5, CongTrans
    <3>7. Pow(s, o + o) = 1
      BY <3>3, <3>6, ZeroOneInFp, EqOfCong
    <3> QED BY <3>1, <3>7
  <2> QED BY <1>4, <2>1, <2>3 DEF s
<1>10. ASSUME NEW m \in Orders, n = m + m PROVE Root[m] = Pow(r, t)
  <2> DEFINE c == g \div m
  <2>1. m \in {2, 4, 8, 16} /\ c = d * t
    <3>1. m \in {2, 4, 8, 16}
      BY DEF Orders
    <3> QED BY <1>3, <1>10, <3>1 DEF t
  <2>2. Root[m] = Pow(w, c)
    BY <1>2
  <2> HIDE DEF c, d, r
  <2>3. Pow(Pow(w, d), t) = Pow(w, d * t)
    BY <1>4, <1>5, PowTimes
  <2> QED BY <1>5, <2>1, <2>2, <2>3
<1> QED
  BY <1>6, <1>7, <1>8, <1>9, <1>10 DEF t

InverseOf(n) == P - (P - 1) \div n

LEMMA InverseOfIs ==
  ASSUME NEW n \in Orders
  PROVE  InverseOf(n) \in Int /\ n \in Nat \ {0} /\ Cong(InverseOf(n) * n, 1)
<1> DEFINE d == (P - 1) \div n
<1>1. n \in {2, 4, 8, 16} /\ (P - 1) % n = 0 /\ P \in Int
  BY PAssumption DEF Orders
<1>2. d \in Int /\ P - 1 = n * d
  <2> DEFINE p == P - 1
  <2>1. p \in Int
    BY <1>1
  <2> HIDE DEF p
  <2>2. n \in Nat /\ n > 0 /\ p % n = 0
    BY <1>1 DEF p
  <2>3. p \div n \in Int /\ p = n * (p \div n) + (p % n)
    BY <2>1, <2>2
  <2>4. n * (p \div n) \in Int
    BY <2>2, <2>3
  <2> QED BY <2>2, <2>3, <2>4 DEF p
<1> HIDE DEF d
<1>3. (P - d) * n = 1 + (n - 1) * P
  <2>1. (P - d) * n = P * n - n * d
    BY <1>1, <1>2
  <2>2. (n - 1) * P = P * n - P
    BY <1>1
  <2> QED BY <1>1, <1>2, <2>1, <2>2
<1>4. Cong((P - d) * n, 1)
  <2>1. n - 1 \in Int
    BY <1>1
  <2> QED BY <1>3, <2>1 DEF Cong
<1> QED
  BY <1>1, <1>2, <1>4 DEF InverseOf, d

Multiple(x, n) == \E k \in Nat : x = n * k

\* Exponents that differ by multiples of the order.
LEMMA SameExponent ==
  ASSUME NEW a \in Int, NEW n \in Nat, Pow(a, n) = 1, NEW i \in Nat, NEW j \in Nat,
         NEW x, NEW y, Multiple(x, n), Multiple(y, n), i + x = j + y
  PROVE  Pow(a, i) = Pow(a, j)
<1>1. PICK k \in Nat, l \in Nat : x = n * k /\ y = n * l
  BY DEF Multiple
<1>2. Pow(a, i + n * k) = Pow(a, i)
  BY PowPeriod
<1>3. Pow(a, j + n * l) = Pow(a, j)
  BY PowPeriod
<1> QED
  BY <1>1, <1>2, <1>3

\* The inverse transform: the entry for coefficient j and value h.
LEMMA WeightIs ==
  ASSUME NEW n \in Orders, NEW w, w = Root[n], NEW h \in 1 .. n, NEW j \in 1 .. n
  PROVE  /\ Weights(w, n, j)[h] = Pow(w, (n - h + 1) * (j - 1))
         /\ Weights(w, n, j)[h] = Weights(w, n, h)[j]
         /\ Weights(w, n, j)[h] \in Int
<1>1. w \in Int /\ Pow(w, n) = 1 /\ n \in Nat \ {0}
  BY RootIs, InverseOfIs
<1> DEFINE a == n - h + 1  b == j - 1  c == n - j + 1  d == h - 1  ab == a * b  cd == c * d
           nd == n * d  nb == n * b
<1>2. a \in Nat /\ b \in Nat /\ c \in Nat /\ d \in Nat
  BY <1>1
<1>3. ab \in Nat /\ cd \in Nat
  BY <1>2
<1>4. ab + nd = cd + nb
  <2>1. ab = nb - d * b /\ cd = nd - b * d
    BY <1>1
  <2>2. nb \in Int /\ nd \in Int /\ b * d \in Int /\ b * d = d * b
    BY <1>1, <1>2
  <2> HIDE DEF ab, cd, nb, nd, b, d
  <2> QED BY <2>1, <2>2
<1>5. Weights(w, n, j)[h] = Pow(w, ab % n) /\ Weights(w, n, h)[j] = Pow(w, cd % n)
  BY DEF Weights
<1>9. Multiple(nd, n) /\ Multiple(nb, n)
  BY <1>2 DEF Multiple
<1> HIDE DEF ab, cd, nb, nd, b, d
<1>6. Pow(w, ab % n) = Pow(w, ab) /\ Pow(w, cd % n) = Pow(w, cd)
  BY <1>1, <1>3, PowMod
<1>7. Pow(w, ab) = Pow(w, cd)
  BY <1>1, <1>2, <1>3, <1>4, <1>9, SameExponent
<1>8. Pow(w, ab) \in Int
  BY <1>1, <1>3, PowStep
<1> QED
  BY <1>5, <1>6, <1>7, <1>8 DEF ab, b

\* Transform and inverse transform cancel.
Cancelling(w, n, i, j) == [h \in 1 .. n |-> Pow(w, (h - 1) * (i - 1)) * Weights(w, n, j)[h]]

LEMMA CancellingIs ==
  ASSUME NEW n \in Orders, NEW w, w = Root[n], NEW i \in 1 .. n, NEW j \in 1 .. n
  PROVE  /\ Cancelling(w, n, i, j) \in List(Int, n)
         /\ Cong(SumSeq(Cancelling(w, n, i, j)), IF i = j THEN n ELSE 0)
<1> DEFINE s == Cancelling(w, n, i, j)  m == i - j + n  r == RootTerms(w, n, m)
<1>1. w \in Fp /\ w \in Int /\ Pow(w, n) = 1 /\ n \in Nat \ {0} /\ Cong(Pow(w, n \div 2), -1)
      /\ m \in Nat /\ n \in {2, 4, 8, 16}
  <2>1. n \in Nat \ {0}
    BY InverseOfIs
  <2> QED BY <2>1, RootIs DEF Orders
<1>2. ASSUME NEW h \in 1 .. n
      PROVE  Pow(w, (h - 1) * (i - 1)) * Weights(w, n, j)[h] \in Int
             /\ Cong(Pow(w, (h - 1) * (i - 1)) * Weights(w, n, j)[h], Pow(w, (h - 1) * m))
  <2> DEFINE a == h - 1  b == i - 1  c == n - h + 1  d == j - 1  ab == a * b  cd == c * d  am == a * m
             na == n * a  nd == n * d
  <2>1. a \in Nat /\ b \in Nat /\ c \in Nat /\ d \in Nat /\ m = b - d + n /\ c = n - a
    BY <1>1
  <2> HIDE DEF a, b, c, d, m
  <2>2. ab \in Nat /\ cd \in Nat /\ am \in Nat
    BY <1>1, <2>1
  <2>3. (ab + cd) + na = am + nd
    <3>1. cd = nd - a * d /\ am = ab - a * d + na
      <4>1. (n - a) * d = n * d - a * d /\ a * (b - d + n) = a * b - a * d + n * a
        BY <1>1, <2>1
      <4> QED BY <2>1, <4>1
    <3>2. nd \in Int /\ a * d \in Int /\ na \in Int
      BY <1>1, <2>1
    <3> HIDE DEF ab, cd, am, na, nd
    <3> QED BY <2>2, <3>1, <3>2
  <2>4. Weights(w, n, j)[h] = Pow(w, cd)
    <3>1. Weights(w, n, j)[h] = Pow(w, (n - h + 1) * (j - 1))
      BY WeightIs
    <3> QED BY <3>1 DEF c, d
  <2>9. Multiple(na, n) /\ Multiple(nd, n)
    BY <2>1 DEF Multiple
  <2> HIDE DEF ab, cd, am, na, nd
  <2>5. Pow(w, ab + cd) = Pow(w, am)
    <3>1. ab + cd \in Nat
      BY <2>2
    <3> QED BY <1>1, <2>1, <2>2, <2>3, <2>9, <3>1, SameExponent
  <2>6. Cong(Pow(w, ab + cd), Pow(w, ab) * Pow(w, cd)) /\ Pow(w, ab) \in Int /\ Pow(w, cd) \in Int
        /\ Pow(w, am) \in Int
    BY <1>1, <2>2, PowPlus, PowStep
  <2>7. Pow(w, ab) * Pow(w, cd) \in Int
    BY <2>6
  <2>8. Cong(Pow(w, ab) * Pow(w, cd), Pow(w, am))
    BY <2>5, <2>6, <2>7, CongSym
  <2> QED BY <2>4, <2>7, <2>8 DEF ab, am, a, b
<1>3. s \in List(Int, n) /\ \A h \in 1 .. n : s[h] = Pow(w, (h - 1) * (i - 1)) * Weights(w, n, j)[h]
  <2>1. s \in List(Int, n)
    BY <1>2, Zenon DEF List, Cancelling
  <2> QED BY <2>1 DEF Cancelling
<1>4. r \in List(Int, n) /\ \A h \in 1 .. n : r[h] = Pow(w, (h - 1) * m)
  BY <1>1, RootTermsInt
<1>5. Cong(SumSeq(s), SumSeq(r))
  <2>1. \A h \in 1 .. n : Cong(s[h], r[h])
    BY <1>2, <1>3, <1>4
  <2> HIDE DEF s, r
  <2> QED BY <1>1, <1>3, <1>4, <2>1, SumCong
<1>6. SumSeq(s) \in Int /\ SumSeq(r) \in Int
  <2> HIDE DEF s, r
  <2> QED BY <1>1, <1>3, <1>4, SumInFp
<1>7. CASE i = j
  <2>1. m = n
    BY <1>1, <1>7
  <2>2. ASSUME NEW h \in 1 .. n PROVE r[h] = 1
    <3> DEFINE a == h - 1  z == 0  nz == n * z  na == n * a
    <3>1. a \in Nat /\ z \in Nat /\ a * m = na /\ Multiple(na, n) /\ Multiple(nz, n)
      <4>1. a \in Nat /\ z \in Nat /\ a * m = na
        BY <1>1, <2>1
      <4> HIDE DEF a, z
      <4> QED BY <4>1 DEF Multiple
    <3>2. na \in Nat
      BY <1>1, <3>1
    <3>3. r[h] = Pow(w, a * m)
      BY <1>4
    <3>4. na + nz = z + na
      BY <1>1, <3>1, <3>2
    <3> HIDE DEF na, nz, z, a
    <3>5. Pow(w, na) = Pow(w, z)
      <4>1. w \in Int /\ n \in Nat /\ Pow(w, n) = 1
        BY <1>1
      <4>2. z \in Nat /\ Multiple(na, n) /\ Multiple(nz, n)
        BY <3>1
      <4> QED BY <3>2, <3>4, <4>1, <4>2, SameExponent
    <3>6. Pow(w, z) = 1
      BY <1>1, PowStep DEF z
    <3> QED BY <3>1, <3>3, <3>5, <3>6
  <2>3. Cong(SumSeq(r), n)
    <3> HIDE DEF r
    <3> QED BY <1>1, <1>4, <2>2, SumOfOnes
  <2>4. Cong(SumSeq(s), n)
    <3> HIDE DEF r, s
    <3> QED BY <1>1, <1>5, <1>6, <2>3, CongTrans
  <2> QED BY <1>3, <1>7, <2>4
<1>8. CASE i # j
  <2>1. m % n # 0
    BY <1>1, <1>8
  <2>2. Orthogonal(n)
    BY <1>1, OrthogonalRoots
  <2>3. RootSum(w, n, m) = 0
    BY <1>1, <2>1, <2>2 DEF Orthogonal
  <2>4. Cong(SumSeq(s), 0)
    BY <1>5, <2>3 DEF RootSum
  <2> QED BY <1>3, <1>8, <2>4
<1> QED
  BY <1>7, <1>8

LEMMA InverseCancels ==
  ASSUME NEW n \in Orders, NEW x \in Int, NEW y \in Int, Cong(y, x * n)
  PROVE  Cong(InverseOf(n) * y, x)
<1> DEFINE q == InverseOf(n)  qn == q * n
<1>1. q \in Int /\ n \in Int /\ Cong(qn, 1)
  BY InverseOfIs
<1> HIDE DEF q
<1>2. x * n \in Int /\ qn \in Int /\ q * y \in Int
  BY <1>1
<1>3. Cong(q, q) /\ Cong(x, x)
  BY <1>1, CongRefl
<1>4. Cong(q * y, q * (x * n))
  BY <1>1, <1>2, <1>3, CongMul
<1>5. q * (x * n) = x * qn
  BY <1>1
<1> HIDE DEF qn
<1>6. Cong(x * qn, x * 1)
  BY <1>1, <1>2, <1>3, CongMul
<1>7. x * 1 = x /\ x * qn \in Int
  BY <1>2
<1>8. Cong(q * y, x)
  BY <1>2, <1>4, <1>5, <1>6, <1>7, CongTrans
<1> QED
  BY <1>8 DEF q

Interpolated(n, v, w) ==
  /\ \A j \in 1 .. n : Weights(w, n, j) \in List(Fp, n) /\ Inner(v, Weights(w, n, j)) \in Fp
  /\ Interpolate(v, w) = [j \in 1 .. n |-> (InverseOf(n) * Inner(v, Weights(w, n, j))) % P]
  /\ Interpolate(v, w) \in List(Fp, n)

LEMMA InterpolateIs ==
  ASSUME NEW n \in Nat \ {0}, NEW v \in List(Int, n), NEW w \in Int, InverseOf(n) \in Int
  PROVE  Interpolated(n, v, w)
<1> DEFINE q == InverseOf(n)
           a == [j \in 1 .. n |-> Inner(v, Weights(w, n, j))]
           r == [j \in 1 .. n |-> (q * a[j]) % P]
<1>1. Len(v) = n
  BY DEF List
<1>2. ASSUME NEW j \in 1 .. n
      PROVE  Weights(w, n, j) \in List(Fp, n) /\ Inner(v, Weights(w, n, j)) \in Fp
             /\ <<>> \o [h \in 1 .. n |-> Pow(w, ((n - h + 1) * (j - 1)) % n)] = Weights(w, n, j)
  <2>1. ASSUME NEW h \in 1 .. n PROVE Pow(w, ((n - h + 1) * (j - 1)) % n) \in Fp
    <3>1. (n - h + 1) * (j - 1) \in Int
      OBVIOUS
    <3> DEFINE y == (n - h + 1) * (j - 1)
    <3> HIDE DEF y
    <3>2. y % n \in Nat
      BY <3>1 DEF y
    <3>3. Pow(w, y % n) \in Fp
      BY <3>2, PowStep
    <3> QED BY <3>3 DEF y
  <2>2. Weights(w, n, j) \in [1 .. n -> Fp]
    BY <2>1 DEF Weights
  <2>3. Weights(w, n, j) \in List(Int, n)
    BY <2>2, FpIsInt DEF List
  <2>4. <<>> \o Weights(w, n, j) = Weights(w, n, j)
    BY <2>2, CollectIs
  <2>5. Inner(v, Weights(w, n, j)) \in Fp
    BY <2>3, InnerInFp
  <2> QED BY <2>2, <2>4, <2>5 DEF Weights, List
<1>3. a \in [1 .. n -> Fp]
  BY <1>2
<1>4. <<>> \o a = a /\ Len(a) = n
  <2> HIDE DEF a
  <2> QED BY <1>3, CollectIs
<1>5. Interpolate(v, w) = PolyScale(<<>> \o a, q)
  <2> DEFINE b == [j \in 1 .. n |-> Inner(v, <<>> \o [h \in 1 .. n |-> Pow(w, ((n - h + 1) * (j - 1)) % n)])]
  <2>1. a = b
    BY <1>2
  <2>2. Interpolate(v, w) = PolyScale(<<>> \o b, q)
    BY <1>1 DEF Interpolate, Collect, InverseOf
  <2> QED BY <2>1, <2>2
<1>6. r \in [1 .. n -> Fp]
  <2>1. ASSUME NEW j \in 1 .. n PROVE (q * a[j]) % P \in Fp
    <3>1. a[j] \in Int
      BY <1>3, FpIsInt
    <3> HIDE DEF a, q
    <3>2. q * a[j] \in Int
      BY <3>1 DEF q
    <3> QED BY <3>2, ModInFp
  <2> HIDE DEF a, q
  <2> QED BY <2>1
<1>7. PolyScale(a, q) = <<>> \o r
  <2> HIDE DEF a, q
  <2> QED BY <1>4 DEF PolyScale, Collect
<1>8. <<>> \o r = r
  <2> HIDE DEF r
  <2> QED BY <1>6, CollectIs
<1>9. Interpolate(v, w) = r
  BY <1>4, <1>5, <1>7, <1>8
<1>10. r = [j \in 1 .. n |-> (q * Inner(v, Weights(w, n, j))) % P]
  OBVIOUS
<1> HIDE DEF r
<1> QED
  BY <1>2, <1>6, <1>9, <1>10 DEF List, Interpolated

\* Interpolation, coefficient by coefficient.
LEMMA InterpolateAt ==
  ASSUME NEW n \in Orders, NEW w, w = Root[n], NEW v \in List(Int, n)
  PROVE  /\ Interpolate(v, w) \in List(Fp, n)
         /\ \A j \in 1 .. n :
              LET s == [h \in 1 .. n |-> v[h] * Weights(w, n, j)[h]]
              IN  s \in List(Int, n) /\ Interpolate(v, w)[j] = (InverseOf(n) * SumSeq(s)) % P
<1>1. w \in Int /\ n \in Nat \ {0} /\ InverseOf(n) \in Int
  BY RootIs, InverseOfIs
<1>3. /\ \A j \in 1 .. n : Weights(w, n, j) \in List(Fp, n)
      /\ Interpolate(v, w) = [j \in 1 .. n |-> (InverseOf(n) * Inner(v, Weights(w, n, j))) % P]
      /\ Interpolate(v, w) \in List(Fp, n)
  BY <1>1, InterpolateIs DEF Interpolated
<1>4. ASSUME NEW j \in 1 .. n
      PROVE  LET s == [h \in 1 .. n |-> v[h] * Weights(w, n, j)[h]]
             IN  s \in List(Int, n) /\ Interpolate(v, w)[j] = (InverseOf(n) * SumSeq(s)) % P
  <2> DEFINE s == [h \in 1 .. n |-> v[h] * Weights(w, n, j)[h]]
  <2>1. Weights(w, n, j) \in List(Int, n)
    BY <1>3, ListInt
  <2>2. Inner(v, Weights(w, n, j)) = SumSeq(s)
    BY <1>1, <2>1, InnerIsSum
  <2>3. s \in List(Int, n)
    <3>1. \A h \in 1 .. n : v[h] \in Int /\ Weights(w, n, j)[h] \in Int
      BY <2>1 DEF List
    <3>2. \A h \in 1 .. n : v[h] * Weights(w, n, j)[h] \in Int
      BY <3>1
    <3> QED BY <3>2, Zenon DEF List
  <2>4. Interpolate(v, w)[j] = (InverseOf(n) * Inner(v, Weights(w, n, j))) % P
    BY <1>3
  <2> QED BY <2>2, <2>3, <2>4
<1> QED
  BY <1>3, <1>4

\* The values on the domain determine a polynomial with as many coefficients.
LEMMA InterpolateEvals ==
  ASSUME NEW n \in Orders, NEW c \in List(Fp, n), NEW v \in List(Int, n),
         \A h \in 1 .. n : Cong(v[h], PolyEval(c, Pow(Root[n], h - 1)))
  PROVE  Interpolate(v, Root[n]) = c
<1> DEFINE w == Root[n]  u == Interpolate(v, w)
<1>1. w \in Int /\ n \in Nat \ {0} /\ n \in Nat /\ InverseOf(n) \in Int /\ c \in List(Int, n)
  BY RootIs, InverseOfIs, ListInt
<1>2. u \in List(Fp, n)
  BY InterpolateAt
<1>3. ASSUME NEW j \in 1 .. n PROVE u[j] = c[j]
  <2> DEFINE s == [h \in 1 .. n |-> v[h] * Weights(w, n, j)[h]]
             T(h, i) == c[i] * (Pow(w, (h - 1) * (i - 1)) * Weights(w, n, j)[h])
             e == [h \in 1 .. n |-> [i \in 1 .. n |-> T(h, i)]]
             r == [h \in 1 .. n |-> SumSeq(e[h])]
             col(i) == [h \in 1 .. n |-> e[h][i]]
             cc == [i \in 1 .. n |-> SumSeq(col(i))]
             K(i) == Cancelling(w, n, i, j)
  <2>1. s \in List(Int, n) /\ u[j] = (InverseOf(n) * SumSeq(s)) % P
    BY InterpolateAt
  <2>2. \A h \in 1 .. n : s[h] = v[h] * Weights(w, n, j)[h] /\ v[h] \in Int /\ c[h] \in Int
                          /\ Weights(w, n, j)[h] \in Int
    <3>1. \A h \in 1 .. n : Weights(w, n, j)[h] \in Int
      BY WeightIs
    <3> QED BY <1>1, <3>1 DEF List
  <2>3. ASSUME NEW i \in 1 .. n
        PROVE  K(i) \in List(Int, n) /\ Cong(SumSeq(K(i)), IF i = j THEN n ELSE 0)
               /\ (\A h \in 1 .. n : K(i)[h] = Pow(w, (h - 1) * (i - 1)) * Weights(w, n, j)[h])
               /\ SumSeq(K(i)) \in Int
    <3>1. K(i) \in List(Int, n) /\ Cong(SumSeq(K(i)), IF i = j THEN n ELSE 0)
      BY CancellingIs
    <3>2. \A h \in 1 .. n : K(i)[h] = Pow(w, (h - 1) * (i - 1)) * Weights(w, n, j)[h]
      BY DEF Cancelling
    <3>3. SumSeq(K(i)) \in Int
      BY <1>1, <3>1, SumInFp
    <3> QED BY <3>1, <3>2, <3>3
  <2>4. ASSUME NEW h \in 1 .. n, NEW i \in 1 .. n PROVE T(h, i) = c[i] * K(i)[h] /\ T(h, i) \in Int
    <3>1. K(i)[h] \in Int /\ T(h, i) = c[i] * K(i)[h]
      BY <2>3 DEF List
    <3> QED BY <2>2, <3>1
  <2> HIDE DEF s, T, K
  <2>5. ASSUME NEW h \in 1 .. n PROVE e[h] \in List(Int, n) /\ (\A i \in 1 .. n : e[h][i] = T(h, i))
                                       /\ e[h] = [i \in 1 .. n |-> T(h, i)]
    BY <2>4, Zenon DEF List
  <2>6. e \in List(List(Int, n), n)
    BY <2>5, Zenon DEF List
  <2> HIDE DEF e
  <2>7. ASSUME NEW h \in 1 .. n PROVE Cong(s[h], r[h]) /\ r[h] \in Int
    <3> DEFINE x == Pow(w, h - 1)  t == Terms(c, x, n)  y == Weights(w, n, j)[h]
    <3>1. h - 1 \in Nat
      OBVIOUS
    <3>2. x \in Int
      BY <1>1, <3>1, PowStep
    <3>3. r[h] = SumSeq(e[h]) /\ SumSeq(e[h]) \in Int
      BY <1>1, <2>5, SumInFp
    <3>4. y \in Int /\ s[h] = v[h] * y /\ v[h] \in Int
      BY <2>2
    <3>5. ASSUME NEW i \in 1 .. n PROVE e[h][i] = y * t[i]
      <4>1. i - 1 \in Nat
        OBVIOUS
      <4>2. Pow(x, i - 1) = Pow(w, (h - 1) * (i - 1))
        BY <1>1, <3>1, <4>1, PowTimes
      <4>3. t[i] = c[i] * Pow(x, i - 1)
        BY DEF Terms
      <4>4. e[h][i] = c[i] * (Pow(w, (h - 1) * (i - 1)) * y)
        BY <2>5 DEF T
      <4>5. Pow(x, i - 1) \in Int /\ c[i] \in Int
        BY <2>2, <3>2, <4>1, PowStep
      <4> HIDE DEF t, x, y
      <4>6. c[i] * (Pow(x, i - 1) * y) = y * (c[i] * Pow(x, i - 1))
        BY <3>4, <4>5
      <4> QED BY <4>2, <4>3, <4>4, <4>6
    <3>6. t \in List(Int, n) /\ Cong(PolyEval(c, x), SumSeq(t))
      <4> HIDE DEF x
      <4> QED BY <1>1, <3>2, TermsInt, EvalIsSum
    <3>7. PolyEval(c, x) \in Int /\ SumSeq(t) \in Int
      <4> HIDE DEF x, t
      <4> QED BY <1>1, <3>2, <3>6, PolyInFp, SumInFp
    <3>8. Cong(v[h], PolyEval(c, x))
      OBVIOUS
    <3> HIDE DEF x, t, y
    <3>9. Cong(SumSeq(e[h]), y * SumSeq(t))
      <4>1. \A i \in 1 .. n : e[h][i] \in Int
        BY <2>4, <2>5
      <4>2. \A i \in 1 .. n : Cong(e[h][i], y * t[i])
        BY <3>5, <4>1, CongRefl
      <4> QED BY <1>1, <2>5, <3>4, <3>6, <4>2, SumScaled
    <3>10. Cong(v[h], SumSeq(t))
      BY <3>4, <3>6, <3>7, <3>8, CongTrans
    <3>11. Cong(y, y) /\ y * v[h] \in Int /\ y * SumSeq(t) \in Int /\ y * v[h] = v[h] * y
      BY <3>4, <3>7, CongRefl
    <3>12. Cong(y * v[h], y * SumSeq(t))
      BY <3>4, <3>7, <3>10, <3>11, CongMul
    <3>13. Cong(y * SumSeq(t), SumSeq(e[h]))
      BY <3>3, <3>9, <3>11, CongSym
    <3>14. Cong(y * v[h], SumSeq(e[h]))
      BY <3>3, <3>11, <3>12, <3>13, CongTrans
    <3> QED BY <3>3, <3>4, <3>11, <3>14
  <2>8. r \in List(Int, n)
    BY <2>7, Zenon DEF List
  <2>9. ASSUME NEW i \in 1 .. n
        PROVE  cc[i] \in Int /\ Cong(cc[i], c[i] * (IF i = j THEN n ELSE 0)) /\ cc[i] = SumSeq(col(i))
    <3>1. \A h \in 1 .. n : e[h][i] = c[i] * K(i)[h] /\ e[h][i] \in Int
      BY <2>4, <2>5
    <3>2. col(i) \in List(Int, n) /\ \A h \in 1 .. n : col(i)[h] = e[h][i]
      <4>1. col(i) \in List(Int, n)
        BY <3>1, Zenon DEF List
      <4> QED BY <4>1
    <3> HIDE DEF col
    <3>3. \A h \in 1 .. n : Cong(col(i)[h], c[i] * K(i)[h])
      BY <3>1, <3>2, CongRefl
    <3>4. c[i] \in Int /\ K(i) \in List(Int, n) /\ SumSeq(K(i)) \in Int
      BY <2>2, <2>3
    <3>5. Cong(SumSeq(col(i)), c[i] * SumSeq(K(i)))
      BY <1>1, <3>2, <3>3, <3>4, SumScaled
    <3> DEFINE d == IF i = j THEN n ELSE 0
    <3>6. Cong(SumSeq(K(i)), d) /\ d \in Int
      BY <1>1, <2>3
    <3> HIDE DEF d
    <3>7. Cong(c[i], c[i]) /\ c[i] * SumSeq(K(i)) \in Int /\ c[i] * d \in Int
      BY <3>4, <3>6, CongRefl
    <3>8. Cong(c[i] * SumSeq(K(i)), c[i] * d)
      BY <3>4, <3>6, <3>7, CongMul
    <3>9. SumSeq(col(i)) \in Int /\ cc[i] = SumSeq(col(i))
      BY <1>1, <3>2, SumInFp
    <3> HIDE DEF cc
    <3>10. Cong(cc[i], c[i] * d)
      BY <3>5, <3>7, <3>8, <3>9, CongTrans
    <3> QED BY <3>9, <3>10 DEF d
  <2>10. cc \in List(Int, n)
    BY <2>9, Zenon DEF List
  <2>11. SumSeq(r) = SumSeq(cc)
    <3>1. cc = [i \in 1 .. n |-> SumSeq([h \in 1 .. n |-> e[h][i]])]
      OBVIOUS
    <3>2. r = [h \in 1 .. n |-> SumSeq(e[h])]
      OBVIOUS
    <3>3. n \in Nat /\ e \in List(List(Int, n), n)
      BY <1>1, <2>6
    <3> HIDE DEF cc, r, col, e
    <3> QED BY <3>1, <3>2, <3>3, SumSwap
  <2> HIDE DEF r, cc, col
  <2>12. Cong(SumSeq(s), SumSeq(r))
    BY <1>1, <2>1, <2>7, <2>8, SumCong
  <2>13. Cong(SumSeq(cc), cc[j])
    <3>1. ASSUME NEW i \in 1 .. n, i # j PROVE Cong(cc[i], 0)
      <4>1. Cong(cc[i], c[i] * 0) /\ c[i] * 0 = 0
        BY <2>2, <2>9, <3>1
      <4> QED BY <4>1
    <3> QED BY <1>1, <2>10, <3>1, SumSingle
  <2>14. Cong(cc[j], c[j] * n) /\ cc[j] \in Int /\ c[j] \in Int /\ c[j] * n \in Int
    <3>1. Cong(cc[j], c[j] * n) /\ cc[j] \in Int /\ c[j] \in Int
      BY <2>2, <2>9
    <3> QED BY <1>1, <3>1
  <2>15. SumSeq(s) \in Int /\ SumSeq(cc) \in Int
    BY <1>1, <2>1, <2>10, SumInFp
  <2>16. Cong(SumSeq(s), cc[j])
    BY <2>11, <2>12, <2>13, <2>14, <2>15, CongTrans
  <2>17. Cong(SumSeq(s), c[j] * n)
    BY <2>14, <2>15, <2>16, CongTrans
  <2>18. Cong(InverseOf(n) * SumSeq(s), c[j])
    BY <2>14, <2>15, <2>17, InverseCancels
  <2> DEFINE y == InverseOf(n) * SumSeq(s)
  <2>19. y \in Int
    BY <1>1, <2>15
  <2>20. Cong(y, c[j]) /\ u[j] = y % P
    BY <2>1, <2>18
  <2> HIDE DEF y, u
  <2>21. y % P = c[j] % P
    BY <2>14, <2>19, <2>20, ModOfCong
  <2>22. c[j] \in Fp
    BY DEF List
  <2> QED BY <2>20, <2>21, <2>22, ModOfFp
<1> HIDE DEF u
<1>4. u = c
  <2>1. u = [j \in 1 .. n |-> u[j]] /\ c = [j \in 1 .. n |-> c[j]]
    BY <1>2, Zenon DEF List
  <2> QED BY <1>3, <2>1, Zenon
<1> QED
  BY <1>4 DEF u

----------------------------------------------------------------------------
\* The functions that have the values of a polynomial with n coefficients.
IsPolynomial(f, c) == \A x \in Fp : Cong(f[x], PolyEval(c, x))
Polynomial(f, n)   == f \in [Fp -> Int] /\ \E c \in List(Fp, n) : IsPolynomial(f, c)

LEMMA CongPolynomial ==
  ASSUME NEW n \in Nat, NEW f, Polynomial(f, n), NEW g \in [Fp -> Int], \A x \in Fp : Cong(g[x], f[x])
  PROVE  Polynomial(g, n)
<1>1. f \in [Fp -> Int]
  BY DEF Polynomial
<1>2. PICK c \in List(Fp, n) : IsPolynomial(f, c)
  BY DEF Polynomial
<1>3. ASSUME NEW x \in Fp PROVE Cong(g[x], PolyEval(c, x))
  <2>1. x \in Int /\ c \in List(Int, n)
    BY FpIsInt, ListInt
  <2>2. PolyEval(c, x) \in Int
    BY <2>1, PolyInFp
  <2>3. Cong(f[x], PolyEval(c, x)) /\ Cong(g[x], f[x]) /\ f[x] \in Int /\ g[x] \in Int
    BY <1>1, <1>2 DEF IsPolynomial
  <2> QED BY <2>2, <2>3, CongTrans
<1> QED
  BY <1>3 DEF Polynomial, IsPolynomial

LEMMA CoefficientsAre ==
  ASSUME NEW n \in Nat, NEW c \in List(Fp, n)
  PROVE  Polynomial([x \in Fp |-> PolyEval(c, x)], n)
<1> DEFINE f == [x \in Fp |-> PolyEval(c, x)]
<1>1. ASSUME NEW x \in Fp PROVE PolyEval(c, x) \in Int /\ Cong(PolyEval(c, x), PolyEval(c, x))
  <2>1. x \in Int /\ c \in List(Int, n)
    BY FpIsInt, ListInt
  <2> QED BY <2>1, PolyInFp, CongRefl
<1>2. f \in [Fp -> Int]
  BY <1>1
<1>3. IsPolynomial(f, c)
  BY <1>1 DEF IsPolynomial
<1> QED
  BY <1>2, <1>3 DEF Polynomial

\* Zeros at the end.
LEMMA PadPolynomial ==
  ASSUME NEW m \in Nat, NEW n \in Nat, m <= n, NEW f, Polynomial(f, m)
  PROVE  Polynomial(f, n)
<1>1. PICK t \in List(Fp, m) : IsPolynomial(f, t)
  BY DEF Polynomial
<1> DEFINE c == [j \in 1 .. n |-> IF j <= m THEN t[j] ELSE 0]
<1>2. c \in List(Fp, n)
  <2>1. ASSUME NEW j \in 1 .. n PROVE (IF j <= m THEN t[j] ELSE 0) \in Fp
    BY ZeroOneInFp DEF List
  <2> QED BY <2>1, Zenon DEF List
<1>3. (\A j \in 1 .. m : t[j] = c[j]) /\ (\A j \in m + 1 .. n : c[j] = 0)
  OBVIOUS
<1> HIDE DEF c
<1>4. ASSUME NEW x \in Fp PROVE PolyEval(t, x) = PolyEval(c, x)
  <2>1. x \in Int /\ c \in List(Int, n) /\ t \in List(Int, m) /\ m \in 0 .. n
    BY <1>2, FpIsInt, ListInt
  <2> QED BY <1>3, <2>1, PolyPadded
<1>5. IsPolynomial(f, c)
  BY <1>1, <1>4 DEF IsPolynomial
<1> QED
  BY <1>2, <1>5 DEF Polynomial

\* Two polynomials with n coefficients that agree on the domain of order n agree.
LEMMA PolynomialsAgree ==
  ASSUME NEW n \in Orders, NEW f, Polynomial(f, n), NEW g, Polynomial(g, n),
         \A h \in 1 .. n : Cong(f[Pow(Root[n], h - 1)], g[Pow(Root[n], h - 1)])
  PROVE  \A x \in Fp : Cong(f[x], g[x])
<1> DEFINE w == Root[n]
           v == [h \in 1 .. n |-> f[Pow(w, h - 1)]]
<1>1. w \in Int /\ n \in Nat \ {0} /\ n \in Nat
  BY RootIs, InverseOfIs
<1>2. f \in [Fp -> Int] /\ g \in [Fp -> Int]
  BY DEF Polynomial
<1>3. PICK c \in List(Fp, n) : IsPolynomial(f, c)
  BY DEF Polynomial
<1>4. PICK d \in List(Fp, n) : IsPolynomial(g, d)
  BY DEF Polynomial
<1>5. ASSUME NEW h \in 1 .. n
      PROVE  v[h] \in Int /\ Cong(v[h], PolyEval(c, Pow(w, h - 1))) /\ Cong(v[h], PolyEval(d, Pow(w, h - 1)))
  <2> DEFINE y == Pow(w, h - 1)
  <2>1. h - 1 \in Nat
    BY <1>1
  <2>2. y \in Fp /\ y \in Int
    BY <1>1, <2>1, PowStep
  <2>3. v[h] = f[y] /\ Cong(f[y], g[y])
    OBVIOUS
  <2> HIDE DEF y
  <2>4. f[y] \in Int /\ g[y] \in Int
    BY <1>2, <2>2
  <2>5. Cong(f[y], PolyEval(c, y)) /\ Cong(g[y], PolyEval(d, y))
    BY <1>3, <1>4, <2>2 DEF IsPolynomial
  <2>6. PolyEval(d, y) \in Int
    BY <1>1, <2>2, ListInt, PolyInFp
  <2>7. Cong(f[y], PolyEval(d, y))
    BY <2>3, <2>4, <2>5, <2>6, CongTrans
  <2> QED BY <2>3, <2>4, <2>5, <2>7 DEF y
<1>6. v \in List(Int, n)
  BY <1>5, Zenon DEF List
<1> HIDE DEF v
<1>7. Interpolate(v, w) = c
  BY <1>5, <1>6, InterpolateEvals DEF w
<1>8. Interpolate(v, w) = d
  BY <1>5, <1>6, InterpolateEvals DEF w
<1>9. ASSUME NEW x \in Fp PROVE Cong(f[x], g[x])
  <2>1. x \in Int /\ f[x] \in Int /\ g[x] \in Int
    BY <1>2, FpIsInt
  <2>2. PolyEval(d, x) \in Int
    BY <1>1, <2>1, ListInt, PolyInFp
  <2>3. Cong(f[x], PolyEval(d, x)) /\ Cong(g[x], PolyEval(d, x))
    BY <1>3, <1>4, <1>7, <1>8 DEF IsPolynomial
  <2>4. Cong(PolyEval(d, x), g[x])
    BY <2>1, <2>2, <2>3, CongSym
  <2> QED BY <2>1, <2>2, <2>3, <2>4, CongTrans
<1> QED
  BY <1>9

\* Sums and products.
Combination(a, g, m) == [x \in Fp |-> SumSeq([i \in 1 .. m |-> a[i] * g[i][x]])]

LEMMA CombinePolynomials ==
  ASSUME NEW m \in Nat, NEW n \in Nat, NEW a \in List(Int, m), NEW g,
         \A i \in 1 .. m : Polynomial(g[i], n)
  PROVE  Polynomial(Combination(a, g, m), n)
<1> DEFINE C(i) == CHOOSE c \in List(Fp, n) : IsPolynomial(g[i], c)
           d == [j \in 1 .. n |-> SumSeq([i \in 1 .. m |-> a[i] * C(i)[j]])]
<1>1. ASSUME NEW i \in 1 .. m
      PROVE  C(i) \in List(Fp, n) /\ C(i) \in List(Int, n) /\ IsPolynomial(g[i], C(i)) /\ a[i] \in Int
             /\ g[i] \in [Fp -> Int]
  <2>1. \E c \in List(Fp, n) : IsPolynomial(g[i], c)
    BY DEF Polynomial
  <2>2. C(i) \in List(Fp, n) /\ IsPolynomial(g[i], C(i))
    BY <2>1
  <2>3. g[i] \in [Fp -> Int]
    BY DEF Polynomial
  <2> HIDE DEF C
  <2> QED BY <2>2, <2>3, ListInt DEF List
<1> HIDE DEF C
<1>2. ASSUME NEW j \in 1 .. n
      PROVE  [i \in 1 .. m |-> a[i] * C(i)[j]] \in List(Int, m) /\ d[j] \in Fp /\ d[j] \in Int
             /\ d[j] = SumSeq([i \in 1 .. m |-> a[i] * C(i)[j]])
  <2>1. ASSUME NEW i \in 1 .. m PROVE a[i] * C(i)[j] \in Int
    <3>1. a[i] \in Int /\ C(i)[j] \in Int
      BY <1>1 DEF List
    <3> QED BY <3>1
  <2> DEFINE s == [i \in 1 .. m |-> a[i] * C(i)[j]]
  <2>2. s \in List(Int, m)
    BY <2>1, Zenon DEF List
  <2> HIDE DEF s
  <2>3. SumSeq(s) \in Fp /\ SumSeq(s) \in Int
    BY <2>2, SumInFp
  <2> QED BY <2>2, <2>3 DEF s
<1>3. d \in List(Fp, n) /\ d \in List(Int, n)
  <2>1. d \in List(Fp, n)
    BY <1>2, Zenon DEF List
  <2> HIDE DEF d
  <2> QED BY <2>1, ListInt
<1> HIDE DEF d
<1>4. ASSUME NEW x \in Fp
      PROVE  SumSeq([i \in 1 .. m |-> a[i] * g[i][x]]) \in Int
             /\ Cong(SumSeq([i \in 1 .. m |-> a[i] * g[i][x]]), PolyEval(d, x))
  <2> DEFINE s == [i \in 1 .. m |-> a[i] * g[i][x]]
             T(i, j) == a[i] * (C(i)[j] * Pow(x, j - 1))
             e == [i \in 1 .. m |-> [j \in 1 .. n |-> T(i, j)]]
             r == [i \in 1 .. m |-> SumSeq(e[i])]
             col(j) == [i \in 1 .. m |-> e[i][j]]
             cc == [j \in 1 .. n |-> SumSeq(col(j))]
             t == Terms(d, x, n)
  <2>1. x \in Int
    BY FpIsInt
  <2>2. ASSUME NEW j \in 1 .. n PROVE Pow(x, j - 1) \in Int
    <3>1. j - 1 \in Nat
      OBVIOUS
    <3> QED BY <2>1, <3>1, PowStep
  <2>3. ASSUME NEW i \in 1 .. m, NEW j \in 1 .. n
        PROVE  T(i, j) \in Int /\ a[i] \in Int /\ C(i)[j] \in Int
               /\ T(i, j) = Pow(x, j - 1) * (a[i] * C(i)[j])
    <3>1. a[i] \in Int /\ C(i)[j] \in Int /\ Pow(x, j - 1) \in Int
      BY <1>1, <2>2 DEF List
    <3> QED BY <3>1
  <2>4. ASSUME NEW i \in 1 .. m PROVE s[i] \in Int /\ s[i] = a[i] * g[i][x]
    <3>1. a[i] \in Int /\ g[i][x] \in Int
      BY <1>1
    <3> QED BY <3>1
  <2>5. s \in List(Int, m)
    BY <2>4, Zenon DEF List
  <2> HIDE DEF T
  <2>6. ASSUME NEW i \in 1 .. m PROVE e[i] \in List(Int, n) /\ (\A j \in 1 .. n : e[i][j] = T(i, j))
    BY <2>3, Zenon DEF List
  <2>7. e \in List(List(Int, n), m)
    BY <2>6, Zenon DEF List
  <2> HIDE DEF e
  <2>8. ASSUME NEW i \in 1 .. m PROVE Cong(s[i], r[i]) /\ r[i] \in Int
    <3> DEFINE u == Terms(C(i), x, n)  y == PolyEval(C(i), x)  z == a[i]
    <3>1. r[i] = SumSeq(e[i]) /\ SumSeq(e[i]) \in Int
      BY <2>6, SumInFp
    <3>2. u \in List(Int, n) /\ Cong(y, SumSeq(u))
      BY <1>1, <2>1, TermsInt, EvalIsSum
    <3>3. \A j \in 1 .. n : u[j] = C(i)[j] * Pow(x, j - 1)
      BY DEF Terms
    <3>4. y \in Int /\ z \in Int /\ g[i][x] \in Int /\ Cong(g[i][x], y)
      <4>1. y \in Int
        BY <1>1, <2>1, PolyInFp
      <4> QED BY <1>1, <4>1 DEF IsPolynomial
    <3>5. SumSeq(u) \in Int
      <4> HIDE DEF u
      <4> QED BY <3>2, SumInFp
    <3>6. \A j \in 1 .. n : Cong(e[i][j], z * u[j])
      <4>1. \A j \in 1 .. n : e[i][j] = z * u[j] /\ e[i][j] \in Int
        BY <2>3, <2>6, <3>3 DEF T
      <4> QED BY <4>1, CongRefl
    <3>7. s[i] = z * g[i][x] /\ s[i] \in Int
      BY <2>4
    <3> HIDE DEF u, y, z, s, r
    <3>8. Cong(SumSeq(e[i]), z * SumSeq(u))
      BY <2>6, <3>2, <3>4, <3>6, SumScaled
    <3>9. Cong(g[i][x], SumSeq(u)) /\ Cong(z, z)
      BY <3>2, <3>4, <3>5, CongTrans, CongRefl
    <3>10. z * g[i][x] \in Int /\ z * SumSeq(u) \in Int
      BY <3>4, <3>5
    <3>11. Cong(z * g[i][x], z * SumSeq(u))
      BY <3>4, <3>5, <3>9, CongMul
    <3>12. Cong(z * SumSeq(u), SumSeq(e[i]))
      BY <3>1, <3>8, <3>10, CongSym
    <3>13. Cong(z * g[i][x], SumSeq(e[i]))
      BY <3>1, <3>10, <3>11, <3>12, CongTrans
    <3> QED BY <3>1, <3>7, <3>13
  <2>9. r \in List(Int, m)
    BY <2>8, Zenon DEF List
  <2>10. t \in List(Int, n) /\ Cong(PolyEval(d, x), SumSeq(t)) /\ \A j \in 1 .. n : t[j] = d[j] * Pow(x, j - 1)
    <3>1. \A j \in 1 .. n : t[j] = d[j] * Pow(x, j - 1)
      BY DEF Terms
    <3> QED BY <1>3, <2>1, <3>1, TermsInt, EvalIsSum
  <2>11. ASSUME NEW j \in 1 .. n PROVE cc[j] \in Int /\ Cong(cc[j], t[j])
    <3> DEFINE b == [i \in 1 .. m |-> a[i] * C(i)[j]]  p == Pow(x, j - 1)
    <3>1. \A i \in 1 .. m : e[i][j] = p * b[i] /\ e[i][j] \in Int
      BY <2>3, <2>6
    <3>2. col(j) \in List(Int, m) /\ \A i \in 1 .. m : col(j)[i] = e[i][j]
      <4>1. col(j) \in List(Int, m)
        BY <3>1, Zenon DEF List
      <4> QED BY <4>1
    <3>3. b \in List(Int, m) /\ d[j] = SumSeq(b) /\ d[j] \in Int
      BY <1>2
    <3>4. p \in Int /\ t[j] = d[j] * p /\ cc[j] = SumSeq(col(j))
      BY <2>2, <2>10
    <3> HIDE DEF b, p, col, cc, t
    <3>5. \A i \in 1 .. m : Cong(col(j)[i], p * b[i])
      BY <3>1, <3>2, CongRefl
    <3>6. Cong(SumSeq(col(j)), p * SumSeq(b))
      BY <3>2, <3>3, <3>4, <3>5, SumScaled
    <3>7. SumSeq(col(j)) \in Int
      BY <3>2, SumInFp
    <3>8. p * d[j] = d[j] * p
      BY <3>3, <3>4
    <3> QED BY <3>3, <3>4, <3>6, <3>7, <3>8
  <2>12. cc \in List(Int, n)
    BY <2>11, Zenon DEF List
  <2>13. SumSeq(r) = SumSeq(cc)
    <3>1. cc = [j \in 1 .. n |-> SumSeq([i \in 1 .. m |-> e[i][j]])]
      OBVIOUS
    <3>2. r = [i \in 1 .. m |-> SumSeq(e[i])]
      OBVIOUS
    <3> HIDE DEF cc, r, col
    <3> QED BY <2>7, <3>1, <3>2, SumSwap
  <2> HIDE DEF s, r, cc, col, t
  <2>14. Cong(SumSeq(s), SumSeq(r)) /\ Cong(SumSeq(cc), SumSeq(t))
    BY <2>5, <2>8, <2>9, <2>10, <2>11, <2>12, SumCong
  <2>15. SumSeq(s) \in Int /\ SumSeq(cc) \in Int /\ SumSeq(t) \in Int /\ PolyEval(d, x) \in Int
    BY <1>3, <2>1, <2>5, <2>10, <2>12, SumInFp, PolyInFp
  <2>16. Cong(SumSeq(s), SumSeq(t)) /\ Cong(SumSeq(t), PolyEval(d, x))
    BY <2>10, <2>13, <2>14, <2>15, CongTrans, CongSym
  <2>17. Cong(SumSeq(s), PolyEval(d, x))
    BY <2>15, <2>16, CongTrans
  <2> QED BY <2>15, <2>17 DEF s
<1> DEFINE f == Combination(a, g, m)
<1>5. f \in [Fp -> Int] /\ \A x \in Fp : f[x] = SumSeq([i \in 1 .. m |-> a[i] * g[i][x]])
  BY <1>4 DEF Combination
<1>6. IsPolynomial(f, d)
  BY <1>4, <1>5 DEF IsPolynomial
<1> QED
  BY <1>3, <1>5, <1>6 DEF Polynomial

Times(f, g) == [x \in Fp |-> f[x] * g[x]]

\* Times the variable, and times a power of it.
LEMMA ShiftPolynomial ==
  ASSUME NEW n \in Nat, NEW f, Polynomial(f, n), NEW g \in [Fp -> Int],
         \A x \in Fp : Cong(g[x], x * f[x])
  PROVE  Polynomial(g, n + 1)
<1>1. PICK c \in List(Fp, n) : IsPolynomial(f, c)
  BY DEF Polynomial
<1>2. f \in [Fp -> Int]
  BY DEF Polynomial
<1> DEFINE s == [j \in 1 .. n + 1 |-> IF j = 1 THEN 0 ELSE c[j - 1]]
<1>3. s \in List(Fp, n + 1)
  <2>1. ASSUME NEW j \in 1 .. n + 1 PROVE (IF j = 1 THEN 0 ELSE c[j - 1]) \in Fp
    BY ZeroOneInFp DEF List
  <2> QED BY <2>1, Zenon DEF List
<1>4. s[1] = 0 /\ \A j \in 1 .. n : s[j + 1] = c[j]
  OBVIOUS
<1> HIDE DEF s
<1>5. ASSUME NEW x \in Fp PROVE Cong(g[x], PolyEval(s, x))
  <2>1. x \in Int /\ s \in List(Int, n + 1) /\ c \in List(Int, n) /\ n + 1 \in Nat
    BY <1>3, FpIsInt, ListInt
  <2>2. Cong(PolyEval(s, x), x * PolyEval(c, x))
    BY <1>4, <2>1, PolyShift
  <2>3. PolyEval(s, x) \in Int /\ PolyEval(c, x) \in Int /\ f[x] \in Int /\ g[x] \in Int
    BY <1>2, <2>1, PolyInFp
  <2>4. Cong(f[x], PolyEval(c, x)) /\ Cong(x, x) /\ Cong(g[x], x * f[x])
    BY <1>1, <2>1, CongRefl DEF IsPolynomial
  <2>5. x * PolyEval(c, x) \in Int /\ x * f[x] \in Int
    BY <2>1, <2>3
  <2>6. Cong(x * f[x], x * PolyEval(c, x))
    BY <2>1, <2>3, <2>4, CongMul
  <2>7. Cong(x * PolyEval(c, x), PolyEval(s, x))
    BY <2>2, <2>3, <2>5, CongSym
  <2>8. Cong(g[x], x * PolyEval(c, x))
    BY <2>3, <2>4, <2>5, <2>6, CongTrans
  <2> QED BY <2>3, <2>5, <2>7, <2>8, CongTrans
<1> QED
  BY <1>3, <1>5 DEF Polynomial, IsPolynomial

PowerTimes(d, f) == [x \in Fp |-> Pow(x, d) * f[x]]

LEMMA PowerTimesPolynomial ==
  ASSUME NEW n \in Nat, NEW f, Polynomial(f, n), NEW d \in Nat
  PROVE  Polynomial(PowerTimes(d, f), n + d)
<1> DEFINE T == {k \in Nat : Polynomial(PowerTimes(k, f), n + k)}
<1>1. f \in [Fp -> Int]
  BY DEF Polynomial
<1>2. ASSUME NEW k \in Nat
      PROVE  /\ PowerTimes(k, f) \in [Fp -> Int]
             /\ \A x \in Fp : PowerTimes(k, f)[x] = Pow(x, k) * f[x] /\ Pow(x, k) \in Int /\ f[x] \in Int
  <2>1. ASSUME NEW x \in Fp PROVE Pow(x, k) * f[x] \in Int /\ Pow(x, k) \in Int /\ f[x] \in Int
    <3>1. Pow(x, k) \in Int
      BY FpIsInt, PowStep
    <3> QED BY <1>1, <3>1
  <2> QED BY <2>1 DEF PowerTimes
<1>3. 0 \in T
  <2>1. ASSUME NEW x \in Fp PROVE Cong(PowerTimes(0, f)[x], f[x])
    <3>1. Pow(x, 0) = 1 /\ f[x] \in Int
      BY <1>1, FpIsInt, PowStep
    <3>2. PowerTimes(0, f)[x] = f[x]
      BY <3>1 DEF PowerTimes
    <3> QED BY <3>1, <3>2, CongRefl
  <2>2. Polynomial(PowerTimes(0, f), n)
    BY <1>2, <2>1, CongPolynomial
  <2> QED BY <2>2
<1>4. ASSUME NEW k \in Nat, k \in T PROVE k + 1 \in T
  <2> DEFINE g == PowerTimes(k, f)  h == PowerTimes(k + 1, f)  m == n + k
  <2>1. Polynomial(g, m) /\ m \in Nat
    BY <1>4
  <2>2. h \in [Fp -> Int]
    BY <1>2
  <2>3. ASSUME NEW x \in Fp PROVE Cong(h[x], x * g[x])
    <3> DEFINE p == Pow(x, k)  q == Pow(x, k + 1)  y == f[x]
    <3>1. x \in Int /\ p \in Int /\ q = (p * x) % P /\ q \in Int /\ y \in Int
      <4>1. x \in Int
        BY FpIsInt
      <4>2. q \in Int
        BY <4>1, PowStep
      <4> QED BY <1>1, <4>1, <4>2, PowStep
    <3>2. h[x] = q * y /\ g[x] = p * y
      BY DEF PowerTimes
    <3> HIDE DEF p, q, y, h, g
    <3>3. p * x \in Int /\ Cong(q, p * x) /\ Cong(y, y)
      BY <3>1, CongOfMod, CongRefl
    <3>4. Cong(q * y, (p * x) * y)
      BY <3>1, <3>3, CongMul
    <3>5. (p * x) * y = x * (p * y)
      BY <3>1
    <3> QED BY <3>2, <3>4, <3>5
  <2> HIDE DEF g, h, m
  <2>4. Polynomial(h, m + 1)
    BY <2>1, <2>2, <2>3, ShiftPolynomial
  <2>5. m + 1 = n + (k + 1)
    BY DEF m
  <2> QED BY <2>4, <2>5 DEF h
<1> QED
  <2> HIDE DEF T
  <2>1. d \in T
    BY <1>3, <1>4, SetInduction
  <2> QED BY <2>1 DEF T

\* The product of two polynomials.
LEMMA MultiplyPolynomials ==
  ASSUME NEW n \in Nat, NEW f, Polynomial(f, n), NEW g, Polynomial(g, n)
  PROVE  Polynomial(Times(f, g), n + n)
<1>1. PICK c \in List(Fp, n) : IsPolynomial(f, c)
  BY DEF Polynomial
<1>2. f \in [Fp -> Int] /\ g \in [Fp -> Int] /\ c \in List(Int, n) /\ n + n \in Nat
  BY ListInt DEF Polynomial
<1> DEFINE Q(i) == PowerTimes(i - 1, g)
           H == [i \in 1 .. n |-> Q(i)]
           r == Combination(c, H, n)
<1>3. ASSUME NEW i \in 1 .. n PROVE Polynomial(H[i], n + n)
  <2> DEFINE d == i - 1  l == n + d  m == n + n
  <2>1. d \in Nat /\ l \in Nat /\ l <= m /\ m \in Nat
    OBVIOUS
  <2>2. Polynomial(PowerTimes(d, g), l)
    BY <2>1, PowerTimesPolynomial
  <2>3. H[i] = PowerTimes(d, g)
    OBVIOUS
  <2> HIDE DEF d, l, m, H
  <2>4. Polynomial(H[i], m)
    BY <2>1, <2>2, <2>3, PadPolynomial
  <2> QED BY <2>4 DEF m
<1>4. Polynomial(r, n + n)
  <2> DEFINE m == n + n
  <2>1. m \in Nat /\ \A i \in 1 .. n : Polynomial(H[i], m)
    BY <1>3
  <2> HIDE DEF m, H
  <2>2. Polynomial(r, m)
    BY <1>2, <2>1, CombinePolynomials
  <2> QED BY <2>2 DEF m
<1>5. Times(f, g) \in [Fp -> Int] /\ \A x \in Fp : Times(f, g)[x] = f[x] * g[x]
  <2>1. \A x \in Fp : f[x] * g[x] \in Int
    BY <1>2
  <2> QED BY <2>1, Zenon DEF Times
<1>6. ASSUME NEW x \in Fp PROVE Cong(Times(f, g)[x], r[x])
  <2> DEFINE y == g[x]  t == Terms(c, x, n)  s == [i \in 1 .. n |-> c[i] * H[i][x]]  e == PolyEval(c, x)
  <2>1. x \in Int /\ y \in Int /\ f[x] \in Int
    BY <1>2, FpIsInt
  <2>2. t \in List(Int, n) /\ Cong(e, SumSeq(t)) /\ e \in Int
    BY <1>2, <2>1, TermsInt, EvalIsSum, PolyInFp
  <2>3. ASSUME NEW i \in 1 .. n PROVE s[i] \in Int /\ s[i] = y * t[i]
    <3>1. i - 1 \in Nat
      OBVIOUS
    <3>2. Pow(x, i - 1) \in Int /\ c[i] \in Int
      BY <1>2, <2>1, <3>1, PowStep DEF List
    <3>3. s[i] = c[i] * (Pow(x, i - 1) * y)
      BY DEF PowerTimes
    <3>4. t[i] = c[i] * Pow(x, i - 1)
      BY DEF Terms
    <3> HIDE DEF s, t, y
    <3>5. c[i] * (Pow(x, i - 1) * y) = y * (c[i] * Pow(x, i - 1)) /\ c[i] * (Pow(x, i - 1) * y) \in Int
      BY <2>1, <3>2
    <3> QED BY <3>3, <3>4, <3>5
  <2>4. s \in List(Int, n)
    BY <2>3, Zenon DEF List
  <2>5. r[x] = SumSeq(s)
    BY DEF Combination
  <2>6. Cong(f[x], e)
    BY <1>1 DEF IsPolynomial
  <2>7. Times(f, g)[x] = f[x] * y
    BY <1>5
  <2> HIDE DEF s, t, y, e, r
  <2>8. \A i \in 1 .. n : Cong(s[i], y * t[i])
    BY <2>3, CongRefl
  <2>9. Cong(SumSeq(s), y * SumSeq(t)) /\ SumSeq(s) \in Int /\ SumSeq(t) \in Int
    BY <2>1, <2>2, <2>4, <2>8, SumScaled, SumInFp
  <2>10. Cong(f[x], SumSeq(t)) /\ Cong(y, y)
    BY <2>1, <2>2, <2>6, <2>9, CongTrans, CongRefl
  <2>11. Cong(f[x] * y, SumSeq(t) * y)
    BY <2>1, <2>9, <2>10, CongMul
  <2>12. SumSeq(t) * y = y * SumSeq(t) /\ y * SumSeq(t) \in Int /\ f[x] * y \in Int
    BY <2>1, <2>9
  <2>13. Cong(y * SumSeq(t), SumSeq(s))
    BY <2>9, <2>12, CongSym
  <2>14. Cong(f[x] * y, SumSeq(s))
    BY <2>9, <2>11, <2>12, <2>13, CongTrans
  <2> QED BY <2>5, <2>7, <2>14
<1> QED
  <2> DEFINE m == n + n
  <2> HIDE DEF r, m
  <2>1. Polynomial(r, m) /\ m \in Nat
    BY <1>4 DEF m
  <2>2. Polynomial(Times(f, g), m)
    BY <1>5, <1>6, <2>1, CongPolynomial
  <2> QED BY <2>2 DEF m

\* The difference of two.
LEMMA SubtractPolynomials ==
  ASSUME NEW n \in Nat, NEW f, Polynomial(f, n), NEW g, Polynomial(g, n), NEW r \in Int,
         NEW h \in [Fp -> Int], \A x \in Fp : Cong(h[x], f[x] + r * g[x])
  PROVE  Polynomial(h, n)
<1>1. PICK c \in List(Fp, n) : IsPolynomial(f, c)
  BY DEF Polynomial
<1>2. PICK d \in List(Fp, n) : IsPolynomial(g, d)
  BY DEF Polynomial
<1>3. f \in [Fp -> Int] /\ g \in [Fp -> Int] /\ c \in List(Int, n) /\ d \in List(Int, n)
  BY ListInt DEF Polynomial
<1> DEFINE e == [j \in 1 .. n |-> (c[j] + r * d[j]) % P]
<1>4. ASSUME NEW j \in 1 .. n PROVE e[j] \in Fp /\ Cong(e[j], c[j] + r * d[j])
  <2>1. c[j] \in Int /\ d[j] \in Int
    BY <1>3 DEF List
  <2>2. c[j] + r * d[j] \in Int
    BY <2>1
  <2> QED BY <2>2, CongOfMod, ModInFp
<1>5. e \in List(Fp, n)
  BY <1>4, Zenon DEF List
<1> HIDE DEF e
<1>6. ASSUME NEW x \in Fp PROVE Cong(h[x], PolyEval(e, x))
  <2> DEFINE p == PolyEval(c, x)  q == PolyEval(d, x)
  <2>1. x \in Int /\ e \in List(Int, n) /\ f[x] \in Int /\ g[x] \in Int /\ h[x] \in Int
    BY <1>3, <1>5, FpIsInt, ListInt
  <2>2. p \in Int /\ q \in Int /\ PolyEval(e, x) \in Int
    BY <1>3, <2>1, PolyInFp
  <2>3. Cong(f[x], p) /\ Cong(g[x], q)
    BY <1>1, <1>2 DEF IsPolynomial
  <2>4. Cong(PolyEval(e, x), p + r * q)
    BY <1>3, <1>4, <2>1, PolyLinear
  <2> HIDE DEF p, q
  <2>5. Cong(f[x] + r * g[x], p + r * q)
    BY <2>1, <2>2, <2>3, CongRlc
  <2>6. f[x] + r * g[x] \in Int /\ p + r * q \in Int
    BY <2>1, <2>2
  <2>7. Cong(h[x], p + r * q)
    BY <2>1, <2>5, <2>6, CongTrans
  <2>8. Cong(p + r * q, PolyEval(e, x))
    BY <2>2, <2>4, <2>6, CongSym
  <2> QED BY <2>1, <2>2, <2>6, <2>7, <2>8, CongTrans
<1> QED
  BY <1>5, <1>6 DEF Polynomial, IsPolynomial

Delta(i, h) == IF h = i THEN 1 ELSE 0
UnitOf(n, i) == [h \in 1 .. n |-> Delta(i, h)]

\* The inverse transform of a unit vector, and its values on the domain.
LEMMA UnitTransform ==
  ASSUME NEW n \in Orders, NEW i \in 1 .. n
  PROVE  /\ Interpolate(UnitOf(n, i), Root[n]) \in List(Fp, n)
         /\ \A j \in 1 .. n : Cong(Interpolate(UnitOf(n, i), Root[n])[j],
                                   InverseOf(n) * Weights(Root[n], n, i)[j])
<1> DEFINE w == Root[n]  q == InverseOf(n)  v == UnitOf(n, i)  c == Interpolate(v, w)
<1>1. n \in Nat \ {0} /\ q \in Int /\ w \in Int
  BY InverseOfIs, RootIs
<1>2. v \in List(Int, n) /\ (\A h \in 1 .. n : v[h] = Delta(i, h))
  <2>1. \A h \in 1 .. n : Delta(i, h) \in Int
    BY DEF Delta
  <2> QED BY <2>1, Zenon DEF List, UnitOf
<1> HIDE DEF v
<1>3. /\ c \in List(Fp, n)
      /\ \A j \in 1 .. n : LET s == [h \in 1 .. n |-> v[h] * Weights(w, n, j)[h]]
                           IN  s \in List(Int, n) /\ c[j] = (q * SumSeq(s)) % P
  BY <1>2, InterpolateAt
<1>4. ASSUME NEW j \in 1 .. n PROVE Cong(c[j], q * Weights(w, n, i)[j])
  <2> DEFINE s == [h \in 1 .. n |-> v[h] * Weights(w, n, j)[h]]
             S == SumSeq(s)  d == Weights(w, n, i)[j]
  <2>1. s \in List(Int, n) /\ c[j] = (q * S) % P
    BY <1>3
  <2>2. ASSUME NEW h \in 1 .. n PROVE Weights(w, n, j)[h] \in Int /\ Weights(w, n, j)[h] = Weights(w, n, h)[j]
    BY WeightIs
  <2>3. ASSUME NEW h \in 1 .. n PROVE (h # i => s[h] = 0) /\ (h = i => s[h] = d)
    <3>1. s[h] = v[h] * Weights(w, n, j)[h]
      OBVIOUS
    <3>2. 0 * Weights(w, n, j)[h] = 0 /\ 1 * Weights(w, n, j)[h] = Weights(w, n, j)[h]
      BY <2>2
    <3> HIDE DEF s, w
    <3> QED BY <1>2, <2>2, <3>1, <3>2 DEF Delta
  <2>4. d \in Int /\ s[i] = d
    BY <2>2, <2>3
  <2> HIDE DEF s, d
  <2>5. \A h \in 1 .. n : h # i => Cong(s[h], 0)
    BY <2>3, CongRefl
  <2>6. Cong(S, s[i]) /\ S \in Int
    BY <1>1, <2>1, <2>5, SumSingle, SumInFp
  <2> HIDE DEF S
  <2>7. Cong(q * S, q * d) /\ q * S \in Int /\ q * d \in Int
    <3>1. Cong(S, d) /\ Cong(q, q)
      BY <1>1, <2>4, <2>6, CongRefl
    <3> HIDE DEF q
    <3>2. q * S \in Int /\ q * d \in Int
      BY <1>1, <2>4, <2>6
    <3> QED BY <1>1, <2>4, <2>6, <3>1, <3>2, CongMul
  <2>8. Cong(c[j], q * S) /\ c[j] \in Int
    BY <2>1, <2>7, CongOfMod, DivMod
  <2>9. Cong(c[j], q * d)
    BY <2>7, <2>8, CongTrans
  <2> QED BY <2>9 DEF d
<1> QED
  BY <1>3, <1>4 DEF v

LEMMA UnitEvals ==
  ASSUME NEW n \in Orders, NEW i \in 1 .. n, NEW h \in 1 .. n
  PROVE  Cong(PolyEval(Interpolate(UnitOf(n, i), Root[n]), Pow(Root[n], h - 1)), Delta(i, h))
<1> DEFINE w == Root[n]  q == InverseOf(n)  c == Interpolate(UnitOf(n, i), w)  x == Pow(w, h - 1)
           K == Cancelling(w, n, h, i)  t == Terms(c, x, n)  D == IF h = i THEN n ELSE 0
<1>1. n \in Nat \ {0} /\ q \in Int /\ w \in Int /\ h - 1 \in Nat
  BY InverseOfIs, RootIs
<1>2. x \in Int
  BY <1>1, PowStep
<1>3. c \in List(Fp, n) /\ (\A j \in 1 .. n : Cong(c[j], q * Weights(w, n, i)[j]))
  BY UnitTransform
<1>4. K \in List(Int, n) /\ Cong(SumSeq(K), D)
  BY CancellingIs
<1>5. \A j \in 1 .. n : K[j] = Pow(w, (j - 1) * (h - 1)) * Weights(w, n, i)[j]
  BY DEF Cancelling
<1> HIDE DEF c, K
<1>6. c \in List(Int, n)
  BY <1>3, ListInt
<1>7. Cong(PolyEval(c, x), SumSeq(t)) /\ t \in List(Int, n)
      /\ (\A j \in 1 .. n : t[j] = c[j] * Pow(x, j - 1))
  BY <1>1, <1>2, <1>6, EvalIsSum, TermsInt
<1>8. PolyEval(c, x) \in Int
  BY <1>1, <1>2, <1>6, PolyInFp
<1>9. ASSUME NEW j \in 1 .. n PROVE Cong(t[j], q * K[j])
  <2> DEFINE p == Pow(w, (h - 1) * (j - 1))  d == Weights(w, n, i)[j]
  <2>1. j - 1 \in Nat /\ (h - 1) * (j - 1) = (j - 1) * (h - 1) /\ (h - 1) * (j - 1) \in Nat
    <3>1. j - 1 \in Nat
      OBVIOUS
    <3> DEFINE a == h - 1  b == j - 1
    <3>2. a \in Nat /\ b \in Nat
      BY <1>1, <3>1
    <3> HIDE DEF a, b
    <3>3. a * b = b * a /\ a * b \in Nat
      BY <3>2
    <3> QED BY <3>1, <3>3 DEF a, b
  <2>2. Pow(x, j - 1) = p /\ p \in Int
    <3>1. Pow(Pow(w, h - 1), j - 1) = Pow(w, (h - 1) * (j - 1))
      BY <1>1, <2>1, PowTimes
    <3> QED BY <1>1, <2>1, <3>1, PowStep
  <2>3. d \in Int
    BY WeightIs
  <2>4. K[j] = p * d /\ t[j] = c[j] * p
    BY <1>5, <1>7, <2>1, <2>2
  <2>5. c[j] \in Int /\ Cong(c[j], q * d)
    BY <1>3, <1>6 DEF List
  <2> HIDE DEF p, d
  <2>6. Cong(p, p) /\ q * d \in Int
    BY <1>1, <2>2, <2>3, CongRefl
  <2>7. Cong(c[j] * p, (q * d) * p)
    BY <2>2, <2>5, <2>6, CongMul
  <2>8. (q * d) * p = q * (p * d)
    BY <1>1, <2>2, <2>3
  <2> QED BY <2>4, <2>7, <2>8
<1>10. Cong(SumSeq(t), q * SumSeq(K))
  BY <1>1, <1>4, <1>7, <1>9, SumScaled
<1>11. SumSeq(t) \in Int /\ SumSeq(K) \in Int
  BY <1>1, <1>4, <1>7, SumInFp
<1>12. D = Delta(i, h) * n /\ Delta(i, h) \in Int
  BY <1>1 DEF Delta
<1>13. Cong(q * SumSeq(K), Delta(i, h)) /\ q * SumSeq(K) \in Int
  <2> DEFINE y == SumSeq(K)  z == Delta(i, h)
  <2>1. y \in Int /\ z \in Int /\ Cong(y, z * n)
    BY <1>4, <1>11, <1>12
  <2> HIDE DEF y, z
  <2>2. Cong(q * y, z)
    BY <2>1, InverseCancels
  <2> HIDE DEF q
  <2>3. q * y \in Int
    BY <1>1, <2>1
  <2> QED BY <2>2, <2>3 DEF y, z
<1> HIDE DEF x, t
<1>14. Cong(PolyEval(c, x), q * SumSeq(K))
  BY <1>7, <1>8, <1>10, <1>11, <1>13, CongTrans
<1>15. Cong(PolyEval(c, x), Delta(i, h))
  BY <1>8, <1>12, <1>13, <1>14, CongTrans
<1> QED
  BY <1>15 DEF x, c

\* The Lagrange polynomials of a domain.
Lag(k, i) == [x \in Fp |-> PolyEval(LagrangePolys[k][i], x)]

LEMMA LagrangePolysAre ==
  ASSUME NEW k \in Foldable
  PROVE  /\ Len(LagrangePolys[k]) = k + 1
         /\ \A i \in 1 .. k + 1 : LagrangePolys[k][i] = Interpolate(UnitOf(k + 1, i), Root[k + 1])
                                  /\ LagrangePolys[k][i] \in List(Fp, k + 1)
<1> DEFINE m == k + 1
           u == [i \in 1 .. m |-> Interpolate(UnitOf(m, i), Root[m])]
<1>1. m \in Orders /\ m \in Nat
  BY Domains, InverseOfIs
<1> HIDE DEF m
<1>2. ASSUME NEW i \in 1 .. m PROVE <<>> \o [h \in 1 .. m |-> IF h = i THEN 1 ELSE 0] = UnitOf(m, i)
  <2>1. UnitOf(m, i) = [h \in 1 .. m |-> IF h = i THEN 1 ELSE 0]
    BY DEF UnitOf, Delta
  <2>2. UnitOf(m, i) \in [1 .. m -> Int]
    BY DEF UnitOf, Delta
  <2> QED BY <1>1, <2>1, <2>2, CollectIs
<1>3. LagrangePolys[k] = <<>> \o u
  <2>1. LagrangePolys[k] = <<>> \o [i \in 1 .. m |-> Interpolate(<<>> \o [h \in 1 .. m |-> IF h = i THEN 1 ELSE 0], Root[m])]
    BY Zenon DEF LagrangePolys, Collect, m
  <2>2. [i \in 1 .. m |-> Interpolate(<<>> \o [h \in 1 .. m |-> IF h = i THEN 1 ELSE 0], Root[m])] = u
    BY <1>2, Zenon
  <2> QED BY <2>1, <2>2
<1>4. u \in [1 .. m -> List(Fp, m)]
  BY <1>1, UnitTransform
<1>5. \A i \in 1 .. m : u[i] = Interpolate(UnitOf(m, i), Root[m])
  OBVIOUS
<1> HIDE DEF u
<1>6. LagrangePolys[k] = u /\ Len(u) = m
  BY <1>1, <1>3, <1>4, CollectIs
<1> QED
  BY <1>4, <1>5, <1>6 DEF m

LEMMA LagrangeIs ==
  ASSUME NEW k \in Foldable, NEW x \in Fp
  PROVE  /\ LagrangeEvals(k, x) \in List(Fp, k + 1) /\ Len(LagrangeEvals(k, x)) = k + 1
         /\ \A i \in 1 .. k + 1 : LagrangeEvals(k, x)[i] = Lag(k, i)[x]
<1> DEFINE m == k + 1
           u == [i \in 1 .. m |-> PolyEval(LagrangePolys[k][i], x)]
<1>1. m \in Nat /\ x \in Int
  BY Domains, InverseOfIs, FpIsInt
<1>2. \A i \in 1 .. m : LagrangePolys[k][i] \in List(Fp, m)
  BY LagrangePolysAre
<1> HIDE DEF m
<1>3. u \in [1 .. m -> Fp]
  BY <1>1, <1>2, ListInt, PolyInFp
<1>4. LagrangeEvals(k, x) = <<>> \o u
  BY DEF LagrangeEvals, Collect, m
<1>5. \A i \in 1 .. m : u[i] = Lag(k, i)[x]
  BY DEF Lag
<1> HIDE DEF u
<1>6. LagrangeEvals(k, x) = u /\ Len(u) = m
  BY <1>1, <1>3, <1>4, CollectIs
<1> QED
  BY <1>3, <1>5, <1>6 DEF m, List

LEMMA LagIs ==
  ASSUME NEW k \in Foldable, NEW i \in 1 .. k + 1
  PROVE  /\ Polynomial(Lag(k, i), k + 1)
         /\ \A h \in 1 .. k + 1 : Cong(Lag(k, i)[Pow(Root[k + 1], h - 1)], Delta(i, h))
<1>1. k + 1 \in Orders /\ k + 1 \in Nat
  BY Domains, InverseOfIs
<1>2. LagrangePolys[k][i] \in List(Fp, k + 1) /\ LagrangePolys[k][i] = Interpolate(UnitOf(k + 1, i), Root[k + 1])
  BY LagrangePolysAre
<1>3. Polynomial(Lag(k, i), k + 1)
  BY <1>1, <1>2, CoefficientsAre DEF Lag
<1>4. ASSUME NEW h \in 1 .. k + 1 PROVE Cong(Lag(k, i)[Pow(Root[k + 1], h - 1)], Delta(i, h))
  <2>1. Pow(Root[k + 1], h - 1) \in Fp
    <3>1. h - 1 \in Nat
      BY <1>1
    <3> QED BY <1>1, <3>1, RootIs, PowStep
  <2>2. Lag(k, i)[Pow(Root[k + 1], h - 1)] = PolyEval(LagrangePolys[k][i], Pow(Root[k + 1], h - 1))
    BY <2>1 DEF Lag
  <2> QED BY <1>1, <1>2, <2>2, UnitEvals
<1> QED
  BY <1>3, <1>4

----------------------------------------------------------------------------
\* Combinations by the Lagrange polynomials' values.
JoinFn(k, z) == [x \in Fp |-> Inner(LagrangeEvals(k, x), z)]

LEMMA JoinFnIs ==
  ASSUME NEW k \in Foldable, NEW z \in List(Fp, k + 1)
  PROVE  /\ Polynomial(JoinFn(k, z), k + 1)
         /\ \A x \in Fp : JoinFn(k, z)[x] = Inner(LagrangeEvals(k, x), z) /\ JoinFn(k, z)[x] \in Fp
         /\ \A h \in 1 .. k + 1 : JoinFn(k, z)[Pow(Root[k + 1], h - 1)] = z[h]
<1> DEFINE m == k + 1  w == Root[m]
           g == [i \in 1 .. m |-> Lag(k, i)]
           c == Combination(z, g, m)
           f == JoinFn(k, z)
<1>1. m \in Orders /\ m \in Nat /\ w \in Int
  BY Domains, InverseOfIs, RootIs
<1>2. z \in List(Int, m) /\ z \in List(Fp, m)
  BY ListInt
<1>3. \A i \in 1 .. m : g[i] = Lag(k, i) /\ Polynomial(g[i], m)
  BY LagIs
<1>4. ASSUME NEW x \in Fp
      PROVE  /\ LagrangeEvals(k, x) \in List(Int, m)
             /\ \A i \in 1 .. m : LagrangeEvals(k, x)[i] = g[i][x]
  BY <1>3, LagrangeIs, ListInt
<1>10. ASSUME NEW h \in 1 .. m
       PROVE  /\ h - 1 \in Nat /\ \A i \in 1 .. m : Cong(g[i][Pow(w, h - 1)], Delta(i, h))
  BY <1>1, <1>3, LagIs
<1> HIDE DEF g, w
<1> USE <1>1
<1> HIDE DEF m
<1>5. Polynomial(c, m)
  BY <1>2, <1>3, CombinePolynomials
<1>6. ASSUME NEW x \in Fp
      PROVE  LET s == [i \in 1 .. m |-> z[i] * g[i][x]]
             IN  /\ f[x] = Inner(LagrangeEvals(k, x), z) /\ f[x] = SumSeq(s) /\ c[x] = SumSeq(s)
                 /\ s \in List(Int, m) /\ f[x] \in Fp
  <2> DEFINE L == LagrangeEvals(k, x)  s == [i \in 1 .. m |-> z[i] * g[i][x]]
             u == [i \in 1 .. m |-> L[i] * z[i]]
  <2>1. Inner(L, z) = SumSeq(u)
    BY <1>2, <1>4, InnerIsSum
  <2>2. ASSUME NEW i \in 1 .. m PROVE L[i] * z[i] = z[i] * g[i][x] /\ z[i] * g[i][x] \in Int
    <3> DEFINE a == L[i]  b == z[i]
    <3>1. a \in Int /\ b \in Int /\ a = g[i][x]
      BY <1>2, <1>4 DEF List
    <3> HIDE DEF a, b, L
    <3>2. a * b = b * a /\ b * a \in Int
      BY <3>1
    <3> QED BY <3>1, <3>2 DEF a, b
  <2>3. u = s
    BY <2>2, Zenon
  <2>4. s \in List(Int, m)
    BY <2>2, Zenon DEF List
  <2>5. f[x] = Inner(L, z) /\ c[x] = SumSeq(s)
    BY DEF JoinFn, Combination
  <2> HIDE DEF s, u, f, c
  <2>6. f[x] = SumSeq(s) /\ f[x] \in Fp
    BY <2>1, <2>3, <2>4, <2>5, SumInFp
  <2> QED BY <2>4, <2>5, <2>6 DEF s
<1>7. f \in [Fp -> Int] /\ \A x \in Fp : Cong(f[x], c[x])
  <2>1. f = [x \in Fp |-> f[x]]
    BY DEF JoinFn
  <2>2. \A x \in Fp : f[x] \in Int /\ f[x] = c[x]
    BY <1>6, FpIsInt
  <2> HIDE DEF f, c
  <2> QED BY <2>1, <2>2, CongRefl
<1>8. Polynomial(f, m)
  <2> HIDE DEF f, c
  <2> QED BY <1>5, <1>7, CongPolynomial
<1>9. ASSUME NEW h \in 1 .. m PROVE f[Pow(w, h - 1)] = z[h]
  <2> DEFINE x == Pow(w, h - 1)  s == [i \in 1 .. m |-> z[i] * g[i][x]]
  <2>1. x \in Fp
    BY <1>10, PowStep
  <2>2. \A i \in 1 .. m : Cong(g[i][x], Delta(i, h)) /\ z[i] \in Int /\ g[i][x] \in Int
    <3>1. \A i \in 1 .. m : z[i] \in Int
      BY <1>2 DEF List
    <3>2. \A i \in 1 .. m : g[i][x] \in Int
      BY <1>3, <2>1 DEF Polynomial
    <3> QED BY <1>10, <3>1, <3>2
  <2> HIDE DEF x
  <2>3. f[x] = SumSeq(s) /\ s \in List(Int, m) /\ f[x] \in Fp
    <3> HIDE DEF f, c
    <3> QED BY <1>6, <2>1
  <2>4. ASSUME NEW i \in 1 .. m PROVE Cong(s[i], IF i = h THEN z[i] ELSE 0) /\ s[i] \in Int
    <3> DEFINE a == z[i]  b == g[i][x]  d == Delta(i, h)
    <3>1. a \in Int /\ b \in Int /\ Cong(b, d) /\ d \in Int /\ s[i] = a * b
      BY <2>2 DEF Delta
    <3>2. d = IF i = h THEN 1 ELSE 0
      BY DEF Delta
    <3> HIDE DEF a, b, d, s
    <3>3. Cong(a, a)
      BY <3>1, CongRefl
    <3>4. Cong(a * b, a * d)
      BY <3>1, <3>3, CongMul
    <3>5. a * 1 = a /\ a * 0 = 0 /\ a * b \in Int
      BY <3>1
    <3>6. a * d = IF i = h THEN a ELSE 0
      BY <3>2, <3>5
    <3> QED BY <3>1, <3>4, <3>5, <3>6 DEF a
  <2> HIDE DEF s
  <2>5. Cong(SumSeq(s), s[h])
    BY <2>3, <2>4, SumSingle
  <2>6. Cong(s[h], z[h]) /\ s[h] \in Int /\ z[h] \in Fp /\ z[h] \in Int
    BY <1>2, <2>2, <2>4 DEF List
  <2>7. SumSeq(s) \in Int /\ SumSeq(s) \in Fp
    BY <2>3, SumInFp
  <2>8. Cong(SumSeq(s), z[h])
    BY <2>5, <2>6, <2>7, CongTrans
  <2> HIDE DEF f
  <2>9. SumSeq(s) = z[h]
    BY <2>6, <2>7, <2>8, EqOfCong
  <2> QED BY <2>3, <2>9 DEF x
<1> QED
  <2> HIDE DEF f, c
  <2> QED BY <1>6, <1>8, <1>9 DEF f, w, m

\* The constant polynomial one.
LEMMA OnePolynomial ==
  ASSUME NEW n \in Nat \ {0}
  PROVE  Polynomial([x \in Fp |-> 1], n)
<1> DEFINE c == [j \in 1 .. 1 |-> 1]  o == 1  f == [x \in Fp |-> 1]
<1>1. o \in Nat /\ o <= n /\ c \in List(Fp, o) /\ c \in List(Int, o) /\ c[1] = 1 /\ o = 1
  BY ZeroOneInFp DEF List
<1> HIDE DEF c, o
<1>2. ASSUME NEW x \in Fp PROVE Cong(1, PolyEval(c, x))
  <2> DEFINE t == Terms(c, x, o)
  <2>1. x \in Int
    BY FpIsInt
  <2>2. Cong(PolyEval(c, x), SumSeq(t)) /\ t \in List(Int, o) /\ (\A j \in 1 .. o : t[j] = c[j] * Pow(x, j - 1))
    BY <1>1, <2>1, EvalIsSum, TermsInt
  <2>3. t[1] = 1 /\ t \in List(Int, 1)
    <3>1. 1 \in 1 .. o /\ 1 - 1 = 0 /\ 1 * 1 = 1 /\ Pow(x, 0) = 1
      BY <1>1, <2>1, PowStep
    <3> QED BY <1>1, <2>2, <3>1
  <2> HIDE DEF t
  <2>4. SumSeq(t) \in Int /\ Cong(SumSeq(t), 1)
    BY <2>3, SumOfOne
  <2>5. PolyEval(c, x) \in Int
    BY <1>1, <2>1, PolyInFp
  <2> DEFINE y == PolyEval(c, x)  i == 1
  <2>6. y \in Int /\ i \in Int /\ Cong(y, SumSeq(t)) /\ Cong(SumSeq(t), i)
    BY <2>2, <2>4, <2>5
  <2> HIDE DEF y, i
  <2>7. Cong(i, y)
    BY <2>4, <2>6, CongTrans, CongSym
  <2> QED BY <2>7 DEF y, i
<1>3. f \in [Fp -> Int] /\ (\A x \in Fp : f[x] = 1)
  OBVIOUS
<1> HIDE DEF f
<1>4. Polynomial(f, o)
  BY <1>1, <1>2, <1>3 DEF Polynomial, IsPolynomial
<1>5. Polynomial(f, n)
  BY <1>1, <1>4, PadPolynomial
<1> QED
  BY <1>5 DEF f

\* The Lagrange polynomials sum to one.
Constant(n, a) == [i \in 1 .. n |-> a]

LEMMA JoinOfConstants ==
  ASSUME NEW k \in Foldable, NEW x \in Fp
  PROVE  /\ Inner(LagrangeEvals(k, x), Constant(k + 1, 1)) = 1
         /\ Inner(LagrangeEvals(k, x), Constant(k + 1, 0)) = 0
<1> DEFINE m == k + 1  w == Root[m]  one == Constant(m, 1)  zero == Constant(m, 0)
           f == JoinFn(k, one)  g == [y \in Fp |-> 1]
<1>1. m \in Orders /\ m \in Nat \ {0} /\ w \in Int
  BY Domains, InverseOfIs, RootIs
<1>2. one \in List(Fp, m) /\ zero \in List(Fp, m) /\ \A i \in 1 .. m : one[i] = 1 /\ zero[i] = 0
  BY ZeroOneInFp DEF Constant, List
<1> HIDE DEF one, zero
<1>3. /\ Polynomial(f, m)
      /\ \A y \in Fp : f[y] = Inner(LagrangeEvals(k, y), one) /\ f[y] \in Fp
      /\ \A h \in 1 .. m : f[Pow(w, h - 1)] = one[h]
  BY <1>2, JoinFnIs
<1> HIDE DEF f
<1>4. Polynomial(g, m) /\ (\A y \in Fp : g[y] = 1)
  BY <1>1, OnePolynomial
<1> HIDE DEF g
<1>5. \A h \in 1 .. m : Cong(f[Pow(w, h - 1)], g[Pow(w, h - 1)])
  <2>1. ASSUME NEW h \in 1 .. m PROVE Pow(w, h - 1) \in Fp
    <3>1. h - 1 \in Nat
      BY <1>1
    <3> QED BY <1>1, <3>1, PowStep
  <2>2. Cong(1, 1)
    BY CongRefl
  <2> HIDE DEF m, w
  <2> QED BY <1>2, <1>3, <1>4, <2>1, <2>2
<1>6. Cong(f[x], g[x])
  BY <1>1, <1>3, <1>4, <1>5, PolynomialsAgree
<1>7. f[x] = 1
  BY <1>3, <1>4, <1>6, EqOfCong, ZeroOneInFp
<1>8. Inner(LagrangeEvals(k, x), zero) = 0
  <2> DEFINE L == LagrangeEvals(k, x)  s == [i \in 1 .. m |-> L[i] * zero[i]]
  <2>1. L \in List(Int, m) /\ zero \in List(Int, m)
    BY <1>2, LagrangeIs, ListInt
  <2> HIDE DEF L, m
  <2>2. Inner(L, zero) = SumSeq(s)
    BY <1>1, <2>1, InnerIsSum
  <2>3. \A i \in 1 .. m : L[i] * zero[i] = 0
    BY <1>2, <2>1 DEF List
  <2>4. s \in List(Int, m) /\ \A i \in 1 .. m : s[i] = 0
    BY <2>3 DEF List
  <2>5. Cong(0, 0)
    BY CongRefl
  <2> HIDE DEF s
  <2>6. SumSeq(s) = 0
    BY <1>1, <2>4, <2>5, SumOfZeros
  <2> QED BY <2>2, <2>6 DEF L
<1> QED
  BY <1>3, <1>7, <1>8 DEF one, zero, m

LEMMA SumOfFour ==
  ASSUME NEW s \in List(Int, 4)
  PROVE  SumSeq(s) \in Fp /\ Cong(SumSeq(s), s[1] + s[2] + s[3] + s[4])
<1>1. PICK f \in [0 .. 4 -> Fp] :
        f[0] = 0 /\ (\A j \in 1 .. 4 : f[j] = (f[j - 1] + s[j]) % P) /\ SumSeq(s) = f[4]
  BY SumSeqRun
<1>2. /\ f[1] = (f[0] + s[1]) % P /\ f[2] = (f[1] + s[2]) % P
      /\ f[3] = (f[2] + s[3]) % P /\ f[4] = (f[3] + s[4]) % P
  <2>1. /\ f[1] = (f[1 - 1] + s[1]) % P /\ f[2] = (f[2 - 1] + s[2]) % P
        /\ f[3] = (f[3 - 1] + s[3]) % P /\ f[4] = (f[4 - 1] + s[4]) % P
    BY <1>1
  <2>2. 1 - 1 = 0 /\ 2 - 1 = 1 /\ 3 - 1 = 2 /\ 4 - 1 = 3
    OBVIOUS
  <2> QED BY <2>1, <2>2
<1>3. /\ s[1] \in Int /\ s[2] \in Int /\ s[3] \in Int /\ s[4] \in Int
      /\ f[0] \in Int /\ f[1] \in Int /\ f[2] \in Int /\ f[3] \in Int /\ f[4] \in Int
      /\ f[4] \in Fp
  BY FpIsInt DEF List
<1>4. PICK k1 \in Int : f[1] = 0 + s[1] + k1 * P
  BY <1>1, <1>2, <1>3, CongOfMod DEF Cong
<1>5. PICK k2 \in Int : f[2] = f[1] + s[2] + k2 * P
  BY <1>2, <1>3, CongOfMod DEF Cong
<1>6. PICK k3 \in Int : f[3] = f[2] + s[3] + k3 * P
  BY <1>2, <1>3, CongOfMod DEF Cong
<1>7. PICK k4 \in Int : f[4] = f[3] + s[4] + k4 * P
  BY <1>2, <1>3, CongOfMod DEF Cong
<1>8. f[4] = s[1] + s[2] + s[3] + s[4] + (k1 + k2 + k3 + k4) * P
  BY <1>3, <1>4, <1>5, <1>6, <1>7, PAssumption
<1>9. Cong(f[4], s[1] + s[2] + s[3] + s[4])
  <2>1. k1 + k2 + k3 + k4 \in Int
    OBVIOUS
  <2> QED BY <1>8, <2>1 DEF Cong
<1> QED
  BY <1>1, <1>3, <1>9

\* The sum over the slots as one of a list.
FromSlots(f) == [i \in 1 .. 8 |-> f[i - 1]]

LEMMA SumOfSlots ==
  ASSUME NEW f \in [Slot -> Int]
  PROVE  /\ FromSlots(f) \in List(Int, 8)
         /\ Sum8(f) \in Int /\ Cong(SumSeq(FromSlots(f)), Sum8(f))
<1> DEFINE s == FromSlots(f)  m == 4  p == Prefix(s, m)  q == [i \in 1 .. m |-> s[m + i]]
<1>1. s \in List(Int, 8) /\ (\A i \in 1 .. 8 : s[i] = f[i - 1])
  BY DEF FromSlots, List, Slot
<1>2. \A k \in Slot : f[k] \in Int
  OBVIOUS
<1> HIDE DEF s
<1>3. /\ p \in List(Int, 4) /\ q \in List(Int, 4) /\ s \in List(Int, 8)
      /\ Cong(SumSeq(s), SumSeq(p) + SumSeq(q))
  <2>1. m \in Nat /\ m = 4 /\ s \in List(Int, m + m)
    BY <1>1
  <2> HIDE DEF m
  <2>2. p \in List(Int, m) /\ q \in List(Int, m) /\ Cong(SumSeq(s), SumSeq(p) + SumSeq(q))
    BY <2>1, SumSplit
  <2> QED BY <1>1, <2>1, <2>2
<1>4. /\ p[1] = f[0] /\ p[2] = f[1] /\ p[3] = f[2] /\ p[4] = f[3]
      /\ q[1] = f[4] /\ q[2] = f[5] /\ q[3] = f[6] /\ q[4] = f[7]
  BY <1>1 DEF Prefix
<1> HIDE DEF p, q
<1>5. /\ SumSeq(p) \in Int /\ Cong(SumSeq(p), p[1] + p[2] + p[3] + p[4])
      /\ SumSeq(q) \in Int /\ Cong(SumSeq(q), q[1] + q[2] + q[3] + q[4])
  BY <1>3, SumOfFour, FpIsInt
<1> DEFINE a == f[0] + f[1] + f[2] + f[3]  b == f[4] + f[5] + f[6] + f[7]
           x == SumSeq(p)  y == SumSeq(q)  z == SumSeq(s)
<1>6. /\ a \in Int /\ b \in Int /\ x \in Int /\ y \in Int /\ Cong(x, a) /\ Cong(y, b)
      /\ Sum8(f) = a + b
  <2>1. 0 \in Slot /\ 1 \in Slot /\ 2 \in Slot /\ 3 \in Slot /\ 4 \in Slot /\ 5 \in Slot
        /\ 6 \in Slot /\ 7 \in Slot
    BY DEF Slot
  <2> QED BY <1>2, <1>4, <1>5, <2>1 DEF Sum8
<1>7. z \in Int /\ Cong(z, x + y)
  <2> DEFINE n == 8
  <2>1. n \in Nat /\ s \in List(Int, n)
    BY <1>1
  <2> HIDE DEF n
  <2> QED BY <1>3, <2>1, SumInFp
<1> HIDE DEF a, b, x, y, z
<1>8. Cong(x + y, a + b)
  BY <1>6, CongAdd
<1>9. x + y \in Int /\ a + b \in Int
  BY <1>6
<1>10. Cong(z, a + b)
  BY <1>7, <1>8, <1>9, CongTrans
<1> QED
  BY <1>1, <1>6, <1>9, <1>10 DEF z, s

\* The combination of assignments by the Lagrange polynomials' values.
EntriesAt(zs, n, s) == [j \in 1 .. n |-> zs[j][s]]
JoinAll(k, zs, x) == [s \in Slot |-> Inner(LagrangeEvals(k, x), EntriesAt(zs, k + 1, s))]

LEMMA JoinAllIs ==
  ASSUME NEW k \in Foldable, NEW zs \in List(Vec, k + 1)
  PROVE  /\ \A s \in Slot : EntriesAt(zs, k + 1, s) \in List(Fp, k + 1)
                            /\ Polynomial(JoinFn(k, EntriesAt(zs, k + 1, s)), k + 1)
         /\ \A x \in Fp : JoinAll(k, zs, x) \in Vec
         /\ \A x \in Fp, s \in Slot : JoinAll(k, zs, x)[s] = JoinFn(k, EntriesAt(zs, k + 1, s))[x]
         /\ \A h \in 1 .. k + 1 : JoinAll(k, zs, Pow(Root[k + 1], h - 1)) = zs[h]
<1> DEFINE m == k + 1
<1>1. m \in Orders /\ m \in Nat /\ Root[m] \in Int
  BY Domains, InverseOfIs, RootIs
<1>2. ASSUME NEW s \in Slot PROVE EntriesAt(zs, m, s) \in List(Fp, m)
  <2>1. \A j \in 1 .. m : zs[j][s] \in Fp
    BY DEF List, Vec
  <2> QED BY <2>1, Zenon DEF EntriesAt, List
<1>3. ASSUME NEW s \in Slot
      PROVE  LET f == JoinFn(k, EntriesAt(zs, m, s))
             IN  /\ Polynomial(f, m)
                 /\ \A x \in Fp : f[x] = Inner(LagrangeEvals(k, x), EntriesAt(zs, m, s)) /\ f[x] \in Fp
                 /\ \A h \in 1 .. m : f[Pow(Root[m], h - 1)] = zs[h][s]
  <2> DEFINE e == EntriesAt(zs, m, s)
  <2>1. e \in List(Fp, m) /\ \A h \in 1 .. m : e[h] = zs[h][s]
    BY <1>2 DEF EntriesAt
  <2> HIDE DEF e
  <2> QED BY <2>1, JoinFnIs DEF e
<1>4. \A x \in Fp, s \in Slot : JoinAll(k, zs, x)[s] = JoinFn(k, EntriesAt(zs, m, s))[x]
  BY <1>3 DEF JoinAll
<1>5. ASSUME NEW x \in Fp PROVE JoinAll(k, zs, x) \in Vec
  <2>1. \A s \in Slot : Inner(LagrangeEvals(k, x), EntriesAt(zs, m, s)) \in Fp
    BY <1>3
  <2> HIDE DEF m
  <2> QED BY <2>1 DEF JoinAll, Vec, m
<1>6. ASSUME NEW h \in 1 .. m PROVE JoinAll(k, zs, Pow(Root[m], h - 1)) = zs[h]
  <2> DEFINE x == Pow(Root[m], h - 1)  z == JoinAll(k, zs, x)  y == zs[h]
  <2>1. x \in Fp
    <3>1. h - 1 \in Nat
      BY <1>1
    <3> QED BY <1>1, <3>1, PowStep
  <2>2. z \in [Slot -> Fp] /\ y \in [Slot -> Fp]
    BY <1>5, <2>1 DEF Vec, List
  <2>3. \A s \in Slot : z[s] = y[s]
    BY <1>3, <1>4, <2>1
  <2> HIDE DEF z, y
  <2>4. z = y
    BY <2>2, <2>3
  <2> QED BY <2>4 DEF z, y
<1> QED
  BY <1>2, <1>3, <1>4, <1>5, <1>6 DEF m

\* A row's inner product with it.
DotFn(k, a, zs) == [x \in Fp |-> Dot(a, JoinAll(k, zs, x))]

LEMMA DotPolynomial ==
  ASSUME NEW k \in Foldable, NEW zs \in List(Vec, k + 1), NEW a \in Vec
  PROVE  Polynomial(DotFn(k, a, zs), k + 1)
<1> DEFINE m == k + 1  l == 8
           b == [i \in 1 .. l |-> a[i - 1]]
           g == [i \in 1 .. l |-> JoinFn(k, EntriesAt(zs, m, i - 1))]
           c == Combination(b, g, l)
           f == DotFn(k, a, zs)
<1>1. m \in Nat /\ l \in Nat /\ l = 8
  BY Domains, InverseOfIs
<1>2. /\ \A s \in Slot : Polynomial(JoinFn(k, EntriesAt(zs, m, s)), m)
      /\ \A x \in Fp : JoinAll(k, zs, x) \in Vec
      /\ \A x \in Fp, s \in Slot : JoinAll(k, zs, x)[s] = JoinFn(k, EntriesAt(zs, m, s))[x]
  BY JoinAllIs
<1>3. \A i \in 1 .. l : i - 1 \in Slot
  BY DEF Slot
<1>4. b \in List(Int, l) /\ \A i \in 1 .. l : Polynomial(g[i], m)
  BY <1>2, <1>3, FpIsInt DEF List, Vec
<1>5. Polynomial(c, m)
  <2> HIDE DEF b, g, m, l, c
  <2> QED BY <1>1, <1>4, CombinePolynomials DEF c
<1>6. ASSUME NEW x \in Fp PROVE Cong(f[x], c[x]) /\ f[x] \in Int
  <2> DEFINE z == JoinAll(k, zs, x)  h == [s \in Slot |-> a[s] * z[s]]
             r == [i \in 1 .. l |-> b[i] * g[i][x]]
  <2>1. z \in Vec
    BY <1>2
  <2>2. f[x] = Dot(a, z) /\ c[x] = SumSeq(r)
    BY DEF DotFn, Combination
  <2>3. r = FromSlots(h)
    <3>1. \A i \in 1 .. l : b[i] * g[i][x] = h[i - 1]
      BY <1>2, <1>3
    <3> HIDE DEF b, g, h
    <3> QED BY <3>1, Zenon DEF FromSlots
  <2> HIDE DEF z, r, f, c
  <2>4. f[x] \in Fp /\ h \in [Slot -> Int] /\ Cong(f[x], Sum8(h))
    BY <2>1, <2>2, DotIsSum
  <2> HIDE DEF h
  <2>5. FromSlots(h) \in List(Int, l) /\ Sum8(h) \in Int /\ Cong(SumSeq(FromSlots(h)), Sum8(h))
    BY <2>4, SumOfSlots
  <2>6. SumSeq(r) \in Int
    <3> HIDE DEF l
    <3> QED BY <1>1, <2>3, <2>5, SumInFp
  <2>7. Cong(Sum8(h), SumSeq(r)) /\ f[x] \in Int
    BY <2>3, <2>4, <2>5, <2>6, CongSym, FpIsInt
  <2> QED BY <2>2, <2>4, <2>5, <2>6, <2>7, CongTrans
<1>7. f \in [Fp -> Int]
  <2>1. f = [x \in Fp |-> f[x]]
    BY DEF DotFn
  <2> HIDE DEF f
  <2> QED BY <1>6, <2>1
<1> HIDE DEF f, c, m
<1> QED
  BY <1>1, <1>5, <1>6, <1>7, CongPolynomial DEF f, m

\* A constraint's error at the combination.
RowFn(k, cs, zs, r) == [x \in Fp |-> EvalAtZ(cs, JoinAll(k, zs, x))[r]]

LEMMA RowPolynomial ==
  ASSUME NEW k \in Foldable, NEW zs \in List(Vec, k + 1), NEW cs, MatricesOk(cs), NEW r \in Slot
  PROVE  Polynomial(RowFn(k, cs, zs, r), (k + 1) + (k + 1))
<1> DEFINE m == k + 1  n == m + m
           A == DotFn(k, cs.A[r], zs)  B == DotFn(k, cs.B[r], zs)  C == DotFn(k, cs.C[r], zs)
           Z == JoinFn(k, EntriesAt(zs, m, 0))
           F1 == Times(A, B)  F2 == Times(Z, C)  H == RowFn(k, cs, zs, r)
<1>1. m \in Nat /\ n \in Nat /\ 0 \in Slot
  BY Domains, InverseOfIs DEF Slot
<1>2. /\ Polynomial(Z, m)
      /\ \A x \in Fp : JoinAll(k, zs, x) \in Vec /\ JoinAll(k, zs, x)[0] = Z[x]
  BY <1>1, JoinAllIs
<1>3. cs.A[r] \in Vec /\ cs.B[r] \in Vec /\ cs.C[r] \in Vec
  BY DEF MatricesOk, Matrix
<1>4. Polynomial(A, m) /\ Polynomial(B, m) /\ Polynomial(C, m)
  BY <1>3, DotPolynomial
<1>5. \A x \in Fp : A[x] = Dot(cs.A[r], JoinAll(k, zs, x)) /\ B[x] = Dot(cs.B[r], JoinAll(k, zs, x))
                    /\ C[x] = Dot(cs.C[r], JoinAll(k, zs, x))
  BY DEF DotFn
<1> HIDE DEF A, B, C, Z, m
<1>6. Polynomial(F1, n) /\ Polynomial(F2, n)
  BY <1>1, <1>2, <1>4, MultiplyPolynomials
<1>7. ASSUME NEW x \in Fp PROVE H[x] \in Int /\ Cong(H[x], F1[x] + (-1) * F2[x])
  <2> DEFINE z == JoinAll(k, zs, x)  a == A[x]  b == B[x]  c == C[x]  u == Z[x]
  <2>1. z \in Vec /\ z[0] = u
    BY <1>2
  <2>2. EvalAtZ(cs, z) \in Vec /\ Cong(EvalAtZ(cs, z)[r],
          Dot(cs.A[r], z) * Dot(cs.B[r], z) - z[0] * Dot(cs.C[r], z))
    BY <2>1, EvalRow
  <2>3. H[x] = EvalAtZ(cs, z)[r]
    BY DEF RowFn
  <2>4. a \in Int /\ b \in Int /\ c \in Int /\ u \in Int
    BY <1>2, <1>4 DEF Polynomial
  <2>5. a = Dot(cs.A[r], z) /\ b = Dot(cs.B[r], z) /\ c = Dot(cs.C[r], z)
    BY <1>5
  <2>6. F1[x] = a * b /\ F2[x] = u * c
    BY DEF Times
  <2> HIDE DEF z, a, b, c, u, F1, F2, H
  <2>7. Cong(H[x], a * b - u * c) /\ H[x] \in Int
    <3>1. H[x] \in Fp
      BY <2>2, <2>3 DEF Vec
    <3> QED BY <2>1, <2>2, <2>3, <2>5, <3>1, FpIsInt
  <2> DEFINE p == a * b  q == u * c
  <2>8. p \in Int /\ q \in Int /\ Cong(H[x], p - q) /\ F1[x] = p /\ F2[x] = q
    BY <2>4, <2>6, <2>7
  <2> HIDE DEF p, q
  <2>9. p - q = p + (-1) * q
    BY <2>8
  <2> QED BY <2>7, <2>8, <2>9
<1>8. H \in [Fp -> Int]
  <2>1. H = [x \in Fp |-> H[x]]
    BY DEF RowFn
  <2> HIDE DEF H
  <2> QED BY <1>7, <2>1
<1> HIDE DEF H, F1, F2, n
<1>9. Polynomial(H, n)
  <2> DEFINE o == -1
  <2>1. o \in Int /\ \A x \in Fp : Cong(H[x], F1[x] + o * F2[x])
    BY <1>7
  <2> HIDE DEF o
  <2> QED BY <1>1, <1>6, <1>8, <2>1, SubtractPolynomials
<1> QED
  BY <1>9 DEF H, n, m

\* The weights of the constraints.
LEMMA SameEnd ==
  ASSUME NEW n \in Nat, NEW f, NEW h, f[0] = h[0],
         \A j \in 1 .. n : f[j - 1] = h[j - 1] => f[j] = h[j]
  PROVE  f[n] = h[n]
BY SameRun

Factor(i, j, b) == IF (i \div 2^(j - 1)) % 2 = 1 THEN b[j] ELSE 1

PowIRun(e, i, b, t) == e[0] = 1 /\ \A j \in 1 .. t : e[j] = (e[j - 1] * Factor(i, j, b)) % P

LEMMA PowISteps ==
  ASSUME NEW t \in Nat, NEW b \in List(Fp, t), NEW i \in Nat
  PROVE  \E e \in [0 .. t -> Fp] : PowIRun(e, i, b, t) /\ PowI(i, b) = e[t]
<1> DEFINE S(j) == Factor(i, j, b)
           Rec(h) == h = [j \in 0 .. t |-> IF j = 0 THEN 1 ELSE (h[j - 1] * S(j)) % P]
           c == CHOOSE h : Rec(h)
           g == [j \in 1 .. t |-> [y \in Fp |-> (y * S(j)) % P]]
<1>1. PowI(i, b) = c[t]
  <2>1. Len(b) = t
    BY DEF List
  <2> QED BY <2>1 DEF PowI, Factor
<1>2. \A j \in 1 .. t : S(j) \in Int
  BY FpIsInt, ZeroOneInFp DEF List, Factor
<1> HIDE DEF S
<1>3. g \in [1 .. t -> [Fp -> Fp]]
  <2>1. ASSUME NEW j \in 1 .. t, NEW y \in Fp PROVE (y * S(j)) % P \in Fp
    <3>1. y * S(j) \in Int
      BY <1>2, FpIsInt
    <3> QED BY <3>1, ModInFp
  <2> QED BY <2>1
<1>4. PICK e \in [0 .. t -> Fp] : e[0] = 1 /\ \A j \in 1 .. t : e[j] = g[j][e[j - 1]]
  <2> DEFINE o == 1
  <2>1. o \in Fp
    BY ZeroOneInFp
  <2> HIDE DEF o, g
  <2>2. \E e \in [0 .. t -> Fp] : e[0] = o /\ \A j \in 1 .. t : e[j] = g[j][e[j - 1]]
    BY <1>3, <2>1, Recursion
  <2> QED BY <2>2 DEF o
<1>5. Rec(e)
  <2>1. ASSUME NEW j \in 0 .. t PROVE e[j] = IF j = 0 THEN 1 ELSE (e[j - 1] * S(j)) % P
    <3>1. CASE j = 0
      BY <1>4, <3>1
    <3>2. CASE j # 0
      <4>1. j \in 1 .. t /\ j - 1 \in 0 .. t
        BY <3>2
      <4> QED BY <1>4, <3>2, <4>1
    <3> QED BY <3>1, <3>2
  <2>2. e = [j \in 0 .. t |-> e[j]]
    OBVIOUS
  <2> QED BY <2>1, <2>2
<1>6. Rec(c)
  <2> HIDE DEF Rec
  <2> QED BY <1>5
<1> HIDE DEF c
<1>7. c[0] = 1 /\ \A j \in 1 .. t : c[j] = (c[j - 1] * S(j)) % P
  <2> DEFINE R(j) == (c[j - 1] * S(j)) % P
  <2>1. c = [j \in 0 .. t |-> IF j = 0 THEN 1 ELSE R(j)]
    BY <1>6
  <2> HIDE DEF R
  <2>2. \A j \in 0 .. t : c[j] = IF j = 0 THEN 1 ELSE R(j)
    BY <2>1
  <2>3. c[0] = 1 /\ \A j \in 1 .. t : c[j] = R(j)
    BY <2>2
  <2> QED BY <2>3 DEF R
<1>8. \A j \in 1 .. t : e[j] = (e[j - 1] * S(j)) % P
  <2>1. ASSUME NEW j \in 1 .. t PROVE e[j] = (e[j - 1] * S(j)) % P
    <3>1. e[j] = g[j][e[j - 1]] /\ e[j - 1] \in Fp
      <4>1. j - 1 \in 0 .. t
        OBVIOUS
      <4> QED BY <1>4, <4>1
    <3> QED BY <3>1
  <2> QED BY <2>1
<1> HIDE DEF g, Rec
<1>9. c[0] = e[0] /\ \A j \in 1 .. t : c[j - 1] = e[j - 1] => c[j] = e[j]
  BY <1>4, <1>7, <1>8
<1>10. c[t] = e[t]
  BY <1>9, SameEnd
<1>11. PowIRun(e, i, b, t)
  BY <1>4, <1>8 DEF PowIRun, S
<1> QED
  BY <1>1, <1>10, <1>11

LEMMA PowIInFp ==
  ASSUME NEW t \in Nat, NEW b \in List(Fp, t), NEW i \in Nat
  PROVE  PowI(i, b) \in Fp
BY PowISteps

\* The weighed error as a sum.
Sizes == {1, 2, 3}
PowList(b, n) == [i \in 1 .. n |-> PowI(i - 1, b)]
ErrorList(f, n) == [i \in 1 .. n |-> f[i - 1]]

LEMMA SizesAre ==
  ASSUME NEW t \in Sizes
  PROVE  t \in Nat /\ 2^t \in Nat /\ 2^t \in {2, 4, 8} /\ \A i \in 1 .. 2^t : i - 1 \in Slot /\ i - 1 \in Nat
<1>1. 2^1 = 2 /\ 2^2 = 4 /\ 2^3 = 8
  OBVIOUS
<1>2. t = 1 \/ t = 2 \/ t = 3
  BY DEF Sizes
<1> DEFINE n == 2^t
<1>3. t \in Nat /\ (n = 2 \/ n = 4 \/ n = 8)
  <2>1. CASE t = 1
    BY <1>1, <2>1
  <2>2. CASE t = 2
    BY <1>1, <2>2
  <2>3. CASE t = 3
    BY <1>1, <2>3
  <2> QED BY <1>2, <2>1, <2>2, <2>3
<1> HIDE DEF n
<1>4. n \in Nat /\ n \in {2, 4, 8} /\ \A i \in 1 .. n : i - 1 \in Slot /\ i - 1 \in Nat
  BY <1>3 DEF Slot
<1> QED
  BY <1>3, <1>4 DEF n

LEMMA WeighedErrorSum ==
  ASSUME NEW t \in Sizes, NEW f \in Vec, NEW b \in List(Fp, t)
  PROVE  /\ WeighedError(f, b) \in Fp
         /\ PowList(b, 2^t) \in List(Int, 2^t) /\ ErrorList(f, 2^t) \in List(Int, 2^t)
         /\ [i \in 1 .. 2^t |-> PowList(b, 2^t)[i] * ErrorList(f, 2^t)[i]] \in List(Int, 2^t)
         /\ Cong(WeighedError(f, b), SumSeq([i \in 1 .. 2^t |-> PowList(b, 2^t)[i] * ErrorList(f, 2^t)[i]]))
<1> DEFINE n == 2^t
           p == PowList(b, n)  q == ErrorList(f, n)
           s == [i \in 1 .. n |-> (PowI(i - 1, b) * f[i - 1]) % P]
           r == [i \in 1 .. n |-> p[i] * q[i]]
<1>1. t \in Nat /\ n \in Nat /\ \A i \in 1 .. n : i - 1 \in Slot /\ i - 1 \in Nat
  BY SizesAre
<1>2. WeighedError(f, b) = SumSeq(<<>> \o s)
  <2>1. Len(b) = t
    BY <1>1 DEF List
  <2> QED BY <2>1 DEF WeighedError, Collect
<1> HIDE DEF n
<1>3. ASSUME NEW i \in 1 .. n
      PROVE  /\ PowI(i - 1, b) \in Int /\ f[i - 1] \in Int /\ p[i] = PowI(i - 1, b) /\ q[i] = f[i - 1]
             /\ PowI(i - 1, b) * f[i - 1] \in Int
  <2>1. PowI(i - 1, b) \in Int /\ f[i - 1] \in Int
    BY <1>1, PowIInFp, FpIsInt DEF Vec
  <2> QED BY <2>1 DEF PowList, ErrorList
<1>4. p \in List(Int, n) /\ q \in List(Int, n)
  BY <1>3, Zenon DEF List, PowList, ErrorList
<1>5. ASSUME NEW i \in 1 .. n PROVE p[i] * q[i] \in Int /\ s[i] \in Fp /\ s[i] \in Int /\ Cong(s[i], r[i])
  <2>1. s[i] = (PowI(i - 1, b) * f[i - 1]) % P /\ r[i] = PowI(i - 1, b) * f[i - 1]
    BY <1>3
  <2> HIDE DEF s, r
  <2> QED BY <1>3, <2>1, ModInFp, CongOfMod, FpIsInt
<1>6. r \in List(Int, n)
  BY <1>5, Zenon DEF List
<1>7. s \in [1 .. n -> Fp]
  <2>1. s = [i \in 1 .. n |-> s[i]]
    OBVIOUS
  <2> HIDE DEF s
  <2> QED BY <1>5, <2>1
<1> HIDE DEF s, r, p, q
<1>8. <<>> \o s = s
  BY <1>1, <1>7, CollectIs
<1>9. s \in List(Int, n)
  BY <1>7, FpIsInt DEF List
<1>10. SumSeq(s) \in Fp /\ Cong(SumSeq(s), SumSeq(r))
  BY <1>1, <1>5, <1>6, <1>9, SumCong, SumInFp
<1> QED
  BY <1>2, <1>4, <1>6, <1>8, <1>10 DEF p, q, r, n

LEMMA NoErrorNoWeight ==
  ASSUME NEW t \in Sizes, NEW f, f = ZeroVec, NEW b \in List(Fp, t) PROVE WeighedError(f, b) = 0
<1> DEFINE n == 2^t  p == PowList(b, n)  q == ErrorList(f, n)  r == [i \in 1 .. n |-> p[i] * q[i]]
<1>1. n \in Nat /\ \A i \in 1 .. n : i - 1 \in Slot
  BY SizesAre
<1>2. /\ WeighedError(f, b) \in Fp
      /\ p \in List(Int, n) /\ r \in List(Int, n) /\ Cong(WeighedError(f, b), SumSeq(r))
  BY ZeroVecInVec, WeighedErrorSum
<1>3. \A i \in 1 .. n : q[i] = 0
  BY <1>1 DEF ErrorList, ZeroVec
<1> HIDE DEF n, p, q
<1>4. \A i \in 1 .. n : p[i] * 0 = 0
  BY <1>2 DEF List
<1>5. \A i \in 1 .. n : r[i] = 0
  BY <1>3, <1>4
<1>6. Cong(0, 0)
  BY CongRefl
<1> HIDE DEF r
<1>7. SumSeq(r) = 0
  BY <1>1, <1>2, <1>5, <1>6, SumOfZeros
<1> QED
  BY <1>2, <1>7, EqOfCong, ZeroOneInFp

\* The error of the combination is a polynomial of twice the degree.
Err(cs, z, b) == WeighedError(EvalAtZ(cs, z), b)
ErrFn(k, cs, zs, b) == [x \in Fp |-> Err(cs, JoinAll(k, zs, x), b)]

LEMMA ErrPolynomial ==
  ASSUME NEW k \in Foldable, NEW zs \in List(Vec, k + 1), NEW cs, MatricesOk(cs),
         NEW t \in Sizes, NEW b \in List(Fp, t)
  PROVE  /\ Polynomial(ErrFn(k, cs, zs, b), (k + 1) + (k + 1))
         /\ \A x \in Fp : ErrFn(k, cs, zs, b)[x] \in Fp
         /\ \A h \in 1 .. k + 1 : /\ Pow(Root[k + 1], h - 1) \in Fp
                                  /\ ErrFn(k, cs, zs, b)[Pow(Root[k + 1], h - 1)] = Err(cs, zs[h], b)
<1> DEFINE m == k + 1  n == m + m  l == 2^t
           p == PowList(b, l)
           g == [i \in 1 .. l |-> RowFn(k, cs, zs, i - 1)]
           c == Combination(p, g, l)
           f == ErrFn(k, cs, zs, b)
<1>1. m \in Nat /\ n \in Nat /\ l \in Nat /\ Root[m] \in Int /\ \A i \in 1 .. l : i - 1 \in Slot
  BY Domains, InverseOfIs, RootIs, SizesAre
<1>2. \A i \in 1 .. l : Polynomial(g[i], n) /\ g[i] = RowFn(k, cs, zs, i - 1)
  BY <1>1, RowPolynomial
<1>3. /\ \A x \in Fp : JoinAll(k, zs, x) \in Vec
      /\ \A h \in 1 .. m : JoinAll(k, zs, Pow(Root[m], h - 1)) = zs[h]
  BY JoinAllIs
<1>4. p \in List(Int, l)
  BY ZeroVecInVec, WeighedErrorSum
<1>5. Polynomial(c, n)
  <2> HIDE DEF p, g, l, n, c
  <2> QED BY <1>1, <1>2, <1>4, CombinePolynomials DEF c
<1>6. ASSUME NEW x \in Fp PROVE f[x] \in Fp /\ Cong(f[x], c[x])
  <2> DEFINE e == EvalAtZ(cs, JoinAll(k, zs, x))  q == ErrorList(e, l)
             r == [i \in 1 .. l |-> p[i] * q[i]]
             r2 == [i \in 1 .. l |-> p[i] * g[i][x]]
  <2>1. e \in Vec
    BY <1>3, EvalRow
  <2>2. WeighedError(e, b) \in Fp /\ Cong(WeighedError(e, b), SumSeq(r))
    BY <2>1, WeighedErrorSum
  <2>3. f[x] = WeighedError(e, b) /\ c[x] = SumSeq(r2)
    BY DEF ErrFn, Err, Combination
  <2>4. \A i \in 1 .. l : q[i] = g[i][x]
    BY <1>2 DEF ErrorList, RowFn
  <2>5. r = r2
    <3> HIDE DEF p, q, g, l
    <3> QED BY <2>4, Zenon
  <2> HIDE DEF r, r2, f, c, e
  <2> QED BY <2>2, <2>3, <2>5
<1>7. f \in [Fp -> Int]
  <2>1. f = [x \in Fp |-> f[x]]
    BY DEF ErrFn
  <2> HIDE DEF f
  <2> QED BY <1>6, <2>1, FpIsInt
<1>8. Polynomial(f, n)
  <2> HIDE DEF f, c, n
  <2> QED BY <1>1, <1>5, <1>6, <1>7, CongPolynomial
<1>9. \A h \in 1 .. m : Pow(Root[m], h - 1) \in Fp /\ f[Pow(Root[m], h - 1)] = Err(cs, zs[h], b)
  <2>1. ASSUME NEW h \in 1 .. m PROVE Pow(Root[m], h - 1) \in Fp
    <3>1. h - 1 \in Nat
      BY <1>1
    <3> QED BY <1>1, <3>1, PowStep
  <2> HIDE DEF m
  <2> QED BY <1>3, <2>1 DEF ErrFn
<1> QED
  BY <1>6, <1>8, <1>9 DEF f, n, m

----------------------------------------------------------------------------
\* G(X) has the error of the combination as its values.
LEMMA GXIs ==
  ASSUME NEW k \in Foldable, NEW zs \in List(Vec, k + 1), NEW cs, MatricesOk(cs),
         NEW t \in Sizes, NEW b \in List(Fp, t)
  PROVE  /\ GX(cs, zs, b) \in List(Fp, (k + 1) + (k + 1))
         /\ IsPolynomial(ErrFn(k, cs, zs, b), GX(cs, zs, b))
<1> DEFINE m == k + 1  n == GSize(k)
           In(L) == <<>> \o [s \in 1 .. 8 |-> Inner(L, <<>> \o [j \in 1 .. m |-> zs[j][s - 1]])]
           At(x) == WeighedError(EvalAtZ(cs, [s \in Slot |-> In(LagrangeEvals(k, x))[s + 1]]), b)
           f == ErrFn(k, cs, zs, b)
           u == [h \in 1 .. n |-> At(Pow(Root[n], h - 1))]
<1>1. m \in Nat /\ n \in Orders /\ n \in Nat /\ n = m + m /\ Root[n] \in Int
  BY Domains, InverseOfIs, RootIs
<1>2. /\ Polynomial(f, m + m) /\ \A x \in Fp : f[x] \in Fp /\ f[x] = Err(cs, JoinAll(k, zs, x), b)
  BY ErrPolynomial DEF ErrFn
<1>3. \A x \in Fp : JoinAll(k, zs, x) \in Vec
  BY JoinAllIs
<1>4. GX(cs, zs, b) = Interpolate(<<>> \o u, Root[n])
  <2>1. Len(zs) - 1 = k /\ k + 1 = m
    <3>1. Len(zs) = m
      BY <1>1 DEF List
    <3>2. k \in Int
      BY Domains
    <3> QED BY <3>1, <3>2
  <2> HIDE DEF n, m
  <2> QED BY <2>1, Zenon DEF GX, Collect, At, In, n
<1> HIDE DEF n, m
<1>5. ASSUME NEW x \in Fp PROVE At(x) = f[x]
  <2> DEFINE z == JoinAll(k, zs, x)  L == LagrangeEvals(k, x)
             g == [s \in 1 .. 8 |-> z[s - 1]]
  <2>1. z \in Vec
    BY <1>3
  <2>2. ASSUME NEW s \in 1 .. 8
        PROVE  s - 1 \in Slot /\ Inner(L, <<>> \o [j \in 1 .. m |-> zs[j][s - 1]]) = z[s - 1]
    <3> DEFINE i == s - 1  e == EntriesAt(zs, m, i)
    <3>1. i \in Slot
      BY DEF Slot
    <3>2. e \in List(Fp, m)
      BY <3>1, JoinAllIs DEF m
    <3>3. [j \in 1 .. m |-> zs[j][i]] = e
      BY DEF EntriesAt
    <3>4. z[i] = Inner(L, e)
      BY <3>1 DEF JoinAll, m
    <3> HIDE DEF e, i, z, L
    <3>5. <<>> \o e = e
      BY <1>1, <3>2, CollectIs DEF List
    <3>6. Inner(L, <<>> \o [j \in 1 .. m |-> zs[j][i]]) = z[i]
      BY <3>3, <3>4, <3>5
    <3> QED BY <3>1, <3>6 DEF i
  <2>3. In(L) = <<>> \o g
    <3>1. [s \in 1 .. 8 |-> Inner(L, <<>> \o [j \in 1 .. m |-> zs[j][s - 1]])] = g
      <4> HIDE DEF z, L
      <4> QED BY <2>2, Zenon
    <3> QED BY <3>1
  <2>4. g \in [1 .. 8 -> Fp]
    <3>1. \A s \in 1 .. 8 : z[s - 1] \in Fp
      BY <2>1, <2>2 DEF Vec
    <3> HIDE DEF z
    <3> QED BY <3>1
  <2>5. <<>> \o g = g
    <3> DEFINE l == 8
    <3>1. l \in Nat /\ g \in [1 .. l -> Fp]
      BY <2>4
    <3> HIDE DEF l, g
    <3> QED BY <3>1, CollectIs
  <2>6. ASSUME NEW s \in Slot PROVE In(L)[s + 1] = z[s]
    <3>1. s + 1 \in 1 .. 8 /\ (s + 1) - 1 = s
      BY DEF Slot
    <3>2. g[s + 1] = z[s]
      <4> HIDE DEF z
      <4> QED BY <3>1
    <3> HIDE DEF In, L, z, g
    <3> QED BY <2>3, <2>5, <3>2
  <2>7. [s \in Slot |-> In(L)[s + 1]] = z
    <3>1. z = [s \in Slot |-> z[s]]
      BY <2>1 DEF Vec
    <3> HIDE DEF In, L, z
    <3> QED BY <2>6, <3>1
  <2>8. f[x] = WeighedError(EvalAtZ(cs, z), b)
    BY <1>2 DEF Err
  <2> HIDE DEF In, z, f
  <2> QED BY <2>7, <2>8 DEF L
<1>6. ASSUME NEW h \in 1 .. n PROVE Pow(Root[n], h - 1) \in Fp
  <2>1. h - 1 \in Nat
    BY <1>1
  <2> QED BY <1>1, <2>1, PowStep
<1> HIDE DEF At, f
<1>7. ASSUME NEW h \in 1 .. n PROVE u[h] = f[Pow(Root[n], h - 1)] /\ u[h] \in Fp
  BY <1>2, <1>5, <1>6
<1>8. u \in [1 .. n -> Fp]
  <2>1. u = [h \in 1 .. n |-> u[h]]
    OBVIOUS
  <2> HIDE DEF u
  <2> QED BY <1>7, <2>1
<1> HIDE DEF u
<1>9. <<>> \o u = u /\ u \in List(Int, n)
  BY <1>1, <1>8, CollectIs, FpIsInt DEF List
<1>10. PICK c \in List(Fp, n) : IsPolynomial(f, c)
  BY <1>1, <1>2 DEF Polynomial
<1>11. \A h \in 1 .. n : Cong(u[h], PolyEval(c, Pow(Root[n], h - 1)))
  BY <1>6, <1>7, <1>10 DEF IsPolynomial
<1>12. Interpolate(u, Root[n]) = c
  BY <1>1, <1>9, <1>10, <1>11, InterpolateEvals
<1>13. GX(cs, zs, b) = c
  BY <1>4, <1>9, <1>12
<1> QED
  BY <1>1, <1>10, <1>13 DEF f, m

----------------------------------------------------------------------------
\* Division by X^m - 1.

LEMMA QuotientIs ==
  ASSUME NEW m \in Nat \ {0}, NEW c \in List(Fp, m + m)
  PROVE  /\ Quotient(c, m) \in List(Fp, m) /\ Len(Quotient(c, m)) = m
         /\ \A j \in 1 .. m : Quotient(c, m)[j] = c[m + j]
<1> DEFINE n == m + m
           Rec(h) == h = [j \in 1 .. n |-> IF j + m > n THEN 0 ELSE (c[j + m] + h[j + m]) % P]
           d == CHOOSE h : Rec(h)
           e == [j \in 1 .. n |-> IF j <= m THEN c[j + m] ELSE 0]
           f == [j \in 1 .. m |-> d[j]]
<1>1. n \in Nat /\ n = m + m /\ c \in List(Fp, n) /\ n - m = m
  OBVIOUS
<1>2. Quotient(c, m) = <<>> \o f
  <2>1. Len(c) = n
    <3> HIDE DEF n
    <3> QED BY <1>1 DEF List
  <2> HIDE DEF n
  <2> QED BY <1>1, <2>1 DEF Quotient, Collect
<1> HIDE DEF n
<1>3. ASSUME NEW j \in 1 .. m PROVE j + m \in 1 .. n /\ c[j + m] \in Fp /\ (c[j + m] + 0) % P = c[j + m]
  <2>1. j + m \in 1 .. n
    BY <1>1
  <2>2. c[j + m] \in Fp
    BY <1>1, <2>1 DEF List
  <2> DEFINE x == c[j + m]
  <2>3. x \in Fp /\ x \in Int
    BY <2>2, FpIsInt
  <2> HIDE DEF x
  <2>4. x + 0 = x /\ x % P = x
    BY <2>3, ModOfFp
  <2> QED BY <2>1, <2>3, <2>4 DEF x
<1>4. Rec(e)
  <2>1. ASSUME NEW j \in 1 .. n PROVE e[j] = IF j + m > n THEN 0 ELSE (c[j + m] + e[j + m]) % P
    <3>1. CASE j <= m
      <4>1. ~(j + m > n) /\ j \in 1 .. m /\ ~(j + m <= m)
        BY <1>1, <3>1
      <4>2. e[j] = c[j + m] /\ e[j + m] = 0
        BY <1>3, <4>1
      <4> HIDE DEF e
      <4> QED BY <1>3, <4>1, <4>2
    <3>2. CASE ~(j <= m)
      <4>1. j + m > n
        BY <1>1, <3>2
      <4> QED BY <3>2, <4>1
    <3> QED BY <3>1, <3>2
  <2>2. e = [j \in 1 .. n |-> e[j]]
    OBVIOUS
  <2> HIDE DEF e
  <2> QED BY <2>1, <2>2
<1>5. Rec(d)
  <2> HIDE DEF Rec
  <2> QED BY <1>4
<1> HIDE DEF d
<1>6. \A j \in 1 .. n : d[j] = IF j + m > n THEN 0 ELSE (c[j + m] + d[j + m]) % P
  <2> DEFINE R(j) == (c[j + m] + d[j + m]) % P
  <2>1. d = [j \in 1 .. n |-> IF j + m > n THEN 0 ELSE R(j)]
    BY <1>5
  <2> HIDE DEF R
  <2>2. \A j \in 1 .. n : d[j] = IF j + m > n THEN 0 ELSE R(j)
    BY <2>1
  <2> QED BY <2>2 DEF R
<1>7. ASSUME NEW j \in 1 .. m PROVE d[j] = c[j + m]
  <2>1. j \in 1 .. n /\ ~(j + m > n) /\ j + m \in 1 .. n /\ (j + m) + m > n
    BY <1>1
  <2>2. d[j + m] = 0 /\ d[j] = (c[j + m] + d[j + m]) % P
    BY <1>6, <2>1
  <2> QED BY <1>3, <2>2
<1>8. f \in [1 .. m -> Fp] /\ \A j \in 1 .. m : f[j] = c[j + m]
  BY <1>3, <1>7
<1> HIDE DEF f
<1>9. <<>> \o f = f /\ Len(f) = m
  BY <1>8, CollectIs
<1>10. \A j \in 1 .. m : j + m = m + j
  OBVIOUS
<1> QED
  BY <1>2, <1>8, <1>9, <1>10 DEF List

Folded(c, m) == [j \in 1 .. m |-> (c[j] + c[m + j]) % P]

LEMMA FoldedIs ==
  ASSUME NEW m \in Nat, NEW c \in List(Fp, m + m)
  PROVE  /\ Folded(c, m) \in List(Fp, m)
         /\ \A j \in 1 .. m : /\ Folded(c, m)[j] = (c[j] + c[m + j]) % P
                              /\ c[j] \in Fp /\ c[m + j] \in Fp
                              /\ Cong(Folded(c, m)[j], c[j] + 1 * c[m + j])
<1>1. ASSUME NEW j \in 1 .. m
      PROVE  /\ c[j] \in Fp /\ c[m + j] \in Fp /\ (c[j] + c[m + j]) % P \in Fp
             /\ Cong((c[j] + c[m + j]) % P, c[j] + 1 * c[m + j])
  <2>1. j \in 1 .. m + m /\ m + j \in 1 .. m + m
    OBVIOUS
  <2> DEFINE n == m + m
  <2>2. c \in List(Fp, n) /\ j \in 1 .. n /\ m + j \in 1 .. n
    BY <2>1
  <2> HIDE DEF n
  <2>3. c[j] \in Fp /\ c[m + j] \in Fp
    BY <2>2 DEF List
  <2> DEFINE x == c[j]  y == c[m + j]
  <2>4. x \in Int /\ y \in Int
    BY <2>3, FpIsInt
  <2> HIDE DEF x, y
  <2>5. x + y \in Int /\ 1 * y = y
    BY <2>4
  <2>6. (x + y) % P \in Fp /\ Cong((x + y) % P, x + 1 * y)
    BY <2>5, ModInFp, CongOfMod
  <2> QED BY <2>3, <2>6 DEF x, y
<1>2. Folded(c, m) \in List(Fp, m)
  BY <1>1, Zenon DEF Folded, List
<1> QED
  BY <1>1, <1>2 DEF Folded

LEMMA DividesIs ==
  ASSUME NEW k \in Nat, NEW c \in List(Fp, (k + 1) + (k + 1))
  PROVE  /\ Divides(c, k) \in BOOLEAN
         /\ Divides(c, k) <=> \A j \in 1 .. k + 1 : Folded(c, k + 1)[j] = 0
<1> DEFINE m == k + 1  n == m + m
           q == Quotient(c, m)
           s == PolyAdd(c, q)
           r == SubSeq(s, 1, m)
<1>1. m \in Nat \ {0} /\ n \in Nat /\ n = m + m /\ c \in List(Fp, n) /\ m <= n
  OBVIOUS
<1>2. q \in List(Fp, m) /\ \A j \in 1 .. m : q[j] = c[m + j]
  <2> HIDE DEF m
  <2> QED BY <1>1, QuotientIs
<1>3. Divides(c, k) <=> \A j \in 0 .. k : r[j + 1] = 0
  <2> QED BY Zenon DEF Divides, Remainder
<1>4. Divides(c, k) \in BOOLEAN
  BY DEF Divides
<1>5. \A j \in 1 .. m : Folded(c, m)[j] = (c[j] + c[m + j]) % P
  BY <1>1, FoldedIs
<1>6. (\A j \in 0 .. k : r[j + 1] = 0) <=> \A j \in 1 .. m : r[j] = 0
  <2> HIDE DEF r
  <2>1. \A j \in 0 .. k : j + 1 \in 1 .. m
    OBVIOUS
  <2>2. \A j \in 1 .. m : j - 1 \in 0 .. k /\ (j - 1) + 1 = j
    OBVIOUS
  <2> QED BY <2>1, <2>2
<1> HIDE DEF q, n, m
<1>7. /\ s \in List(Fp, n) /\ Len(s) = n
      /\ \A j \in 1 .. n : s[j] = (Coefficient(c, n, j) + Coefficient(q, m, j)) % P
  <2>1. n = (IF n < m THEN m ELSE n)
    BY <1>1
  <2> QED BY <1>1, <1>2, <2>1, ListInt, PolyAddIs
<1>8. ASSUME NEW j \in 1 .. m PROVE r[j] = Folded(c, m)[j]
  <2>1. j \in 1 .. n /\ j <= n /\ j <= m
    BY <1>1
  <2>2. s[j] = (c[j] + q[j]) % P
    BY <1>7, <2>1 DEF Coefficient
  <2>3. r[j] = s[j]
    <3>1. s \in Seq(Fp)
      BY <1>1, <1>7, CollectIs DEF List
    <3> HIDE DEF s
    <3> QED BY <1>1, <1>7, <3>1
  <2> QED BY <1>2, <1>5, <2>2, <2>3
<1> QED
  BY <1>3, <1>4, <1>6, <1>8 DEF m

----------------------------------------------------------------------------
\* The value of a polynomial in two halves.
LEMMA SplitEval ==
  ASSUME NEW m \in Nat \ {0}, NEW c \in List(Fp, m + m), NEW x \in Int
  PROVE  /\ Prefix(c, m) \in List(Fp, m)
         /\ Cong(PolyEval(c, x), PolyEval(Prefix(c, m), x) + Pow(x, m) * PolyEval(Quotient(c, m), x))
<1> DEFINE n == m + m  lo == Prefix(c, m)  hi == Quotient(c, m)
           t == Terms(c, x, n)  tl == Terms(lo, x, m)  th == Terms(hi, x, m)
           b == [i \in 1 .. m |-> t[m + i]]
<1>1. m \in Nat /\ n \in Nat /\ n = m + m /\ c \in List(Fp, n) /\ c \in List(Int, n) /\ m \in 0 .. n
  <2>1. m \in Nat /\ n \in Nat /\ n = m + m /\ c \in List(Fp, n) /\ m \in 0 .. n
    OBVIOUS
  <2> HIDE DEF n
  <2> QED BY <2>1, ListInt
<1>2. hi \in List(Fp, m) /\ \A j \in 1 .. m : hi[j] = c[m + j]
  BY QuotientIs
<1> HIDE DEF n, hi
<1>3. lo \in List(Fp, m) /\ \A j \in 1 .. m : lo[j] = c[j]
  BY <1>1, PrefixIs DEF Prefix
<1> HIDE DEF lo
<1>4. lo \in List(Int, m) /\ hi \in List(Int, m)
  BY <1>2, <1>3, ListInt
<1>5. /\ t \in List(Int, n) /\ \A j \in 1 .. n : t[j] = c[j] * Pow(x, j - 1)
      /\ Cong(PolyEval(c, x), SumSeq(t))
  BY <1>1, TermsInt, EvalIsSum
<1>6. /\ tl \in List(Int, m) /\ \A j \in 1 .. m : tl[j] = lo[j] * Pow(x, j - 1)
      /\ Cong(PolyEval(lo, x), SumSeq(tl))
  BY <1>1, <1>4, TermsInt, EvalIsSum
<1>7. /\ th \in List(Int, m) /\ \A j \in 1 .. m : th[j] = hi[j] * Pow(x, j - 1)
      /\ Cong(PolyEval(hi, x), SumSeq(th))
  BY <1>1, <1>4, TermsInt, EvalIsSum
<1> HIDE DEF t, tl, th
<1>8. /\ Prefix(t, m) \in List(Int, m) /\ b \in List(Int, m)
      /\ Cong(SumSeq(t), SumSeq(Prefix(t, m)) + SumSeq(b))
  <2>1. t \in List(Int, m + m)
    BY <1>1, <1>5
  <2> QED BY <1>1, <2>1, SumSplit
<1>9. Prefix(t, m) = tl
  <2>1. ASSUME NEW j \in 1 .. m PROVE t[j] = tl[j]
    <3>1. j \in 1 .. n
      BY <1>1
    <3> QED BY <1>3, <1>5, <1>6, <3>1
  <2>2. tl = [j \in 1 .. m |-> tl[j]]
    BY <1>6 DEF List
  <2> QED BY <2>1, <2>2, Zenon DEF Prefix
<1>10. ASSUME NEW i \in 1 .. m PROVE Cong(b[i], Pow(x, m) * th[i])
  <2> DEFINE p == Pow(x, m)  q == Pow(x, i - 1)  r == Pow(x, m + (i - 1))  h == hi[i]
  <2>1. i - 1 \in Nat /\ m + i \in 1 .. n /\ (m + i) - 1 = m + (i - 1)
    BY <1>1
  <2>2. p \in Int /\ q \in Int /\ r \in Int /\ Cong(r, p * q)
    <3>1. m + (i - 1) \in Nat
      BY <2>1
    <3> QED BY <1>1, <2>1, <3>1, PowStep, PowPlus
  <2>3. h \in Int
    BY <1>4 DEF List
  <2>4. b[i] = h * r
    BY <1>2, <1>5, <2>1
  <2>5. th[i] = h * q
    BY <1>7
  <2> HIDE DEF p, q, r, h, b
  <2>6. Cong(h * r, h * (p * q))
    <3>1. Cong(h, h) /\ p * q \in Int
      BY <2>2, <2>3, CongRefl
    <3> QED BY <2>2, <2>3, <3>1, CongMul
  <2>7. h * (p * q) = p * (h * q)
    BY <2>2, <2>3
  <2> QED BY <2>4, <2>5, <2>6, <2>7 DEF p
<1>11. Cong(SumSeq(b), Pow(x, m) * SumSeq(th))
  <2>1. Pow(x, m) \in Int
    BY <1>1, PowStep
  <2> HIDE DEF b
  <2> QED BY <1>1, <1>7, <1>8, <1>10, <2>1, SumScaled
<1> DEFINE y == PolyEval(c, x)  u == PolyEval(lo, x)  v == PolyEval(hi, x)  p == Pow(x, m)
           st_ == SumSeq(t)  sl == SumSeq(tl)  sb == SumSeq(b)  sh == SumSeq(th)
<1>12. y \in Int /\ u \in Int /\ v \in Int /\ p \in Int /\ st_ \in Int /\ sl \in Int /\ sb \in Int /\ sh \in Int
  <2> HIDE DEF b
  <2> QED BY <1>1, <1>4, <1>5, <1>6, <1>7, <1>8, PolyInFp, PowStep, SumInFp
<1>13. Cong(y, st_) /\ Cong(u, sl) /\ Cong(v, sh) /\ Cong(st_, sl + sb) /\ Cong(sb, p * sh)
  BY <1>5, <1>6, <1>7, <1>8, <1>9, <1>11
<1> HIDE DEF y, u, v, p, st_, sl, sb, sh
<1>14. Cong(p * sh, p * v) /\ Cong(sl, u)
  BY <1>12, <1>13, CongSym, CongRefl, CongMul
<1>15. p * sh \in Int /\ p * v \in Int
  BY <1>12
<1>16. Cong(sb, p * v)
  BY <1>12, <1>13, <1>14, <1>15, CongTrans
<1>17. Cong(sl + sb, u + p * v)
  BY <1>12, <1>14, <1>15, <1>16, CongAdd
<1>18. Cong(y, u + p * v)
  <2>1. sl + sb \in Int /\ u + p * v \in Int
    BY <1>12, <1>15
  <2>2. Cong(y, sl + sb)
    BY <1>12, <1>13, <2>1, CongTrans
  <2> QED BY <1>12, <1>17, <2>1, <2>2, CongTrans
<1> QED
  BY <1>3, <1>18 DEF y, u, p, v, lo, hi

\* Dividing by X^m - 1.
LEMMA Division ==
  ASSUME NEW m \in Nat \ {0}, NEW c \in List(Fp, m + m), NEW x \in Int
  PROVE  Cong(PolyEval(c, x),
              PolyEval(Folded(c, m), x) + (Pow(x, m) - 1) * PolyEval(Quotient(c, m), x))
<1> DEFINE lo == Prefix(c, m)  hi == Quotient(c, m)  g == Folded(c, m)
           y == PolyEval(c, x)  u == PolyEval(lo, x)  v == PolyEval(hi, x)  p == Pow(x, m)
           w == PolyEval(g, x)
<1>1. m \in Nat /\ m + m \in Nat /\ c \in List(Int, m + m)
  <2>1. m + m \in Nat
    OBVIOUS
  <2> DEFINE n == m + m
  <2> HIDE DEF n
  <2>2. c \in List(Int, n)
    BY ListInt DEF n
  <2> QED BY <2>1, <2>2 DEF n
<1>2. hi \in List(Int, m) /\ \A j \in 1 .. m : hi[j] = c[m + j]
  BY <1>1, QuotientIs, ListInt
<1>3. lo \in List(Int, m) /\ \A j \in 1 .. m : lo[j] = c[j]
  BY <1>1, SplitEval, ListInt DEF Prefix
<1>4. g \in List(Int, m) /\ \A j \in 1 .. m : Cong(g[j], c[j] + 1 * c[m + j])
  BY <1>1, FoldedIs, ListInt
<1>5. Cong(y, u + p * v)
  BY SplitEval
<1> HIDE DEF lo, hi, g
<1>6. \A j \in 1 .. m : Cong(g[j], lo[j] + 1 * hi[j])
  BY <1>2, <1>3, <1>4
<1>7. Cong(w, u + 1 * v)
  BY <1>1, <1>2, <1>3, <1>4, <1>6, PolyLinear
<1>8. y \in Int /\ u \in Int /\ v \in Int /\ w \in Int /\ p \in Int
  BY <1>1, <1>2, <1>3, <1>4, PolyInFp, PowStep
<1> HIDE DEF y, u, v, w, p
<1>9. PICK i \in Int : y = u + p * v + i * P
  BY <1>5 DEF Cong
<1>10. PICK j \in Int : w = u + 1 * v + j * P
  BY <1>7 DEF Cong
<1>11. y = (w + (p - 1) * v) + (i - j) * P
  <2> DEFINE z == p * v  ip == i * P  jp == j * P
  <2>1. z \in Int /\ ip \in Int /\ jp \in Int
    BY <1>8, PAssumption
  <2>2. (p - 1) * v = z - v /\ (i - j) * P = ip - jp
    BY <1>8, PAssumption
  <2>3. y = u + z + ip /\ w = u + v + jp
    BY <1>8, <1>9, <1>10
  <2> HIDE DEF z, ip, jp
  <2>4. y = (w + (z - v)) + (ip - jp)
    BY <1>8, <2>1, <2>3
  <2> QED BY <2>2, <2>4
<1>12. i - j \in Int
  OBVIOUS
<1>13. Cong(y, w + (p - 1) * v)
  BY <1>11, <1>12 DEF Cong
<1> QED
  BY <1>13 DEF y, w, p, v, g, hi

\* Polynomials without a coefficient.
LEMMA ZerosEval ==
  ASSUME NEW n \in Nat, NEW c \in List(Int, n), \A j \in 1 .. n : c[j] = 0, NEW x \in Int
  PROVE  PolyEval(c, x) = 0
<1>1. \A j \in 1 .. n : Cong(c[j], 0 * c[j])
  BY CongRefl DEF List
<1> DEFINE o == 0  y == PolyEval(c, x)
<1>2. o \in Int /\ \A j \in 1 .. n : Cong(c[j], o * c[j])
  BY <1>1
<1> HIDE DEF o
<1>3. Cong(y, o * y)
  BY <1>2, PolyScaled
<1>4. y \in Fp /\ y \in Int
  BY PolyInFp
<1> HIDE DEF y
<1>5. o * y = 0
  BY <1>4 DEF o
<1>6. y = 0
  BY <1>3, <1>4, <1>5, ZeroOneInFp, EqOfCong
<1> QED BY <1>6 DEF y

\* The powers of a root of order n have order n.
LEMMA DomainPower ==
  ASSUME NEW n \in Orders, NEW h \in 1 .. n
  PROVE  /\ Pow(Root[n], h - 1) \in Fp /\ Pow(Root[n], h - 1) \in Int
         /\ Pow(Pow(Root[n], h - 1), n) = 1
<1> DEFINE w == Root[n]
<1>1. n \in Nat /\ h - 1 \in Nat /\ w \in Int /\ Pow(w, n) = 1
  BY RootIs, InverseOfIs
<1> HIDE DEF w
<1>2. Pow(w, h - 1) \in Fp /\ Pow(w, h - 1) \in Int /\ Pow(w, 0) = 1
  BY <1>1, PowStep
<1>3. Pow(Pow(w, h - 1), n) = Pow(w, (h - 1) * n)
  BY <1>1, PowTimes
<1>4. Pow(w, 0 + n * (h - 1)) = Pow(w, 0)
  <2> DEFINE o == 0
  <2>1. o \in Nat
    OBVIOUS
  <2> HIDE DEF o
  <2>2. Pow(w, o + n * (h - 1)) = Pow(w, o)
    BY <1>1, <2>1, PowPeriod
  <2> QED BY <2>2 DEF o
<1>5. 0 + n * (h - 1) = (h - 1) * n
  BY <1>1
<1>6. Pow(Pow(w, h - 1), n) = 1
  BY <1>2, <1>3, <1>4, <1>5
<1> QED
  BY <1>2, <1>6 DEF w

\* On the domain a polynomial has the values of its remainder.
LEMMA RemainderEvals ==
  ASSUME NEW m \in Orders, NEW c \in List(Fp, m + m), NEW h \in 1 .. m
  PROVE  Cong(PolyEval(c, Pow(Root[m], h - 1)), PolyEval(Folded(c, m), Pow(Root[m], h - 1)))
<1> DEFINE x == Pow(Root[m], h - 1)
           y == PolyEval(c, x)  w == PolyEval(Folded(c, m), x)  v == PolyEval(Quotient(c, m), x)
<1>1. m \in Nat \ {0} /\ m \in Nat
  BY InverseOfIs
<1>2. x \in Int /\ Pow(x, m) = 1
  BY DomainPower
<1> HIDE DEF x
<1>3. Cong(y, w + (Pow(x, m) - 1) * v)
  BY <1>1, <1>2, Division
<1>4. w \in Int /\ v \in Int
  <2>1. Folded(c, m) \in List(Int, m) /\ Quotient(c, m) \in List(Int, m)
    BY <1>1, FoldedIs, QuotientIs, ListInt
  <2> QED BY <1>1, <1>2, <2>1, PolyInFp
<1> HIDE DEF y, w, v
<1>5. w + (Pow(x, m) - 1) * v = w
  BY <1>2, <1>4
<1> QED
  BY <1>3, <1>5 DEF y, w, x

\* The division is exact if and only if the dividend vanishes on the domain.
LEMMA DivisionExact ==
  ASSUME NEW m \in Orders, NEW c \in List(Fp, m + m)
  PROVE  (\A j \in 1 .. m : Folded(c, m)[j] = 0)
           <=> \A h \in 1 .. m : Cong(PolyEval(c, Pow(Root[m], h - 1)), 0)
<1> DEFINE g == Folded(c, m)  w == Root[m]  v == Constant(m, 0)
<1>1. m \in Nat /\ g \in List(Fp, m) /\ g \in List(Int, m)
  BY InverseOfIs, FoldedIs, ListInt
<1>2. \A h \in 1 .. m : /\ Pow(w, h - 1) \in Int
                        /\ Cong(PolyEval(c, Pow(w, h - 1)), PolyEval(g, Pow(w, h - 1)))
  BY RemainderEvals, DomainPower
<1>3. \A h \in 1 .. m : PolyEval(c, Pow(w, h - 1)) \in Int /\ PolyEval(g, Pow(w, h - 1)) \in Int
  <2> DEFINE n == m + m
  <2>1. n \in Nat /\ c \in List(Fp, n)
    BY <1>1
  <2> HIDE DEF n
  <2> HIDE DEF g, w
  <2>2. c \in List(Int, n)
    BY <2>1, ListInt
  <2> QED BY <1>1, <1>2, <2>1, <2>2, PolyInFp
<1>4. v \in List(Fp, m) /\ v \in List(Int, m) /\ \A j \in 1 .. m : v[j] = 0
  <2>1. v \in List(Fp, m) /\ \A j \in 1 .. m : v[j] = 0
    BY ZeroOneInFp DEF Constant, List
  <2> QED BY <2>1, ListInt
<1> HIDE DEF g, w, v
<1>5. ASSUME \A j \in 1 .. m : g[j] = 0, NEW h \in 1 .. m PROVE Cong(PolyEval(c, Pow(w, h - 1)), 0)
  <2>1. PolyEval(g, Pow(w, h - 1)) = 0
    BY <1>1, <1>2, <1>5, ZerosEval
  <2> QED BY <1>2, <2>1
<1>6. ASSUME \A h \in 1 .. m : Cong(PolyEval(c, Pow(w, h - 1)), 0), NEW j \in 1 .. m PROVE g[j] = 0
  <2>1. ASSUME NEW h \in 1 .. m PROVE Cong(v[h], PolyEval(g, Pow(w, h - 1)))
    <3> DEFINE y == PolyEval(c, Pow(w, h - 1))  u == PolyEval(g, Pow(w, h - 1))  o == 0
    <3>1. y \in Int /\ u \in Int /\ Cong(y, o) /\ Cong(y, u) /\ o \in Int /\ v[h] = o
      BY <1>2, <1>3, <1>4, <1>6
    <3> HIDE DEF y, u, o
    <3>2. Cong(o, y)
      BY <3>1, CongSym
    <3>3. Cong(o, u)
      BY <3>1, <3>2, CongTrans
    <3> QED BY <3>1, <3>3 DEF u
  <2>2. ASSUME NEW h \in 1 .. m PROVE Cong(v[h], PolyEval(v, Pow(w, h - 1)))
    <3>1. PolyEval(v, Pow(w, h - 1)) = 0 /\ v[h] = 0
      BY <1>1, <1>2, <1>4, ZerosEval
    <3>2. Cong(0, 0)
      BY CongRefl
    <3> QED BY <3>1, <3>2
  <2>3. Interpolate(v, w) = g
    BY <1>1, <1>4, <2>1, InterpolateEvals DEF w
  <2>4. Interpolate(v, w) = v
    BY <1>1, <1>4, <2>2, InterpolateEvals DEF w
  <2> QED BY <1>4, <2>3, <2>4
<1> QED
  BY <1>5, <1>6 DEF g, w

\* What is sent of the quotient has its values.
LEMMA KCoeffsAre ==
  ASSUME NEW k \in Foldable, NEW c \in List(Fp, (k + 1) + (k + 1)), NEW x \in Int
  PROVE  /\ KCoeffs(c, k) \in List(Fp, Degree * k + 1)
         /\ PolyEval(KCoeffs(c, k), x) = PolyEval(Quotient(c, k + 1), x)
<1> DEFINE m == k + 1  q == Quotient(c, m)  n == Degree * k + 1  K == KCoeffs(c, k)
<1>1. m \in Nat /\ m \in Nat \ {0} /\ n \in Nat /\ m \in 0 .. n
  BY Domains DEF Degree
<1>2. q \in List(Fp, m) /\ Len(q) = m
  BY <1>1, QuotientIs
<1>3. K = Resize(q, n)
  BY DEF KCoeffs
<1> HIDE DEF m, n, q, K
<1>4. K \in List(Fp, n) /\ \A j \in 1 .. n : K[j] = Coefficient(q, m, j)
  BY <1>1, <1>2, <1>3, ResizeIs, ZenonT(60)
<1>5. (\A j \in 1 .. m : q[j] = K[j]) /\ \A j \in m + 1 .. n : K[j] = 0
  <2>1. \A j \in 1 .. m : j \in 1 .. n /\ j <= m
    BY <1>1
  <2>2. \A j \in m + 1 .. n : j \in 1 .. n /\ ~(j <= m)
    BY <1>1
  <2> QED BY <1>4, <2>1, <2>2 DEF Coefficient
<1>6. q \in List(Int, m) /\ K \in List(Int, n)
  BY <1>2, <1>4, ListInt
<1>7. PolyEval(q, x) = PolyEval(K, x)
  BY <1>1, <1>5, <1>6, PolyPadded
<1> QED
  BY <1>4, <1>7 DEF K, q, n, m

----------------------------------------------------------------------------
\* G(X) - F(alpha) L_0(X).
Divided(k, cs, zs, b, fa) == PolyAdd(GX(cs, zs, b), PolyScale(LagrangePolys[k][1], P - fa))

LEMMA DividedIs ==
  ASSUME NEW k \in Foldable, NEW zs \in List(Vec, k + 1), NEW cs, MatricesOk(cs),
         NEW t \in Sizes, NEW b \in List(Fp, t), NEW fa \in Fp
  PROVE  /\ Divided(k, cs, zs, b, fa) \in List(Fp, (k + 1) + (k + 1))
         /\ \A x \in Fp : Cong(PolyEval(Divided(k, cs, zs, b, fa), x),
                               ErrFn(k, cs, zs, b)[x] - fa * Lag(k, 1)[x])
<1> DEFINE m == k + 1  n == m + m
           g == GX(cs, zs, b)  l == LagrangePolys[k][1]  s == PolyScale(l, P - fa)
           d == Divided(k, cs, zs, b, fa)
           e == [j \in 1 .. n |-> Coefficient(s, m, j)]
<1>1. m \in Nat /\ n \in Nat /\ m \in 0 .. n /\ 1 \in 1 .. m /\ n = (IF n < m THEN m ELSE n)
  BY Domains
<1>2. g \in List(Fp, n) /\ IsPolynomial(ErrFn(k, cs, zs, b), g)
  BY GXIs
<1>3. P - fa \in Int /\ fa \in Int
  BY PAssumption, FpIsInt
<1>4. l \in List(Fp, m) /\ \A x \in Fp : Lag(k, 1)[x] = PolyEval(l, x)
  BY <1>1, LagrangePolysAre DEF Lag
<1>5. d = PolyAdd(g, s)
  BY DEF Divided
<1> HIDE DEF l, m, n, g, d
<1>6. /\ s \in List(Fp, m)
      /\ \A x \in Fp : Cong(PolyEval(s, x), (P - fa) * PolyEval(l, x))
  BY <1>1, <1>3, <1>4, FpIsInt, PolyScaleEval
<1> HIDE DEF s
<1>7. /\ d \in List(Fp, n)
      /\ \A j \in 1 .. n : d[j] = (g[j] + Coefficient(s, m, j)) % P
  <2>1. \A j \in 1 .. n : Coefficient(g, n, j) = g[j]
    BY <1>1 DEF Coefficient
  <2>2. g \in List(Int, n) /\ s \in List(Int, m)
    BY <1>2, <1>6, ListInt
  <2> QED BY <1>1, <1>5, <2>1, <2>2, PolyAddIs
<1>8. e \in List(Fp, n)
  <2>1. \A j \in 1 .. n : Coefficient(s, m, j) \in Fp
    <3>1. \A j \in 1 .. n : j <= m => j \in 1 .. m
      BY <1>1
    <3> QED BY <1>6, <3>1, ZeroOneInFp DEF Coefficient, List
  <2> QED BY <2>1, Zenon DEF List
<1>9. d \in List(Int, n) /\ g \in List(Int, n) /\ e \in List(Int, n) /\ s \in List(Int, m) /\ l \in List(Int, m)
  BY <1>2, <1>4, <1>6, <1>7, <1>8, ListInt
<1>10. ASSUME NEW j \in 1 .. n PROVE Cong(d[j], g[j] + 1 * e[j])
  <2> DEFINE a == g[j]  c == Coefficient(s, m, j)
  <2>1. e[j] = c
    OBVIOUS
  <2>2. a \in Int /\ e[j] \in Int
    BY <1>9 DEF List
  <2>3. d[j] = (a + c) % P
    BY <1>7
  <2> HIDE DEF a, c, e
  <2>4. a + c \in Int /\ 1 * c = c
    BY <2>1, <2>2
  <2> QED BY <2>1, <2>3, <2>4, CongOfMod DEF a
<1>11. (\A j \in 1 .. m : s[j] = e[j]) /\ \A j \in m + 1 .. n : e[j] = 0
  <2>1. \A j \in 1 .. m : j \in 1 .. n /\ j <= m
    BY <1>1
  <2>2. \A j \in m + 1 .. n : j \in 1 .. n /\ ~(j <= m)
    BY <1>1
  <2> QED BY <2>1, <2>2 DEF Coefficient
<1> HIDE DEF e
<1>12. ASSUME NEW x \in Fp PROVE Cong(PolyEval(d, x), ErrFn(k, cs, zs, b)[x] - fa * Lag(k, 1)[x])
  <2> DEFINE y == PolyEval(d, x)  u == PolyEval(g, x)  v == PolyEval(e, x)  w == PolyEval(s, x)
             z == PolyEval(l, x)  h == ErrFn(k, cs, zs, b)[x]
  <2>1. x \in Int
    BY FpIsInt
  <2>2. Cong(y, u + 1 * v)
    BY <1>1, <1>9, <1>10, <2>1, PolyLinear
  <2>3. w = v
    BY <1>1, <1>9, <1>11, <2>1, PolyPadded
  <2>4. Cong(w, (P - fa) * z)
    BY <1>6
  <2>5. Cong(h, u)
    BY <1>2 DEF IsPolynomial
  <2>6. h \in Int
    <3>1. h \in Fp
      BY ErrPolynomial
    <3> QED BY <3>1, FpIsInt
  <2>7. y \in Int /\ u \in Int /\ v \in Int /\ w \in Int /\ z \in Int
    BY <1>1, <1>9, <2>1, PolyInFp
  <2>8. z = Lag(k, 1)[x]
    BY <1>4
  <2> HIDE DEF y, u, v, w, z, h
  <2>9. PICK i1 \in Int : y = u + 1 * v + i1 * P
    BY <2>2 DEF Cong
  <2>10. PICK i2 \in Int : w = (P - fa) * z + i2 * P
    BY <2>4 DEF Cong
  <2>11. PICK i3 \in Int : h = u + i3 * P
    BY <2>5 DEF Cong
  <2> DEFINE r == fa * z
  <2>12. r \in Int /\ P \in Int
    BY <1>3, <2>7, PAssumption
  <2>13. (P - fa) * z = z * P - r
    BY <1>3, <2>7, <2>12
  <2> HIDE DEF r
  <2>14. y = (h - r) + (i1 + z + i2 - i3) * P
    <3> DEFINE q1 == i1 * P  q2 == i2 * P  q3 == i3 * P  q4 == z * P
    <3>1. q1 \in Int /\ q2 \in Int /\ q3 \in Int /\ q4 \in Int
      BY <2>7, <2>12
    <3>2. (i1 + z + i2 - i3) * P = q1 + q4 + q2 - q3
      BY <2>7, <2>12
    <3>3. y = u + v + q1 /\ w = q4 - r + q2 /\ h = u + q3
      BY <2>7, <2>9, <2>10, <2>11, <2>13
    <3> HIDE DEF q1, q2, q3, q4
    <3>4. y = (h - r) + (q1 + q4 + q2 - q3)
      BY <2>3, <2>6, <2>7, <2>12, <3>1, <3>3
    <3> QED BY <3>2, <3>4
  <2>15. i1 + z + i2 - i3 \in Int
    BY <2>7
  <2>16. Cong(y, h - r)
    BY <2>14, <2>15 DEF Cong
  <2> QED BY <2>8, <2>16 DEF y, h, r
<1> QED
  BY <1>7, <1>12 DEF d, m, n

\* The dividend vanishes on the domain exactly if the running assignment's error is
\* fa and the incoming ones' are zero.
LEMMA DividesExactly ==
  ASSUME NEW k \in Foldable, NEW zs \in List(Vec, k + 1), NEW cs, MatricesOk(cs),
         NEW t \in Sizes, NEW b \in List(Fp, t), NEW fa \in Fp
  PROVE  /\ Divides(Divided(k, cs, zs, b, fa), k) \in BOOLEAN
         /\ Divides(Divided(k, cs, zs, b, fa), k)
              <=> /\ Err(cs, zs[1], b) = fa
                  /\ \A h \in 2 .. k + 1 : Err(cs, zs[h], b) = 0
<1> DEFINE m == k + 1  d == Divided(k, cs, zs, b, fa)
           X(h) == Pow(Root[m], h - 1)
<1>1. m \in Orders /\ k \in Nat /\ m \in Nat /\ 1 \in 1 .. m
  BY Domains
<1>2. d \in List(Fp, m + m) /\ \A x \in Fp : Cong(PolyEval(d, x), ErrFn(k, cs, zs, b)[x] - fa * Lag(k, 1)[x])
  BY DividedIs
<1>3. /\ Divides(d, k) \in BOOLEAN
      /\ Divides(d, k) <=> \A h \in 1 .. m : Cong(PolyEval(d, X(h)), 0)
  <2> HIDE DEF d
  <2> QED BY <1>1, <1>2, DividesIs, DivisionExact
<1>4. ASSUME NEW h \in 1 .. m
      PROVE  Cong(PolyEval(d, X(h)), 0) <=> Err(cs, zs[h], b) = fa * Delta(1, h)
  <2> DEFINE y == PolyEval(d, X(h))  e == Err(cs, zs[h], b)  l == Lag(k, 1)[X(h)]  o == 0
             a == Delta(1, h)
  <2>1. X(h) \in Fp /\ ErrFn(k, cs, zs, b)[X(h)] = e /\ e \in Fp
    <3>1. X(h) \in Fp /\ ErrFn(k, cs, zs, b)[X(h)] = e
      BY ErrPolynomial
    <3>2. ErrFn(k, cs, zs, b)[X(h)] \in Fp
      BY <3>1, ErrPolynomial
    <3> QED BY <3>1, <3>2
  <2>2. Cong(y, e - fa * l)
    BY <1>2, <2>1
  <2>3. Cong(l, a)
    BY <1>1, LagIs
  <2>4. l \in Int
    <3>1. Polynomial(Lag(k, 1), m)
      BY <1>1, LagIs
    <3>2. Lag(k, 1) \in [Fp -> Int]
      BY <3>1 DEF Polynomial
    <3> QED BY <2>1, <3>2
  <2>5. y \in Int
    <3> DEFINE n == m + m
    <3>1. n \in Nat /\ d \in List(Fp, n) /\ X(h) \in Int
      BY <1>1, <1>2, <2>1, FpIsInt
    <3> HIDE DEF n, d
    <3>2. d \in List(Int, n)
      BY <3>1, ListInt
    <3> QED BY <3>1, <3>2, PolyInFp
  <2>6. a \in Int /\ o \in Int /\ fa \in Int /\ e \in Int /\ a \in {0, 1}
    BY <2>1, FpIsInt DEF Delta
  <2>7. fa * a \in Fp
    <3>1. fa * 0 = 0 /\ fa * 1 = fa
      BY <2>6
    <3> QED BY <2>6, <3>1, ZeroOneInFp
  <2> HIDE DEF y, e, l, o, a
  <2>8. Cong(fa * l, fa * a)
    <3>1. Cong(fa, fa)
      BY <2>6, CongRefl
    <3> QED BY <2>3, <2>4, <2>6, <3>1, CongMul
  <2>9. fa * l \in Int /\ fa * a \in Int
    BY <2>4, <2>6
  <2>10. Cong(y, e - fa * a)
    <3>1. e - fa * l \in Int /\ e - fa * a \in Int /\ Cong(e, e)
      BY <2>6, <2>9, CongRefl
    <3>2. Cong(e - fa * l, e - fa * a)
      BY <2>6, <2>8, <2>9, <3>1, CongSub
    <3> QED BY <2>2, <2>5, <3>1, <3>2, CongTrans
  <2> DEFINE f == fa * a
  <2>11. f \in Int /\ f \in Fp /\ Cong(y, e - f)
    BY <2>7, <2>9, <2>10
  <2> HIDE DEF f
  <2>12. ASSUME Cong(y, o) PROVE e = f
    <3>1. PICK i \in Int : y = (e - f) + i * P
      BY <2>11 DEF Cong
    <3>2. PICK j \in Int : y = o + j * P
      BY <2>12 DEF Cong
    <3>3. e = f + (j - i) * P
      <4> DEFINE ip == i * P  jp == j * P
      <4>1. ip \in Int /\ jp \in Int /\ (j - i) * P = jp - ip
        BY PAssumption
      <4>2. y = (e - f) + ip /\ y = jp
        BY <3>1, <3>2, <4>1 DEF o
      <4> HIDE DEF ip, jp
      <4> QED BY <2>6, <2>11, <4>1, <4>2
    <3>4. j - i \in Int
      OBVIOUS
    <3>5. Cong(e, f)
      BY <3>3, <3>4 DEF Cong
    <3> QED BY <2>1, <2>11, <3>5, EqOfCong
  <2>13. ASSUME e = f PROVE Cong(y, o)
    <3>1. e - f = o
      BY <2>6, <2>13 DEF o
    <3> QED BY <2>11, <3>1
  <2> QED BY <2>12, <2>13 DEF y, e, o, f, a
<1>5. fa * Delta(1, 1) = fa /\ \A h \in 2 .. m : fa * Delta(1, h) = 0
  <2>1. fa \in Int
    BY FpIsInt
  <2>2. Delta(1, 1) = 1 /\ \A h \in 2 .. m : Delta(1, h) = 0
    BY DEF Delta
  <2> QED BY <2>1, <2>2
<1>6. (\A h \in 1 .. m : Cong(PolyEval(d, X(h)), 0)) <=> \A h \in 1 .. m : Err(cs, zs[h], b) = fa * Delta(1, h)
  <2> HIDE DEF d, X
  <2> QED BY <1>4
<1>7. \A h \in 1 .. m : h = 1 \/ h \in 2 .. m
  BY <1>1
<1>8. \A h \in 2 .. m : h \in 1 .. m
  BY <1>1
<1>9. (\A h \in 1 .. m : Err(cs, zs[h], b) = fa * Delta(1, h))
        <=> Err(cs, zs[1], b) = fa /\ \A h \in 2 .. m : Err(cs, zs[h], b) = 0
  BY <1>1, <1>5, <1>7, <1>8
<1> HIDE DEF d, X
<1>10. Divides(d, k) <=> Err(cs, zs[1], b) = fa /\ \A h \in 2 .. m : Err(cs, zs[h], b) = 0
  BY <1>3, <1>6, <1>9
<1> QED BY <1>3, <1>10 DEF d, m

\* If it does, the folded error is that of the combination.
LEMMA FoldedErrorIs ==
  ASSUME NEW k \in Foldable, NEW zs \in List(Vec, k + 1), NEW cs, MatricesOk(cs),
         NEW t \in Sizes, NEW b \in List(Fp, t), NEW fa \in Fp, NEW y \in Fp,
         Divides(Divided(k, cs, zs, b, fa), k)
  PROVE  (fa * LagrangeEvals(k, y)[1]
            + Vanishing(k + 1, y) * PolyEval(KCoeffs(Divided(k, cs, zs, b, fa), k), y)) % P
           = Err(cs, JoinAll(k, zs, y), b)
<1> DEFINE m == k + 1  d == Divided(k, cs, zs, b, fa)
           l == LagrangeEvals(k, y)[1]  van == Vanishing(m, y)  q == PolyEval(KCoeffs(d, k), y)
           p == Pow(y, m)  e == Err(cs, JoinAll(k, zs, y), b)  x == PolyEval(d, y)
<1>1. m \in Nat \ {0} /\ m \in Nat /\ k \in Nat /\ 1 \in 1 .. m /\ y \in Int /\ fa \in Int
  BY Domains, FpIsInt
<1>2. d \in List(Fp, m + m) /\ Cong(x, ErrFn(k, cs, zs, b)[y] - fa * Lag(k, 1)[y])
  BY DividedIs
<1>3. ErrFn(k, cs, zs, b)[y] = e /\ e \in Fp /\ e \in Int
  <2>1. ErrFn(k, cs, zs, b)[y] \in Fp
    BY ErrPolynomial
  <2>2. ErrFn(k, cs, zs, b)[y] = e
    BY DEF ErrFn
  <2> QED BY <2>1, <2>2, FpIsInt
<1>4. l = Lag(k, 1)[y] /\ l \in Int
  <2>1. l = Lag(k, 1)[y] /\ LagrangeEvals(k, y) \in List(Fp, m)
    BY <1>1, LagrangeIs
  <2>2. l \in Fp
    BY <1>1, <2>1 DEF List
  <2> QED BY <2>1, <2>2, FpIsInt
<1>5. Cong(x, (p - 1) * q) /\ q \in Int /\ p \in Int /\ x \in Int
  <2> DEFINE n == m + m  g == Folded(d, m)  w == PolyEval(g, y)
  <2> HIDE DEF d
  <2>1. \A j \in 1 .. m : g[j] = 0
    BY <1>1, <1>2, DividesIs DEF d
  <2>2. g \in List(Int, m) /\ Quotient(d, m) \in List(Int, m)
    BY <1>1, <1>2, FoldedIs, QuotientIs, ListInt
  <2>3. w = 0
    <3> HIDE DEF g
    <3> QED BY <1>1, <2>1, <2>2, ZerosEval
  <2>4. Cong(x, w + (p - 1) * PolyEval(Quotient(d, m), y))
    BY <1>1, <1>2, Division
  <2>5. q = PolyEval(Quotient(d, m), y)
    BY <1>1, <1>2, KCoeffsAre
  <2>6. q \in Int /\ p \in Int
    BY <1>1, <2>2, <2>5, PolyInFp, PowStep
  <2>7. x \in Int
    <3>1. n \in Nat /\ d \in List(Fp, n)
      BY <1>1, <1>2
    <3> HIDE DEF n
    <3>2. d \in List(Int, n)
      BY <3>1, ListInt
    <3> QED BY <1>1, <3>1, <3>2, PolyInFp
  <2> HIDE DEF w, q, p, x
  <2>8. w + (p - 1) * q = (p - 1) * q
    BY <2>3, <2>6
  <2> QED BY <2>4, <2>5, <2>6, <2>7, <2>8 DEF x
<1>6. van = (p - 1) % P
  BY DEF Vanishing
<1> HIDE DEF l, van, q, p, e, x, d
<1>7. p - 1 \in Int /\ van \in Int /\ Cong(van, p - 1)
  <2>1. p - 1 \in Int
    BY <1>5
  <2> QED BY <1>6, <2>1, CongOfMod, ModInFp, FpIsInt
<1>8. Cong(van * q, (p - 1) * q)
  <2>1. Cong(q, q)
    BY <1>5, CongRefl
  <2> QED BY <1>5, <1>7, <2>1, CongMul
<1>9. Cong(fa * l + van * q, e)
  <2> DEFINE r == fa * l  s == van * q  u == (p - 1) * q
  <2>1. r \in Int /\ s \in Int /\ u \in Int
    BY <1>1, <1>4, <1>5, <1>7
  <2>2. Cong(s, u) /\ Cong(x, u) /\ Cong(x, e - r)
    BY <1>2, <1>3, <1>4, <1>5, <1>8
  <2> HIDE DEF r, s, u
  <2>3. Cong(u, x) /\ e - r \in Int
    BY <1>3, <1>5, <2>1, <2>2, CongSym
  <2>4. Cong(s, x)
    BY <1>5, <2>1, <2>2, <2>3, CongTrans
  <2>5. Cong(s, e - r)
    BY <1>5, <2>1, <2>2, <2>3, <2>4, CongTrans
  <2>6. Cong(r, r)
    BY <2>1, CongRefl
  <2>7. Cong(r + s, r + (e - r))
    BY <2>1, <2>3, <2>5, <2>6, CongAdd
  <2>8. r + (e - r) = e
    BY <1>3, <2>1
  <2> QED BY <2>7, <2>8 DEF r, s
<1>10. (fa * l + van * q) % P = e
  <2> DEFINE z == fa * l + van * q
  <2>1. z \in Int
    <3>1. fa * l \in Int /\ van * q \in Int
      BY <1>1, <1>4, <1>5, <1>7
    <3> QED BY <3>1
  <2> HIDE DEF z
  <2>2. z % P = e % P
    BY <1>3, <1>9, <2>1, ModOfCong DEF z
  <2>3. e % P = e
    BY <1>3, ModOfFp
  <2> QED BY <2>2, <2>3 DEF z
<1> QED
  BY <1>10 DEF l, van, q, e, d, m

----------------------------------------------------------------------------
\* The running pair and the incoming ones.
All(a, us) == <<a>> \o us

IsList(us, k) == us = [j \in 1 .. k |-> us[j]]

LEMMA ConcatOf ==
  ASSUME NEW S, NEW a \in Seq(S), NEW b \in Seq(S)
  PROVE  /\ a \o b \in Seq(S)
         /\ Len(a \o b) = Len(a) + Len(b)
         /\ \A j \in 1 .. Len(a) : (a \o b)[j] = a[j]
         /\ \A j \in 1 .. Len(b) : (a \o b)[Len(a) + j] = b[j]
<1>1. a \o b \in Seq(S) /\ Len(a \o b) = Len(a) + Len(b)
  OBVIOUS
<1>2. \A j \in 1 .. Len(a) : (a \o b)[j] = a[j]
  OBVIOUS
<1>3. \A j \in 1 .. Len(b) : (a \o b)[Len(a) + j] = b[j]
  OBVIOUS
<1> QED
  BY <1>1, <1>2, <1>3

LEMMA AllIs ==
  ASSUME NEW k \in Nat, NEW a, NEW us, IsList(us, k)
  PROVE  /\ Len(us) = k /\ Len(All(a, us)) = k + 1 /\ All(a, us)[1] = a
         /\ \A j \in 1 .. k : All(a, us)[j + 1] = us[j]
         /\ IsList(All(a, us), k + 1)
<1> DEFINE S == {a} \cup {us[j] : j \in 1 .. k}
           b == <<a>>
<1>1. us \in [1 .. k -> S]
  <2>1. \A j \in 1 .. k : us[j] \in S
    OBVIOUS
  <2> HIDE DEF S
  <2> QED BY <2>1 DEF IsList
<1>2. b \in Seq(S) /\ Len(b) = 1 /\ b[1] = a
  OBVIOUS
<1> HIDE DEF S, b
<1>3. us \in Seq(S) /\ Len(us) = k
  BY <1>1, CollectIs
<1> DEFINE t == b \o us
<1>4. /\ t \in Seq(S) /\ Len(t) = Len(b) + Len(us)
      /\ \A j \in 1 .. Len(b) : t[j] = b[j]
      /\ \A j \in 1 .. Len(us) : t[Len(b) + j] = us[j]
  <2>1. b \in Seq(S) /\ us \in Seq(S)
    BY <1>2, <1>3
  <2>2. /\ b \o us \in Seq(S)
        /\ Len(b \o us) = Len(b) + Len(us)
        /\ \A j \in 1 .. Len(b) : (b \o us)[j] = b[j]
        /\ \A j \in 1 .. Len(us) : (b \o us)[Len(b) + j] = us[j]
    BY <2>1, ConcatOf
  <2> QED BY <2>2 DEF t
<1> HIDE DEF t
<1>5. Len(t) = k + 1 /\ t[1] = a
  <2>1. 1 \in 1 .. Len(b)
    BY <1>2
  <2> QED BY <1>2, <1>3, <1>4, <2>1
<1>6. \A j \in 1 .. k : t[j + 1] = us[j]
  <2>1. \A j \in 1 .. k : 1 + j = j + 1
    OBVIOUS
  <2> QED BY <1>2, <1>3, <1>4, <2>1
<1>7. IsList(t, k + 1)
  BY <1>4, <1>5 DEF IsList
<1> QED
  BY <1>3, <1>5, <1>6, <1>7 DEF All, t, b

PairOk(l, u, w) == u.phi \in Fp /\ u.x \in [1 .. l -> Fp] /\ w \in PgWitness(l)

PairsOk(l, k, us, ws) ==
  /\ IsList(us, k) /\ IsList(ws, k)
  /\ \A j \in 1 .. k : PairOk(l, us[j], ws[j])

AssignmentOf(u, w) == Assignment(1, u.x, w.w)
Assignments(n, us, ws) == [j \in 1 .. n |-> AssignmentOf(us[j], ws[j])]

LEMMA AllPairs ==
  ASSUME NEW l \in 1 .. 7, NEW k \in Nat, NEW U, NEW W, PairOk(l, U, W), NEW us, NEW ws, PairsOk(l, k, us, ws)
  PROVE  LET z == Assignments(k + 1, All(U, us), All(W, ws))
         IN  /\ PairsOk(l, k + 1, All(U, us), All(W, ws))
             /\ z \in List(Vec, k + 1)
             /\ z[1] = AssignmentOf(U, W)
             /\ \A j \in 1 .. k : z[j + 1] = AssignmentOf(us[j], ws[j])
             /\ \A j \in 2 .. k + 1 : z[j] = AssignmentOf(us[j - 1], ws[j - 1])
<1> DEFINE aU == All(U, us)  aW == All(W, ws)
           z == Assignments(k + 1, aU, aW)
<1>1. /\ IsList(us, k) /\ IsList(ws, k)
      /\ \A j \in 1 .. k : PairOk(l, us[j], ws[j])
  BY DEF PairsOk
<1>2. /\ aU[1] = U /\ \A j \in 1 .. k : aU[j + 1] = us[j]
      /\ IsList(aU, k + 1)
  BY <1>1, AllIs
<1>3. /\ aW[1] = W /\ \A j \in 1 .. k : aW[j + 1] = ws[j]
      /\ IsList(aW, k + 1)
  BY <1>1, AllIs
<1> HIDE DEF aU, aW
<1>4. ASSUME NEW j \in 1 .. k + 1 PROVE j = 1 \/ (j - 1 \in 1 .. k /\ (j - 1) + 1 = j)
  OBVIOUS
<1>5. \A j \in 1 .. k + 1 : PairOk(l, aU[j], aW[j])
  <2>1. ASSUME NEW j \in 1 .. k + 1 PROVE PairOk(l, aU[j], aW[j])
    <3>1. CASE j = 1
      BY <1>2, <1>3, <3>1
    <3>2. CASE j # 1
      <4> DEFINE i == j - 1
      <4>1. i \in 1 .. k /\ i + 1 = j
        BY <1>4, <3>2
      <4> HIDE DEF i
      <4>2. aU[j] = us[i] /\ aW[j] = ws[i]
        BY <1>2, <1>3, <4>1
      <4> QED BY <1>1, <4>1, <4>2
    <3> QED BY <3>1, <3>2
  <2> QED BY <2>1
<1>6. PairsOk(l, k + 1, aU, aW)
  BY <1>2, <1>3, <1>5, Zenon DEF PairsOk
<1>7. \A j \in 1 .. k + 1 : AssignmentOf(aU[j], aW[j]) \in Vec
  <2>1. ASSUME NEW u, NEW w, PairOk(l, u, w) PROVE AssignmentOf(u, w) \in Vec
    <3>1. w.w \in Vec /\ u.x \in [1 .. l -> Fp] /\ l \in 0 .. 7
      BY <2>1 DEF PairOk, PgWitness, WitnessVec
    <3> QED BY <3>1, ZeroOneInFp, AssignmentInVec DEF AssignmentOf
  <2> QED BY <1>5, <2>1
<1>8. z \in List(Vec, k + 1) /\ \A j \in 1 .. k + 1 : z[j] = AssignmentOf(aU[j], aW[j])
  <2>1. z \in List(Vec, k + 1)
    BY <1>7, Zenon DEF Assignments, List
  <2> QED BY <2>1 DEF Assignments
<1> HIDE DEF z
<1>9. z[1] = AssignmentOf(U, W)
  <2>1. 1 \in 1 .. k + 1
    OBVIOUS
  <2> QED BY <1>2, <1>3, <1>8, <2>1
<1>10. \A j \in 1 .. k : z[j + 1] = AssignmentOf(us[j], ws[j])
  <2>1. \A j \in 1 .. k : j + 1 \in 1 .. k + 1
    OBVIOUS
  <2> QED BY <1>2, <1>3, <1>8, <2>1
<1>11. \A j \in 2 .. k + 1 : z[j] = AssignmentOf(us[j - 1], ws[j - 1])
  <2>1. \A j \in 2 .. k + 1 : j - 1 \in 1 .. k /\ (j - 1) + 1 = j
    OBVIOUS
  <2> QED BY <1>10, <2>1
<1> QED
  BY <1>6, <1>8, <1>9, <1>10, <1>11 DEF z, aU, aW

LEMMA DividendIs ==
  ASSUME NEW l \in 1 .. 7, NEW k \in Nat, NEW U, NEW W, PairOk(l, U, W), NEW us, NEW ws, PairsOk(l, k, us, ws),
         NEW cs, NEW star, NEW fa
  PROVE  Dividend(cs, U, W, us, ws, star, fa)
           = Divided(k, cs, Assignments(k + 1, All(U, us), All(W, ws)), star, fa)
<1> DEFINE z == Assignments(k + 1, All(U, us), All(W, ws))
           g == [j \in 1 .. k |-> AssignmentOf(us[j], ws[j])]
           c == AssignmentOf(U, W)
<1>1. /\ z \in List(Vec, k + 1) /\ z[1] = c
      /\ \A j \in 1 .. k : z[j + 1] = AssignmentOf(us[j], ws[j])
  BY AllPairs
<1>2. IsList(us, k)
  BY DEF PairsOk
<1>3. Len(us) = k
  BY <1>2, AllIs
<1> HIDE DEF z
<1>4. g \in [1 .. k -> Vec]
  <2>1. \A j \in 1 .. k : AssignmentOf(us[j], ws[j]) \in Vec
    <3>1. \A j \in 1 .. k : j + 1 \in 1 .. k + 1
      OBVIOUS
    <3>2. \A j \in 1 .. k : z[j + 1] \in Vec
      BY <1>1, <3>1 DEF List
    <3> QED BY <1>1, <3>2
  <2> QED BY <2>1, Zenon
<1>5. \A j \in 1 .. k : g[j] = AssignmentOf(us[j], ws[j])
  OBVIOUS
<1>6. IsList(g, k)
  BY DEF IsList
<1>7. Dividend(cs, U, W, us, ws, star, fa)
        = PolyAdd(GX(cs, <<c>> \o (<<>> \o g), star), PolyScale(LagrangePolys[k][1], P - fa))
  <2> HIDE DEF g
  <2> QED BY <1>3, Zenon DEF Dividend, Collect, g, AssignmentOf
<1> HIDE DEF g, c
<1>8. <<>> \o g = g
  BY <1>4, CollectIs
<1>9. All(c, g) = z
  <2> DEFINE y == All(c, g)
  <2>1. y[1] = c /\ (\A j \in 1 .. k : y[j + 1] = g[j]) /\ IsList(y, k + 1)
    BY <1>6, AllIs
  <2> HIDE DEF y
  <2>2. ASSUME NEW j \in 1 .. k + 1 PROVE y[j] = z[j]
    <3>1. CASE j = 1
      BY <1>1, <2>1, <3>1
    <3>2. CASE j # 1
      <4> DEFINE i == j - 1
      <4>1. i \in 1 .. k /\ i + 1 = j
        BY <3>2
      <4> HIDE DEF i
      <4> QED BY <1>1, <1>5, <2>1, <4>1
    <3> QED BY <3>1, <3>2
  <2>3. IsList(z, k + 1)
    BY <1>1 DEF List, IsList
  <2> QED BY <2>1, <2>2, <2>3 DEF y, IsList
<1> QED
  BY <1>7, <1>8, <1>9 DEF Divided, All, z

\* Combinations by the Lagrange polynomials' values, of the instances' fields and the
\* witnesses'.
Mix(k, y, v) == Inner(LagrangeEvals(k, y), v)
Phis(n, us)   == [j \in 1 .. n |-> us[j].phi]
Xs(n, us, i)  == [j \in 1 .. n |-> us[j].x[i]]
Ws(n, ws, s)  == [j \in 1 .. n |-> ws[j].w[s]]
Blinders(n, ws) == [j \in 1 .. n |-> ws[j].r_w]

LEMMA FieldsAre ==
  ASSUME NEW l \in 1 .. 7, NEW n \in Nat, NEW us, NEW ws, PairsOk(l, n, us, ws)
  PROVE  /\ Phis(n, us) \in List(Fp, n)
         /\ \A i \in 1 .. l : Xs(n, us, i) \in List(Fp, n)
         /\ \A s \in Slot : Ws(n, ws, s) \in List(Fp, n)
         /\ \A s \in 0 .. l : Ws(n, ws, s) = Constant(n, 0)
         /\ Blinders(n, ws) = Constant(n, 0)
<1>1. ASSUME NEW j \in 1 .. n
      PROVE  /\ us[j].phi \in Fp /\ (\A i \in 1 .. l : us[j].x[i] \in Fp)
             /\ (\A s \in Slot : ws[j].w[s] \in Fp) /\ (\A s \in 0 .. l : ws[j].w[s] = 0) /\ ws[j].r_w = 0
  <2> DEFINE u == us[j]  w == ws[j]
  <2>1. u.phi \in Fp /\ u.x \in [1 .. l -> Fp] /\ w \in PgWitness(l)
    BY DEF PairsOk, PairOk
  <2> HIDE DEF u, w
  <2>2. w.w \in Vec /\ (\A s \in 0 .. l : w.w[s] = 0) /\ w.r_w = 0
    BY <2>1 DEF PgWitness, WitnessVec
  <2>3. \A s \in Slot : w.w[s] \in Fp
    BY <2>2 DEF Vec
  <2>4. \A i \in 1 .. l : u.x[i] \in Fp
    BY <2>1
  <2> QED BY <2>1, <2>2, <2>3, <2>4 DEF u, w
<1>2. Phis(n, us) \in List(Fp, n)
  BY <1>1, Zenon DEF Phis, List
<1>3. ASSUME NEW i \in 1 .. l PROVE Xs(n, us, i) \in List(Fp, n)
  BY <1>1, Zenon DEF Xs, List
<1>4. ASSUME NEW s \in Slot PROVE Ws(n, ws, s) \in List(Fp, n)
  BY <1>1, Zenon DEF Ws, List
<1>5. ASSUME NEW s \in 0 .. l PROVE Ws(n, ws, s) = Constant(n, 0)
  BY <1>1 DEF Ws, Constant
<1>6. Blinders(n, ws) = Constant(n, 0)
  BY <1>1 DEF Blinders, Constant
<1> QED
  BY <1>2, <1>3, <1>4, <1>5, <1>6

LEMMA MixIs ==
  ASSUME NEW k \in Foldable, NEW y \in Fp, NEW v \in List(Fp, k + 1)
  PROVE  Mix(k, y, v) \in Fp /\ <<>> \o v = v
<1> DEFINE m == k + 1  L == LagrangeEvals(k, y)
<1>1. m \in Nat /\ L \in List(Int, m) /\ v \in List(Int, m)
  <2>1. m \in Nat /\ L \in List(Fp, m)
    BY Domains, LagrangeIs
  <2> QED BY <2>1, ListInt
<1> HIDE DEF m, L
<1>2. Inner(L, v) \in Fp
  BY <1>1, InnerInFp
<1>3. <<>> \o v = v
  BY <1>1, CollectIs DEF List
<1> QED BY <1>2, <1>3 DEF Mix, L

\* The folded instance, field by field, and the folded witness.
FoldedTo(k, l, all, star, fa, K, y) ==
  [betas |-> star, phi |-> Mix(k, y, Phis(k + 1, all)),
   e |-> (fa * LagrangeEvals(k, y)[1] + Vanishing(k + 1, y) * PolyEval(K, y)) % P,
   x |-> [i \in 1 .. l |-> Mix(k, y, Xs(k + 1, all, i))]]

LEMMA FoldedInstanceIs ==
  ASSUME NEW k \in Foldable, NEW l \in 1 .. 7, NEW U, NEW W, PairOk(l, U, W), NEW us, NEW ws, PairsOk(l, k, us, ws),
         NEW star, NEW fa, NEW K, NEW y \in Fp
  PROVE  FoldedInstance(U, us, star, fa, K, y) = FoldedTo(k, l, All(U, us), star, fa, K, y)
<1> DEFINE all == All(U, us)  L == LagrangeEvals(k, y)  m == k + 1
           X(i) == Inner(L, <<>> \o Xs(m, all, i))
<1>1. k \in Nat /\ IsList(us, k) /\ DOMAIN U.x = 1 .. l
  BY Domains DEF PairsOk, PairOk
<1>2. Len(us) = k /\ Len(all) = m
  BY <1>1, AllIs
<1>3. PairsOk(l, m, all, All(W, ws)) /\ m \in Nat
  BY <1>1, AllPairs
<1>4. FoldedInstance(U, us, star, fa, K, y)
        = [betas |-> star, phi |-> Inner(L, <<>> \o Phis(m, all)),
           e |-> (fa * L[1] + Vanishing(m, y) * PolyEval(K, y)) % P,
           x |-> [i \in DOMAIN U.x |-> X(i)]]
  <2> HIDE DEF m
  <2> QED BY <1>2, Zenon DEF FoldedInstance, Collect, L, All, Phis, Xs
<1> HIDE DEF all
<1>5. Inner(L, <<>> \o Phis(m, all)) = Mix(k, y, Phis(m, all))
  BY <1>3, FieldsAre, MixIs DEF Mix
<1>6. ASSUME NEW i \in 1 .. l PROVE X(i) = Mix(k, y, Xs(m, all, i))
  BY <1>3, FieldsAre, MixIs DEF Mix
<1> HIDE DEF L, m, X
<1>7. [i \in DOMAIN U.x |-> X(i)] = [i \in 1 .. l |-> Mix(k, y, Xs(m, all, i))]
  BY <1>1, <1>6
<1> QED
  BY <1>4, <1>5, <1>7 DEF FoldedTo, all, L, m

LEMMA FoldedWitnessIs ==
  ASSUME NEW k \in Foldable, NEW l \in 1 .. 7, NEW U, NEW W, PairOk(l, U, W), NEW us, NEW ws, PairsOk(l, k, us, ws),
         NEW y \in Fp
  PROVE  LET f == FoldedWitness(W, ws, y)
         IN  /\ f = [w |-> [s \in Slot |-> Mix(k, y, Ws(k + 1, All(W, ws), s))], r_w |-> 0]
             /\ f \in PgWitness(l)
<1> DEFINE all == All(W, ws)  L == LagrangeEvals(k, y)  m == k + 1
           X(s) == Inner(L, <<>> \o Ws(m, all, s))
           v == [s \in Slot |-> Mix(k, y, Ws(m, all, s))]
<1>1. k \in Nat /\ IsList(ws, k)
  BY Domains DEF PairsOk
<1>2. Len(ws) = k /\ Len(all) = m
  BY <1>1, AllIs
<1>3. PairsOk(l, m, All(U, us), all) /\ m \in Nat
  BY <1>1, AllPairs
<1>4. FoldedWitness(W, ws, y) = [w |-> [s \in Slot |-> X(s)], r_w |-> Inner(L, <<>> \o Blinders(m, all))]
  <2> HIDE DEF m
  <2> QED BY <1>2, Zenon DEF FoldedWitness, Collect, L, All, Ws, Blinders
<1> HIDE DEF all
<1>5. Inner(L, <<>> \o Blinders(m, all)) = 0
  <2>1. Constant(m, 0) \in List(Fp, m)
    BY ZeroOneInFp DEF Constant, List
  <2>2. <<>> \o Constant(m, 0) = Constant(m, 0)
    BY <2>1, MixIs
  <2> QED BY <1>3, <2>2, FieldsAre, JoinOfConstants
<1>6. ASSUME NEW s \in Slot PROVE X(s) = Mix(k, y, Ws(m, all, s)) /\ Mix(k, y, Ws(m, all, s)) \in Fp
  BY <1>3, FieldsAre, MixIs DEF Mix
<1>7. [s \in Slot |-> X(s)] = v /\ v \in Vec
  <2> HIDE DEF X, m, L
  <2>1. [s \in Slot |-> X(s)] = v
    BY <1>6
  <2>2. v \in Vec
    BY <1>6, Zenon DEF Vec
  <2> QED BY <2>1, <2>2
<1>8. v \in WitnessVec(l)
  <2>1. ASSUME NEW s \in 0 .. l PROVE v[s] = 0
    <3>1. s \in Slot
      BY DEF Slot
    <3>2. v[s] = Mix(k, y, Constant(m, 0))
      BY <1>3, <3>1, FieldsAre
    <3> QED BY <3>2, JoinOfConstants DEF Mix
  <2> HIDE DEF v
  <2> QED BY <1>7, <2>1 DEF WitnessVec
<1> HIDE DEF X, L
<1>9. FoldedWitness(W, ws, y) = [w |-> v, r_w |-> 0]
  BY <1>4, <1>5, <1>7
<1>10. FoldedWitness(W, ws, y) \in PgWitness(l)
  <2> HIDE DEF v
  <2>1. [w |-> v, r_w |-> 0] \in PgWitness(l)
    BY <1>8 DEF PgWitness
  <2> QED BY <1>9, <2>1
<1> QED
  BY <1>9, <1>10 DEF all, m

\* The folded assignment is the combination of the assignments.
LEMMA AssignmentsJoin ==
  ASSUME NEW k \in Foldable, NEW l \in 1 .. 7, NEW U, NEW W, PairOk(l, U, W), NEW us, NEW ws, PairsOk(l, k, us, ws),
         NEW star, NEW fa, NEW K, NEW y \in Fp
  PROVE  AssignmentOf(FoldedInstance(U, us, star, fa, K, y), FoldedWitness(W, ws, y))
           = JoinAll(k, Assignments(k + 1, All(U, us), All(W, ws)), y)
<1> DEFINE m == k + 1  aU == All(U, us)  aW == All(W, ws)
           z == Assignments(m, aU, aW)
           x == [i \in 1 .. l |-> Mix(k, y, Xs(m, aU, i))]
           v == [s \in Slot |-> Mix(k, y, Ws(m, aW, s))]
           a == Assignment(1, x, v)
<1>1. AssignmentOf(FoldedInstance(U, us, star, fa, K, y), FoldedWitness(W, ws, y)) = a
  <2> DEFINE f == FoldedInstance(U, us, star, fa, K, y)  g == FoldedWitness(W, ws, y)
             ph == Mix(k, y, Phis(m, aU))
             e == (fa * LagrangeEvals(k, y)[1] + Vanishing(m, y) * PolyEval(K, y)) % P
  <2>0. f = FoldedTo(k, l, aU, star, fa, K, y)
    BY FoldedInstanceIs
  <2>1. f = [betas |-> star, phi |-> ph, e |-> e, x |-> x]
    BY <2>0, Zenon DEF FoldedTo, x, ph, e, m
  <2>2. g = [w |-> v, r_w |-> 0]
    BY FoldedWitnessIs
  <2> HIDE DEF f, g, x, v, ph, e
  <2>3. f.x = x /\ g.w = v
    BY <2>1, <2>2
  <2> QED BY <2>3 DEF AssignmentOf, f, g
<1>2. m \in Nat /\ PairsOk(l, m, aU, aW)
  BY Domains, AllPairs
<1> HIDE DEF aU, aW, m
<1>3. \A j \in 1 .. m : DOMAIN aU[j].x = 1 .. l
  BY <1>2 DEF PairsOk, PairOk
<1>4. ASSUME NEW s \in Slot PROVE a[s] = Mix(k, y, EntriesAt(z, m, s))
  <2>1. CASE s = 0
    <3>1. a[s] = 1
      BY <2>1 DEF Assignment
    <3>2. \A j \in 1 .. m : z[j][s] = 1
      BY <2>1 DEF Assignments, AssignmentOf, Assignment
    <3>3. EntriesAt(z, m, s) = Constant(m, 1)
      <4> HIDE DEF z
      <4> QED BY <3>2 DEF EntriesAt, Constant
    <3> QED BY <3>1, <3>3, JoinOfConstants DEF Mix, m
  <2>2. CASE s \in 1 .. l
    <3>1. a[s] = Mix(k, y, Xs(m, aU, s))
      BY <2>2 DEF Assignment
    <3>2. \A j \in 1 .. m : z[j][s] = aU[j].x[s]
      BY <1>3, <2>2 DEF Assignments, AssignmentOf, Assignment
    <3>3. EntriesAt(z, m, s) = Xs(m, aU, s)
      <4> HIDE DEF z
      <4> QED BY <3>2 DEF EntriesAt, Xs
    <3> QED BY <3>1, <3>3
  <2>3. CASE s # 0 /\ s \notin 1 .. l
    <3>1. a[s] = Mix(k, y, Ws(m, aW, s))
      BY <2>3 DEF Assignment
    <3>2. \A j \in 1 .. m : z[j][s] = aW[j].w[s]
      BY <1>3, <2>3 DEF Assignments, AssignmentOf, Assignment
    <3>3. EntriesAt(z, m, s) = Ws(m, aW, s)
      <4> HIDE DEF z
      <4> QED BY <3>2 DEF EntriesAt, Ws
    <3> QED BY <3>1, <3>3
  <2> QED BY <2>1, <2>2, <2>3
<1>5. a = [s \in Slot |-> a[s]]
  BY DEF Assignment
<1> HIDE DEF a, z
<1>6. a = JoinAll(k, z, y)
  BY <1>4, <1>5 DEF JoinAll, Mix, m
<1> QED
  BY <1>1, <1>6 DEF z, aU, aW, m

----------------------------------------------------------------------------
\* The value of l + (b + d X) r, its constant term and its highest coefficient.
LEMMA AddLinearEval ==
  ASSUME NEW n \in Nat \ {0}, NEW l \in List(Fp, n), NEW r \in List(Fp, n), NEW b \in Fp, NEW d \in Fp
  PROVE  /\ AddLinear(b, d, l, r) \in List(Fp, n + 1)
         /\ Cong(AddLinear(b, d, l, r)[1], l[1] + b * r[1])
         /\ Cong(AddLinear(b, d, l, r)[n + 1], d * r[n])
         /\ \A x \in Int : Cong(PolyEval(AddLinear(b, d, l, r), x),
                                PolyEval(l, x) + (b + x * d) * PolyEval(r, x))
<1> DEFINE m == n + 1  c == AddLinear(b, d, l, r)
           lp == [j \in 1 .. m |-> Coefficient(l, n, j)]
           rp == [j \in 1 .. m |-> Coefficient(r, n, j)]
           rs == [j \in 1 .. m |-> Below(r, m, j)]
           br == [j \in 1 .. m |-> b * rp[j] + d * rs[j]]
<1>1. n \in Nat /\ m \in Nat /\ n \in 0 .. m /\ b \in Int /\ d \in Int
  BY FpIsInt
<1>2. /\ c \in List(Fp, m)
      /\ \A j \in 1 .. m : Cong(c[j], Coefficient(l, n, j) + b * Coefficient(r, n, j) + d * Below(r, n, j))
  BY AddLinearIs
<1>3. l \in List(Int, n) /\ r \in List(Int, n) /\ c \in List(Int, m)
  BY <1>1, <1>2, ListInt
<1> HIDE DEF c
<1>4. ASSUME NEW j \in 1 .. m
      PROVE  /\ Coefficient(l, n, j) \in Int /\ Coefficient(r, n, j) \in Int /\ Below(r, m, j) \in Int
             /\ Below(r, n, j) = Below(r, m, j)
  <2>1. j <= n => j \in 1 .. n
    BY <1>1
  <2>2. j # 1 => j - 1 \in 1 .. n
    BY <1>1
  <2> QED BY <1>3, <2>1, <2>2 DEF Coefficient, Below, List
<1>5. lp \in List(Int, m) /\ rp \in List(Int, m) /\ rs \in List(Int, m)
  <2>1. lp \in List(Int, m)
    BY <1>4, Zenon DEF List
  <2>2. rp \in List(Int, m)
    BY <1>4, Zenon DEF List
  <2>3. rs \in List(Int, m)
    BY <1>4, Zenon DEF List
  <2> QED BY <2>1, <2>2, <2>3
<1>6. ASSUME NEW j \in 1 .. m
      PROVE  lp[j] = Coefficient(l, n, j) /\ rp[j] = Coefficient(r, n, j) /\ rs[j] = Below(r, n, j)
  BY <1>4
<1>7. /\ \A j \in 1 .. n : lp[j] = l[j] /\ rp[j] = r[j]
      /\ \A j \in n + 1 .. m : lp[j] = 0 /\ rp[j] = 0
      /\ rs[1] = 0 /\ \A j \in 1 .. n : rs[j + 1] = r[j]
  <2>1. \A j \in 1 .. n : j \in 1 .. m /\ j <= n
    BY <1>1
  <2>2. \A j \in n + 1 .. m : j \in 1 .. m /\ ~(j <= n)
    BY <1>1
  <2>3. \A j \in 1 .. n : j + 1 \in 1 .. m /\ j + 1 # 1 /\ (j + 1) - 1 = j
    BY <1>1
  <2>4. 1 \in 1 .. m
    BY <1>1
  <2> HIDE DEF lp, rp, rs
  <2> QED BY <1>6, <2>1, <2>2, <2>3, <2>4 DEF Coefficient, Below
<1> HIDE DEF lp, rp, rs
<1>8. ASSUME NEW j \in 1 .. m PROVE lp[j] \in Int /\ rp[j] \in Int /\ rs[j] \in Int /\ b * rp[j] + d * rs[j] \in Int
  <2> DEFINE p == rp[j]  s == rs[j]
  <2>1. lp[j] \in Int /\ p \in Int /\ s \in Int
    BY <1>5 DEF List
  <2> HIDE DEF p, s
  <2>2. b * p + d * s \in Int
    BY <1>1, <2>1
  <2> QED BY <2>1, <2>2 DEF p, s
<1>9. br \in List(Int, m) /\ \A j \in 1 .. m : br[j] = b * rp[j] + d * rs[j]
  <2>1. br \in List(Int, m)
    BY <1>8, Zenon DEF List
  <2> QED BY <2>1
<1> HIDE DEF br
<1>10. ASSUME NEW j \in 1 .. m PROVE Cong(c[j], lp[j] + 1 * br[j]) /\ Cong(c[j], lp[j] + b * rp[j] + d * rs[j])
  <2> DEFINE p == b * rp[j]  s == d * rs[j]  y == lp[j]
  <2>1. Cong(c[j], y + p + s)
    BY <1>2, <1>6
  <2>2. y \in Int /\ p \in Int /\ s \in Int
    BY <1>1, <1>8
  <2>3. br[j] = p + s
    BY <1>9
  <2> HIDE DEF p, s, y
  <2>4. y + 1 * br[j] = y + p + s
    BY <2>2, <2>3
  <2> QED BY <2>1, <2>4 DEF y, p, s
<1>11. Cong(c[1], l[1] + b * r[1])
  <2> DEFINE p == l[1]  q == r[1]
  <2>1. 1 \in 1 .. m /\ 1 \in 1 .. n
    BY <1>1
  <2>2. lp[1] = p /\ rp[1] = q /\ rs[1] = 0 /\ p \in Int /\ q \in Int
    BY <1>3, <1>7, <2>1 DEF List
  <2>3. Cong(c[1], lp[1] + b * rp[1] + d * rs[1])
    BY <1>10, <2>1
  <2> HIDE DEF p, q
  <2>4. p + b * q + d * 0 = p + b * q
    BY <1>1, <2>2
  <2> QED BY <2>2, <2>3, <2>4 DEF p, q
<1>12. Cong(c[m], d * r[n])
  <2> DEFINE q == r[n]
  <2>1. m \in 1 .. m /\ n \in 1 .. n /\ m \in n + 1 .. m
    BY <1>1
  <2>2. lp[m] = 0 /\ rp[m] = 0 /\ rs[m] = q /\ q \in Int
    BY <1>3, <1>7, <2>1 DEF List
  <2>3. Cong(c[m], lp[m] + b * rp[m] + d * rs[m])
    BY <1>10, <2>1
  <2> HIDE DEF q
  <2>4. 0 + b * 0 + d * q = d * q
    BY <1>1, <2>2
  <2> QED BY <2>2, <2>3, <2>4 DEF q
<1> HIDE DEF m
<1>13. ASSUME NEW x \in Int PROVE Cong(PolyEval(c, x), PolyEval(l, x) + (b + x * d) * PolyEval(r, x))
  <2> DEFINE y == PolyEval(c, x)  u == PolyEval(l, x)  v == PolyEval(r, x)
             up == PolyEval(lp, x)  vp == PolyEval(rp, x)  vs == PolyEval(rs, x)  w == PolyEval(br, x)
             bv == [j \in 1 .. m |-> b * rp[j]]  z == PolyEval(bv, x)
  <2>1. Cong(y, up + 1 * w)
    BY <1>1, <1>3, <1>5, <1>9, <1>10, PolyLinear
  <2>2. u = up /\ v = vp
    <3>1. \A j \in 1 .. n : l[j] = lp[j] /\ r[j] = rp[j]
      BY <1>7
    <3>2. (\A j \in n + 1 .. m : lp[j] = 0) /\ \A j \in n + 1 .. m : rp[j] = 0
      BY <1>7
    <3> QED BY <1>1, <1>3, <1>5, <3>1, <3>2, PolyPadded
  <2>3. Cong(vs, x * v)
    BY <1>1, <1>3, <1>5, <1>7, PolyShift DEF m
  <2>4. bv \in List(Int, m) /\ \A j \in 1 .. m : bv[j] = b * rp[j] /\ Cong(bv[j], b * rp[j])
    <3>1. \A j \in 1 .. m : b * rp[j] \in Int
      BY <1>1, <1>8
    <3>2. bv \in List(Int, m)
      BY <3>1, Zenon DEF List
    <3>3. \A j \in 1 .. m : bv[j] = b * rp[j]
      OBVIOUS
    <3> HIDE DEF bv
    <3> QED BY <3>1, <3>2, <3>3, CongRefl
  <2> HIDE DEF bv
  <2>5. Cong(z, b * vp)
    BY <1>1, <1>5, <2>4, PolyScaled
  <2>6. \A j \in 1 .. m : Cong(br[j], bv[j] + d * rs[j])
    <3>1. \A j \in 1 .. m : br[j] = bv[j] + d * rs[j] /\ br[j] \in Int
      BY <1>8, <1>9, <2>4
    <3> QED BY <3>1, CongRefl
  <2>7. Cong(w, z + d * vs)
    BY <1>1, <1>5, <1>9, <2>4, <2>6, PolyLinear
  <2>8. y \in Int /\ u \in Int /\ v \in Int /\ up \in Int /\ vp \in Int /\ vs \in Int /\ w \in Int /\ z \in Int
    BY <1>1, <1>3, <1>5, <1>9, <2>4, PolyInFp
  <2> HIDE DEF y, u, v, up, vp, vs, w, z
  <2>9. PICK i1 \in Int : y = up + 1 * w + i1 * P
    BY <2>1 DEF Cong
  <2>10. PICK i2 \in Int : vs = x * v + i2 * P
    BY <2>3 DEF Cong
  <2>11. PICK i3 \in Int : z = b * vp + i3 * P
    BY <2>5 DEF Cong
  <2>12. PICK i4 \in Int : w = z + d * vs + i4 * P
    BY <2>7 DEF Cong
  <2> DEFINE bvv == b * v  xv == x * v  dxv == d * xv  di == d * i2
  <2>13. bvv \in Int /\ xv \in Int /\ dxv \in Int /\ di \in Int /\ P \in Int
    BY <1>1, <2>8, PAssumption
  <2>14. d * vs = dxv + di * P
    BY <1>1, <2>8, <2>10, <2>13
  <2>15. (b + x * d) * v = bvv + dxv
    BY <1>1, <2>8
  <2> HIDE DEF bvv, xv, dxv, di
  <2>16. z = bvv + i3 * P
    BY <2>2, <2>11 DEF bvv
  <2>17. y = (u + (bvv + dxv)) + (i1 + i3 + i4 + di) * P
    <3> DEFINE q1 == i1 * P  q3 == i3 * P  q4 == i4 * P  qd == di * P
    <3>1. q1 \in Int /\ q3 \in Int /\ q4 \in Int /\ qd \in Int
      BY <2>13
    <3>2. (i1 + i3 + i4 + di) * P = q1 + q3 + q4 + qd
      BY <2>13
    <3>3. y = up + w + q1 /\ z = bvv + q3 /\ w = z + (dxv + qd) + q4
      BY <2>8, <2>9, <2>12, <2>14, <2>16
    <3> HIDE DEF q1, q3, q4, qd
    <3>4. y = (u + (bvv + dxv)) + (q1 + q3 + q4 + qd)
      BY <2>2, <2>8, <2>13, <3>1, <3>3
    <3> QED BY <3>2, <3>4
  <2>18. i1 + i3 + i4 + di \in Int
    BY <2>13
  <2>19. Cong(y, u + (bvv + dxv))
    BY <2>17, <2>18 DEF Cong
  <2> QED BY <2>15, <2>19 DEF y, u, v
<1> QED
  BY <1>2, <1>11, <1>12, <1>13 DEF c, m

\* The tree of F(X): its leaves, and the nodes above them.
Leaf(f, i)        == <<f[i]>>
Node1(f, b, d, i) == AddLinear(b[1], d[1], Leaf(f, 2 * i), Leaf(f, 2 * i + 1))
Node2(f, b, d, i) == AddLinear(b[2], d[2], Node1(f, b, d, 2 * i), Node1(f, b, d, 2 * i + 1))
Node3(f, b, d, i) == AddLinear(b[3], d[3], Node2(f, b, d, 2 * i), Node2(f, b, d, 2 * i + 1))
Node(f, b, d, j, i) ==
  IF j = 0 THEN Leaf(f, i) ELSE IF j = 1 THEN Node1(f, b, d, i)
  ELSE IF j = 2 THEN Node2(f, b, d, i) ELSE Node3(f, b, d, i)

LEMMA NodeIs ==
  ASSUME NEW f, NEW b, NEW d, NEW j \in 1 .. 3, NEW i \in Nat
  PROVE  Node(f, b, d, j, i) = AddLinear(b[j], d[j], Node(f, b, d, j - 1, 2 * i), Node(f, b, d, j - 1, 2 * i + 1))
<1>1. CASE j = 1
  <2>1. j - 1 = 0 /\ j # 0
    BY <1>1
  <2> QED BY <1>1, <2>1 DEF Node, Node1
<1>2. CASE j = 2
  <2>1. j - 1 = 1 /\ j # 0 /\ j # 1 /\ 1 # 0
    BY <1>2
  <2> QED BY <1>2, <2>1 DEF Node, Node2
<1>3. CASE j = 3
  <2>1. j - 1 = 2 /\ j # 0 /\ j # 1 /\ j # 2 /\ 2 # 1 /\ 2 # 0
    BY <1>3
  <2> QED BY <1>3, <2>1 DEF Node, Node3
<1> QED BY <1>1, <1>2, <1>3

\* The width of the tree's levels.
LEMMA Widths ==
  ASSUME NEW t \in Sizes, NEW j \in 0 .. t
  PROVE  /\ 2^(t - j) \in Nat
         /\ j = t => 2^(t - j) = 1
         /\ j # 0 => 2^(t - (j - 1)) = 2 * 2^(t - j)
<1>1. 2^0 = 1 /\ 2^1 = 2 /\ 2^2 = 4 /\ 2^3 = 8
  OBVIOUS
<1>2. t - j \in {0, 1, 2, 3}
  BY DEF Sizes
<1>3. j # 0 => t - j \in {0, 1, 2} /\ t - (j - 1) = (t - j) + 1
  BY DEF Sizes
<1>4. j = t => t - j = 0
  BY DEF Sizes
<1> DEFINE e == t - j  g == t - (j - 1)
<1>5. e \in {0, 1, 2, 3} /\ (j = t => e = 0)
  BY <1>2, <1>4
<1>6. j # 0 => e \in {0, 1, 2} /\ g = e + 1
  BY <1>3
<1> HIDE DEF e, g
<1>7. 2^e \in Nat
  <2>1. 2^0 \in Nat /\ 2^1 \in Nat /\ 2^2 \in Nat /\ 2^3 \in Nat
    BY <1>1
  <2> QED BY <1>5, <2>1, Zenon
<1>8. ASSUME j # 0 PROVE 2^g = 2 * 2^e
  <2>1. CASE e = 0
    <3>1. g = 1
      BY <1>6, <1>8, <2>1
    <3> QED BY <1>1, <2>1, <3>1
  <2>2. CASE e = 1
    <3>1. g = 2
      BY <1>6, <1>8, <2>2
    <3> QED BY <1>1, <2>2, <3>1
  <2>3. CASE e = 2
    <3>1. g = 3
      BY <1>6, <1>8, <2>3
    <3> QED BY <1>1, <2>3, <3>1
  <2> QED BY <1>6, <1>8, <2>1, <2>2, <2>3
<1>9. j = t => 2^e = 1
  BY <1>1, <1>5
<1> QED
  BY <1>7, <1>8, <1>9 DEF e, g

LEMMA TreeOf ==
  ASSUME NEW t \in Sizes, NEW f, NEW b \in List(Fp, t), NEW d
  PROVE  CalcFFromBtree(f, b, d) = Node(f, b, d, t, 0)
<1> DEFINE Size(j) == 2^(t - j)
           N(j, i) == Node(f, b, d, j, i)
           At(h, j, i) == IF j = 0 THEN <<f[i]>>
                          ELSE PolyAdd(h[j - 1][2 * i], TimesLinear(b[j], d[j], h[j - 1][2 * i + 1]))
           Rec(h) == h = [j \in 0 .. t |-> [i \in 0 .. Size(j) - 1 |-> At(h, j, i)]]
           c == CHOOSE h : Rec(h)
           e == [j \in 0 .. t |-> [i \in 0 .. Size(j) - 1 |-> N(j, i)]]
<1>1. t \in Nat /\ \A j \in 1 .. t : j \in 1 .. 3 /\ j - 1 \in 0 .. t /\ j \in 0 .. t /\ j # 0
  BY SizesAre DEF Sizes
<1>2. CalcFFromBtree(f, b, d) = c[t][0]
  <2>1. Len(b) = t
    BY <1>1 DEF List
  <2> QED BY <2>1 DEF CalcFFromBtree
<1>3. /\ \A j \in 0 .. t : Size(j) \in Nat
      /\ Size(t) = 1
      /\ \A j \in 1 .. t : Size(j - 1) = 2 * Size(j)
  <2>1. t \in 0 .. t
    BY <1>1
  <2>2. \A j \in 0 .. t : Size(j) \in Nat
    BY Widths
  <2>3. Size(t) = 1
    BY <2>1, Widths
  <2>4. \A j \in 1 .. t : Size(j - 1) = 2 * Size(j)
    BY <1>1, Widths
  <2> QED BY <2>2, <2>3, <2>4
<1> HIDE DEF Size
<1>4. \A i : N(0, i) = <<f[i]>>
  BY DEF Node, Leaf
<1>5. ASSUME NEW j \in 1 .. t, NEW i \in Nat
      PROVE  N(j, i) = PolyAdd(N(j - 1, 2 * i), TimesLinear(b[j], d[j], N(j - 1, 2 * i + 1)))
  <2>1. N(j, i) = AddLinear(b[j], d[j], N(j - 1, 2 * i), N(j - 1, 2 * i + 1))
    <3>1. j \in 1 .. 3
      BY <1>1
    <3>2. Node(f, b, d, j, i) = AddLinear(b[j], d[j], Node(f, b, d, j - 1, 2 * i), Node(f, b, d, j - 1, 2 * i + 1))
      BY <3>1, NodeIs
    <3> QED BY <3>2
  <2> HIDE DEF N
  <2> QED BY <2>1 DEF AddLinear, TimesLinear
<1> HIDE DEF N
<1>6. \A j \in 0 .. t : \A i \in 0 .. Size(j) - 1 : e[j][i] = N(j, i)
  OBVIOUS
<1>7. ASSUME NEW j \in 1 .. t, NEW i \in 0 .. Size(j) - 1
      PROVE  2 * i \in 0 .. Size(j - 1) - 1 /\ 2 * i + 1 \in 0 .. Size(j - 1) - 1
  <2> DEFINE s == Size(j)
  <2>1. s \in Nat /\ Size(j - 1) = 2 * s /\ i \in 0 .. s - 1
    BY <1>1, <1>3
  <2> HIDE DEF s
  <2> QED BY <2>1
<1>8. Rec(e)
  <2>1. ASSUME NEW j \in 0 .. t, NEW i \in 0 .. Size(j) - 1 PROVE N(j, i) = At(e, j, i)
    <3>1. CASE j = 0
      BY <1>4, <3>1
    <3>2. CASE j # 0
      <4>1. j \in 1 .. t
        BY <1>1, <3>2
      <4>2. e[j - 1][2 * i] = N(j - 1, 2 * i) /\ e[j - 1][2 * i + 1] = N(j - 1, 2 * i + 1)
        <5> HIDE DEF e
        <5> QED BY <1>1, <1>6, <1>7, <4>1
      <4>3. i \in Nat
        <5> DEFINE s == Size(j)
        <5>1. s \in Nat /\ i \in 0 .. s - 1
          BY <1>3
        <5> HIDE DEF s
        <5> QED BY <5>1
      <4> HIDE DEF e
      <4> QED BY <1>5, <3>2, <4>1, <4>2, <4>3
    <3> QED BY <3>1, <3>2
  <2> HIDE DEF At
  <2>2. \A j \in 0 .. t : [i \in 0 .. Size(j) - 1 |-> N(j, i)] = [i \in 0 .. Size(j) - 1 |-> At(e, j, i)]
    BY <2>1
  <2> QED BY <2>2
<1>9. Rec(c)
  <2> HIDE DEF Rec
  <2> QED BY <1>8
<1> HIDE DEF c, e
<1>10. \A j \in 0 .. t : c[j] = [i \in 0 .. Size(j) - 1 |-> At(c, j, i)] /\ e[j] = [i \in 0 .. Size(j) - 1 |-> At(e, j, i)]
  <2> HIDE DEF At
  <2> QED BY <1>8, <1>9
<1>11. c[0] = e[0]
  <2>1. 0 \in 0 .. t /\ \A i : At(c, 0, i) = At(e, 0, i)
    BY <1>1
  <2> HIDE DEF At
  <2>2. [i \in 0 .. Size(0) - 1 |-> At(c, 0, i)] = [i \in 0 .. Size(0) - 1 |-> At(e, 0, i)]
    BY <2>1
  <2> QED BY <1>10, <2>1, <2>2, Zenon
<1>12. ASSUME NEW j \in 1 .. t, c[j - 1] = e[j - 1] PROVE c[j] = e[j]
  <2>1. \A i : At(c, j, i) = At(e, j, i)
    BY <1>12
  <2> HIDE DEF At
  <2> QED BY <1>1, <1>10, <2>1, ZenonT(60)
<1>13. c[t] = e[t]
  BY <1>1, <1>11, <1>12, SameEnd
<1>14. e[t][0] = N(t, 0)
  <2>1. t \in 0 .. t /\ 0 \in 0 .. Size(t) - 1
    BY <1>1, <1>3
  <2> QED BY <1>6, <2>1
<1> QED
  BY <1>2, <1>13, <1>14 DEF N

----------------------------------------------------------------------------
\* The weight of a constraint, by the bits of its number.
LEMMA PowISame ==
  ASSUME NEW s \in Nat, NEW b \in List(Fp, s), NEW c \in List(Fp, s), NEW i \in Nat, NEW h \in Nat,
         \A j \in 1 .. s : Factor(i, j, b) = Factor(h, j, c)
  PROVE  PowI(i, b) = PowI(h, c)
<1>1. PICK e \in [0 .. s -> Fp] : PowIRun(e, i, b, s) /\ PowI(i, b) = e[s]
  BY PowISteps
<1>2. PICK g \in [0 .. s -> Fp] : PowIRun(g, h, c, s) /\ PowI(h, c) = g[s]
  BY PowISteps
<1>3. e[0] = 1 /\ \A j \in 1 .. s : e[j] = (e[j - 1] * Factor(i, j, b)) % P
  BY <1>1 DEF PowIRun
<1>4. g[0] = 1 /\ \A j \in 1 .. s : g[j] = (g[j - 1] * Factor(h, j, c)) % P
  BY <1>2 DEF PowIRun
<1>5. e[0] = g[0] /\ \A j \in 1 .. s : e[j - 1] = g[j - 1] => e[j] = g[j]
  BY <1>3, <1>4
<1>6. e[s] = g[s]
  BY <1>5, SameEnd
<1> QED
  BY <1>1, <1>2, <1>6

LEMMA PowIExtend ==
  ASSUME NEW s \in Nat, NEW b \in List(Fp, s + 1), NEW i \in Nat
  PROVE  /\ Prefix(b, s) \in List(Fp, s)
         /\ PowI(i, Prefix(b, s)) \in Fp
         /\ PowI(i, b) = (PowI(i, Prefix(b, s)) * Factor(i, s + 1, b)) % P
<1> DEFINE t == s + 1  p == Prefix(b, s)
<1>1. t \in Nat /\ s \in 0 .. t /\ t \in 1 .. t /\ t - 1 = s /\ \A j \in 1 .. s : j \in 1 .. t
  OBVIOUS
<1>2. p \in List(Fp, s)
  BY <1>1, PrefixIs
<1>3. PICK e \in [0 .. t -> Fp] : PowIRun(e, i, b, t) /\ PowI(i, b) = e[t]
  BY <1>1, PowISteps
<1>4. PICK g \in [0 .. s -> Fp] : PowIRun(g, i, p, s) /\ PowI(i, p) = g[s]
  BY <1>2, PowISteps
<1>5. e[0] = 1 /\ \A j \in 1 .. t : e[j] = (e[j - 1] * Factor(i, j, b)) % P
  BY <1>3 DEF PowIRun
<1>6. g[0] = 1 /\ \A j \in 1 .. s : g[j] = (g[j - 1] * Factor(i, j, p)) % P
  BY <1>4 DEF PowIRun
<1>7. \A j \in 1 .. s : Factor(i, j, p) = Factor(i, j, b)
  BY DEF Factor, Prefix
<1> HIDE DEF t, p
<1>8. e[0] = g[0] /\ \A j \in 1 .. s : e[j - 1] = g[j - 1] => e[j] = g[j]
  BY <1>1, <1>5, <1>6, <1>7
<1>9. e[s] = g[s]
  BY <1>8, SameEnd
<1>10. e[t] = (e[s] * Factor(i, t, b)) % P
  BY <1>1, <1>5
<1>11. g[s] \in Fp
  BY <1>4
<1> QED
  BY <1>2, <1>3, <1>4, <1>9, <1>10, <1>11 DEF t, p

\* The bits of the numbers below four.
Bit(i, j) == (i \div 2^(j - 1)) % 2

LEMMA Bits ==
  ASSUME NEW s \in {0, 1, 2}
  PROVE  /\ 2^s \in Nat /\ 2^s \in {1, 2, 4} /\ 2^(s + 1) = 2^s + 2^s
         /\ \A i \in 0 .. 2^s - 1 : /\ Bit(i, s + 1) = 0 /\ Bit(2^s + i, s + 1) = 1
                                    /\ \A j \in 1 .. s : Bit(2^s + i, j) = Bit(i, j)
<1>1. 2^0 = 1 /\ 2^1 = 2 /\ 2^2 = 4 /\ 2^3 = 8
  OBVIOUS
<1>2. CASE s = 0
  <2>1. 2^s = 1 /\ 2^(s + 1) = 2 /\ s + 1 = 1
    BY <1>1, <1>2
  <2>2. \A i \in 0 .. 1 - 1 : i = 0
    OBVIOUS
  <2>3. Bit(0, 1) = 0 /\ Bit(1 + 0, 1) = 1
    BY <1>1 DEF Bit
  <2>4. \A j \in 1 .. s : FALSE
    BY <1>2
  <2> QED BY <2>1, <2>2, <2>3, <2>4
<1>3. CASE s = 1
  <2>1. 2^s = 2 /\ 2^(s + 1) = 4 /\ s + 1 = 2
    BY <1>1, <1>3
  <2>2. \A i \in 0 .. 2 - 1 : i = 0 \/ i = 1
    OBVIOUS
  <2>3. 2^(1 - 1) = 1 /\ 2^(2 - 1) = 2
    BY <1>1
  <2>4. \A i \in Nat : Bit(i, 1) = (i \div 1) % 2 /\ Bit(i, 2) = (i \div 2) % 2
    BY <2>3 DEF Bit
  <2>5. \A i \in 0 .. 2 - 1 : Bit(i, 2) = 0 /\ Bit(2 + i, 2) = 1 /\ Bit(2 + i, 1) = Bit(i, 1)
    BY <2>2, <2>4
  <2>6. \A j \in 1 .. s : j = 1
    BY <1>3
  <2> QED BY <2>1, <2>5, <2>6
<1>4. CASE s = 2
  <2>1. 2^s = 4 /\ 2^(s + 1) = 8 /\ s + 1 = 3
    BY <1>1, <1>4
  <2>2. \A i \in 0 .. 4 - 1 : i = 0 \/ i = 1 \/ i = 2 \/ i = 3
    OBVIOUS
  <2>3. 2^(1 - 1) = 1 /\ 2^(2 - 1) = 2 /\ 2^(3 - 1) = 4
    BY <1>1
  <2>4. \A i \in Nat : Bit(i, 1) = (i \div 1) % 2 /\ Bit(i, 2) = (i \div 2) % 2 /\ Bit(i, 3) = (i \div 4) % 2
    BY <2>3 DEF Bit
  <2>5. ASSUME NEW i \in 0 .. 4 - 1
        PROVE  Bit(i, 3) = 0 /\ Bit(4 + i, 3) = 1 /\ Bit(4 + i, 1) = Bit(i, 1) /\ Bit(4 + i, 2) = Bit(i, 2)
    <3>1. i \in Nat /\ 4 + i \in Nat /\ (i = 0 \/ i = 1 \/ i = 2 \/ i = 3)
      BY <2>2
    <3>2. Bit(i, 3) = 0 /\ Bit(4 + i, 3) = 1
      <4>1. Bit(i, 3) = (i \div 4) % 2 /\ Bit(4 + i, 3) = ((4 + i) \div 4) % 2
        BY <2>4, <3>1
      <4>2. i \div 4 = 0
        BY <3>1
      <4>3. (4 + i) \div 4 = 1
        BY <3>1
      <4> QED BY <4>1, <4>2, <4>3
    <3>3. Bit(4 + i, 1) = Bit(i, 1)
      BY <2>4, <3>1
    <3>4. Bit(4 + i, 2) = Bit(i, 2)
      BY <2>4, <3>1
    <3> QED BY <3>2, <3>3, <3>4
  <2>6. \A j \in 1 .. s : j = 1 \/ j = 2
    BY <1>4
  <2> QED BY <2>1, <2>5, <2>6
<1> QED BY <1>2, <1>3, <1>4

\* The weights of the constraints of the lower and of the upper half.
LEMMA PowIHalves ==
  ASSUME NEW s \in {0, 1, 2}, NEW b \in List(Fp, s + 1), NEW i \in 0 .. 2^s - 1
  PROVE  /\ Prefix(b, s) \in List(Fp, s) /\ PowI(i, Prefix(b, s)) \in Fp
         /\ PowI(i, b) = PowI(i, Prefix(b, s))
         /\ PowI(2^s + i, b) = (PowI(i, Prefix(b, s)) * b[s + 1]) % P
<1> DEFINE n == 2^s  h == n + i  p == Prefix(b, s)
<1>1. s \in Nat /\ n \in Nat
  BY Bits
<1>2. Bit(i, s + 1) = 0 /\ Bit(h, s + 1) = 1 /\ \A j \in 1 .. s : Bit(h, j) = Bit(i, j)
  BY Bits
<1>3. i \in Nat /\ h \in Nat
  <2> HIDE DEF n
  <2>1. i \in 0 .. n - 1
    BY DEF n
  <2> QED BY <1>1, <2>1
<1> HIDE DEF h, n
<1>4. /\ p \in List(Fp, s) /\ PowI(i, p) \in Fp
      /\ PowI(i, b) = (PowI(i, p) * Factor(i, s + 1, b)) % P
      /\ PowI(h, b) = (PowI(h, p) * Factor(h, s + 1, b)) % P
  BY <1>1, <1>3, PowIExtend
<1>5. Factor(i, s + 1, b) = 1 /\ Factor(h, s + 1, b) = b[s + 1]
  BY <1>2 DEF Factor, Bit
<1>6. PowI(i, b) = PowI(i, p)
  <2> DEFINE q == PowI(i, p)
  <2>1. q \in Fp /\ q \in Int
    BY <1>4, FpIsInt
  <2> HIDE DEF q
  <2>2. q * 1 = q /\ (q % P) = q
    BY <2>1, ModOfFp
  <2>3. PowI(i, b) = (q * 1) % P
    BY <1>4, <1>5 DEF q
  <2> QED BY <2>2, <2>3 DEF q
<1>7. PowI(h, p) = PowI(i, p)
  <2>1. \A j \in 1 .. s : Factor(h, j, p) = Factor(i, j, p)
    BY <1>2 DEF Factor, Bit
  <2> HIDE DEF p
  <2> QED BY <1>1, <1>3, <1>4, <2>1, PowISame
<1> QED
  BY <1>4, <1>5, <1>6, <1>7 DEF h, n, p

\* The weighed error of the 2^s constraints from number o on.
WTerms(f, b, s, o) == [h \in 1 .. 2^s |-> PowI(h - 1, b) * f[o + (h - 1)]]
WSum(f, b, s, o)   == SumSeq(WTerms(f, b, s, o))

LEMMA PowersOfTwo ==
  ASSUME NEW s \in {0, 1, 2, 3}
  PROVE  2^s \in Nat /\ 2^s \in {1, 2, 4, 8} /\ s \in Nat
<1>1. 2^0 = 1 /\ 2^1 = 2 /\ 2^2 = 4 /\ 2^3 = 8
  OBVIOUS
<1>2. CASE s = 0
  BY <1>1, <1>2
<1>3. CASE s = 1
  BY <1>1, <1>3
<1>4. CASE s = 2
  BY <1>1, <1>4
<1>5. CASE s = 3
  BY <1>1, <1>5
<1> QED BY <1>2, <1>3, <1>4, <1>5

LEMMA WTermsInt ==
  ASSUME NEW s \in {0, 1, 2, 3}, NEW f \in Vec, NEW b \in List(Fp, s), NEW o \in Nat, o + 2^s <= 8
  PROVE  /\ WTerms(f, b, s, o) \in List(Int, 2^s)
         /\ WSum(f, b, s, o) \in Fp /\ WSum(f, b, s, o) \in Int
         /\ \A h \in 1 .. 2^s : /\ PowI(h - 1, b) \in Int /\ f[o + (h - 1)] \in Int /\ h - 1 \in Nat
                                /\ WTerms(f, b, s, o)[h] = PowI(h - 1, b) * f[o + (h - 1)]
<1> DEFINE n == 2^s  a == WTerms(f, b, s, o)
<1>1. n \in Nat /\ s \in Nat
  BY PowersOfTwo
<1>2. a = [h \in 1 .. n |-> PowI(h - 1, b) * f[o + (h - 1)]]
  BY DEF WTerms
<1>3. o + n <= 8
  OBVIOUS
<1> HIDE DEF n, a
<1>4. ASSUME NEW h \in 1 .. n
      PROVE  /\ PowI(h - 1, b) \in Int /\ f[o + (h - 1)] \in Int /\ h - 1 \in Nat
             /\ PowI(h - 1, b) * f[o + (h - 1)] \in Int
  <2>1. h - 1 \in Nat /\ o + (h - 1) \in Slot
    BY <1>1, <1>3 DEF Slot
  <2>2. PowI(h - 1, b) \in Int
    BY <1>1, <2>1, PowIInFp, FpIsInt
  <2>3. f[o + (h - 1)] \in Int
    BY <2>1, FpIsInt DEF Vec
  <2> QED BY <2>1, <2>2, <2>3
<1>5. a \in List(Int, n)
  <2>1. \A h \in 1 .. n : PowI(h - 1, b) * f[o + (h - 1)] \in Int
    BY <1>4
  <2> QED BY <1>2, <2>1, Zenon DEF List
<1>6. \A h \in 1 .. n : a[h] = PowI(h - 1, b) * f[o + (h - 1)]
  BY <1>2
<1>7. SumSeq(a) \in Fp /\ SumSeq(a) \in Int
  BY <1>1, <1>5, SumInFp
<1> QED
  BY <1>4, <1>5, <1>6, <1>7 DEF WSum, n, a

LEMMA WSumOfOne ==
  ASSUME NEW f \in Vec, NEW b \in List(Fp, 0), NEW o \in 0 .. 7
  PROVE  Cong(WSum(f, b, 0, o), f[o])
<1> DEFINE s == 0  n == 1  a == WTerms(f, b, s, o)
<1>1. s \in {0, 1, 2, 3} /\ 2^s = n /\ o \in Nat /\ o + 2^s <= 8 /\ n = 1 /\ s = 0 /\ s \in Nat /\ b \in List(Fp, s)
  OBVIOUS
<1> HIDE DEF s
<1>2. /\ a \in List(Int, 2^s)
      /\ \A h \in 1 .. 2^s : a[h] = PowI(h - 1, b) * f[o + (h - 1)]
  BY <1>1, WTermsInt
<1>3. PICK e \in [0 .. s -> Fp] : PowIRun(e, 0, b, s) /\ PowI(0, b) = e[s]
  BY <1>1, PowISteps
<1>4. PowI(0, b) = 1
  BY <1>1, <1>3 DEF PowIRun
<1>5. f[o] \in Int
  BY FpIsInt DEF Vec, Slot
<1> HIDE DEF a
<1>6. a[1] = f[o]
  <2>1. 1 \in 1 .. 2^s /\ 1 - 1 = 0 /\ o + (1 - 1) = o
    BY <1>1
  <2>2. a[1] = 1 * f[o]
    BY <1>2, <1>4, <2>1
  <2> QED BY <1>5, <2>2
<1>7. a \in List(Int, 1)
  BY <1>1, <1>2
<1>8. Cong(SumSeq(a), a[1])
  BY <1>7, SumOfOne
<1> QED
  BY <1>6, <1>8 DEF WSum, a, s

LEMMA WSumHalves ==
  ASSUME NEW s \in {0, 1, 2}, NEW f \in Vec, NEW b \in List(Fp, s + 1), NEW o \in Nat, o + 2^(s + 1) <= 8
  PROVE  /\ Prefix(b, s) \in List(Fp, s)
         /\ Cong(WSum(f, b, s + 1, o),
                 WSum(f, Prefix(b, s), s, o) + b[s + 1] * WSum(f, Prefix(b, s), s, o + 2^s))
<1> DEFINE n == 2^s  t == s + 1  p == Prefix(b, s)  q == o + n  c == b[t]
           a == WTerms(f, b, t, o)  a1 == WTerms(f, p, s, o)  a2 == WTerms(f, p, s, q)
           r == [i \in 1 .. n |-> a[n + i]]
<1>1. n \in Nat /\ 2^t = n + n /\ o + (n + n) <= 8 /\ n \in {1, 2, 4}
  BY Bits
<1>2. t \in {0, 1, 2, 3} /\ s \in {0, 1, 2, 3} /\ s \in Nat /\ t \in 1 .. t
  OBVIOUS
<1>3. q \in Nat /\ q + n <= 8 /\ o + n <= 8
  <2> HIDE DEF n
  <2> QED BY <1>1
<1>4. 0 \in 0 .. n - 1
  <2> HIDE DEF n
  <2> QED BY <1>1
<1>5. p \in List(Fp, s)
  BY <1>4, PowIHalves
<1>6. /\ a \in List(Int, n + n)
      /\ \A h \in 1 .. n + n : a[h] = PowI(h - 1, b) * f[o + (h - 1)]
  <2>1. o + 2^t <= 8
    BY <1>1
  <2> HIDE DEF t, n
  <2>2. b \in List(Fp, t)
    BY DEF t
  <2>3. /\ a \in List(Int, 2^t)
        /\ \A h \in 1 .. 2^t : a[h] = PowI(h - 1, b) * f[o + (h - 1)]
    BY <1>2, <2>1, <2>2, WTermsInt
  <2> HIDE DEF a
  <2> QED BY <1>1, <2>3
<1>7. /\ a1 \in List(Int, n)
      /\ \A h \in 1 .. n : /\ a1[h] = PowI(h - 1, p) * f[o + (h - 1)]
                           /\ PowI(h - 1, p) \in Int /\ f[o + (h - 1)] \in Int
  BY <1>2, <1>3, <1>5, WTermsInt
<1>8. /\ a2 \in List(Int, n)
      /\ \A h \in 1 .. n : /\ a2[h] = PowI(h - 1, p) * f[q + (h - 1)]
                           /\ PowI(h - 1, p) \in Int /\ f[q + (h - 1)] \in Int
  <2> HIDE DEF q, p
  <2> QED BY <1>2, <1>3, <1>5, WTermsInt
<1>9. \A i \in 0 .. n - 1 : PowI(i, b) = PowI(i, p) /\ PowI(n + i, b) = (PowI(i, p) * c) % P
  BY PowIHalves
<1>10. c \in Int
  BY <1>2, FpIsInt DEF List
<1> HIDE DEF n, c, p, q, a, a1, a2
<1>11. Prefix(a, n) = a1
  <2>1. \A h \in 1 .. n : a[h] = a1[h]
    <3>1. ASSUME NEW h \in 1 .. n PROVE a[h] = a1[h]
      <4>1. h \in 1 .. n + n /\ h - 1 \in 0 .. n - 1
        BY <1>1
      <4> QED BY <1>6, <1>7, <1>9, <4>1
    <3> QED BY <3>1
  <2>2. a1 = [h \in 1 .. n |-> a1[h]]
    BY <1>7 DEF List
  <2>3. Prefix(a, n) = [h \in 1 .. n |-> a[h]]
    BY DEF Prefix
  <2> QED BY <2>1, <2>2, <2>3, Zenon
<1>12. /\ Prefix(a, n) \in List(Int, n) /\ r \in List(Int, n)
       /\ Cong(SumSeq(a), SumSeq(Prefix(a, n)) + SumSeq(r))
  BY <1>1, <1>6, SumSplit
<1>13. ASSUME NEW i \in 1 .. n PROVE Cong(r[i], c * a2[i])
  <2>1. n + i \in 1 .. n + n /\ i - 1 \in 0 .. n - 1 /\ (n + i) - 1 = n + (i - 1)
        /\ o + ((n + i) - 1) = q + (i - 1)
    BY <1>1 DEF q
  <2> DEFINE w == PowI(i - 1, p)  y == f[q + (i - 1)]  v == PowI(n + (i - 1), b)
  <2>2. r[i] = v * y
    <3>1. r[i] = a[n + i]
      OBVIOUS
    <3>2. a[n + i] = PowI((n + i) - 1, b) * f[o + ((n + i) - 1)]
      BY <1>6, <2>1
    <3> QED BY <2>1, <3>1, <3>2
  <2>3. a2[i] = w * y /\ w \in Int /\ y \in Int
    BY <1>8
  <2>4. v = (w * c) % P
    BY <1>9, <2>1
  <2> HIDE DEF w, y, v, r
  <2>5. Cong(v, w * c) /\ v \in Int
    <3> DEFINE z == w * c
    <3>1. z \in Int
      BY <1>10, <2>3
    <3> HIDE DEF z
    <3>2. v = z % P
      BY <2>4 DEF z
    <3> QED BY <3>1, <3>2, CongOfMod, ModInFp, FpIsInt DEF z
  <2>6. PICK k \in Int : v = w * c + k * P
    BY <2>5 DEF Cong
  <2> DEFINE ky == k * y  wy == w * y  wc == w * c  kp == k * P
  <2>7. v * y = c * wy + ky * P
    <3>1. (wc + kp) * y = wc * y + kp * y
      BY <1>10, <2>3, PAssumption
    <3>2. wc * y = c * wy /\ kp * y = ky * P
      BY <1>10, <2>3, PAssumption
    <3> QED BY <2>6, <3>1, <3>2
  <2>8. ky \in Int
    BY <2>3
  <2> HIDE DEF ky, wy
  <2>9. r[i] = c * a2[i] + ky * P
    BY <2>2, <2>3, <2>7 DEF wy
  <2> QED BY <2>8, <2>9 DEF Cong
<1> HIDE DEF r
<1>14. Cong(SumSeq(r), c * SumSeq(a2))
  BY <1>1, <1>8, <1>10, <1>12, <1>13, SumScaled
<1> DEFINE x == SumSeq(a)  x1 == SumSeq(a1)  x2 == SumSeq(a2)  xr == SumSeq(r)  cx == c * x2
<1>15. x \in Int /\ x1 \in Int /\ x2 \in Int /\ xr \in Int /\ cx \in Int
  <2>1. x1 \in Int /\ x2 \in Int /\ xr \in Int
    BY <1>1, <1>7, <1>8, <1>12, SumInFp
  <2>2. x \in Int
    <3> DEFINE m == n + n
    <3>1. m \in Nat
      BY <1>1
    <3> HIDE DEF m
    <3>2. a \in List(Int, m)
      BY <1>6 DEF m
    <3> QED BY <3>1, <3>2, SumInFp
  <2>3. cx \in Int
    BY <1>10, <2>1
  <2> QED BY <2>1, <2>2, <2>3
<1>16. Cong(x, x1 + xr) /\ Cong(xr, cx)
  BY <1>11, <1>12, <1>14
<1> HIDE DEF x, x1, x2, xr, cx
<1>17. Cong(x, x1 + cx)
  <2>1. x1 + xr \in Int /\ x1 + cx \in Int /\ Cong(x1, x1)
    BY <1>15, CongRefl
  <2>2. Cong(x1 + xr, x1 + cx)
    BY <1>15, <1>16, <2>1, CongAdd
  <2> QED BY <1>15, <1>16, <2>1, <2>2, CongTrans
<1>18. x = WSum(f, b, t, o) /\ x1 = WSum(f, p, s, o) /\ x2 = WSum(f, p, s, q)
  BY DEF x, x1, x2, a, a1, a2, WSum
<1>19. Cong(WSum(f, b, t, o), WSum(f, p, s, o) + c * WSum(f, p, s, q))
  BY <1>17, <1>18 DEF cx
<1> QED
  BY <1>5, <1>19 DEF t, p, q, c, n

\* All of them weighed.
LEMMA WSumIs ==
  ASSUME NEW t \in Sizes, NEW f \in Vec, NEW b \in List(Fp, t)
  PROVE  Cong(WeighedError(f, b), WSum(f, b, t, 0))
<1> DEFINE n == 2^t  r == [i \in 1 .. n |-> PowList(b, n)[i] * ErrorList(f, n)[i]]  a == WTerms(f, b, t, 0)
<1>1. n \in Nat /\ \A i \in 1 .. n : i - 1 \in Slot
  BY SizesAre
<1>2. Cong(WeighedError(f, b), SumSeq(r))
  BY WeighedErrorSum
<1>3. a = [h \in 1 .. n |-> PowI(h - 1, b) * f[0 + (h - 1)]]
  BY DEF WTerms
<1> HIDE DEF n
<1>4. \A i \in 1 .. n : PowList(b, n)[i] = PowI(i - 1, b) /\ ErrorList(f, n)[i] = f[i - 1] /\ 0 + (i - 1) = i - 1
  BY <1>1 DEF PowList, ErrorList
<1>5. r = a
  <2>1. \A i \in 1 .. n : PowList(b, n)[i] * ErrorList(f, n)[i] = PowI(i - 1, b) * f[0 + (i - 1)]
    BY <1>4
  <2> QED BY <1>3, <2>1
<1> HIDE DEF r, a
<1> QED
  BY <1>2, <1>5 DEF WSum, a

----------------------------------------------------------------------------
\* A node's polynomial has as its value at x the weighed error of the constraints
\* below it, for the betas c = b + x d; without an error of the last of them its
\* highest coefficient is zero.
NodeOk(f, b, d, c, x, s, i, o, last) ==
  LET v == Node(f, b, d, s, i)
  IN  /\ v \in List(Fp, s + 1)
      /\ Cong(PolyEval(v, x), WSum(f, Prefix(c, s), s, o))
      /\ f[last] = 0 => v[s + 1] = 0

TreeOk(f, b, d, c, x, s) ==
  \A i \in Nat : (i + 1) * 2^s <= 8 => NodeOk(f, b, d, c, x, s, i, i * 2^s, (i + 1) * 2^s - 1)

Betas(t, b, d, c, x) ==
  /\ b \in List(Fp, t) /\ d \in List(Fp, t) /\ c \in List(Fp, t) /\ x \in Fp
  /\ \A j \in 1 .. t : Cong(c[j], b[j] + x * d[j])

LEMMA LeavesOk ==
  ASSUME NEW t \in Sizes, NEW f \in Vec, NEW b, NEW d, NEW c, NEW x, Betas(t, b, d, c, x)
  PROVE  TreeOk(f, b, d, c, x, 0)
<1> SUFFICES ASSUME NEW i \in Nat, (i + 1) * 2^0 <= 8 PROVE NodeOk(f, b, d, c, x, 0, i, i * 2^0, (i + 1) * 2^0 - 1)
  BY DEF TreeOk
<1>1. 2^0 = 1 /\ 0 + 1 = 1
  OBVIOUS
<1>2. i * 2^0 = i /\ (i + 1) * 2^0 - 1 = i /\ i \in 0 .. 7
  <2> DEFINE e == 2^0
  <2>1. e = 1 /\ (i + 1) * e <= 8
    BY <1>1
  <2> HIDE DEF e
  <2>2. i * e = i /\ (i + 1) * e = i + 1
    BY <2>1
  <2> QED BY <2>1, <2>2 DEF e
<1> DEFINE v == Node(f, b, d, 0, i)  y == f[i]
<1>3. v = <<y>> /\ y \in Fp
  BY <1>2 DEF Node, Leaf, Vec, Slot
<1> HIDE DEF y
<1>4. v \in List(Fp, 1) /\ v[1] = y
  BY <1>3 DEF List
<1>5. Prefix(c, 0) \in List(Fp, 0)
  <2>1. t \in Nat /\ 0 \in 0 .. t /\ c \in List(Fp, t)
    BY SizesAre DEF Betas
  <2> QED BY <2>1, PrefixIs
<1> DEFINE w == WSum(f, Prefix(c, 0), 0, i)  p == PolyEval(v, x)
<1>6. Cong(w, y) /\ w \in Int
  <2>1. Cong(w, f[i])
    BY <1>2, <1>5, WSumOfOne
  <2> DEFINE s == 0
  <2>2. s \in {0, 1, 2, 3} /\ i \in Nat /\ i + 2^s <= 8 /\ Prefix(c, s) \in List(Fp, s)
    BY <1>1, <1>2, <1>5
  <2> HIDE DEF s
  <2>3. WSum(f, Prefix(c, s), s, i) \in Int
    BY <2>2, WTermsInt
  <2> QED BY <2>1, <2>3 DEF s, y
<1>7. p \in Int /\ Cong(p, y)
  <2>1. x \in Int /\ v \in List(Int, 1)
    BY <1>4, FpIsInt DEF Betas, List
  <2> HIDE DEF v
  <2> QED BY <1>4, <2>1, PolyOfOne
<1> HIDE DEF w, p
<1>8. Cong(p, w)
  <2>1. y \in Int
    BY <1>3, FpIsInt
  <2> QED BY <1>6, <1>7, <2>1, CongSym, CongTrans
<1>9. NodeOk(f, b, d, c, x, 0, i, i, i)
  <2> HIDE DEF v
  <2> QED BY <1>1, <1>4, <1>8 DEF NodeOk, v, w, p, y
<1> QED
  BY <1>2, <1>9

LEMMA LevelOk ==
  ASSUME NEW t \in Sizes, NEW f \in Vec, NEW b, NEW d, NEW c, NEW x, Betas(t, b, d, c, x),
         NEW s \in {0, 1, 2}, s < t, TreeOk(f, b, d, c, x, s)
  PROVE  TreeOk(f, b, d, c, x, s + 1)
<1> DEFINE r == s + 1  n == 2^s  g == 2^r
<1>1. n \in Nat /\ n > 0 /\ g = n + n
  <2>1. n \in {1, 2, 4} /\ 2^(s + 1) = 2^s + 2^s
    BY Bits
  <2> QED BY <2>1
<1>2. /\ t \in Nat /\ s \in Nat /\ r \in 1 .. 3 /\ r \in 1 .. t /\ r - 1 = s /\ s \in 0 .. t /\ r \in 0 .. t
      /\ s \in {0, 1, 2, 3} /\ r \in {0, 1, 2, 3}
  BY SizesAre DEF Sizes
<1>3. \A i \in Nat : (i + 1) * n <= 8 => NodeOk(f, b, d, c, x, s, i, i * n, (i + 1) * n - 1)
  BY DEF TreeOk
<1> SUFFICES ASSUME NEW i \in Nat, (i + 1) * g <= 8 PROVE NodeOk(f, b, d, c, x, r, i, i * g, (i + 1) * g - 1)
  BY DEF TreeOk
<1> DEFINE j == 2 * i  k == 2 * i + 1  m == i * n  o == m + m  q == o + n  z == q + n
           br == b[r]  dr == d[r]  cr == c[r]
           v == Node(f, b, d, r, i)  l == Node(f, b, d, s, j)  h == Node(f, b, d, s, k)
           p == Prefix(c, s)  pr == Prefix(c, r)
<1>4. c \in List(Fp, t) /\ p \in List(Fp, s) /\ pr \in List(Fp, r) /\ Prefix(pr, s) = p /\ pr[r] = cr
  <2>1. c \in List(Fp, t)
    BY DEF Betas
  <2>2. p \in List(Fp, s) /\ pr \in List(Fp, r)
    BY <1>2, <2>1, PrefixIs
  <2>3. \A u \in 1 .. s : u \in 1 .. r
    BY <1>2
  <2>4. r \in 1 .. r
    BY <1>2
  <2> QED BY <2>1, <2>2, <2>3, <2>4 DEF Prefix
<1>5. br \in Fp /\ dr \in Fp /\ cr \in Fp /\ x \in Fp /\ Cong(cr, br + x * dr)
  BY <1>2 DEF Betas, List
<1>6. v = AddLinear(br, dr, l, h)
  <2>1. Node(f, b, d, r, i) = AddLinear(b[r], d[r], Node(f, b, d, r - 1, 2 * i), Node(f, b, d, r - 1, 2 * i + 1))
    <3> HIDE DEF r
    <3> QED BY <1>2, NodeIs
  <2>2. r - 1 = s
    BY <1>2
  <2> HIDE DEF r
  <2> QED BY <2>1, <2>2
<1> HIDE DEF n, g
<1>7. /\ m \in Nat /\ o \in Nat /\ q \in Nat /\ z \in Nat /\ z <= 8
      /\ i * g = o /\ (i + 1) * g = z /\ j * n = o /\ (j + 1) * n = q /\ k * n = q /\ (k + 1) * n = z
      /\ j \in Nat /\ k \in Nat
  <2>1. m \in Nat /\ j \in Nat /\ k \in Nat
    BY <1>1
  <2>2. i * (n + n) = m + m /\ (i + 1) * (n + n) = m + m + n + n /\ (2 * i) * n = m + m
        /\ (2 * i + 1) * n = m + m + n /\ (2 * i + 1 + 1) * n = m + m + n + n
    BY <1>1
  <2> HIDE DEF m
  <2> QED BY <1>1, <2>1, <2>2
<1>8. NodeOk(f, b, d, c, x, s, j, o, q - 1) /\ NodeOk(f, b, d, c, x, s, k, q, z - 1)
  <2>1. q <= 8
    BY <1>1, <1>7
  <2> HIDE DEF j, k, o, q, z
  <2> QED BY <1>3, <1>7, <2>1
<1> HIDE DEF j, k, m, br, dr, cr, v, p, pr, l, h
<1> DEFINE wl == WSum(f, p, s, o)  wh == WSum(f, p, s, q)  w == WSum(f, pr, r, o)
           el == PolyEval(l, x)  eh == PolyEval(h, x)  e == PolyEval(v, x)
<1>9. /\ l \in List(Fp, r) /\ Cong(el, wl)
      /\ h \in List(Fp, r) /\ Cong(eh, wh) /\ (f[z - 1] = 0 => h[r] = 0)
  BY <1>8 DEF NodeOk, l, h, p
<1>10. Cong(w, wl + cr * wh) /\ w \in Int /\ wl \in Int /\ wh \in Int
  <2>1. o + 2^(s + 1) <= 8 /\ o + 2^s <= 8 /\ q + 2^s <= 8 /\ o + 2^r <= 8
    BY <1>1, <1>7 DEF n, g
  <2>2. w \in Int /\ wl \in Int /\ wh \in Int
    <3> HIDE DEF r, o, q
    <3> QED BY <1>2, <1>4, <1>7, <2>1, WTermsInt
  <2>3. Cong(WSum(f, pr, s + 1, o), WSum(f, Prefix(pr, s), s, o) + pr[s + 1] * WSum(f, Prefix(pr, s), s, o + 2^s))
    <3> HIDE DEF o, q
    <3> QED BY <1>4, <1>7, <2>1, WSumHalves
  <2> QED BY <1>4, <2>2, <2>3 DEF n
<1>11. /\ v \in List(Fp, r + 1) /\ Cong(v[r + 1], dr * h[r])
       /\ Cong(e, el + (br + x * dr) * eh)
  <2>1. r \in Nat \ {0} /\ x \in Int
    BY <1>2, <1>5, FpIsInt
  <2> HIDE DEF r, v
  <2>2. v \in List(Fp, r + 1) /\ Cong(v[r + 1], dr * h[r])
    BY <1>5, <1>6, <1>9, <2>1, AddLinearEval
  <2>3. \A y \in Int : Cong(PolyEval(AddLinear(br, dr, l, h), y), PolyEval(l, y) + (br + y * dr) * PolyEval(h, y))
    BY <1>5, <1>9, <2>1, AddLinearEval
  <2> QED BY <1>6, <2>1, <2>2, <2>3
<1>12. e \in Int /\ el \in Int /\ eh \in Int /\ br \in Int /\ dr \in Int /\ cr \in Int /\ x \in Int
  <2>1. r \in Nat /\ r + 1 \in Nat /\ x \in Int
    BY <1>2, <1>5, FpIsInt
  <2>2. l \in List(Int, r) /\ h \in List(Int, r) /\ v \in List(Int, r + 1)
    <3> HIDE DEF r
    <3> QED BY <1>9, <1>11, ListInt
  <2>3. el \in Int /\ eh \in Int
    <3> HIDE DEF r
    <3> QED BY <2>1, <2>2, PolyInFp
  <2>4. e \in Int
    <3> DEFINE u == r + 1
    <3> HIDE DEF u
    <3>1. u \in Nat /\ v \in List(Int, u)
      BY <2>1, <2>2 DEF u
    <3> QED BY <2>1, <3>1, PolyInFp
  <2> QED BY <1>5, <2>1, <2>3, <2>4, FpIsInt
<1> HIDE DEF wl, wh, w, el, eh, e
<1>13. Cong(e, w)
  <2> DEFINE bx == br + x * dr
  <2>1. bx \in Int
    BY <1>12
  <2>2. Cong(cr, bx)
    BY <1>5
  <2> HIDE DEF bx
  <2>3. Cong(e, el + bx * eh)
    BY <1>11 DEF bx
  <2>4. PICK i1 \in Int : e = el + bx * eh + i1 * P
    BY <2>3 DEF Cong
  <2>5. PICK i2 \in Int : el = wl + i2 * P
    BY <1>9 DEF Cong
  <2>6. PICK i3 \in Int : eh = wh + i3 * P
    BY <1>9 DEF Cong
  <2>7. PICK i4 \in Int : cr = bx + i4 * P
    BY <2>2 DEF Cong
  <2>8. PICK i5 \in Int : w = wl + cr * wh + i5 * P
    BY <1>10 DEF Cong
  <2> DEFINE bw == bx * wh  b3 == bx * i3  w4 == wh * i4  q1 == i1 * P  q2 == i2 * P  q3 == b3 * P  q4 == w4 * P  q5 == i5 * P
  <2>9. bw \in Int /\ b3 \in Int /\ w4 \in Int /\ q1 \in Int /\ q2 \in Int /\ q3 \in Int /\ q4 \in Int /\ q5 \in Int
    BY <1>10, <2>1, PAssumption
  <2>10. bx * eh = bw + q3
    BY <1>10, <2>1, <2>6, PAssumption
  <2>11. cr * wh = bw + q4
    BY <1>10, <2>1, <2>7, PAssumption
  <2>12. (i1 + i2 + b3 - w4 - i5) * P = q1 + q2 + q3 - q4 - q5
    BY <2>9, PAssumption
  <2>13. i1 + i2 + b3 - w4 - i5 \in Int
    BY <2>9
  <2> HIDE DEF bw, q1, q2, q3, q4, q5, b3, w4
  <2>14. e = el + (bw + q3) + q1 /\ el = wl + q2 /\ w = wl + (bw + q4) + q5
    BY <2>4, <2>5, <2>8, <2>10, <2>11 DEF q1, q2, q5
  <2>15. e = w + (q1 + q2 + q3 - q4 - q5)
    BY <1>10, <2>9, <2>14
  <2>16. e = w + (i1 + i2 + b3 - w4 - i5) * P
    BY <2>12, <2>15
  <2> QED BY <2>13, <2>16 DEF Cong
<1>14. ASSUME f[z - 1] = 0 PROVE v[r + 1] = 0
  <2>1. h[r] = 0
    BY <1>9, <1>14
  <2>2. Cong(v[r + 1], 0)
    <3>1. dr * 0 = 0
      BY <1>12
    <3> QED BY <1>11, <2>1, <3>1
  <2>3. v[r + 1] \in Fp
    <3>1. r + 1 \in 1 .. r + 1
      BY <1>2
    <3> QED BY <1>11, <3>1 DEF List
  <2> QED BY <2>2, <2>3, EqOfCong, ZeroOneInFp
<1>15. NodeOk(f, b, d, c, x, r, i, o, z - 1)
  <2> HIDE DEF r, o, z
  <2> QED BY <1>11, <1>13, <1>14 DEF NodeOk, v, w, e, pr
<1> QED
  BY <1>7, <1>15

LEMMA RootOk ==
  ASSUME NEW t \in Sizes, NEW f \in Vec, NEW b, NEW d, NEW c, NEW x, Betas(t, b, d, c, x)
  PROVE  NodeOk(f, b, d, c, x, t, 0, 0, 2^t - 1)
<1>1. TreeOk(f, b, d, c, x, 0)
  BY LeavesOk
<1>2. t >= 1 /\ (t = 1 \/ t = 2 \/ t = 3) /\ t \in Nat
  BY DEF Sizes
<1>3. TreeOk(f, b, d, c, x, 1)
  <2> DEFINE s == 0  r == s + 1
  <2>1. s \in {0, 1, 2} /\ s < t /\ TreeOk(f, b, d, c, x, s) /\ s + 1 = 1
    BY <1>1, <1>2
  <2> HIDE DEF s
  <2>2. TreeOk(f, b, d, c, x, s + 1)
    BY <2>1, LevelOk
  <2> QED BY <2>1, <2>2
<1>4. ASSUME t # 1 PROVE TreeOk(f, b, d, c, x, 2)
  <2> DEFINE s == 1
  <2>1. s \in {0, 1, 2} /\ s < t /\ TreeOk(f, b, d, c, x, s) /\ s + 1 = 2
    BY <1>2, <1>3, <1>4
  <2> HIDE DEF s
  <2>2. TreeOk(f, b, d, c, x, s + 1)
    BY <2>1, LevelOk
  <2> QED BY <2>1, <2>2
<1>5. ASSUME t = 3 PROVE TreeOk(f, b, d, c, x, 3)
  <2> DEFINE s == 2
  <2>1. s \in {0, 1, 2} /\ s < t /\ TreeOk(f, b, d, c, x, s) /\ s + 1 = 3
    BY <1>4, <1>5
  <2> HIDE DEF s
  <2>2. TreeOk(f, b, d, c, x, s + 1)
    BY <2>1, LevelOk
  <2> QED BY <2>1, <2>2
<1>6. TreeOk(f, b, d, c, x, t)
  <2>1. CASE t = 1
    BY <1>3, <2>1
  <2>2. CASE t = 2
    BY <1>4, <2>2
  <2>3. CASE t = 3
    BY <1>5, <2>3
  <2> QED BY <1>2, <2>1, <2>2, <2>3
<1> DEFINE n == 2^t  i == 0
<1>7. n \in Nat /\ n <= 8
  <2>1. n \in {2, 4, 8}
    BY SizesAre
  <2> HIDE DEF n
  <2> QED BY <2>1
<1>8. \A h \in Nat : (h + 1) * n <= 8 => NodeOk(f, b, d, c, x, t, h, h * n, (h + 1) * n - 1)
  BY <1>6 DEF TreeOk
<1> HIDE DEF n
<1>9. (i + 1) * n = n /\ i * n = 0 /\ i \in Nat /\ i = 0
  BY <1>7
<1> HIDE DEF i
<1>10. NodeOk(f, b, d, c, x, t, i, i * n, (i + 1) * n - 1)
  BY <1>7, <1>8, <1>9
<1> QED
  BY <1>9, <1>10 DEF n

LEMMA BetasStarOf ==
  ASSUME NEW t \in Sizes, NEW b \in List(Fp, t), NEW d \in List(Fp, t), NEW a \in Fp
  PROVE  /\ BetasStar(b, d, a) \in List(Fp, t)
         /\ Betas(t, b, d, BetasStar(b, d, a), a)
<1> DEFINE g == [j \in 1 .. t |-> Rlc(b[j], a, d[j])]
<1>1. t \in Nat
  BY SizesAre
<1>2. BetasStar(b, d, a) = <<>> \o g
  <2>1. Len(b) = t
    BY <1>1 DEF List
  <2> QED BY <2>1 DEF BetasStar, Collect
<1>3. ASSUME NEW j \in 1 .. t
      PROVE  g[j] = Rlc(b[j], a, d[j]) /\ Rlc(b[j], a, d[j]) \in Fp /\ Cong(Rlc(b[j], a, d[j]), b[j] + a * d[j])
  <2>1. b[j] \in Int /\ a \in Int /\ d[j] \in Int
    BY FpIsInt DEF List
  <2> QED BY <2>1, RlcInt
<1>4. g \in [1 .. t -> Fp]
  <2>1. g = [j \in 1 .. t |-> g[j]]
    OBVIOUS
  <2> HIDE DEF g
  <2> QED BY <1>3, <2>1
<1> HIDE DEF g
<1>5. <<>> \o g = g
  BY <1>1, <1>4, CollectIs
<1>6. g \in List(Fp, t) /\ \A j \in 1 .. t : Cong(g[j], b[j] + a * d[j])
  BY <1>3, <1>4 DEF List
<1>7. BetasStar(b, d, a) = g
  BY <1>2, <1>5
<1> QED
  BY <1>6, <1>7 DEF Betas

LEMMA ExponentialPowersOf ==
  ASSUME NEW t \in Sizes, NEW b \in Fp PROVE ExponentialPowers(b, t) \in List(Fp, t)
<1> DEFINE Rec(h) == h = [j \in 1 .. t |-> IF j = 1 THEN b ELSE (h[j - 1] * h[j - 1]) % P]
           c == CHOOSE h : Rec(h)
           q == (b * b) % P  r == (q * q) % P
           e == [j \in 1 .. t |-> IF j = 1 THEN b ELSE IF j = 2 THEN q ELSE r]
           g == [j \in 1 .. t |-> c[j]]
<1>1. ExponentialPowers(b, t) = <<>> \o g
  BY DEF ExponentialPowers, Collect
<1>2. t \in Nat /\ t >= 1 /\ \A j \in 1 .. t : /\ (j = 1 \/ j = 2 \/ j = 3)
                                               /\ (j = 2 => j - 1 = 1 /\ j # 1)
                                               /\ (j = 3 => j - 1 = 2 /\ j # 1 /\ j # 2 /\ 2 # 1)
                                               /\ (j # 1 => j - 1 \in 1 .. t)
  BY SizesAre DEF Sizes
<1>3. Rec(e)
  <2>1. ASSUME NEW j \in 1 .. t PROVE e[j] = IF j = 1 THEN b ELSE (e[j - 1] * e[j - 1]) % P
    <3>1. e[j] = IF j = 1 THEN b ELSE IF j = 2 THEN q ELSE r
      OBVIOUS
    <3>2. j # 1 => e[j - 1] = IF j - 1 = 1 THEN b ELSE IF j - 1 = 2 THEN q ELSE r
      BY <1>2
    <3>3. CASE j = 1
      BY <3>1, <3>3
    <3>4. CASE j = 2
      <4>1. e[j] = q /\ e[j - 1] = b
        BY <1>2, <3>1, <3>2, <3>4
      <4> QED BY <3>4, <4>1
    <3>5. CASE j = 3
      <4>1. e[j] = r /\ e[j - 1] = q
        BY <1>2, <3>1, <3>2, <3>5
      <4> HIDE DEF e, q
      <4> QED BY <3>5, <4>1
    <3> QED BY <1>2, <3>3, <3>4, <3>5
  <2>2. e = [j \in 1 .. t |-> e[j]]
    OBVIOUS
  <2> HIDE DEF e
  <2> QED BY <2>1, <2>2
<1>4. Rec(c)
  <2> HIDE DEF Rec
  <2> QED BY <1>3
<1> HIDE DEF c
<1>5. ASSUME NEW j \in 1 .. t PROVE c[j] = IF j = 1 THEN b ELSE (c[j - 1] * c[j - 1]) % P
  <2> DEFINE R(i) == (c[i - 1] * c[i - 1]) % P
  <2>1. c = [i \in 1 .. t |-> IF i = 1 THEN b ELSE R(i)]
    BY <1>4
  <2> HIDE DEF R
  <2>2. c[j] = IF j = 1 THEN b ELSE R(j)
    BY <2>1
  <2> QED BY <2>2 DEF R
<1>6. \A y \in Fp : (y * y) % P \in Fp
  BY SquareInFp
<1>7. ASSUME NEW j \in 1 .. t PROVE c[j] \in Fp
  <2>1. CASE j = 1
    BY <1>5, <2>1
  <2>2. CASE j = 2
    <3>1. 1 \in 1 .. t
      BY <1>2
    <3>2. c[1] = b
      BY <1>5, <3>1
    <3>3. c[j] = (c[1] * c[1]) % P
      BY <1>2, <1>5, <2>2
    <3> QED BY <1>6, <3>2, <3>3
  <2>3. CASE j = 3
    <3>1. 1 \in 1 .. t /\ 2 \in 1 .. t
      BY <1>2, <2>3
    <3>2. c[1] = b
      BY <1>5, <3>1
    <3>3. c[2] = (c[1] * c[1]) % P
      <4>1. c[2] = (c[2 - 1] * c[2 - 1]) % P
        BY <1>5, <3>1
      <4> QED BY <4>1
    <3>4. c[j] = (c[2] * c[2]) % P
      BY <1>2, <1>5, <2>3
    <3> QED BY <1>6, <3>2, <3>3, <3>4
  <2> QED BY <1>2, <2>1, <2>2, <2>3
<1>8. g \in [1 .. t -> Fp]
  BY <1>7
<1> HIDE DEF g
<1>9. <<>> \o g = g
  BY <1>2, <1>8, CollectIs
<1> QED
  BY <1>1, <1>8, <1>9 DEF List

\* At zero a polynomial has its constant term as its value.
LEMMA EvalAtZero ==
  ASSUME NEW n \in Nat, NEW v \in List(Fp, n + 1) PROVE PolyEval(v, 0) = v[1]
<1> DEFINE m == n + 1  o == 0
<1>1. m \in Nat /\ o \in Int /\ m \in 1 .. m /\ m - 1 \in 0 .. m /\ m + 1 - m = 1 /\ 1 \in 1 .. m
  OBVIOUS
<1>2. v \in List(Int, m)
  BY ListInt
<1> HIDE DEF m, o
<1>3. PICK h \in [0 .. m -> Fp] : HornerRun(h, v, o, m) /\ PolyEval(v, o) = h[m]
  BY <1>1, <1>2, PolyRun
<1>4. h[m] = Rlc(v[1], o, h[m - 1])
  <2>1. h[m] = Rlc(v[m + 1 - m], o, h[m - 1])
    BY <1>1, <1>3 DEF HornerRun
  <2> QED BY <1>1, <2>1
<1> DEFINE y == h[m - 1]  z == v[1]
<1>5. y \in Int /\ z \in Fp
  <2>1. y \in Fp
    BY <1>1, <1>3
  <2>2. z \in Fp
    BY <1>1 DEF List, m
  <2> QED BY <2>1, <2>2, FpIsInt
<1> HIDE DEF y, z
<1>6. Rlc(z, o, y) = z
  <2>1. z + o * y = z
    BY <1>5, FpIsInt DEF o
  <2> QED BY <1>5, <2>1, ModOfFp DEF Rlc
<1> QED
  BY <1>3, <1>4, <1>6 DEF y, z, o

\* F(X): its constant term is the running error, its value at alpha that at the new
\* betas.
LEMMA FOfTree ==
  ASSUME NEW t \in Sizes, NEW f \in Vec, NEW b \in List(Fp, t), NEW d \in List(Fp, t), NEW a \in Fp
  PROVE  LET F_X == CalcFFromBtree(f, b, d)
         IN  /\ F_X \in List(Fp, t + 1)
             /\ F_X[1] = WeighedError(f, b)
             /\ PolyEval(F_X, a) = WeighedError(f, BetasStar(b, d, a))
             /\ f[2^t - 1] = 0 => F_X[t + 1] = 0
<1> DEFINE F_X == CalcFFromBtree(f, b, d)  c == BetasStar(b, d, a)  m == 2^t - 1
<1>1. t \in Nat /\ t \in 0 .. t /\ t \in {0, 1, 2, 3} /\ 0 + 2^t <= 8
  <2>1. 2^t \in {2, 4, 8}
    BY SizesAre
  <2> QED BY <2>1, SizesAre DEF Sizes
<1>2. Node(f, b, d, t, 0) = F_X
  BY TreeOf
<1>3. c \in List(Fp, t) /\ Betas(t, b, d, c, a)
  BY BetasStarOf
<1> HIDE DEF F_X, c, m
<1>4. ASSUME NEW g \in List(Fp, t), NEW x \in Fp, Betas(t, b, d, g, x)
      PROVE  /\ F_X \in List(Fp, t + 1) /\ (f[m] = 0 => F_X[t + 1] = 0)
             /\ PolyEval(F_X, x) = WeighedError(f, g)
  <2>1. NodeOk(f, b, d, g, x, t, 0, 0, m)
    BY <1>4, RootOk DEF m
  <2>2. Prefix(g, t) = g
    BY <1>1, PrefixIs
  <2> DEFINE y == PolyEval(F_X, x)  w == WSum(f, g, t, 0)  e == WeighedError(f, g)
  <2>3. F_X \in List(Fp, t + 1) /\ Cong(y, w) /\ (f[m] = 0 => F_X[t + 1] = 0)
    BY <1>2, <2>1, <2>2 DEF NodeOk
  <2>4. e \in Fp /\ Cong(e, w)
    BY WeighedErrorSum, WSumIs
  <2>5. w \in Int
    <3> DEFINE o == 0
    <3>1. o \in Nat /\ o + 2^t <= 8
      BY <1>1
    <3> HIDE DEF o
    <3>2. WSum(f, g, t, o) \in Int
      BY <1>1, <3>1, WTermsInt
    <3> QED BY <3>2 DEF o
  <2>6. y \in Fp
    <3> DEFINE u == t + 1
    <3>1. u \in Nat /\ F_X \in List(Int, u) /\ x \in Int
      BY <1>1, <2>3, ListInt, FpIsInt
    <3> HIDE DEF u
    <3> QED BY <3>1, PolyInFp
  <2> HIDE DEF y, w, e
  <2>7. y \in Int /\ e \in Int
    BY <2>4, <2>6, FpIsInt
  <2>8. Cong(y, e)
    BY <2>3, <2>4, <2>5, <2>7, CongSym, CongTrans
  <2>9. y = e
    BY <2>4, <2>6, <2>8, EqOfCong
  <2> QED BY <2>3, <2>9 DEF y, e
<1>5. Betas(t, b, d, b, 0)
  <2>1. ASSUME NEW j \in 1 .. t PROVE Cong(b[j], b[j] + 0 * d[j])
    <3> DEFINE y == b[j]  z == d[j]
    <3>1. y \in Int /\ z \in Int
      BY FpIsInt DEF List
    <3> HIDE DEF y, z
    <3>2. y + 0 * z = y
      BY <3>1
    <3>3. Cong(y, y + 0 * z)
      BY <3>1, <3>2, CongRefl
    <3> QED BY <3>3 DEF y, z
  <2> QED BY <2>1, ZeroOneInFp DEF Betas
<1>6. F_X \in List(Fp, t + 1) /\ PolyEval(F_X, 0) = WeighedError(f, b)
  BY <1>4, <1>5, ZeroOneInFp
<1>7. F_X[1] = WeighedError(f, b)
  BY <1>1, <1>6, EvalAtZero
<1>8. PolyEval(F_X, a) = WeighedError(f, c) /\ (f[m] = 0 => F_X[t + 1] = 0)
  BY <1>3, <1>4
<1> QED
  BY <1>6, <1>7, <1>8 DEF F_X, c, m

\* What the prover sends of F(X) loses nothing when the last constraint is satisfied,
\* and the verifier evaluates it to the same value if its e is the constant term.
LEMMA SentOfTree ==
  ASSUME NEW t \in Sizes, NEW f \in Vec, NEW b \in List(Fp, t), NEW d \in List(Fp, t), NEW a \in Fp,
         NEW U, U.e = WeighedError(f, b)
  PROVE  LET F_X == CalcFFromBtree(f, b, d)
             F_c == Resize(F_X, t)
         IN  /\ F_c \in List(Fp, t)
             /\ f[2^t - 1] = 0 => VerifierFAlpha(U, F_c, a) = PolyEval(F_X, a)
<1> DEFINE F_X == CalcFFromBtree(f, b, d)
           F_c == Resize(F_X, t)
           g == [F_c EXCEPT ![1] = U.e]
           n == t + 1
<1>1. F_X \in List(Fp, n) /\ F_X[1] = U.e /\ (f[2^t - 1] = 0 => F_X[n] = 0)
  BY FOfTree
<1>2. t \in Nat /\ n \in Nat /\ t \in 0 .. n /\ 1 \in 1 .. t /\ 1 <= n
      /\ (\A j \in 1 .. t : j <= n) /\ \A j \in t + 1 .. n : j = n
  BY SizesAre DEF Sizes
<1> HIDE DEF F_X, n
<1>3. F_c \in List(Fp, t) /\ \A j \in 1 .. t : F_c[j] = F_X[j]
  BY <1>1, <1>2, ResizeIs DEF Coefficient
<1>4. g = F_c
  <2> HIDE DEF F_c
  <2>1. F_c[1] = U.e
    BY <1>1, <1>2, <1>3
  <2> QED BY <1>2, <1>3, <2>1 DEF List
<1>5. ASSUME f[2^t - 1] = 0 PROVE PolyEval(F_c, a) = PolyEval(F_X, a)
  <2>1. F_X \in List(Int, n) /\ F_c \in List(Int, t) /\ a \in Int
    BY <1>1, <1>3, ListInt, FpIsInt
  <2>2. \A j \in t + 1 .. n : F_X[j] = 0
    BY <1>1, <1>2, <1>5
  <2> HIDE DEF F_c
  <2> QED BY <1>2, <1>3, <2>1, <2>2, PolyPadded
<1>6. VerifierFAlpha(U, F_c, a) = PolyEval(g, a)
  BY DEF VerifierFAlpha
<1> QED
  BY <1>3, <1>4, <1>5, <1>6 DEF F_c, F_X

----------------------------------------------------------------------------
\* A constraint system as it is folded here, and a running pair that violates
\* not its last constraint, number 2^t - 1.
PgSystem(cs) == MatricesOk(cs) /\ cs.l \in 1 .. 7 /\ cs.t \in Sizes
LastHolds(cs, U, W) == PgEval(cs, W, U)[2^cs.t - 1] = 0
PgRunningPair(cs, U, W) ==
  U \in PgRunning(cs.l, cs.t) /\ W \in PgWitness(cs.l) /\ PgCheckRunning(cs, W, U)

\* All assignments that a fold combines, the running one first.
AllAssignments(k, U, W, us, ws) == Assignments(k + 1, All(U, us), All(W, ws))

\* The prover's messages.
LEMMA MessagesAre ==
  ASSUME NEW cs, PgSystem(cs), NEW k \in Foldable, NEW U, NEW W, PgRunningPair(cs, U, W),
         NEW us, NEW ws, PairsOk(cs.l, k, us, ws), NEW delta \in Fp, NEW alpha \in Fp
  PROVE  LET m   == PgMessages(cs, U, W, us, ws, delta, alpha)
             zs  == AllAssignments(k, U, W, us, ws)
             div == Divided(k, cs, zs, m.betas_star, m.F_alpha)
         IN  /\ zs \in List(Vec, k + 1)
             /\ m.betas_star \in List(Fp, cs.t) /\ m.F_alpha \in Fp
             /\ m.betas_star = BetasStar(U.betas, ExponentialPowers(delta, cs.t), alpha)
             /\ Err(cs, zs[1], m.betas_star) = m.F_alpha
             /\ m.F_coeffs \in List(Fp, cs.t)
             /\ LastHolds(cs, U, W) => m.F_alpha = VerifierFAlpha(U, m.F_coeffs, alpha)
             /\ m.divided = Divides(div, k) /\ m.K_coeffs = KCoeffs(div, k)
             /\ m.K_coeffs \in List(Fp, Degree * k + 1)
<1> DEFINE t   == cs.t  l == cs.l
           m   == PgMessages(cs, U, W, us, ws, delta, alpha)
           zs  == AllAssignments(k, U, W, us, ws)
           z1  == AssignmentOf(U, W)
           f   == EvalAtZ(cs, z1)
           d   == ExponentialPowers(delta, t)
           F_X == CalcFFromBtree(f, U.betas, d)
           fa  == PolyEval(F_X, alpha)
           s   == BetasStar(U.betas, d, alpha)
           div == Divided(k, cs, zs, s, fa)
<1>1. MatricesOk(cs) /\ l \in 1 .. 7 /\ t \in Sizes /\ t \in Nat /\ k \in Nat
  BY Domains, SizesAre DEF PgSystem
<1>2. /\ PairOk(l, U, W) /\ U.betas \in List(Fp, t) /\ U.e = WeighedError(f, U.betas)
      /\ PgEval(cs, W, U) = f
  BY DEF PgRunningPair, PgRunning, PairOk, List, PgCheckRunning, PgEval, AssignmentOf
<1>3. zs \in List(Vec, k + 1) /\ zs[1] = z1
  <2> HIDE DEF l
  <2>1. PairsOk(l, k, us, ws)
    BY DEF l
  <2> QED BY <1>1, <1>2, <2>1, AllPairs DEF AllAssignments
<1>4. z1 \in Vec /\ Len(us) = k
  <2>1. 1 \in 1 .. k + 1
    BY <1>1
  <2>2. IsList(us, k)
    BY DEF PairsOk
  <2>3. Len(us) = k
    BY <1>1, <2>2, AllIs
  <2> HIDE DEF zs, z1
  <2> QED BY <1>3, <2>1, <2>3 DEF List
<1>5. m = [betas_star |-> s, F_alpha |-> fa, F_coeffs |-> Resize(F_X, t),
           K_coeffs |-> KCoeffs(div, k), divided |-> Divides(div, k)]
  <2>1. FX(cs, U, W, ExponentialPowers(delta, cs.t)) = F_X
    BY <1>2 DEF FX
  <2>2. Dividend(cs, U, W, us, ws, s, fa) = div
    <3> HIDE DEF l, s, fa
    <3>1. PairsOk(l, k, us, ws)
      BY DEF l
    <3>2. Dividend(cs, U, W, us, ws, s, fa) = Divided(k, cs, Assignments(k + 1, All(U, us), All(W, ws)), s, fa)
      BY <1>1, <1>2, <3>1, DividendIs
    <3> QED BY <3>2 DEF AllAssignments
  <2> HIDE DEF F_X, s, fa, div
  <2> QED BY <1>4, <2>1, <2>2 DEF PgMessages, FCoeffs, d, s, fa, t
<1>6. f \in Vec
  BY <1>1, <1>4, EvalRow
<1>7. LastHolds(cs, U, W) => f[2^t - 1] = 0
  BY <1>2 DEF LastHolds
<1> HIDE DEF t, l, zs, z1, f
<1>8. d \in List(Fp, t)
  BY <1>1, ExponentialPowersOf
<1> HIDE DEF d
<1>9. s \in List(Fp, t)
  BY <1>1, <1>2, <1>8, BetasStarOf
<1>10. fa = WeighedError(f, s) /\ fa \in Fp
  <2>1. fa = WeighedError(f, s)
    BY <1>1, <1>2, <1>6, <1>8, FOfTree
  <2>2. WeighedError(f, s) \in Fp
    BY <1>1, <1>6, <1>9, WeighedErrorSum
  <2> QED BY <2>1, <2>2
<1>11. Resize(F_X, t) \in List(Fp, t) /\ (LastHolds(cs, U, W) => VerifierFAlpha(U, Resize(F_X, t), alpha) = fa)
  BY <1>1, <1>2, <1>6, <1>7, <1>8, SentOfTree
<1> HIDE DEF F_X, s, fa
<1>12. div \in List(Fp, (k + 1) + (k + 1))
  BY <1>1, <1>3, <1>9, <1>10, DividedIs
<1> HIDE DEF div
<1>13. KCoeffs(div, k) \in List(Fp, Degree * k + 1)
  BY <1>12, KCoeffsAre, ZeroOneInFp, FpIsInt
<1>14. Err(cs, z1, s) = fa
  BY <1>10 DEF Err, f
<1> HIDE DEF m
<1>15. /\ m.betas_star = s /\ m.F_alpha = fa /\ m.F_coeffs = Resize(F_X, t)
       /\ m.K_coeffs = KCoeffs(div, k) /\ m.divided = Divides(div, k)
  BY <1>5
<1>16. div = Divided(k, cs, zs, m.betas_star, m.F_alpha) /\ s = BetasStar(U.betas, d, alpha)
  BY <1>15 DEF div, s
<1>17. /\ m.betas_star \in List(Fp, t) /\ m.F_alpha \in Fp
       /\ m.betas_star = BetasStar(U.betas, d, alpha)
       /\ Err(cs, zs[1], m.betas_star) = m.F_alpha
       /\ m.F_coeffs \in List(Fp, t) /\ (LastHolds(cs, U, W) => m.F_alpha = VerifierFAlpha(U, m.F_coeffs, alpha))
       /\ m.divided = Divides(Divided(k, cs, zs, m.betas_star, m.F_alpha), k)
       /\ m.K_coeffs = KCoeffs(Divided(k, cs, zs, m.betas_star, m.F_alpha), k)
       /\ m.K_coeffs \in List(Fp, Degree * k + 1)
  BY <1>3, <1>9, <1>10, <1>11, <1>13, <1>14, <1>15, <1>16
<1> QED
  BY <1>3, <1>17 DEF m, zs, d, t

ZeroWeightDivides(cs, k, us, ws, m) ==
  /\ m.divided \in BOOLEAN
  /\ m.divided <=> \A j \in 1 .. k : WeighedError(PgEval(cs, ws[j], us[j]), m.betas_star) = 0
  /\ (\A j \in 1 .. k : PgCheckIncoming(cs, ws[j], us[j])) => m.divided

\* The division succeeds exactly if the new betas weigh the error of every incoming
\* assignment to zero: the prover refuses no satisfied instances, and an unsatisfied
\* one only goes through at an alpha where this weight vanishes.
THEOREM DividesExactlyZeroWeight ==
  ASSUME NEW cs, PgSystem(cs), NEW k \in Foldable, NEW U, NEW W, PgRunningPair(cs, U, W),
         NEW us, NEW ws, PairsOk(cs.l, k, us, ws), NEW delta \in Fp, NEW alpha \in Fp
  PROVE  ZeroWeightDivides(cs, k, us, ws, PgMessages(cs, U, W, us, ws, delta, alpha))
<1> DEFINE m  == PgMessages(cs, U, W, us, ws, delta, alpha)
           zs == AllAssignments(k, U, W, us, ws)
           b  == m.betas_star  fa == m.F_alpha
           l  == cs.l
<1>1. /\ zs \in List(Vec, k + 1) /\ b \in List(Fp, cs.t) /\ fa \in Fp
      /\ Err(cs, zs[1], b) = fa
      /\ m.divided = Divides(Divided(k, cs, zs, b, fa), k)
  BY MessagesAre
<1>2. MatricesOk(cs) /\ l \in 1 .. 7 /\ cs.t \in Sizes /\ k \in Nat
  BY Domains DEF PgSystem
<1>3. \A j \in 1 .. k : zs[j + 1] = AssignmentOf(us[j], ws[j])
  <2> HIDE DEF l
  <2>1. PairsOk(l, k, us, ws)
    BY DEF l
  <2>2. PairOk(l, U, W)
    BY DEF PgRunningPair, PgRunning, PairOk, l
  <2> QED BY <1>2, <2>1, <2>2, AllPairs DEF AllAssignments
<1>4. ASSUME NEW j \in 1 .. k PROVE PgEval(cs, ws[j], us[j]) = EvalAtZ(cs, zs[j + 1])
  BY <1>3, Zenon DEF PgEval, AssignmentOf
<1> HIDE DEF m, zs, b, fa
<1>5. /\ m.divided \in BOOLEAN
      /\ m.divided <=> \A h \in 2 .. k + 1 : Err(cs, zs[h], b) = 0
  BY <1>1, <1>2, DividesExactly
<1>6. (\A h \in 2 .. k + 1 : Err(cs, zs[h], b) = 0) <=> \A j \in 1 .. k : Err(cs, zs[j + 1], b) = 0
  <2>1. \A j \in 1 .. k : j + 1 \in 2 .. k + 1
    BY <1>2
  <2>2. \A h \in 2 .. k + 1 : h - 1 \in 1 .. k /\ (h - 1) + 1 = h
    BY <1>2
  <2>3. ASSUME \A j \in 1 .. k : Err(cs, zs[j + 1], b) = 0, NEW h \in 2 .. k + 1 PROVE Err(cs, zs[h], b) = 0
    <3>1. Err(cs, zs[(h - 1) + 1], b) = 0
      BY <2>2, <2>3
    <3> QED BY <2>2, <3>1
  <2> QED BY <2>1, <2>3
<1>7. \A j \in 1 .. k : Err(cs, zs[j + 1], b) = WeighedError(PgEval(cs, ws[j], us[j]), b)
  BY <1>4 DEF Err
<1>8. m.divided <=> \A j \in 1 .. k : WeighedError(PgEval(cs, ws[j], us[j]), b) = 0
  BY <1>5, <1>6, <1>7
<1>9. ASSUME \A j \in 1 .. k : PgCheckIncoming(cs, ws[j], us[j]) PROVE m.divided
  <2>1. ASSUME NEW j \in 1 .. k PROVE WeighedError(PgEval(cs, ws[j], us[j]), b) = 0
    BY <1>1, <1>2, <1>9, NoErrorNoWeight DEF PgCheckIncoming
  <2> QED BY <1>8, <2>1
<1> QED
  BY <1>5, <1>8, <1>9, Zenon DEF ZeroWeightDivides, m, b

\* If the division succeeds, the folded pair satisfies the relation of a running one,
\* its e being the weighed error of the folded witness at the new betas, and the
\* verifier, who sees only the messages, folds to the same instance.
THEOREM PgFoldSatisfies ==
  ASSUME NEW cs, PgSystem(cs), NEW k \in Foldable, NEW U, NEW W, PgRunningPair(cs, U, W),
         NEW us, NEW ws, PairsOk(cs.l, k, us, ws), NEW delta \in Fp, NEW alpha \in Fp, NEW gamma \in Fp
  PROVE  LET m == PgMessages(cs, U, W, us, ws, delta, alpha)
             f == PgFold(m, U, W, us, ws, gamma)
         IN  /\ f.U \in PgRunning(cs.l, cs.t) /\ f.W \in PgWitness(cs.l)
             /\ f.divided = m.divided /\ f.U.betas = m.betas_star
             /\ m.divided => PgCheckRunning(cs, f.W, f.U)
             /\ LastHolds(cs, U, W) => f.U = PgVerifierFold(U, us, f.F_coeffs, f.K_coeffs, delta, alpha, gamma)
<1> DEFINE t   == cs.t  l == cs.l
           m   == PgMessages(cs, U, W, us, ws, delta, alpha)
           f   == PgFold(m, U, W, us, ws, gamma)
           zs  == AllAssignments(k, U, W, us, ws)
           b   == m.betas_star  fa == m.F_alpha  K == m.K_coeffs
           L1  == LagrangeEvals(k, gamma)[1]
           FU  == f.U  FW == f.W
           aU  == All(U, us)  aW == All(W, ws)  n == k + 1
           e   == (fa * L1 + Vanishing(n, gamma) * PolyEval(K, gamma)) % P
           x   == [i \in 1 .. l |-> Mix(k, gamma, Xs(n, aU, i))]
           phi == Mix(k, gamma, Phis(n, aU))
<1>1. /\ zs \in List(Vec, k + 1) /\ b \in List(Fp, t) /\ fa \in Fp
      /\ b = BetasStar(U.betas, ExponentialPowers(delta, t), alpha)
      /\ Err(cs, zs[1], b) = fa
      /\ m.F_coeffs \in List(Fp, t)
      /\ LastHolds(cs, U, W) => fa = VerifierFAlpha(U, m.F_coeffs, alpha)
      /\ m.divided = Divides(Divided(k, cs, zs, b, fa), k)
      /\ K = KCoeffs(Divided(k, cs, zs, b, fa), k)
      /\ K \in List(Fp, Degree * k + 1)
  BY MessagesAre
<1>2. /\ FU = FoldedInstance(U, us, b, fa, K, gamma)
      /\ FW = FoldedWitness(W, ws, gamma)
      /\ f.F_coeffs = m.F_coeffs /\ f.K_coeffs = K /\ f.divided = m.divided
  <2> HIDE DEF m
  <2> QED BY DEF PgFold
<1>3. /\ MatricesOk(cs) /\ l \in 1 .. 7 /\ t \in Sizes /\ t \in Nat /\ k \in Nat
      /\ PairOk(l, U, W) /\ PairsOk(l, k, us, ws) /\ Len(U.betas) = t
  <2>1. U.betas \in [1 .. t -> Fp] /\ PairOk(l, U, W)
    BY DEF PgRunningPair, PgRunning, PairOk
  <2>2. t \in Sizes /\ t \in Nat /\ MatricesOk(cs) /\ l \in 1 .. 7
    BY SizesAre DEF PgSystem
  <2> QED BY <2>1, <2>2, Domains
<1> HIDE DEF m, f, zs, b, fa, K, l, t
<1>4. FU = [betas |-> b, phi |-> phi, e |-> e, x |-> x]
  <2>1. FU = FoldedTo(k, l, aU, b, fa, K, gamma)
    BY <1>2, <1>3, FoldedInstanceIs
  <2> HIDE DEF FU, aU
  <2> QED BY <2>1, Zenon DEF FoldedTo, phi, e, x, L1, n
<1>5. FW \in PgWitness(l)
  BY <1>2, <1>3, FoldedWitnessIs
<1>6. AssignmentOf(FU, FW) = JoinAll(k, zs, gamma)
  <2>1. AssignmentOf(FoldedInstance(U, us, b, fa, K, gamma), FoldedWitness(W, ws, gamma))
          = JoinAll(k, Assignments(k + 1, All(U, us), All(W, ws)), gamma)
    BY <1>3, AssignmentsJoin
  <2> QED BY <1>2, <2>1 DEF AllAssignments, zs
<1>7. FU \in PgRunning(l, t)
  <2>1. PairsOk(l, n, aU, aW) /\ n \in Nat
    BY <1>3, AllPairs
  <2>2. Phis(n, aU) \in List(Fp, n) /\ \A i \in 1 .. l : Xs(n, aU, i) \in List(Fp, n)
    <3> HIDE DEF n, aU, aW
    <3> QED BY <1>3, <2>1, FieldsAre
  <2>3. phi \in Fp
    BY <2>2, MixIs
  <2>4. x \in [1 .. l -> Fp]
    <3>1. ASSUME NEW i \in 1 .. l PROVE Mix(k, gamma, Xs(n, aU, i)) \in Fp
      BY <2>2, MixIs
    <3> QED BY <3>1
  <2>5. e \in Fp
    <3> DEFINE p == PolyEval(K, gamma)  y == Vanishing(n, gamma)  v == Pow(gamma, n)  q == Degree * k + 1
    <3>1. p \in Int
      <4>1. q \in Nat
        <5>1. Degree = 2
          BY DEF Degree
        <5> QED BY <1>3, <5>1
      <4> HIDE DEF q
      <4>2. K \in List(Int, q) /\ gamma \in Int
        BY <1>1, ListInt, FpIsInt DEF q
      <4> QED BY <4>1, <4>2, PolyInFp
    <3>2. L1 \in Int /\ fa \in Int
      <4>1. LagrangeEvals(k, gamma) \in List(Fp, k + 1) /\ 1 \in 1 .. k + 1
        BY <1>3, LagrangeIs
      <4> QED BY <1>1, <4>1, FpIsInt DEF List
    <3>3. y \in Int
      <4>1. v \in Int
        BY <1>3, FpIsInt, PowStep
      <4>2. y = (v - 1) % P
        BY DEF Vanishing
      <4> HIDE DEF v, y
      <4>3. v - 1 \in Int
        BY <4>1
      <4> QED BY <4>2, <4>3, ModInFp, FpIsInt
    <3> HIDE DEF p, y, L1
    <3>4. fa * L1 + y * p \in Int
      BY <3>1, <3>2, <3>3
    <3>5. (fa * L1 + y * p) % P \in Fp
      BY <3>4, ModInFp
    <3> QED BY <3>5 DEF p, y
  <2>6. b \in [1 .. t -> Fp]
    BY <1>1 DEF List
  <2> HIDE DEF phi, x, e, FU
  <2> QED BY <1>4, <2>3, <2>4, <2>5, <2>6 DEF PgRunning
<1>8. FU.betas = b /\ FU.e = e
  <2> HIDE DEF FU, e, x, phi
  <2> QED BY <1>4
<1>9. ASSUME m.divided PROVE PgCheckRunning(cs, FW, FU)
  <2>1. Divides(Divided(k, cs, zs, b, fa), k)
    BY <1>1, <1>9
  <2>2. e = Err(cs, JoinAll(k, zs, gamma), b)
    <3>1. (fa * LagrangeEvals(k, gamma)[1]
            + Vanishing(k + 1, gamma) * PolyEval(KCoeffs(Divided(k, cs, zs, b, fa), k), gamma)) % P
           = Err(cs, JoinAll(k, zs, gamma), b)
      BY <1>1, <1>3, <2>1, FoldedErrorIs
    <3> QED BY <1>1, <3>1 DEF L1, n
  <2>3. Len(FU.betas) = t
    BY <1>1, <1>3, <1>8 DEF List
  <2> HIDE DEF FU, FW, e
  <2>4. PgEval(cs, FW, FU) = EvalAtZ(cs, JoinAll(k, zs, gamma))
    BY <1>6 DEF PgEval, AssignmentOf
  <2> QED BY <1>8, <2>2, <2>3, <2>4 DEF PgCheckRunning, Err, t
<1>10. ASSUME LastHolds(cs, U, W)
       PROVE  FU = PgVerifierFold(U, us, f.F_coeffs, f.K_coeffs, delta, alpha, gamma)
  <2>1. PgVerifierFold(U, us, m.F_coeffs, K, delta, alpha, gamma)
          = FoldedInstance(U, us, b, fa, K, gamma)
    BY <1>1, <1>3, <1>10 DEF PgVerifierFold
  <2> QED BY <1>2, <2>1
<1> QED
  BY <1>2, <1>5, <1>7, <1>8, <1>9, <1>10 DEF FU, FW, f, m, l, t, b

\* A constraint without a product: its second factor is a constant.
Linear(cs, r) == \A s \in Slot \ {0} : cs.B[r][s] = 0

LEMMA ZeroPolynomial ==
  ASSUME NEW n \in Nat \ {0} PROVE Polynomial([x \in Fp |-> 0], n)
<1> DEFINE f == [x \in Fp |-> 1]  h == [x \in Fp |-> 0]  o == -1
<1>1. Polynomial(f, n)
  BY OnePolynomial
<1>2. h \in [Fp -> Int] /\ o \in Int
  OBVIOUS
<1>3. \A x \in Fp : Cong(h[x], f[x] + o * f[x])
  <2>1. 1 + o * 1 = 0 /\ Cong(0, 0)
    BY CongRefl
  <2>2. \A x \in Fp : f[x] = 1 /\ h[x] = 0
    OBVIOUS
  <2> HIDE DEF f, h, o
  <2> QED BY <2>1, <2>2
<1> HIDE DEF f, h, o
<1>4. Polynomial(h, n)
  BY <1>1, <1>2, <1>3, SubtractPolynomials
<1> QED
  BY <1>4 DEF h

\* A combination of assignments that satisfy a linear constraint satisfies it.
LEMMA LinearKept ==
  ASSUME NEW k \in Foldable, NEW zs \in List(Vec, k + 1), NEW cs, MatricesOk(cs), NEW r \in Slot, Linear(cs, r),
         \A j \in 1 .. k + 1 : zs[j][0] = 1 /\ EvalAtZ(cs, zs[j])[r] = 0, NEW y \in Fp
  PROVE  EvalAtZ(cs, JoinAll(k, zs, y))[r] = 0
<1> DEFINE m == k + 1  b == cs.B[r][0]
           A == DotFn(k, cs.A[r], zs)  C == DotFn(k, cs.C[r], zs)
           O == [x \in Fp |-> 0]  N == [x \in Fp |-> -C[x]]
           H == RowFn(k, cs, zs, r)
<1>1. m \in Nat /\ m \in Nat \ {0} /\ m \in Orders /\ 0 \in Slot
  BY Domains, InverseOfIs DEF Slot
<1>2. /\ \A x \in Fp : JoinAll(k, zs, x) \in Vec
      /\ \A h \in 1 .. m : JoinAll(k, zs, Pow(Root[m], h - 1)) = zs[h]
  BY JoinAllIs
<1>3. \A x \in Fp : JoinAll(k, zs, x)[0] = 1
  <2>1. EntriesAt(zs, m, 0) = Constant(m, 1)
    <3>1. \A j \in 1 .. m : zs[j][0] = 1
      OBVIOUS
    <3> HIDE DEF m
    <3> QED BY <3>1 DEF EntriesAt, Constant
  <2> QED BY <1>1, <2>1, JoinOfConstants DEF JoinAll
<1>4. cs.A[r] \in Vec /\ cs.B[r] \in Vec /\ cs.C[r] \in Vec
  BY DEF MatricesOk, Matrix
<1>5. Polynomial(A, m) /\ Polynomial(C, m) /\ Polynomial(O, m)
  BY <1>1, <1>4, DotPolynomial, ZeroPolynomial
<1>6. \A x \in Fp : A[x] = Dot(cs.A[r], JoinAll(k, zs, x)) /\ C[x] = Dot(cs.C[r], JoinAll(k, zs, x))
  BY DEF DotFn
<1>7. b \in Int
  BY <1>1, <1>4, FpIsInt DEF Vec
<1> HIDE DEF A, C, m, b
<1>8. \A x \in Fp : A[x] \in Int /\ C[x] \in Int
  BY <1>5 DEF Polynomial
<1>9. Polynomial(N, m)
  <2> DEFINE o == -1
  <2>1. N \in [Fp -> Int]
    BY <1>8
  <2>2. ASSUME NEW x \in Fp PROVE Cong(N[x], O[x] + o * C[x])
    <3> DEFINE v == C[x]
    <3>1. v \in Int /\ -v = 0 + o * v
      BY <1>8
    <3>2. N[x] = -v /\ O[x] = 0
      OBVIOUS
    <3> HIDE DEF v, N, O, o
    <3>3. N[x] = O[x] + o * v /\ N[x] \in Int
      BY <3>1, <3>2
    <3> QED BY <3>3, CongRefl DEF v
  <2>3. o \in Int
    OBVIOUS
  <2> HIDE DEF N, O, o
  <2> QED BY <1>1, <1>5, <2>1, <2>2, <2>3, SubtractPolynomials
<1>10. ASSUME NEW x \in Fp PROVE H[x] \in Fp /\ H[x] = EvalAtZ(cs, JoinAll(k, zs, x))[r] /\ Cong(H[x], N[x] + b * A[x])
  <2> DEFINE z == JoinAll(k, zs, x)  d == Dot(cs.B[r], z)  v == A[x]  c == C[x]
  <2>1. z \in Vec /\ z[0] = 1
    BY <1>2, <1>3
  <2>2. H[x] = EvalAtZ(cs, z)[r]
    BY DEF RowFn
  <2>3. EvalAtZ(cs, z) \in Vec /\ Cong(EvalAtZ(cs, z)[r],
          Dot(cs.A[r], z) * Dot(cs.B[r], z) - z[0] * Dot(cs.C[r], z))
    BY <2>1, EvalRow
  <2>4. v = Dot(cs.A[r], z) /\ c = Dot(cs.C[r], z) /\ v \in Int /\ c \in Int /\ N[x] = -c
    BY <1>6, <1>8
  <2>5. Cong(d, b) /\ d \in Int
    <3> DEFINE g == cs.B[r]
    <3>1. g[0] = b /\ g[1] = 0 /\ g[2] = 0 /\ g[3] = 0 /\ g[4] = 0 /\ g[5] = 0 /\ g[6] = 0 /\ g[7] = 0
      BY DEF Linear, Slot, b
    <3>2. \A s \in Slot : z[s] \in Int
      BY <2>1, FpIsInt DEF Vec
    <3> HIDE DEF g, z
    <3>3. z[1] \in Int /\ z[2] \in Int /\ z[3] \in Int /\ z[4] \in Int /\ z[5] \in Int /\ z[6] \in Int /\ z[7] \in Int
      BY <3>2 DEF Slot
    <3>4. Dot(g, z) = (b * 1 + 0 * z[1] + 0 * z[2] + 0 * z[3] + 0 * z[4] + 0 * z[5] + 0 * z[6] + 0 * z[7]) % P
      BY <2>1, <3>1 DEF Dot
    <3>5. b * 1 + 0 * z[1] + 0 * z[2] + 0 * z[3] + 0 * z[4] + 0 * z[5] + 0 * z[6] + 0 * z[7] = b
      BY <1>7, <3>3
    <3>6. Dot(g, z) = b % P
      BY <3>4, <3>5
    <3> QED BY <1>7, <3>6, CongOfMod, ModInFp, FpIsInt DEF g
  <2>6. H[x] \in Fp
    BY <2>2, <2>3 DEF Vec
  <2> HIDE DEF z, d, v, c, H, N
  <2>7. Cong(H[x], v * d - 1 * c)
    BY <2>1, <2>2, <2>3, <2>4 DEF d
  <2>8. PICK i \in Int : H[x] = v * d - 1 * c + i * P
    BY <2>7 DEF Cong
  <2>9. PICK j \in Int : d = b + j * P
    BY <2>5 DEF Cong
  <2> DEFINE vb == v * b  vj == v * j
  <2>10. v * d = vb + vj * P /\ b * v = vb /\ vb \in Int /\ vj \in Int
    BY <1>7, <2>4, <2>9, PAssumption
  <2> HIDE DEF vb, vj
  <2>11. H[x] = (-c + vb) + (vj + i) * P /\ vj + i \in Int
    <3>1. (vj + i) * P = vj * P + i * P
      BY <2>8, <2>10, PAssumption
    <3> DEFINE p1 == vj * P  p2 == i * P
    <3>2. p1 \in Int /\ p2 \in Int
      BY <2>8, <2>10, PAssumption
    <3> HIDE DEF p1, p2
    <3>3. H[x] = (vb + p1) - c + p2
      BY <2>4, <2>8, <2>10, <3>2 DEF p1, p2
    <3>4. H[x] = (-c + vb) + (p1 + p2)
      BY <2>4, <2>10, <3>2, <3>3
    <3> QED BY <2>8, <2>10, <3>1, <3>4 DEF p1, p2
  <2>12. Cong(H[x], -c + vb)
    BY <2>11 DEF Cong
  <2> QED BY <2>2, <2>4, <2>6, <2>10, <2>12 DEF v, z
<1>11. Polynomial(H, m)
  <2>1. H \in [Fp -> Int]
    <3>1. H = [x \in Fp |-> H[x]]
      BY DEF RowFn
    <3> HIDE DEF H
    <3> QED BY <1>10, <3>1, FpIsInt
  <2> HIDE DEF H, N
  <2> QED BY <1>1, <1>5, <1>7, <1>9, <1>10, <2>1, SubtractPolynomials
<1>12. ASSUME NEW h \in 1 .. m PROVE Cong(H[Pow(Root[m], h - 1)], O[Pow(Root[m], h - 1)])
  <2> DEFINE x == Pow(Root[m], h - 1)
  <2>1. x \in Fp
    BY <1>1, DomainPower
  <2>2. H[x] = EvalAtZ(cs, zs[h])[r]
    BY <1>2, <1>10, <2>1
  <2>3. O[x] = 0 /\ h \in 1 .. k + 1
    BY <2>1 DEF m
  <2> HIDE DEF x, H, O
  <2>4. H[x] = 0
    BY <2>2, <2>3
  <2> QED BY <2>3, <2>4, CongRefl DEF x
<1> HIDE DEF H, O
<1>13. Cong(H[y], O[y])
  BY <1>1, <1>5, <1>11, <1>12, PolynomialsAgree
<1>14. O[y] = 0
  BY DEF O
<1>15. H[y] = 0
  BY <1>10, <1>13, <1>14, EqOfCong, ZeroOneInFp
<1> QED
  BY <1>10, <1>15

----------------------------------------------------------------------------
\* The states of ProtoGalaxyFolding.

LEMMA SystemIs ==
  /\ PgSystem(System) /\ MatricesOk(System)
  /\ System.l \in 1 .. 7 /\ System.l \in 0 .. 7 /\ System.t \in Sizes
  BY SystemAssumption DEF PgSystem, MatricesOk, Sizes

\* The pair made of an assignment has that assignment.
LEMMA PairForIs ==
  ASSUME NEW z \in Incoming \union Wrong
  PROVE  /\ PairOk(System.l, IncomingFor(z), WitnessFor(z))
         /\ AssignmentOf(IncomingFor(z), WitnessFor(z)) = z
         /\ PgEval(System, WitnessFor(z), IncomingFor(z)) = EvalAtZ(System, z)
         /\ z \in Vec /\ z[0] = 1
<1> DEFINE l == System.l  w == WitnessOf(z, l)  x == PublicOf(z, l)  o == 0
<1>1. z \in Vec /\ z[0] = 1 /\ l \in 0 .. 7
  BY SystemIs, FoldAssumption
<1> HIDE DEF l
<1>2. x \in [1 .. l -> Fp]
  BY <1>1 DEF PublicOf, Vec, Slot
<1>3. w \in WitnessVec(l) /\ w \in Vec
  BY <1>1, ZeroOneInFp DEF WitnessOf, WitnessVec, Vec, Slot
<1>4. Assignment(1, x, w) = z
  BY <1>1 DEF Assignment, PublicOf, WitnessOf, Vec, Slot
<1>5. Commit(Gens, w, o) \in Fp
  <2>1. o \in Fp /\ Gens \in Vec
    BY ZeroOneInFp, FoldAssumption
  <2> HIDE DEF o, w
  <2> QED BY <1>3, <2>1, CommitCong
<1> HIDE DEF w, x
<1>6. WitnessFor(z) = [w |-> w, r_w |-> 0]
  BY DEF WitnessFor, PgNewWitness, w, l
<1>7. IncomingFor(z).phi = Commit(Gens, w, o) /\ IncomingFor(z).x = x
  BY <1>6 DEF IncomingFor, PgCommit, x, l
<1>8. PairOk(l, IncomingFor(z), WitnessFor(z))
  BY <1>2, <1>3, <1>5, <1>6, <1>7 DEF PairOk, PgWitness
<1>9. AssignmentOf(IncomingFor(z), WitnessFor(z)) = z
  BY <1>4, <1>6, <1>7 DEF AssignmentOf
<1> QED
  BY <1>1, <1>8, <1>9 DEF PgEval, AssignmentOf, l

\* The instances and the witnesses of the assignments a fold is called with.
InstancesOf(zs) == Collect(Len(zs), LAMBDA j : IncomingFor(zs[j]))
WitnessesOf(zs) == Collect(Len(zs), LAMBDA j : WitnessFor(zs[j]))

LEMMA OfferedPairs ==
  ASSUME NEW k \in Nat, NEW zs \in [1 .. k -> Incoming \union Wrong]
  PROVE  /\ Len(zs) = k
         /\ PairsOk(System.l, k, InstancesOf(zs), WitnessesOf(zs))
         /\ \A j \in 1 .. k : InstancesOf(zs)[j] = IncomingFor(zs[j]) /\ WitnessesOf(zs)[j] = WitnessFor(zs[j])
<1> DEFINE us == [j \in 1 .. k |-> IncomingFor(zs[j])]
           ws == [j \in 1 .. k |-> WitnessFor(zs[j])]
           S  == {us[j] : j \in 1 .. k}
           T  == {ws[j] : j \in 1 .. k}
<1>1. Len(zs) = k
  BY CollectIs
<1>2. us \in [1 .. k -> S] /\ ws \in [1 .. k -> T]
  OBVIOUS
<1>3. InstancesOf(zs) = <<>> \o us /\ WitnessesOf(zs) = <<>> \o ws
  BY <1>1, Zenon DEF InstancesOf, WitnessesOf, Collect
<1>4. /\ \A j \in 1 .. k : us[j] = IncomingFor(zs[j]) /\ ws[j] = WitnessFor(zs[j])
      /\ IsList(us, k) /\ IsList(ws, k)
  BY DEF IsList
<1> HIDE DEF us, ws, S, T
<1>5. <<>> \o us = us /\ <<>> \o ws = ws
  BY <1>2, CollectIs
<1>6. \A j \in 1 .. k : zs[j] \in Incoming \union Wrong
  OBVIOUS
<1>7. \A j \in 1 .. k : PairOk(System.l, us[j], ws[j])
  BY <1>4, <1>6, PairForIs
<1>8. PairsOk(System.l, k, us, ws)
  BY <1>4, <1>7, Zenon DEF PairsOk
<1> QED
  BY <1>1, <1>3, <1>4, <1>5, <1>8

LEMMA OffersAre ==
  ASSUME NEW zs \in Offers
  PROVE  \E k \in {2} \union Foldable :
           /\ k \in Nat /\ zs \in [1 .. k -> Incoming \union Wrong]
           /\ (k + 1 \in {2, 4, 8} <=> k \in Foldable)
<1>1. PICK k \in {2} \union Foldable : zs \in [1 .. k -> Incoming \union Wrong]
  BY OffersAssumption
<1>2. k = 2 \/ k = 1 \/ k = 3 \/ k = 7
  BY Domains
<1>3. k \in Nat /\ (k = 2 => k \notin Foldable /\ k + 1 \notin {2, 4, 8})
  BY <1>2, Domains
<1>4. k \in Foldable => k + 1 \in {2, 4, 8}
  BY Domains
<1> QED
  BY <1>1, <1>3, <1>4

----------------------------------------------------------------------------
\* The running pair has its type and satisfies the relation.
PairHolds == PgRunningPair(System, proverU, proverW)

LEMMA FirstPairHolds == ASSUME FoldInit PROVE PairHolds
<1>1. PICK z \in Incoming, b \in Challenge :
        /\ proverW = WitnessFor(z)
        /\ proverU = [IncomingFor(z) EXCEPT !.betas = ExponentialPowers(b, System.t)]
  BY DEF FoldInit
<1> DEFINE t == System.t  s == ExponentialPowers(b, t)  l == System.l  o == 0
<1>2. t \in Sizes /\ MatricesOk(System) /\ l \in 1 .. 7 /\ t \in Nat
  BY SystemIs, SizesAre
<1>3. s \in List(Fp, t)
  <2>1. b \in Fp
    BY FoldAssumption
  <2> QED BY <1>2, <2>1, ExponentialPowersOf
<1>4. /\ PairOk(l, IncomingFor(z), WitnessFor(z))
      /\ PgEval(System, WitnessFor(z), IncomingFor(z)) = ZeroVec
  BY PairForIs, FoldAssumption
<1>5. WeighedError(ZeroVec, s) = 0
  <2> HIDE DEF s
  <2> QED BY <1>2, <1>3, NoErrorNoWeight
<1> HIDE DEF s, t, l
<1>6. proverU = [phi |-> IncomingFor(z).phi, betas |-> s, e |-> 0, x |-> IncomingFor(z).x]
  BY <1>1 DEF IncomingFor, PgCommit, s, t
<1>7. Len(s) = t /\ s \in [1 .. t -> Fp]
  BY <1>2, <1>3 DEF List
<1>8. proverU \in PgRunning(l, t) /\ proverW \in PgWitness(l)
  <2>1. IncomingFor(z).phi \in Fp /\ IncomingFor(z).x \in [1 .. l -> Fp] /\ WitnessFor(z) \in PgWitness(l)
    BY <1>4 DEF PairOk
  <2>2. proverU \in PgRunning(l, t)
    BY <1>6, <1>7, <2>1, ZeroOneInFp DEF PgRunning
  <2> QED BY <1>1, <2>1, <2>2
<1>9. PgEval(System, proverW, proverU) = ZeroVec
  BY <1>1, <1>4, <1>6 DEF PgEval
<1> QED
  BY <1>5, <1>6, <1>7, <1>8, <1>9 DEF PairHolds, PgRunningPair, PgCheckRunning, l, t

LEMMA FoldKeeps ==
  ASSUME PairHolds, NEW zs \in Offers, NEW delta \in Challenge, NEW alpha \in Challenge, NEW gamma \in Challenge,
         Fold(zs, delta, alpha, gamma)
  PROVE  PairHolds' /\ HonestNotRefused' /\ OnlyZeroWeightFolded'
<1> DEFINE us == InstancesOf(zs)  ws == WitnessesOf(zs)
           m  == PgMessages(System, proverU, proverW, us, ws, delta, alpha)
           f  == PgFold(m, proverU, proverW, us, ws, gamma)
<1>1. PICK k \in {2} \union Foldable :
           /\ k \in Nat /\ zs \in [1 .. k -> Incoming \union Wrong]
           /\ (k + 1 \in {2, 4, 8} <=> k \in Foldable)
  BY OffersAre
<1>2. /\ Len(zs) = k /\ PairsOk(System.l, k, us, ws)
      /\ \A j \in 1 .. k : us[j] = IncomingFor(zs[j]) /\ ws[j] = WitnessFor(zs[j])
  BY <1>1, OfferedPairs
<1>3. /\ offered' = {zs[j] : j \in 1 .. k}
      /\ \/ /\ k \notin Foldable /\ outcome' = "WrongNumInstances"
            /\ UNCHANGED <<proverU, proverW, verifierU>>
         \/ /\ k \in Foldable /\ ~f.divided /\ outcome' = "RemainderNotZero"
            /\ UNCHANGED <<proverU, proverW, verifierU>>
         \/ /\ k \in Foldable /\ f.divided /\ outcome' = "Ok"
            /\ proverU' = f.U /\ proverW' = f.W
  <2>1. DOMAIN zs = 1 .. k
    BY <1>1
  <2> HIDE DEF m, f
  <2>2. f = PgFold(PgMessages(System, proverU, proverW, us, ws, delta, alpha), proverU, proverW, us, ws, gamma)
    BY DEF f, m
  <2> QED BY <1>1, <1>2, <2>1, <2>2, Zenon DEF Fold, InstancesOf, WitnessesOf
<1>4. delta \in Fp /\ alpha \in Fp /\ gamma \in Fp /\ PgSystem(System)
  BY FoldAssumption, SystemIs
<1> HIDE DEF us, ws, m, f
<1>5. ASSUME NEW j \in 1 .. k
      PROVE  /\ PgEval(System, ws[j], us[j]) = EvalAtZ(System, zs[j])
             /\ zs[j] \in Incoming => PgCheckIncoming(System, ws[j], us[j])
  <2>1. zs[j] \in Incoming \union Wrong
    BY <1>1
  <2>2. PgEval(System, ws[j], us[j]) = EvalAtZ(System, zs[j])
    BY <1>2, <2>1, PairForIs
  <2> QED BY <2>2, FoldAssumption DEF PgCheckIncoming
<1>6. CASE k \notin Foldable
  <2>1. /\ outcome' = "WrongNumInstances" /\ proverU' = proverU /\ proverW' = proverW
    BY <1>3, <1>6
  <2> QED BY <2>1 DEF PairHolds, HonestNotRefused, OnlyZeroWeightFolded
<1>7. CASE k \in Foldable
  <2>1. /\ m.divided \in BOOLEAN
        /\ m.divided <=> \A j \in 1 .. k : WeighedError(PgEval(System, ws[j], us[j]), m.betas_star) = 0
        /\ (\A j \in 1 .. k : PgCheckIncoming(System, ws[j], us[j])) => m.divided
    <3>1. PgRunningPair(System, proverU, proverW)
      BY DEF PairHolds
    <3>2. ZeroWeightDivides(System, k, us, ws, m)
      BY <1>2, <1>4, <1>7, <3>1, DividesExactlyZeroWeight DEF m
    <3> QED BY <3>2 DEF ZeroWeightDivides
  <2>2. /\ f.U \in PgRunning(System.l, System.t) /\ f.W \in PgWitness(System.l)
        /\ f.divided = m.divided /\ f.U.betas = m.betas_star
        /\ m.divided => PgCheckRunning(System, f.W, f.U)
    BY <1>2, <1>4, <1>7, PgFoldSatisfies DEF PairHolds, m, f
  <2>3. CASE ~f.divided
    <3>1. /\ outcome' = "RemainderNotZero" /\ proverU' = proverU /\ proverW' = proverW
      BY <1>3, <1>7, <2>3
    <3>2. ~(offered' \subseteq Incoming)
      BY <1>3, <1>5, <2>1, <2>2, <2>3
    <3> QED BY <3>1, <3>2 DEF PairHolds, HonestNotRefused, OnlyZeroWeightFolded
  <2>4. CASE f.divided
    <3>1. /\ outcome' = "Ok" /\ proverU' = f.U /\ proverW' = f.W
      BY <1>3, <1>7, <2>4
    <3>2. PgRunningPair(System, f.U, f.W)
      BY <2>2, <2>4 DEF PgRunningPair
    <3>3. \A j \in 1 .. k : WeighedError(EvalAtZ(System, zs[j]), f.U.betas) = 0
      BY <1>5, <2>1, <2>2, <2>4
    <3>4. \A z \in offered' : WeighedError(EvalAtZ(System, z), proverU'.betas) = 0
      BY <1>3, <3>1, <3>3
    <3> QED BY <3>1, <3>2, <3>4 DEF PairHolds, HonestNotRefused, OnlyZeroWeightFolded
  <2> QED BY <2>3, <2>4
<1> QED
  BY <1>6, <1>7

\* The inductive invariant: Satisfied, with the types that folding keeps, and what the
\* last fold made of what it was offered.
FoldInv == PairHolds /\ HonestNotRefused /\ OnlyZeroWeightFolded

\* It holds of every system of up to eight constraints, for any number of folds of one,
\* three or seven instances each, satisfied or not, with any challenges.
THEOREM FoldInvariant == FoldSpec => []FoldInv
<1>1. FoldInit => FoldInv
  BY FirstPairHolds DEF FoldInit, FoldInv, HonestNotRefused, OnlyZeroWeightFolded
<1>2. FoldInv /\ [FoldNext]_foldVars => FoldInv'
  <2> SUFFICES ASSUME FoldInv, [FoldNext]_foldVars PROVE FoldInv'
    OBVIOUS
  <2>1. CASE FoldNext
    BY <2>1, FoldKeeps DEF FoldNext, FoldInv
  <2>2. CASE UNCHANGED foldVars
    BY <2>2 DEF foldVars, FoldInv, PairHolds, HonestNotRefused, OnlyZeroWeightFolded
  <2> QED BY <2>1, <2>2
<1> QED
  BY <1>1, <1>2, PTL DEF FoldSpec

\* The running pair satisfies the relation after every fold.
THEOREM FoldsSatisfied == FoldSpec => []Satisfied
<1>1. FoldInv => Satisfied
  BY DEF FoldInv, PairHolds, PgRunningPair, Satisfied
<1> QED
  BY <1>1, FoldInvariant, PTL

\* No fold of satisfied instances ends in a remainder.
THEOREM FoldsRefuseNoHonest == FoldSpec => []HonestNotRefused
<1>1. FoldInv => HonestNotRefused
  BY DEF FoldInv
<1> QED
  BY <1>1, FoldInvariant, PTL

\* What was folded in has no error in the weights of the new betas.
THEOREM FoldsOnlyZeroWeight == FoldSpec => []OnlyZeroWeightFolded
<1>1. FoldInv => OnlyZeroWeightFolded
  BY DEF FoldInv
<1> QED
  BY <1>1, FoldInvariant, PTL

----------------------------------------------------------------------------
\* The constraint whose error the prover drops from F, number 2^t - 1, is linear,
\* or not there at all, and no offered assignment violates it.
LastIsLinear ==
  /\ Linear(System, 2^System.t - 1)
  /\ \A z \in Incoming \union Wrong : EvalAtZ(System, z)[2^System.t - 1] = 0

\* Both sides have the same instance, whose pair satisfies the last constraint.
AgreeInv ==
  /\ PairHolds /\ ProverVerifierAgree
  /\ LastHolds(System, proverU, proverW)

LEMMA FoldAgrees ==
  ASSUME LastIsLinear, AgreeInv,
         NEW zs \in Offers, NEW delta \in Challenge, NEW alpha \in Challenge, NEW gamma \in Challenge,
         Fold(zs, delta, alpha, gamma)
  PROVE  ProverVerifierAgree' /\ LastHolds(System, proverU, proverW)'
<1> DEFINE us == InstancesOf(zs)  ws == WitnessesOf(zs)
           m  == PgMessages(System, proverU, proverW, us, ws, delta, alpha)
           f  == PgFold(m, proverU, proverW, us, ws, gamma)
           FU == f.U  FW == f.W  r == 2^System.t - 1
<1>1. PICK k \in {2} \union Foldable :
           /\ k \in Nat /\ zs \in [1 .. k -> Incoming \union Wrong]
           /\ (k + 1 \in {2, 4, 8} <=> k \in Foldable)
  BY OffersAre
<1>2. /\ Len(zs) = k /\ PairsOk(System.l, k, us, ws)
      /\ \A j \in 1 .. k : us[j] = IncomingFor(zs[j]) /\ ws[j] = WitnessFor(zs[j])
  BY <1>1, OfferedPairs
<1>3. \/ UNCHANGED <<proverU, proverW, verifierU>>
      \/ /\ k \in Foldable
         /\ proverU' = FU /\ proverW' = FW
         /\ verifierU' = PgVerifierFold(verifierU, us, f.F_coeffs, f.K_coeffs, delta, alpha, gamma)
  <2> HIDE DEF m, f
  <2>1. f = PgFold(PgMessages(System, proverU, proverW, us, ws, delta, alpha), proverU, proverW, us, ws, gamma)
    BY DEF f, m
  <2> QED BY <1>1, <1>2, <2>1, Zenon DEF Fold, InstancesOf, WitnessesOf
<1>4. /\ delta \in Fp /\ alpha \in Fp /\ gamma \in Fp /\ PgSystem(System)
      /\ MatricesOk(System) /\ System.l \in 1 .. 7
  BY FoldAssumption, SystemIs
<1>5. CASE UNCHANGED <<proverU, proverW, verifierU>>
  BY <1>5 DEF AgreeInv, ProverVerifierAgree, LastHolds
<1>6. CASE /\ k \in Foldable
           /\ proverU' = FU /\ proverW' = FW
           /\ verifierU' = PgVerifierFold(verifierU, us, f.F_coeffs, f.K_coeffs, delta, alpha, gamma)
  <2> HIDE DEF us, ws
  <2>1. FU = PgVerifierFold(proverU, us, f.F_coeffs, f.K_coeffs, delta, alpha, gamma)
    BY <1>2, <1>4, <1>6, PgFoldSatisfies DEF AgreeInv, PairHolds
  <2>2. ProverVerifierAgree'
    <3> HIDE DEF FU, f
    <3> QED BY <1>6, <2>1 DEF AgreeInv, ProverVerifierAgree
  <2> DEFINE ys == AllAssignments(k, proverU, proverW, us, ws)
  <2>3. /\ ys \in List(Vec, k + 1) /\ ys[1] = AssignmentOf(proverU, proverW)
        /\ \A j \in 2 .. k + 1 : ys[j] = AssignmentOf(us[j - 1], ws[j - 1])
    <3>1. PairOk(System.l, proverU, proverW)
      BY DEF AgreeInv, PairHolds, PgRunningPair, PgRunning, PairOk
    <3> QED BY <1>1, <1>2, <1>4, <3>1, AllPairs DEF AllAssignments
  <2>4. AssignmentOf(FU, FW) = JoinAll(k, ys, gamma)
    <3>1. PairOk(System.l, proverU, proverW)
      BY DEF AgreeInv, PairHolds, PgRunningPair, PgRunning, PairOk
    <3>2. FU = FoldedInstance(proverU, us, m.betas_star, m.F_alpha, m.K_coeffs, gamma) /\ FW = FoldedWitness(proverW, ws, gamma)
      <4> HIDE DEF m
      <4> QED BY DEF PgFold
    <3> HIDE DEF FU, FW, m
    <3>3. AssignmentOf(FoldedInstance(proverU, us, m.betas_star, m.F_alpha, m.K_coeffs, gamma), FoldedWitness(proverW, ws, gamma))
            = JoinAll(k, Assignments(k + 1, All(proverU, us), All(proverW, ws)), gamma)
      BY <1>2, <1>4, <1>6, <3>1, AssignmentsJoin
    <3> QED BY <3>2, <3>3 DEF AllAssignments, ys
  <2>5. \A j \in 1 .. k + 1 : ys[j][0] = 1 /\ EvalAtZ(System, ys[j])[r] = 0
    <3> HIDE DEF ys, r
    <3>1. ASSUME NEW j \in 1 .. k + 1 PROVE ys[j][0] = 1 /\ EvalAtZ(System, ys[j])[r] = 0
      <4>1. CASE j = 1
        <5>1. ys[j][0] = 1
          BY <2>3, <4>1 DEF AssignmentOf, Assignment, Slot
        <5>2. EvalAtZ(System, ys[j])[r] = 0
          BY <2>3, <4>1 DEF AgreeInv, LastHolds, PgEval, AssignmentOf, r
        <5> QED BY <5>1, <5>2
      <4>2. CASE j # 1
        <5> DEFINE i == j - 1
        <5>1. j \in 2 .. k + 1 /\ i \in 1 .. k
          BY <1>1, <4>2
        <5>2. ys[j] = AssignmentOf(us[i], ws[i])
          BY <2>3, <5>1
        <5> HIDE DEF i
        <5>3. zs[i] \in Incoming \union Wrong
          BY <1>1, <5>1
        <5>4. ys[j] = zs[i]
          BY <1>2, <5>1, <5>2, <5>3, PairForIs
        <5>5. zs[i][0] = 1 /\ EvalAtZ(System, zs[i])[r] = 0
          BY <5>3, PairForIs DEF LastIsLinear, r
        <5> QED BY <5>4, <5>5
      <4> QED BY <4>1, <4>2
    <3> QED BY <3>1
  <2>6. r \in Slot /\ Linear(System, r)
    <3>1. 2^System.t \in {2, 4, 8}
      BY <1>4, SizesAre DEF PgSystem
    <3> QED BY <3>1 DEF LastIsLinear, Slot
  <2> HIDE DEF ys, r, FU, FW
  <2>7. EvalAtZ(System, JoinAll(k, ys, gamma))[r] = 0
    BY <1>4, <1>6, <2>3, <2>5, <2>6, LinearKept
  <2>8. PgEval(System, FW, FU) = EvalAtZ(System, JoinAll(k, ys, gamma))
    BY <2>4 DEF PgEval, AssignmentOf
  <2>9. LastHolds(System, FU, FW)
    BY <2>7, <2>8 DEF LastHolds, r
  <2> QED BY <1>6, <2>2, <2>9 DEF LastHolds
<1> QED
  BY <1>3, <1>5, <1>6

\* The prover and the verifier come to the same instance, if the constraint number
\* 2^t - 1 is linear and no offered assignment violates it, as where the system has
\* fewer than 2^t constraints.  Without that they need not.
THEOREM FoldsAgree ==
  ASSUME LastIsLinear PROVE FoldSpec => []ProverVerifierAgree
<1>1. FoldInit => AgreeInv
  <2> SUFFICES ASSUME FoldInit PROVE AgreeInv
    OBVIOUS
  <2>1. PICK z \in Incoming, b \in Challenge :
          /\ proverW = WitnessFor(z)
          /\ proverU = [IncomingFor(z) EXCEPT !.betas = ExponentialPowers(b, System.t)]
    BY DEF FoldInit
  <2>2. PgEval(System, proverW, proverU) = EvalAtZ(System, z)
    <3>1. proverU.x = IncomingFor(z).x
      BY <2>1 DEF IncomingFor, PgCommit
    <3> QED BY <2>1, <3>1, PairForIs DEF PgEval
  <2>3. LastHolds(System, proverU, proverW)
    BY <2>2 DEF LastIsLinear, LastHolds
  <2> QED BY <2>3, FirstPairHolds DEF AgreeInv, FoldInit, ProverVerifierAgree
<1>2. AgreeInv /\ [FoldNext]_foldVars => AgreeInv'
  <2> SUFFICES ASSUME AgreeInv, [FoldNext]_foldVars PROVE AgreeInv'
    OBVIOUS
  <2>1. CASE FoldNext
    BY <2>1, FoldKeeps, FoldAgrees DEF FoldNext, AgreeInv
  <2>2. CASE UNCHANGED foldVars
    BY <2>2 DEF foldVars, AgreeInv, PairHolds, ProverVerifierAgree, LastHolds
  <2> QED BY <2>1, <2>2
<1>3. AgreeInv => ProverVerifierAgree
  BY DEF AgreeInv
<1> QED
  BY <1>1, <1>2, <1>3, PTL DEF FoldSpec

----------------------------------------------------------------------------
\* One incoming pair, two public inputs and four constraints: the fold of the IVC.


LEMMA OneIsFoldable == 1 \in Foldable /\ 1 \in 1 .. 1 /\ 1 + 1 = 2
  BY SchemeAssumption

LEMMA FourIsOrder == 4 \in Orders
<1> DEFINE k == 1
<1>1. k \in Foldable /\ GSize(k) = (k + 1) + (k + 1) /\ GSize(k) \in Orders
  <2>1. k \in Foldable
    BY OneIsFoldable
  <2> HIDE DEF k
  <2> QED BY <2>1, Domains
<1>2. (k + 1) + (k + 1) = 4
  OBVIOUS
<1> QED
  BY <1>1, <1>2

\* The sum of a single term.
LEMMA SumOfTerm ==
  ASSUME NEW s \in List(Int, 1) PROVE SumSeq(s) = (0 + s[1]) % P
<1>1. PICK f \in [0 .. 1 -> Fp] :
        f[0] = 0 /\ (\A j \in 1 .. 1 : f[j] = (f[j - 1] + s[j]) % P) /\ SumSeq(s) = f[1]
  BY SumSeqRun
<1>2. f[1] = (f[1 - 1] + s[1]) % P /\ 1 - 1 = 0
  BY <1>1
<1> QED
  BY <1>1, <1>2

\* Two terms of an inner product.
Join(l, a, b) == Rlc(Rlc(0, l[1], a), l[2], b)

LEMMA InnerOfTwo ==
  ASSUME NEW l \in List(Fp, 2), NEW a \in Fp, NEW b \in Fp
  PROVE  Inner(l, <<a, b>>) = Join(l, a, b) /\ Join(l, a, b) \in Fp
         /\ Cong(Join(l, a, b), l[1] * a + l[2] * b)
<1> DEFINE s == <<a, b>>
           Rec(h) == h = [j \in 0 .. 2 |-> IF j = 0 THEN 0 ELSE (h[j - 1] + l[j] * s[j]) % P]
           c == CHOOSE h : Rec(h)
           p == Rlc(0, l[1], a)
           q == Rlc(p, l[2], b)
           e == [j \in 0 .. 2 |-> IF j = 0 THEN 0 ELSE IF j = 1 THEN p ELSE q]
<1>1. s[1] = a /\ s[2] = b /\ 1 - 1 = 0 /\ 2 - 1 = 1 /\ Len(l) = 2
  BY DEF List
<1>2. e[0] = 0 /\ e[1] = p /\ e[2] = q /\ DOMAIN e = 0 .. 2
  OBVIOUS
<1>3. Rec(e)
  <2> HIDE DEF s
  <2>1. (e[0] + l[1] * s[1]) % P = p /\ (e[1] + l[2] * s[2]) % P = q
    BY <1>1, <1>2 DEF Rlc
  <2> HIDE DEF p, q
  <2>2. ASSUME NEW j \in 0 .. 2 PROVE e[j] = IF j = 0 THEN 0 ELSE (e[j - 1] + l[j] * s[j]) % P
    <3>1. j = 0 \/ j = 1 \/ j = 2
      OBVIOUS
    <3> HIDE DEF e
    <3> QED BY <1>1, <1>2, <2>1, <3>1
  <2>3. e = [j \in 0 .. 2 |-> e[j]]
    OBVIOUS
  <2> HIDE DEF e
  <2> QED BY <2>2, <2>3
<1>4. Inner(l, s) = c[2]
  <2> HIDE DEF s
  <2> QED BY <1>1 DEF Inner
<1>5. Rec(c)
  <2> HIDE DEF Rec
  <2> QED BY <1>3
<1> HIDE DEF c
<1>6. c[0] = 0 /\ c[1] = (c[1 - 1] + l[1] * s[1]) % P /\ c[2] = (c[2 - 1] + l[2] * s[2]) % P
  BY <1>5
<1>7. c[2] = q
  <2> HIDE DEF s
  <2> QED BY <1>1, <1>6 DEF Rlc
<1>8. l[1] \in Int /\ l[2] \in Int /\ a \in Int /\ b \in Int /\ l[1] \in Fp /\ l[2] \in Fp
  BY FpIsInt DEF List
<1>9. p \in Fp /\ p \in Int /\ Cong(p, 0 + l[1] * a)
  <2> DEFINE zero == 0
  <2>1. zero \in Int
    OBVIOUS
  <2> HIDE DEF zero
  <2>2. Rlc(zero, l[1], a) \in Fp /\ Rlc(zero, l[1], a) \in Int
        /\ Cong(Rlc(zero, l[1], a), zero + l[1] * a)
    BY <1>8, <2>1, RlcInt
  <2> QED BY <2>2 DEF zero
<1> HIDE DEF p
<1>10. q \in Fp /\ q \in Int /\ Cong(q, p + l[2] * b)
  BY <1>8, <1>9, RlcInt
<1> HIDE DEF q
<1>11. Cong(q, l[1] * a + l[2] * b)
  <2>1. PICK k1 \in Int : p = 0 + l[1] * a + k1 * P
    BY <1>9 DEF Cong
  <2>2. PICK k2 \in Int : q = p + l[2] * b + k2 * P
    BY <1>10 DEF Cong
  <2>3. q = l[1] * a + l[2] * b + (k1 + k2) * P
    BY <1>8, <1>9, <1>10, <2>1, <2>2, PAssumption
  <2> QED BY <2>3 DEF Cong
<1> QED
  BY <1>4, <1>7, <1>10, <1>11 DEF Join, p, q

LEMMA LagrangeAt ==
  ASSUME NEW x \in Fp PROVE LagrangeEvals(1, x) \in List(Fp, 2)
<1> DEFINE k == 1
<1>1. k \in Foldable /\ k + 1 = 2
  BY OneIsFoldable
<1> HIDE DEF k
<1>2. LagrangeEvals(k, x) \in List(Fp, 2)
  BY <1>1, LagrangeIs
<1> QED
  BY <1>2 DEF k

LEMMA PowIOfTwo ==
  ASSUME NEW i \in Nat, NEW b \in List(Fp, 2), NEW x \in Int, NEW y \in Int,
         x = (IF (i \div 2^0) % 2 = 1 THEN b[1] ELSE 1),
         y = (IF (i \div 2^1) % 2 = 1 THEN b[2] ELSE 1)
  PROVE  PowI(i, b) \in Fp /\ Cong(PowI(i, b), x * y)
<1> DEFINE S(j) == IF (i \div 2^(j - 1)) % 2 = 1 THEN b[j] ELSE 1
           Rec(h) == h = [j \in 0 .. 2 |-> IF j = 0 THEN 1 ELSE (h[j - 1] * S(j)) % P]
           c == CHOOSE h : Rec(h)
           p == (1 * x) % P
           q == (p * y) % P
           e == [j \in 0 .. 2 |-> IF j = 0 THEN 1 ELSE IF j = 1 THEN p ELSE q]
<1>1. S(1) = x /\ S(2) = y
  <2>1. 1 - 1 = 0 /\ 2 - 1 = 1
    OBVIOUS
  <2> QED BY <2>1
<1>2. PowI(i, b) = c[2]
  <2>1. Len(b) = 2
    BY DEF List
  <2> QED BY <2>1 DEF PowI
<1> HIDE DEF S
<1>3. e[0] = 1 /\ e[1] = p /\ e[2] = q /\ 1 - 1 = 0 /\ 2 - 1 = 1
  OBVIOUS
<1>4. Rec(e)
  <2>1. ASSUME NEW j \in 0 .. 2 PROVE e[j] = IF j = 0 THEN 1 ELSE (e[j - 1] * S(j)) % P
    <3>1. j = 0 \/ j = 1 \/ j = 2
      OBVIOUS
    <3>2. p = (1 * x) % P /\ q = (p * y) % P
      OBVIOUS
    <3> HIDE DEF e, p, q
    <3> QED BY <1>1, <1>3, <3>1, <3>2
  <2>2. e = [j \in 0 .. 2 |-> e[j]]
    OBVIOUS
  <2> HIDE DEF e
  <2> QED BY <2>1, <2>2
<1>5. Rec(c)
  <2> HIDE DEF Rec
  <2> QED BY <1>4
<1> HIDE DEF c
<1>6. c[0] = 1 /\ c[1] = (c[1 - 1] * S(1)) % P /\ c[2] = (c[2 - 1] * S(2)) % P
  BY <1>5
<1>7. c[2] = q
  BY <1>1, <1>3, <1>6
<1>8. p \in Int /\ Cong(p, x)
  <2>1. 1 * x = x
    OBVIOUS
  <2> QED BY <2>1, CongOfMod, ModInFp, FpIsInt
<1>9. q \in Fp /\ q \in Int /\ Cong(q, p * y)
  <2> HIDE DEF p
  <2>1. p * y \in Int
    BY <1>8
  <2> QED BY <2>1, CongOfMod, ModInFp, FpIsInt
<1> HIDE DEF p, q
<1>10. Cong(q, x * y)
  <2>1. Cong(p * y, x * y)
    BY <1>8, CongRefl, CongMul
  <2>2. p * y \in Int /\ x * y \in Int
    BY <1>8
  <2> QED BY <1>9, <2>1, <2>2, CongTrans
<1> QED
  BY <1>2, <1>7, <1>9, <1>10

Weighed(f0, f1, f2, f3, b1, b2) == f0 + b1 * f1 + b2 * f2 + (b1 * b2) * f3

LEMMA WeighedErrorIs ==
  ASSUME NEW f \in Vec, NEW b \in List(Fp, 2)
  PROVE  /\ WeighedError(f, b) \in Fp
         /\ Cong(WeighedError(f, b), Weighed(f[0], f[1], f[2], f[3], b[1], b[2]))
<1> DEFINE b1 == b[1]  b2 == b[2]
           f0 == f[0]  f1 == f[1]  f2 == f[2]  f3 == f[3]
           t(i) == (PowI(i - 1, b) * f[i - 1]) % P
           s == [i \in 1 .. 4 |-> t(i)]
<1>1. /\ b1 \in Int /\ b2 \in Int /\ f0 \in Int /\ f1 \in Int /\ f2 \in Int /\ f3 \in Int
  BY FpIsInt DEF List, Vec, Slot
<1>2. /\ PowI(0, b) \in Fp /\ Cong(PowI(0, b), 1 * 1)
  <2>1. (0 \div 2^0) % 2 = 0 /\ (0 \div 2^1) % 2 = 0 /\ 0 \in Nat /\ 1 \in Int
    OBVIOUS
  <2> DEFINE one == 1
  <2>2. one = 1 /\ one \in Int
    OBVIOUS
  <2> HIDE DEF one
  <2>3. /\ one = (IF (0 \div 2^0) % 2 = 1 THEN b[1] ELSE 1)
        /\ one = (IF (0 \div 2^1) % 2 = 1 THEN b[2] ELSE 1)
    BY <2>1, <2>2
  <2>4. PowI(0, b) \in Fp /\ Cong(PowI(0, b), one * one)
    BY <2>1, <2>2, <2>3, PowIOfTwo
  <2> QED BY <2>2, <2>4
<1>3. /\ PowI(1, b) \in Fp /\ Cong(PowI(1, b), b1 * 1)
  <2>1. (1 \div 2^0) % 2 = 1 /\ (1 \div 2^1) % 2 = 0 /\ 1 \in Nat
    OBVIOUS
  <2> DEFINE one == 1
  <2>2. one = 1 /\ one \in Int
    OBVIOUS
  <2> HIDE DEF one
  <2>3. /\ b1 = (IF (1 \div 2^0) % 2 = 1 THEN b[1] ELSE 1)
        /\ one = (IF (1 \div 2^1) % 2 = 1 THEN b[2] ELSE 1)
    BY <2>1, <2>2
  <2> HIDE DEF b1
  <2>4. PowI(1, b) \in Fp /\ Cong(PowI(1, b), b1 * one)
    BY <1>1, <2>1, <2>2, <2>3, PowIOfTwo
  <2> QED BY <2>2, <2>4
<1>4. /\ PowI(2, b) \in Fp /\ Cong(PowI(2, b), 1 * b2)
  <2>1. (2 \div 2^0) % 2 = 0 /\ (2 \div 2^1) % 2 = 1 /\ 2 \in Nat
    OBVIOUS
  <2> DEFINE one == 1
  <2>2. one = 1 /\ one \in Int
    OBVIOUS
  <2> HIDE DEF one
  <2>3. /\ one = (IF (2 \div 2^0) % 2 = 1 THEN b[1] ELSE 1)
        /\ b2 = (IF (2 \div 2^1) % 2 = 1 THEN b[2] ELSE 1)
    BY <2>1, <2>2
  <2> HIDE DEF b2
  <2>4. PowI(2, b) \in Fp /\ Cong(PowI(2, b), one * b2)
    BY <1>1, <2>1, <2>2, <2>3, PowIOfTwo
  <2> QED BY <2>2, <2>4
<1>5. /\ PowI(3, b) \in Fp /\ Cong(PowI(3, b), b1 * b2)
  <2>1. (3 \div 2^0) % 2 = 1 /\ (3 \div 2^1) % 2 = 1 /\ 3 \in Nat
    OBVIOUS
  <2>2. /\ b1 = (IF (3 \div 2^0) % 2 = 1 THEN b[1] ELSE 1)
        /\ b2 = (IF (3 \div 2^1) % 2 = 1 THEN b[2] ELSE 1)
    BY <2>1
  <2> HIDE DEF b1, b2
  <2> QED BY <1>1, <2>1, <2>2, PowIOfTwo
<1> HIDE DEF b1, b2
<1>6. ASSUME NEW p \in Fp, NEW m \in Int, Cong(p, m), NEW y \in Int
      PROVE  (p * y) % P \in Fp /\ Cong((p * y) % P, m * y)
  <2>1. p \in Int
    BY FpIsInt
  <2>2. p * y \in Int /\ m * y \in Int
    BY <2>1
  <2>3. (p * y) % P \in Fp /\ Cong((p * y) % P, p * y) /\ (p * y) % P \in Int
    BY <2>2, CongOfMod, ModInFp, FpIsInt
  <2>4. Cong(p * y, m * y)
    BY <1>6, <2>1, CongRefl, CongMul
  <2> QED BY <2>2, <2>3, <2>4, CongTrans
<1>7. /\ t(1) = (PowI(0, b) * f0) % P /\ t(2) = (PowI(1, b) * f1) % P
      /\ t(3) = (PowI(2, b) * f2) % P /\ t(4) = (PowI(3, b) * f3) % P
  <2>1. 1 - 1 = 0 /\ 2 - 1 = 1 /\ 3 - 1 = 2 /\ 4 - 1 = 3
    OBVIOUS
  <2> QED BY <2>1
<1> HIDE DEF t, f0, f1, f2, f3
<1>8. t(1) \in Fp /\ Cong(t(1), f0)
  <2>1. (1 * 1) * f0 = f0 /\ 1 * 1 \in Int
    BY <1>1
  <2> QED BY <1>1, <1>2, <1>6, <1>7, <2>1
<1>9. t(2) \in Fp /\ Cong(t(2), b1 * f1)
  <2>1. (b1 * 1) * f1 = b1 * f1 /\ b1 * 1 \in Int
    BY <1>1
  <2>2. t(2) \in Fp /\ Cong(t(2), (b1 * 1) * f1)
    BY <1>1, <1>3, <1>6, <1>7, <2>1
  <2> QED BY <2>1, <2>2
<1>10. t(3) \in Fp /\ Cong(t(3), b2 * f2)
  <2>1. (1 * b2) * f2 = b2 * f2 /\ 1 * b2 \in Int
    BY <1>1
  <2>2. t(3) \in Fp /\ Cong(t(3), (1 * b2) * f2)
    BY <1>1, <1>4, <1>6, <1>7, <2>1
  <2> QED BY <2>1, <2>2
<1>11. t(4) \in Fp /\ Cong(t(4), (b1 * b2) * f3)
  <2>1. b1 * b2 \in Int
    BY <1>1
  <2> QED BY <1>1, <1>5, <1>6, <1>7, <2>1
<1>12. WeighedError(f, b) = SumSeq(<<>> \o s)
  <2>1. Len(b) = 2 /\ 2^2 = 4
    BY DEF List
  <2> QED BY <2>1 DEF WeighedError, Collect, t
<1>13. s \in [1 .. 4 -> Fp] /\ s[1] = t(1) /\ s[2] = t(2) /\ s[3] = t(3) /\ s[4] = t(4)
  <2>1. \A i \in 1 .. 4 : i = 1 \/ i = 2 \/ i = 3 \/ i = 4
    OBVIOUS
  <2>2. \A i \in 1 .. 4 : t(i) \in Fp
    BY <1>8, <1>9, <1>10, <1>11, <2>1
  <2> QED BY <2>2
<1> HIDE DEF s
<1>14. <<>> \o s = s
  BY <1>13, CollectIs
<1>15. SumSeq(s) \in Fp /\ Cong(SumSeq(s), s[1] + s[2] + s[3] + s[4])
  <2>1. s \in List(Int, 4)
    BY <1>13, FpIsInt DEF List
  <2> QED BY <2>1, SumOfFour
<1> DEFINE e == WeighedError(f, b)
           t1 == t(1)  t2 == t(2)  t3 == t(3)  t4 == t(4)
           y2 == b1 * f1  y3 == b2 * f2  y4 == (b1 * b2) * f3
<1>16. e \in Fp /\ e \in Int /\ Cong(e, t1 + t2 + t3 + t4)
  BY <1>12, <1>13, <1>14, <1>15, FpIsInt
<1>17. /\ t1 \in Int /\ t2 \in Int /\ t3 \in Int /\ t4 \in Int
       /\ y2 \in Int /\ y3 \in Int /\ y4 \in Int
       /\ Cong(t1, f0) /\ Cong(t2, y2) /\ Cong(t3, y3) /\ Cong(t4, y4)
  <2>1. y2 \in Int /\ y3 \in Int /\ y4 \in Int
    BY <1>1
  <2> QED BY <1>8, <1>9, <1>10, <1>11, <2>1, FpIsInt
<1> HIDE DEF e, t1, t2, t3, t4, y2, y3, y4
<1>18. Cong(e, f0 + y2 + y3 + y4)
  <2>1. Cong(t1 + t2, f0 + y2)
    BY <1>1, <1>17, CongAdd
  <2>2. Cong((t1 + t2) + t3, (f0 + y2) + y3)
    BY <1>1, <1>17, <2>1, CongAdd
  <2>3. Cong(((t1 + t2) + t3) + t4, ((f0 + y2) + y3) + y4)
    BY <1>1, <1>17, <2>2, CongAdd
  <2>4. t1 + t2 + t3 + t4 \in Int /\ f0 + y2 + y3 + y4 \in Int
    BY <1>1, <1>17
  <2> QED BY <1>16, <2>3, <2>4, CongTrans
<1> QED
  BY <1>16, <1>18 DEF e, y2, y3, y4, b1, b2, f0, f1, f2, f3, Weighed

LEMMA VanishingAt ==
  ASSUME NEW y \in Fp PROVE Vanishing(2, y) \in Int
<1> DEFINE p == Pow(y, 2)
<1>1. p \in Int
  BY FpIsInt, PowStep
<1> HIDE DEF p
<1>2. p - 1 \in Int
  BY <1>1
<1> QED
  BY <1>2, ModInFp, FpIsInt DEF Vanishing, p

LEMMA InnerOfPair ==
  ASSUME NEW L \in List(Fp, 2), NEW a \in Fp, NEW b \in Fp, NEW g, g = [j \in 1 .. 2 |-> g[j]],
         g[1] = a, g[2] = b
  PROVE  Inner(L, <<>> \o g) = Join(L, a, b) /\ Join(L, a, b) \in Fp
<1> DEFINE q == <<a, b>>
<1>1. q[1] = a /\ q[2] = b /\ q = [j \in 1 .. 2 |-> q[j]] /\ q \in [1 .. 2 -> Fp]
  OBVIOUS
<1>2. Inner(L, q) = Join(L, a, b) /\ Join(L, a, b) \in Fp /\ Cong(Join(L, a, b), L[1] * a + L[2] * b)
  BY InnerOfTwo
<1> HIDE DEF q
<1>3. g = q
  <2>1. \A j \in 1 .. 2 : j = 1 \/ j = 2
    OBVIOUS
  <2>2. \A j \in 1 .. 2 : g[j] = q[j]
    BY <1>1, <2>1
  <2> QED BY <1>1, <2>2
<1>4. <<>> \o g = g
  BY <1>1, <1>3, CollectIs
<1> QED
  BY <1>2, <1>3, <1>4

LEMMA PairOf ==
  ASSUME NEW a, NEW b
  PROVE  /\ <<a>> \o <<b>> = <<a, b>> /\ Len(<<a, b>>) = 2
         /\ <<a, b>>[1] = a /\ <<a, b>>[2] = b /\ Len(<<b>>) = 1
<1> DEFINE S == {a, b}  s == <<a>>  t == <<b>>  c == s \o t  d == <<a, b>>
<1>1. s \in Seq(S) /\ t \in Seq(S) /\ Len(s) = 1 /\ Len(t) = 1 /\ s[1] = a /\ t[1] = b
  OBVIOUS
<1>2. d \in Seq(S) /\ Len(d) = 2 /\ d[1] = a /\ d[2] = b
  OBVIOUS
<1> HIDE DEF s, t, d
<1>3. c \in Seq(S) /\ Len(c) = 2 /\ c[1] = a /\ c[2] = b
  <2>1. c \in Seq(S) /\ Len(c) = 2
    BY <1>1, ConcatProperties
  <2>2. \A i \in 1 .. Len(s) + Len(t) : c[i] = IF i <= Len(s) THEN s[i] ELSE t[i - Len(s)]
    BY <1>1, ConcatProperties
  <2>3. 1 \in 1 .. 1 + 1 /\ 2 \in 1 .. 1 + 1 /\ 1 <= 1 /\ ~(2 <= 1) /\ 2 - 1 = 1
    OBVIOUS
  <2> HIDE DEF c
  <2> QED BY <1>1, <2>1, <2>2, <2>3
<1> HIDE DEF c
<1>4. \A i \in 1 .. Len(c) : c[i] = d[i]
  <2>1. \A i \in 1 .. 2 : i = 1 \/ i = 2
    OBVIOUS
  <2> QED BY <1>2, <1>3, <2>1
<1>5. c = d
  BY <1>2, <1>3, <1>4, SeqEqual
<1> QED
  BY <1>1, <1>2, <1>5 DEF c, d, s, t

\* What the computation of an instance fills in, whatever else it holds.
PgParts(u) == u.phi \in Fp /\ u.x \in [1 .. 2 -> Fp]

\* The folded instance, field by field.
FoldedBy(L, U, u, star, fa, K, y) ==
  [betas |-> star, phi |-> Join(L, U.phi, u.phi),
   e |-> (fa * L[1] + Vanishing(2, y) * PolyEval(K, y)) % P,
   x |-> [k \in 1 .. 2 |-> Join(L, U.x[k], u.x[k])]]

LEMMA FoldedOfOne ==
  ASSUME NEW U, PgParts(U), NEW u, PgParts(u),
         NEW star, NEW fa, NEW K, NEW y \in Fp
  PROVE  FoldedInstance(U, <<u>>, star, fa, K, y) = FoldedBy(LagrangeEvals(1, y), U, u, star, fa, K, y)
<1> DEFINE L == LagrangeEvals(1, y)
           all == <<U, u>>
           g == [j \in 1 .. 2 |-> all[j].phi]
           h(k) == [j \in 1 .. 2 |-> all[j].x[k]]
<1>1. L \in List(Fp, 2)
  BY FpIsInt, LagrangeAt
<1> HIDE DEF L
<1>0. U.phi \in Fp /\ U.x \in [1 .. 2 -> Fp] /\ u.phi \in Fp /\ u.x \in [1 .. 2 -> Fp]
  BY DEF PgParts
<1>2. all[1] = U /\ all[2] = u
  OBVIOUS
<1>3. FoldedInstance(U, <<u>>, star, fa, K, y)
        = [betas |-> star, phi |-> Inner(L, <<>> \o g),
           e |-> (fa * L[1] + Vanishing(2, y) * PolyEval(K, y)) % P,
           x |-> [k \in DOMAIN U.x |-> Inner(L, <<>> \o h(k))]]
  <2>1. Len(<<u>>) = 1 /\ <<U>> \o <<u>> = all /\ Len(all) = 2
    BY PairOf
  <2> HIDE DEF all
  <2> QED BY <2>1 DEF FoldedInstance, Collect, L
<1> HIDE DEF all
<1>4. Inner(L, <<>> \o g) = Join(L, U.phi, u.phi)
  <2>1. g = [j \in 1 .. 2 |-> g[j]] /\ g[1] = U.phi /\ g[2] = u.phi
    BY <1>2
  <2> HIDE DEF g
  <2> QED BY <1>0, <1>1, <2>1, InnerOfPair
<1>5. ASSUME NEW k \in 1 .. 2 PROVE Inner(L, <<>> \o h(k)) = Join(L, U.x[k], u.x[k])
  <2> DEFINE a == U.x[k]  b == u.x[k]  hk == h(k)
  <2>1. hk = [j \in 1 .. 2 |-> hk[j]] /\ hk[1] = a /\ hk[2] = b
    BY <1>2
  <2>2. a \in Fp /\ b \in Fp
    BY <1>0
  <2> HIDE DEF hk, a, b
  <2>3. Inner(L, <<>> \o hk) = Join(L, a, b)
    BY <1>1, <2>1, <2>2, InnerOfPair
  <2> QED BY <2>3 DEF hk, a, b
<1>6. [k \in DOMAIN U.x |-> Inner(L, <<>> \o h(k))] = [k \in 1 .. 2 |-> Join(L, U.x[k], u.x[k])]
  <2>1. DOMAIN U.x = 1 .. 2
    BY <1>0
  <2> HIDE DEF h
  <2> QED BY <1>5, <2>1
<1> HIDE DEF g, h
<1> QED
  BY <1>3, <1>4, <1>6 DEF FoldedBy, L

\* A constraint system of the kind the IVC folds, whose last constraint no
\* assignment violates.
IvcSystem(cs) ==
  /\ PgSystem(cs) /\ cs.l = 2 /\ cs.t = 2
  /\ \A z \in Vec : EvalAtZ(cs, z)[3] = 0

LEMMA OnePair ==
  ASSUME NEW u, PgParts(u), NEW w \in PgWitness(2) PROVE PairsOk(2, 1, <<u>>, <<w>>)
<1>1. PairOk(2, u, w)
  BY DEF PairOk, PgParts
<1>2. <<u>>[1] = u /\ <<w>>[1] = w /\ \A j \in 1 .. 1 : j = 1
  OBVIOUS
<1>3. IsList(<<u>>, 1) /\ IsList(<<w>>, 1)
  BY DEF IsList
<1> QED
  BY <1>1, <1>2, <1>3 DEF PairsOk

LEMMA LastOfIvc ==
  ASSUME NEW cs, IvcSystem(cs), NEW U \in PgRunning(2, 2), NEW W \in PgWitness(2), PgCheckRunning(cs, W, U)
  PROVE  PgRunningPair(cs, U, W) /\ LastHolds(cs, U, W)
<1>1. 2^cs.t - 1 = 3
  BY DEF IvcSystem
<1>2. Assignment(1, U.x, W.w) \in Vec
  <2>1. W.w \in Vec /\ U.x \in [1 .. 2 -> Fp] /\ 2 \in 0 .. 7
    BY DEF PgRunning, PgWitness, WitnessVec
  <2> QED BY <2>1, ZeroOneInFp, AssignmentInVec
<1> QED
  BY <1>1, <1>2 DEF IvcSystem, PgRunningPair, LastHolds, PgEval

\* What DividesExactlyZeroWeight and PgFoldSatisfies say of one incoming pair.
OneFolded(cs, U, u, w, delta, alpha, gamma, m, f) ==
  /\ f.U \in PgRunning(2, 2) /\ f.W \in PgWitness(2)
  /\ m.divided => PgCheckRunning(cs, f.W, f.U)
  /\ f.U = PgVerifierFold(U, <<u>>, f.F_coeffs, f.K_coeffs, delta, alpha, gamma)
  /\ PgCheckIncoming(cs, w, u) => m.divided
  /\ m.F_coeffs \in List(Fp, 2) /\ m.K_coeffs \in List(Fp, 3)

LEMMA OneFolds ==
  ASSUME NEW cs, IvcSystem(cs), NEW U \in PgRunning(2, 2), NEW W \in PgWitness(2), PgCheckRunning(cs, W, U),
         NEW u, PgParts(u), NEW w \in PgWitness(2), NEW delta \in Fp, NEW alpha \in Fp, NEW gamma \in Fp
  PROVE  LET m == PgMessages(cs, U, W, <<u>>, <<w>>, delta, alpha)
         IN  OneFolded(cs, U, u, w, delta, alpha, gamma, m, PgFold(m, U, W, <<u>>, <<w>>, gamma))
<1> DEFINE k  == 1  us == <<u>>  ws == <<w>>
           m  == PgMessages(cs, U, W, us, ws, delta, alpha)
           f  == PgFold(m, U, W, us, ws, gamma)
<1>1. /\ PgSystem(cs) /\ cs.l = 2 /\ cs.t = 2 /\ PgRunningPair(cs, U, W) /\ LastHolds(cs, U, W)
      /\ PairsOk(cs.l, k, us, ws)
  BY OnePair, LastOfIvc DEF IvcSystem
<1>2. k \in Foldable /\ Degree * k + 1 = 3
  BY OneIsFoldable DEF Degree
<1>3. us[1] = u /\ ws[1] = w /\ \A j \in 1 .. k : j = 1
  OBVIOUS
<1> HIDE DEF k, us, ws
<1>4. ZeroWeightDivides(cs, k, us, ws, m)
  BY <1>1, <1>2, DividesExactlyZeroWeight
<1>5. /\ f.U \in PgRunning(cs.l, cs.t) /\ f.W \in PgWitness(cs.l)
      /\ m.divided => PgCheckRunning(cs, f.W, f.U)
      /\ f.U = PgVerifierFold(U, us, f.F_coeffs, f.K_coeffs, delta, alpha, gamma)
  BY <1>1, <1>2, PgFoldSatisfies
<1>6. m.F_coeffs \in List(Fp, cs.t) /\ m.K_coeffs \in List(Fp, Degree * k + 1)
  BY <1>1, <1>2, MessagesAre
<1> HIDE DEF m, f
<1>7. PgCheckIncoming(cs, w, u) => m.divided
  <2> SUFFICES ASSUME PgCheckIncoming(cs, w, u) PROVE m.divided
    OBVIOUS
  <2>1. \A j \in 1 .. k : PgCheckIncoming(cs, ws[j], us[j])
    BY <1>3
  <2> QED BY <1>4, <2>1 DEF ZeroWeightDivides
<1>8. OneFolded(cs, U, u, w, delta, alpha, gamma, m, f)
  BY <1>1, <1>2, <1>5, <1>6, <1>7 DEF OneFolded, us
<1> QED
  BY <1>8 DEF m, f, us, ws

----------------------------------------------------------------------------
\* The constraints of the augmented circuit.

LEMMA AugRows == StepRows(AugR1CS) /\ AugR1CS.l = 2 /\ AugR1CS.t = 2
<1>1. (P - 1) \in Fp /\ ((P - 5) % P) \in Fp
  BY PAssumption, ModInFp DEF Fp
<1>2. \A k \in Slot : E1(k) \in Vec
  BY E1InVec
<1>3. [E1(5) EXCEPT ![4] = P - 1, ![0] = (P - 5) % P] \in Vec
  BY <1>1, <1>2 DEF Vec, Slot
<1> DEFINE c1 == [E1(5) EXCEPT ![4] = P - 1, ![0] = (P - 5) % P]
<1> HIDE DEF c1
<1>4. E1(3) \in Vec /\ E1(6) \in Vec /\ E1(7) \in Vec /\ E1(0) \in Vec /\ E1(1) \in Vec
      /\ E1(2) \in Vec /\ c1 \in Vec
  BY <1>2, <1>3 DEF Slot, c1
<1>5. ASSUME NEW a, NEW b, NEW c
      PROVE  FirstRows(<<a, b, c>>) = [k \in Slot |-> IF k = 0 THEN a ELSE IF k = 1 THEN b
                                                      ELSE IF k = 2 THEN c ELSE ZeroVec]
  BY DEF FirstRows, Slot
<1>6. /\ AugR1CS.A = FirstRows(<<E1(6), E1(3), E1(7)>>)
      /\ AugR1CS.B = FirstRows(<<E1(0), E1(3), E1(0)>>)
      /\ AugR1CS.C = FirstRows(<<E1(1), c1, E1(2)>>)
      /\ AugR1CS.l = 2 /\ AugR1CS.t = 2
  BY DEF AugR1CS, c1
<1>7. ASSUME NEW a \in Vec, NEW b \in Vec, NEW c \in Vec PROVE FirstRows(<<a, b, c>>) \in Matrix
  <2> DEFINE M == [k \in Slot |-> IF k = 0 THEN a ELSE IF k = 1 THEN b ELSE IF k = 2 THEN c ELSE ZeroVec]
  <2>1. M \in Matrix
    BY ZeroVecInVec DEF Matrix
  <2>2. FirstRows(<<a, b, c>>) = M
    BY DEF FirstRows, Slot
  <2> QED BY <2>1, <2>2
<1>8. MatricesOk(AugR1CS)
  BY <1>4, <1>6, <1>7 DEF MatricesOk
<1> QED
  BY <1>5, <1>6, <1>8 DEF c1, StepRows

\* No assignment violates a constraint the circuit does not have.
LEMMA AugSystem == IvcSystem(AugR1CS)
<1>1. ASSUME NEW z \in Vec PROVE EvalAtZ(AugR1CS, z)[3] = 0
  <2>1. /\ 3 \in Slot /\ AugR1CS.A[3] = ZeroVec /\ AugR1CS.B[3] = ZeroVec /\ AugR1CS.C[3] = ZeroVec
    BY AugRows DEF StepRows, Slot
  <2>2. Dot(ZeroVec, z) = 0 /\ z[0] \in Int
    BY DotZero, FpIsInt DEF Vec, Slot
  <2>3. 0 * 0 - z[0] * 0 = 0
    BY <2>2
  <2>4. Cong(Dot(AugR1CS.A[3], z) * Dot(AugR1CS.B[3], z) - z[0] * Dot(AugR1CS.C[3], z), 0)
    BY <2>1, <2>2, <2>3, CongRefl
  <2> QED BY <2>1, <2>4, AugRows, ConstraintHolds DEF StepRows
<1> QED
  BY <1>1, AugRows DEF IvcSystem, PgSystem, Sizes, StepRows

\* The assignment of the augmented circuit satisfies it.
LEMMA AugSatisfied ==
  ASSUME NEW z \in Vec, z[0] = 1, z[6] = z[1], z[7] = z[2],
         z[5] = (z[3] * z[3] + z[4] + 5) % P
  PROVE  EvalAtZ(AugR1CS, z) = ZeroVec
BY AugRows, StepSatisfied

\* The running pair of init: its first constraint holds, and its betas weigh all
\* others by zero.
LEMMA DummyRunning ==
  /\ PgDummy \in PgRunning(2, 2) /\ PgDummyWitness \in PgWitness(2)
  /\ PgCheckRunning(AugR1CS, PgDummyWitness, PgDummy)
<1> DEFINE b == [j \in 1 .. 2 |-> 0]  z == Assignment(1, b, ZeroVec)  f == EvalAtZ(AugR1CS, z)
           v == WeighedError(f, b)
<1>1. PgDummy = [phi |-> 0, betas |-> b, e |-> 0, x |-> b] /\ PgDummyWitness = [w |-> ZeroVec, r_w |-> 0]
  BY AugRows DEF PgDummy, PgDummyInstance, PgDummyWitness
<1>2. b \in List(Fp, 2) /\ b[1] = 0 /\ b[2] = 0 /\ b \in [1 .. 2 -> Fp]
  BY ZeroOneInFp DEF List
<1>3. PgDummy \in PgRunning(2, 2)
  BY <1>1, <1>2, ZeroOneInFp DEF PgRunning
<1>4. PgDummyWitness \in PgWitness(2)
  <2>1. \A k \in 0 .. 2 : k \in Slot
    BY DEF Slot
  <2>2. ZeroVec \in WitnessVec(2)
    BY <2>1, ZeroVecInVec DEF WitnessVec, ZeroVec
  <2> QED BY <1>1, <2>2 DEF PgWitness
<1>5. z \in Vec /\ z[0] = 1 /\ z[1] = 0 /\ z[6] = 0
  <2>1. z[0] = 1 /\ z[1] = 0 /\ z[6] = 0
    BY DEF Assignment, Slot, ZeroVec
  <2>2. z \in Vec
    BY ZeroOneInFp DEF Assignment, Vec, ZeroVec
  <2> QED BY <2>1, <2>2
<1> HIDE DEF z
<1>6. f \in Vec
  BY <1>5, AugRows, EvalRow DEF StepRows
<1>7. f[0] = 0
  <2>1. /\ 0 \in Slot /\ AugR1CS.A[0] = E1(6) /\ AugR1CS.B[0] = E1(0) /\ AugR1CS.C[0] = E1(1)
    BY AugRows DEF StepRows, Slot
  <2>2. Dot(E1(6), z) = 0 /\ Dot(E1(0), z) = 1 /\ Dot(E1(1), z) = 0
    BY <1>5, DotE1 DEF Slot
  <2>3. 0 * 1 - z[0] * 0 = 0
    BY <1>5
  <2>4. Cong(Dot(AugR1CS.A[0], z) * Dot(AugR1CS.B[0], z) - z[0] * Dot(AugR1CS.C[0], z), 0)
    BY <2>1, <2>2, <2>3, CongRefl
  <2> QED BY <1>5, <2>1, <2>4, AugRows, ConstraintHolds DEF StepRows
<1> HIDE DEF f
<1>8. v \in Fp /\ Cong(v, Weighed(f[0], f[1], f[2], f[3], b[1], b[2]))
  BY <1>2, <1>6, WeighedErrorIs
<1>9. Weighed(f[0], f[1], f[2], f[3], b[1], b[2]) = 0
  <2>1. f[1] \in Int /\ f[2] \in Int /\ f[3] \in Int
    BY <1>6, FpIsInt DEF Vec, Slot
  <2>2. 0 + 0 * f[1] + 0 * f[2] + (0 * 0) * f[3] = 0
    BY <2>1
  <2> QED BY <1>2, <1>7, <2>2 DEF Weighed
<1> HIDE DEF v
<1>10. v = 0
  BY <1>8, <1>9, EqOfCong, ZeroOneInFp
<1>11. PgEval(AugR1CS, PgDummyWitness, PgDummy) = f
  BY <1>1 DEF PgEval, f, z
<1>12. PgDummy.e = 0 /\ PgDummy.betas = b /\ Len(b) = 2
  BY <1>1
<1> HIDE DEF b
<1>13. PgCheckRunning(AugR1CS, PgDummyWitness, PgDummy)
  BY <1>10, <1>11, <1>12, AugRows DEF PgCheckRunning, v
<1> QED
  BY <1>3, <1>4, <1>13

\* The one sum of commitments that is sent.
LEMMA PhiStarsIs ==
  ASSUME NEW U, PgParts(U), NEW u, NEW y \in Fp
  PROVE  PhiStars(U, <<u>>, y)[1] = Rlc(0, LagrangeEvals(1, y)[1], U.phi)
<1> DEFINE L == LagrangeEvals(1, y)  l == L[1]  phi == U.phi
           all == <<U, u>>
           t(i) == (L[i] * all[i].phi) % P
           g == [i \in 1 .. 1 |-> t(i)]
           h == [j \in 1 .. 1 |-> SumSeq(<<>> \o [i \in 1 .. j |-> t(i)])]
<1>1. L \in List(Fp, 2)
  BY FpIsInt, LagrangeAt
<1> HIDE DEF L
<1>2. l \in Int /\ phi \in Int
  BY <1>1, FpIsInt DEF List, PgParts
<1>3. PhiStars(U, <<u>>, y) = <<>> \o h
  <2>1. Len(<<u>>) = 1 /\ <<U>> \o <<u>> = all
    BY PairOf
  <2> HIDE DEF all
  <2> QED BY <2>1 DEF PhiStars, Collect, L
<1>4. t(1) = (l * phi) % P
  OBVIOUS
<1> HIDE DEF all, l, phi
<1>5. (l * phi) % P \in Fp /\ (l * phi) % P \in Int
  <2>1. l * phi \in Int
    BY <1>2
  <2> QED BY <2>1, ModInFp, FpIsInt
<1> HIDE DEF t
<1>6. g \in List(Int, 1) /\ g[1] = (l * phi) % P
  <2>1. \A i \in 1 .. 1 : i = 1
    OBVIOUS
  <2> QED BY <1>4, <1>5, <2>1 DEF List
<1>7. h[1] = SumSeq(<<>> \o g)
  OBVIOUS
<1>8. <<>> \o g = g
  BY <1>6, CollectIs DEF List
<1> HIDE DEF g, h
<1>9. h[1] = (0 + g[1]) % P
  BY <1>6, <1>7, <1>8, SumOfTerm
<1>10. h[1] = Rlc(0, l, phi) /\ h[1] \in Fp
  <2> DEFINE x == (l * phi) % P  m == l * phi
  <2>1. 0 + x = x /\ 0 + m = m
    BY <1>2, <1>5
  <2>2. x % P = x
    BY <1>5, ModOfFp
  <2>3. h[1] = x
    BY <1>6, <1>9, <2>1, <2>2
  <2>4. Rlc(0, l, phi) = x
    BY <2>1 DEF Rlc
  <2> QED BY <1>5, <2>3, <2>4
<1>11. <<>> \o h = h
  <2>1. h \in [1 .. 1 -> Fp]
    <3>1. \A i \in 1 .. 1 : i = 1
      OBVIOUS
    <3> QED BY <1>10, <3>1 DEF h
  <2> QED BY <2>1, CollectIs
<1> QED
  BY <1>3, <1>10, <1>11 DEF l, phi, L

\* The fold of one incoming pair, its transcript included: f is what the prover makes
\* of it and v what the verifier makes of the prover's messages.
Folds(cs, tr, U, W, u, w, f) ==
  LET v == PgVerify(tr, U, <<u>>, f.F_coeffs, f.K_coeffs)
  IN  /\ f.U \in PgRunning(2, 2) /\ f.W \in PgWitness(2)
      /\ PgCheckIncoming(cs, w, u) => f.divided
      /\ f.divided => PgCheckRunning(cs, f.W, f.U)
      /\ v.U = f.U /\ v.L = f.L /\ v.tr = f.tr
      /\ f.L[1] \in Fp /\ f.L[2] \in Fp
      /\ f.phi_stars[1] \in Fp /\ f.phi_stars[1] = Rlc(0, f.L[1], U.phi)
      /\ f.U.phi = Rlc(f.phi_stars[1], f.L[2], u.phi)
      /\ f.F_coeffs \in List(Fp, 2) /\ f.K_coeffs \in List(Fp, 3)

LEMMA ChallengeInFp == \A tr : GetChallenge(tr).r \in Fp
BY SqueezeInFp DEF GetChallenge

LEMMA ProveFolds ==
  ASSUME NEW cs, IvcSystem(cs), NEW tr, NEW U \in PgRunning(2, 2), NEW W \in PgWitness(2),
         PgCheckRunning(cs, W, U), NEW u, PgParts(u), NEW w \in PgWitness(2)
  PROVE  Folds(cs, tr, U, W, u, w, PgProve(cs, tr, U, W, <<u>>, <<w>>))
<1> DEFINE us == <<u>>  ws == <<w>>
           delta == PgDelta(tr, U, us).r
           F_c   == FCoeffs(cs, FX(cs, U, W, ExponentialPowers(delta, cs.t)))
           alpha == PgAlpha(tr, U, us, F_c).r
           m     == PgMessages(cs, U, W, us, ws, delta, alpha)
           gamma == PgGamma(tr, U, us, m.F_coeffs, m.K_coeffs)
           g     == gamma.r
           p     == PgFold(m, U, W, us, ws, g)
           f     == PgProve(cs, tr, U, W, us, ws)
           v     == PgVerify(tr, U, us, f.F_coeffs, f.K_coeffs)
<1>1. delta \in Fp /\ alpha \in Fp /\ g \in Fp
  BY ChallengeInFp DEF PgDelta, PgAlpha, PgGamma
<1>2. m.F_coeffs = F_c
  BY DEF PgMessages
<1>3. f = [k \in DOMAIN p \union {"tr"} |-> IF k = "tr" THEN gamma.tr ELSE p[k]]
  BY DEF PgProve, PgRespond
<1>4. /\ DOMAIN p = {"U", "W", "F_coeffs", "K_coeffs", "L", "phi_stars", "divided"}
      /\ p.F_coeffs = m.F_coeffs /\ p.K_coeffs = m.K_coeffs /\ p.divided = m.divided
      /\ p.L = LagrangeEvals(Len(us), g) /\ p.phi_stars = PhiStars(U, us, g)
  BY DEF PgFold
<1>5. Len(us) = 1
  OBVIOUS
<1>6. PgParts(U)
  BY DEF PgRunning, PgParts
<1>7. OneFolded(cs, U, u, w, delta, alpha, g, m, p)
  <2> HIDE DEF delta, alpha, g, F_c
  <2> QED BY <1>1, OneFolds
<1>9. p.U = FoldedInstance(U, us, m.betas_star, m.F_alpha, m.K_coeffs, g)
  BY DEF PgFold
<1> HIDE DEF p, m, f
<1>8. /\ p.U \in PgRunning(2, 2) /\ p.W \in PgWitness(2)
      /\ m.divided => PgCheckRunning(cs, p.W, p.U)
      /\ p.U = PgVerifierFold(U, us, p.F_coeffs, p.K_coeffs, delta, alpha, g)
      /\ PgCheckIncoming(cs, w, u) => m.divided
      /\ m.F_coeffs \in List(Fp, 2) /\ m.K_coeffs \in List(Fp, 3)
  <2> HIDE DEF delta, alpha, g, F_c
  <2> QED BY <1>7 DEF OneFolded
<1>11. /\ f.U = p.U /\ f.W = p.W /\ f.F_coeffs = m.F_coeffs /\ f.K_coeffs = m.K_coeffs
       /\ f.divided = m.divided /\ f.L = p.L /\ f.phi_stars = p.phi_stars /\ f.tr = gamma.tr
  <2> HIDE DEF gamma
  <2> QED BY <1>3, <1>4
<1>12. v = [U |-> PgVerifierFold(U, us, m.F_coeffs, m.K_coeffs, delta, alpha, g),
            L |-> LagrangeEvals(Len(us), g), tr |-> gamma.tr]
  <2> HIDE DEF us
  <2> QED BY <1>2, <1>11 DEF PgVerify
<1> HIDE DEF gamma, v
<1>13. v.U = f.U /\ v.L = f.L /\ v.tr = f.tr
  BY <1>4, <1>8, <1>11, <1>12
<1> HIDE DEF g, delta, alpha, F_c
<1>14. f.L \in List(Fp, 2) /\ f.L = LagrangeEvals(1, g)
  <2>1. LagrangeEvals(1, g) \in List(Fp, 2)
    BY <1>1, FpIsInt, LagrangeAt
  <2> QED BY <1>4, <1>5, <1>11, <2>1
<1>15. f.phi_stars[1] = Rlc(0, f.L[1], U.phi)
  <2>1. PhiStars(U, <<u>>, g)[1] = Rlc(0, LagrangeEvals(1, g)[1], U.phi)
    BY <1>1, <1>6, PhiStarsIs
  <2> QED BY <1>4, <1>11, <1>14, <2>1
<1>16. f.L[1] \in Fp /\ f.L[2] \in Fp
  BY <1>14 DEF List
<1>17. f.phi_stars[1] \in Fp
  <2>1. f.L[1] \in Int /\ U.phi \in Int
    BY <1>6, <1>16, FpIsInt DEF PgParts
  <2> DEFINE o == 0
  <2>2. o \in Int /\ f.phi_stars[1] = Rlc(o, f.L[1], U.phi)
    BY <1>15
  <2> HIDE DEF o
  <2> QED BY <2>1, <2>2, RlcInt
<1>18. f.U.phi = Rlc(f.phi_stars[1], f.L[2], u.phi)
  <2>1. FoldedInstance(U, <<u>>, m.betas_star, m.F_alpha, m.K_coeffs, g)
          = FoldedBy(LagrangeEvals(1, g), U, u, m.betas_star, m.F_alpha, m.K_coeffs, g)
    BY <1>1, <1>6, FoldedOfOne
  <2>2. f.U.phi = Join(f.L, U.phi, u.phi)
    BY <1>9, <1>11, <1>14, <2>1 DEF FoldedBy
  <2> QED BY <1>15, <2>2 DEF Join
<1>19. Folds(cs, tr, U, W, u, w, f)
  <2>1. /\ f.U \in PgRunning(2, 2) /\ f.W \in PgWitness(2)
        /\ PgCheckIncoming(cs, w, u) => f.divided
        /\ f.divided => PgCheckRunning(cs, f.W, f.U)
    BY <1>8, <1>11
  <2> QED BY <1>11, <1>13, <1>15, <1>16, <1>17, <1>18, <1>8, <2>1 DEF Folds, v, us
<1> QED
  BY <1>19 DEF f

\* Whatever it is given, the verifier folds to a running instance.
LEMMA VerifierFolds ==
  ASSUME NEW tr, NEW U \in PgRunning(2, 2), NEW u, PgParts(u),
         NEW F_c \in List(Fp, 2), NEW K_c \in List(Fp, 3), NEW phi \in Fp
  PROVE  FoldingGadget(tr, U, u, F_c, K_c, phi).U \in PgRunning(2, 2)
<1> DEFINE v == PgVerify(tr, U, <<u>>, F_c, K_c)
           delta == PgDelta(tr, U, <<u>>).r
           alpha == PgAlpha(tr, U, <<u>>, F_c).r
           g == PgGamma(tr, U, <<u>>, F_c, K_c).r
           L == LagrangeEvals(1, g)
           star == BetasStar(U.betas, ExponentialPowers(delta, 2), alpha)
           fa == VerifierFAlpha(U, F_c, alpha)
           e == (fa * L[1] + Vanishing(2, g) * PolyEval(K_c, g)) % P
           x == [k \in 1 .. 2 |-> Join(L, U.x[k], u.x[k])]
<1>1. delta \in Fp /\ alpha \in Fp /\ g \in Fp
  BY ChallengeInFp DEF PgDelta, PgAlpha, PgGamma
<1> HIDE DEF delta, alpha, g
<1>2. /\ U.betas \in List(Fp, 2) /\ Len(U.betas) = 2 /\ U.e \in Fp /\ PgParts(U)
      /\ U.x \in [1 .. 2 -> Fp] /\ u.x \in [1 .. 2 -> Fp]
  BY DEF PgRunning, List, PgParts
<1>3. v.U = FoldedInstance(U, <<u>>, star, fa, K_c, g)
  BY <1>2 DEF PgVerify, PgVerifierFold, delta, alpha, g
<1>4. v.U = [betas |-> star, phi |-> Join(L, U.phi, u.phi), e |-> e, x |-> x]
  <2>1. FoldedInstance(U, <<u>>, star, fa, K_c, g) = FoldedBy(L, U, u, star, fa, K_c, g)
    BY <1>1, <1>2, FoldedOfOne
  <2> HIDE DEF v, star, fa, L
  <2> QED BY <1>3, <2>1 DEF FoldedBy
<1>5. L \in List(Fp, 2)
  BY <1>1, FpIsInt, LagrangeAt
<1>6. star \in List(Fp, 2)
  <2> DEFINE t == 2
  <2>1. t \in Sizes
    BY DEF Sizes
  <2>2. U.betas \in List(Fp, t)
    BY <1>2
  <2> HIDE DEF t
  <2>3. BetasStar(U.betas, ExponentialPowers(delta, t), alpha) \in List(Fp, t)
    BY <1>1, <2>1, <2>2, ExponentialPowersOf, BetasStarOf
  <2> QED BY <2>3 DEF t
<1>7. fa \in Fp
  <2> DEFINE c == [F_c EXCEPT ![1] = U.e]
  <2>1. c \in List(Int, 2) /\ alpha \in Int
    BY <1>1, <1>2, FpIsInt DEF List
  <2> HIDE DEF c
  <2>2. PolyEval(c, alpha) \in Fp
    BY <2>1, PolyOfTwo
  <2> QED BY <2>2 DEF VerifierFAlpha, c
<1> HIDE DEF L, star, fa, v
<1>8. e \in Fp
  <2> DEFINE p == PolyEval(K_c, g)  l == L[1]  y == Vanishing(2, g)
  <2>1. p \in Int
    <3>1. K_c \in List(Int, 3) /\ g \in Int
      BY <1>1, FpIsInt DEF List
    <3>2. p \in Fp
      BY <3>1, PolyOfThree
    <3> QED BY <3>2, FpIsInt
  <2>2. l \in Int /\ fa \in Int
    BY <1>5, <1>7, FpIsInt DEF List
  <2>3. y \in Int
    BY <1>1, VanishingAt
  <2> HIDE DEF p, l, y
  <2>4. fa * l + y * p \in Int
    BY <2>1, <2>2, <2>3
  <2>5. (fa * l + y * p) % P \in Fp
    BY <2>4, ModInFp
  <2> QED BY <2>5 DEF p, l, y
<1>9. x \in [1 .. 2 -> Fp]
  <2>1. ASSUME NEW k \in 1 .. 2 PROVE Join(L, U.x[k], u.x[k]) \in Fp
    BY <1>2, <1>5, InnerOfTwo
  <2> QED BY <2>1
<1> HIDE DEF e, x
<1> DEFINE w == [v EXCEPT !.U.phi = phi]
<1>10. w.U = [betas |-> star, phi |-> phi, e |-> e, x |-> x]
  <2>1. "U" \in DOMAIN v
    BY DEF v, PgVerify
  <2>2. w.U = [v.U EXCEPT !.phi = phi]
    BY <2>1
  <2> QED BY <1>4, <2>2
<1>11. star \in [1 .. 2 -> Fp]
  BY <1>6 DEF List
<1>12. w.U \in PgRunning(2, 2)
  BY <1>8, <1>9, <1>10, <1>11 DEF PgRunning
<1> QED
  BY <1>12 DEF FoldingGadget, v

----------------------------------------------------------------------------
\* The commitments of a fold.

\* The witness a fold of one incoming pair leaves.
LEMMA FoldedWitnessOfOne ==
  ASSUME NEW W \in PgWitness(2), NEW w \in PgWitness(2), NEW y \in Fp,
         NEW L, L = LagrangeEvals(1, y), NEW V, V = FoldedWitness(W, <<w>>, y)
  PROVE  V.w \in Vec /\ V.w = VecRlc(VecRlc(ZeroVec, L[1], W.w), L[2], w.w)
<1> DEFINE all == <<W, w>>
           h(k) == [j \in 1 .. 2 |-> all[j].w[k]]
<1>1. L \in List(Fp, 2) /\ L[1] \in Fp /\ L[2] \in Fp
  <2>1. L \in List(Fp, 2)
    BY LagrangeAt
  <2> QED BY <2>1 DEF List
<1>2. all[1] = W /\ all[2] = w
  OBVIOUS
<1>3. W.w \in Vec /\ w.w \in Vec
  BY DEF PgWitness, WitnessVec
<1>4. V.w = [k \in Slot |-> Inner(L, <<>> \o h(k))]
  <2>1. Len(<<w>>) = 1 /\ <<W>> \o <<w>> = all /\ Len(all) = 2
    BY PairOf
  <2> HIDE DEF all
  <2> QED BY <2>1 DEF FoldedWitness, Collect
<1> HIDE DEF all
<1>5. ASSUME NEW k \in Slot
      PROVE  Inner(L, <<>> \o h(k)) = Join(L, W.w[k], w.w[k]) /\ Join(L, W.w[k], w.w[k]) \in Fp
  <2> DEFINE a == W.w[k]  b == w.w[k]  hk == h(k)
  <2>1. hk = [j \in 1 .. 2 |-> hk[j]] /\ hk[1] = a /\ hk[2] = b
    BY <1>2
  <2>2. a \in Fp /\ b \in Fp
    BY <1>3 DEF Vec
  <2> HIDE DEF hk, a, b
  <2>3. Inner(L, <<>> \o hk) = Join(L, a, b) /\ Join(L, a, b) \in Fp
    BY <1>1, <2>1, <2>2, InnerOfPair
  <2> QED BY <2>3 DEF hk, a, b
<1>6. V.w = [k \in Slot |-> Join(L, W.w[k], w.w[k])]
  <2> HIDE DEF h
  <2> QED BY <1>4, <1>5
<1>7. V.w \in Vec
  BY <1>5, <1>6 DEF Vec
<1>8. VecRlc(VecRlc(ZeroVec, L[1], W.w), L[2], w.w) = [k \in Slot |-> Join(L, W.w[k], w.w[k])]
  BY DEF VecRlc, Join, ZeroVec
<1> QED
  BY <1>6, <1>7, <1>8

\* Commitments are linear: two opened commitments fold to one that the folded witness opens.
LEMMA OneOpens ==
  ASSUME NEW W \in PgWitness(2), NEW w \in PgWitness(2), NEW U, NEW u, NEW y \in Fp,
         NEW L, L = LagrangeEvals(1, y), NEW V, V = FoldedWitness(W, <<w>>, y),
         PgOpens(G, W, U), PgOpens(G, w, u)
  PROVE  Commit(G, V.w, V.r_w) = Join(L, U.phi, u.phi)
<1>1. L[1] \in Fp /\ L[2] \in Fp
  BY LagrangeAt DEF List
<1>2. W.w \in Vec /\ w.w \in Vec /\ ZeroVec \in Vec /\ W.r_w = 0 /\ w.r_w = 0
  BY ZeroOneInFp DEF PgWitness, WitnessVec, ZeroVec, Vec
<1> DEFINE A == VecRlc(ZeroVec, L[1], W.w)  z == 0
<1>3. V.w = VecRlc(A, L[2], w.w)
  BY FoldedWitnessOfOne
<1>4. A \in Vec
  <2> DEFINE a == ZeroVec  l == L[1]
  <2>1. a \in Vec /\ l \in Fp
    BY <1>1, <1>2
  <2> HIDE DEF a, l
  <2>2. \A k \in Slot : Rlc(a[k], l, W.w[k]) \in Fp
    BY <1>2, <2>1, RlcCong DEF Vec
  <2>3. VecRlc(a, l, W.w) \in Vec
    BY <2>2 DEF VecRlc, Vec
  <2> QED BY <2>3 DEF a, l
<1>5. z \in Fp /\ Rlc(z, L[1], z) = z /\ Rlc(z, L[2], z) = z
  <2>1. \A l \in Fp : 0 + l * 0 = 0
    BY FpIsInt
  <2> QED BY <1>1, <2>1, ZeroMod, ZeroOneInFp DEF Rlc
<1>6. Commit(G, ZeroVec, z) = z
  BY GAssumption, CommitZero
<1> HIDE DEF A, z
<1>7. Commit(G, A, Rlc(z, L[1], z)) = Rlc(Commit(G, ZeroVec, z), L[1], Commit(G, W.w, z))
  BY <1>1, <1>2, <1>5, GAssumption, CommitLinear DEF A
<1>8. Commit(G, VecRlc(A, L[2], w.w), Rlc(z, L[2], z)) = Rlc(Commit(G, A, z), L[2], Commit(G, w.w, z))
  BY <1>1, <1>2, <1>4, <1>5, GAssumption, CommitLinear
<1>9. U.phi = Commit(G, W.w, z) /\ u.phi = Commit(G, w.w, z)
  BY <1>2 DEF PgOpens, z
<1>10. Commit(G, V.w, z) = Rlc(Rlc(z, L[1], U.phi), L[2], u.phi)
  BY <1>3, <1>5, <1>6, <1>7, <1>8, <1>9
<1>11. Commit(G, V.w, V.r_w) = Commit(G, V.w, z)
  BY SchemeAssumption DEF Commit
<1> QED
  BY <1>10, <1>11 DEF Join, z

\* What the prover's and the verifier's fold share, whether or not the pairs hold.
LEMMA LastFoldIs ==
  ASSUME NEW s, s.W_i \in PgWitness(2), s.w_i \in PgWitness(2), PgParts(s.U_i), PgParts(s.u_i),
         NEW f, f = PrimaryFold(s), NEW v, v = PgVerify(<<>>, s.U_i, <<s.u_i>>, f.F_coeffs, f.K_coeffs)
  PROVE  /\ v.L = f.L /\ v.tr = f.tr
         /\ f.L \in List(Fp, 2) /\ f.W.w \in Vec
         /\ f.U.phi = Join(f.L, s.U_i.phi, s.u_i.phi)
         /\ PgOpens(G, s.W_i, s.U_i) /\ PgOpens(G, s.w_i, s.u_i) => PgOpens(G, f.W, f.U)
<1> DEFINE U == s.U_i  W == s.W_i  u == s.u_i  w == s.w_i  us == <<u>>  ws == <<w>>
           tr == <<>>  cs == AugR1CS
           delta == PgDelta(tr, U, us).r
           F_c   == FCoeffs(cs, FX(cs, U, W, ExponentialPowers(delta, cs.t)))
           alpha == PgAlpha(tr, U, us, F_c).r
           m     == PgMessages(cs, U, W, us, ws, delta, alpha)
           gamma == PgGamma(tr, U, us, m.F_coeffs, m.K_coeffs)
           g     == gamma.r
           p     == PgFold(m, U, W, us, ws, g)
<1>1. g \in Fp
  BY ChallengeInFp DEF PgGamma
<1>2. f = [k \in DOMAIN p \union {"tr"} |-> IF k = "tr" THEN gamma.tr ELSE p[k]]
  BY DEF PrimaryFold, PgProve, PgRespond
<1>3. /\ DOMAIN p = {"U", "W", "F_coeffs", "K_coeffs", "L", "phi_stars", "divided"}
      /\ p.F_coeffs = m.F_coeffs /\ p.K_coeffs = m.K_coeffs
      /\ p.L = LagrangeEvals(Len(us), g)
      /\ p.U = FoldedInstance(U, us, m.betas_star, m.F_alpha, m.K_coeffs, g)
      /\ p.W = FoldedWitness(W, ws, g)
  BY DEF PgFold
<1>4. Len(us) = 1
  OBVIOUS
<1> HIDE DEF p, m
<1>5. /\ f.U = p.U /\ f.W = p.W /\ f.F_coeffs = m.F_coeffs /\ f.K_coeffs = m.K_coeffs
      /\ f.L = p.L /\ f.tr = gamma.tr
  <2> HIDE DEF gamma
  <2> QED BY <1>2, <1>3
<1>6. v.L = LagrangeEvals(Len(us), g) /\ v.tr = gamma.tr
  <2> HIDE DEF us
  <2> QED BY <1>5 DEF PgVerify, us
<1> HIDE DEF gamma, g
<1>7. f.L = LagrangeEvals(1, g) /\ f.L \in List(Fp, 2)
  <2>1. LagrangeEvals(1, g) \in List(Fp, 2)
    BY <1>1, LagrangeAt
  <2> QED BY <1>3, <1>4, <1>5, <2>1
<1>8. f.U.phi = Join(f.L, s.U_i.phi, s.u_i.phi)
  <2> DEFINE star == m.betas_star  fa == m.F_alpha  K == m.K_coeffs
  <2> HIDE DEF star, fa, K
  <2>1. FoldedInstance(U, <<u>>, star, fa, K, g) = FoldedBy(LagrangeEvals(1, g), U, u, star, fa, K, g)
    BY <1>1, FoldedOfOne
  <2>2. f.U = FoldedBy(f.L, U, u, star, fa, K, g)
    BY <1>3, <1>5, <1>7, <2>1 DEF star, fa, K
  <2> QED BY <2>2 DEF FoldedBy
<1>9. f.W = FoldedWitness(W, <<w>>, g)
  BY <1>3, <1>5
<1>10. f.W.w \in Vec
  BY <1>1, <1>7, <1>9, FoldedWitnessOfOne
<1>11. ASSUME PgOpens(G, s.W_i, s.U_i), PgOpens(G, s.w_i, s.u_i) PROVE PgOpens(G, f.W, f.U)
  <2>1. Commit(G, f.W.w, f.W.r_w) = Join(f.L, s.U_i.phi, s.u_i.phi)
    BY <1>1, <1>7, <1>9, <1>11, OneOpens
  <2> QED BY <1>8, <2>1 DEF PgOpens
<1> QED
  BY <1>3, <1>5, <1>6, <1>7, <1>8, <1>10, <1>11

----------------------------------------------------------------------------
\* The augmented circuit.

LEMMA HashInFp ==
  /\ \A U, i, z_0, z_i : Hash(U, i, z_0, z_i) \in Fp
  /\ \A U : HashCycleFold(U) \in Fp
BY SqueezeInFp DEF Hash, HashCycleFold

\* A running pair, and a fresh one that is yet to be folded.
Running(w, u) == /\ w \in PgWitness(2) /\ u \in PgRunning(2, 2)
                 /\ PgCheckRunning(AugR1CS, w, u)
Fresh(w, u) == /\ w \in PgWitness(2) /\ PgParts(u) /\ PgCheckIncoming(AugR1CS, w, u)
               /\ u = [phi |-> u.phi, betas |-> <<>>, e |-> 0, x |-> u.x]

\* The fresh pair of the circuit's witness, for the outputs h1 and h2.
LEMMA OutputsFresh ==
  ASSUME NEW a, a.z_i[1] \in Fp, a.ext \in Fp, NEW h1 \in Fp, NEW h2 \in Fp
  PROVE  LET c == CircuitOutputs(a, F(a.z_i, a.ext), <<h1, h2>>)
             w == PgNewWitness(c.W)
         IN  Fresh(w, PgCommit(G, w, <<h1, h2>>))
<1> DEFINE z_i1 == F(a.z_i, a.ext)
           c    == CircuitOutputs(a, z_i1, <<h1, h2>>)
           z    == Assignment(1, <<h1, h2>>, c.W)
           w    == PgNewWitness(c.W)
           u    == PgCommit(G, w, <<h1, h2>>)
<1>1. z_i1[1] = (a.z_i[1] * a.z_i[1] + a.ext + 5) % P /\ z_i1[1] \in Fp
  <2>1. a.z_i[1] * a.z_i[1] + a.ext + 5 \in Int
    BY FpIsInt
  <2> QED BY <2>1, ModInFp DEF F
<1> HIDE DEF z_i1
<1>2. /\ c.W[0] = 0 /\ c.W[1] = 0 /\ c.W[2] = 0 /\ c.W[3] = a.z_i[1] /\ c.W[4] = a.ext
      /\ c.W[5] = z_i1[1] /\ c.W[6] = h1 /\ c.W[7] = h2 /\ DOMAIN c.W = Slot
  BY DEF CircuitOutputs, Slot
<1> DEFINE W == c.W
<1>3. W \in Vec
  <2>1. (\A k \in Slot : W[k] \in Fp) => W \in Vec
    BY Zenon DEF CircuitOutputs, Vec
  <2>2. ASSUME NEW k \in Slot PROVE W[k] \in Fp
    <3>1. k = 0 \/ k = 1 \/ k = 2 \/ k = 3 \/ k = 4 \/ k = 5 \/ k = 6 \/ k = 7
      BY DEF Slot
    <3> HIDE DEF c
    <3> QED BY <1>1, <1>2, <3>1, ZeroOneInFp
  <2> QED BY <2>1, <2>2
<1> HIDE DEF c
<1>4. /\ z[0] = 1 /\ z[1] = h1 /\ z[2] = h2 /\ z[3] = a.z_i[1] /\ z[4] = a.ext
      /\ z[5] = z_i1[1] /\ z[6] = h1 /\ z[7] = h2
  BY <1>2 DEF Assignment, Slot
<1>5. z \in Vec
  <2>1. <<h1, h2>> \in [1 .. 2 -> Fp]
    OBVIOUS
  <2> QED BY <1>3, <2>1, AssignmentInVec, ZeroOneInFp
<1>6. EvalAtZ(AugR1CS, z) = ZeroVec
  <2>1. z[5] = (z[3] * z[3] + z[4] + 5) % P
    BY <1>1, <1>4
  <2> HIDE DEF z
  <2> QED BY <1>4, <1>5, <2>1, AugSatisfied
<1>7. w = [w |-> W, r_w |-> 0] /\ w \in PgWitness(2)
  <2>1. \A k \in 0 .. 2 : k = 0 \/ k = 1 \/ k = 2
    OBVIOUS
  <2>2. W \in WitnessVec(2)
    BY <1>2, <1>3, <2>1 DEF WitnessVec
  <2> QED BY <2>2 DEF PgNewWitness, PgWitness
<1>8. u = [phi |-> Commit(G, W, 0), betas |-> <<>>, e |-> 0, x |-> <<h1, h2>>]
  BY <1>7 DEF PgCommit
<1> HIDE DEF w, u, W
<1>9. Commit(G, W, 0) \in Fp
  BY <1>3, GAssumption, CommitCong, ZeroOneInFp
<1>10. PgParts(u)
  <2>1. <<h1, h2>> \in [1 .. 2 -> Fp]
    OBVIOUS
  <2> QED BY <1>8, <1>9, <2>1 DEF PgParts
<1>11. PgCheckIncoming(AugR1CS, w, u)
  <2>1. Assignment(1, u.x, w.w) = z
    BY <1>7, <1>8 DEF W
  <2> QED BY <1>6, <2>1 DEF PgCheckIncoming, PgEval
<1>12. u = [phi |-> u.phi, betas |-> <<>>, e |-> 0, x |-> u.x]
  BY <1>8
<1>13. Fresh(w, u)
  BY <1>7, <1>10, <1>11, <1>12 DEF Fresh
<1> QED
  BY <1>13 DEF u, w, W, c, z_i1

LEMMA FIsState ==
  ASSUME NEW z \in State, NEW e \in Ext
  PROVE  z[1] \in Fp /\ e \in Fp /\ F(z, e) \in State /\ Len(F(z, e)) = 1
<1>1. z[1] \in Fp /\ e \in Fp
  BY ExtAssumption DEF State
<1>2. (z[1] * z[1] + e + 5) % P \in Fp
  <2>1. z[1] * z[1] + e + 5 \in Int
    BY <1>1, FpIsInt
  <2> QED BY <2>1, ModInFp
<1> QED
  BY <1>1, <1>2 DEF F, State

\* The first public input of a fresh instance is the hash of its claim with some
\* running instance.
HashOfClaim(h, i, z_0, z_i) == \E U \in PgRunning(2, 2) : h = Hash(U, i, z_0, z_i)

\* Whatever the circuit is given, its outputs are hashes, the first of its claim.
LEMMA CircuitRuns ==
  ASSUME NEW a, a.U_i \in PgRunning(2, 2), a.u_i_phi \in Fp, a.U_i1_phi \in Fp,
         a.F_coeffs \in List(Fp, 2), a.K_coeffs \in List(Fp, 3), a.i \in Nat
  PROVE  LET c == AugmentedCircuit(a)
         IN  /\ c = CircuitOutputs(a, F(a.z_i, a.ext), c.x)
             /\ \E h1, h2 \in Fp : /\ c.x = <<h1, h2>>
                                   /\ HashOfClaim(h1, a.i + 1, a.z_0, F(a.z_i, a.ext))
<1> DEFINE u == [phi |-> a.u_i_phi, betas |-> <<>>, e |-> 0,
                 x |-> <<Hash(a.U_i, a.i, a.z_0, a.z_i), HashCycleFold(a.cf_U_i)>>]
           v == FoldingGadget(<<>>, a.U_i, u, a.F_coeffs, a.K_coeffs, a.U_i1_phi)
           z_i1 == F(a.z_i, a.ext)
           x == IF a.i = 0
                THEN <<Hash(PgDummy, 1, a.z_0, z_i1), HashCycleFold(DummyInstance(4))>>
                ELSE <<Hash(v.U, a.i + 1, a.z_0, z_i1), HashCycleFold(CycleFoldsInCircuit(a, v))>>
           c == AugmentedCircuit(a)
<1>1. c = CircuitOutputs(a, z_i1, x)
  BY DEF AugmentedCircuit
<1>2. v.U \in PgRunning(2, 2)
  <2>1. PgParts(u)
    <3> DEFINE h1 == Hash(a.U_i, a.i, a.z_0, a.z_i)  h2 == HashCycleFold(a.cf_U_i)
    <3>1. h1 \in Fp /\ h2 \in Fp
      BY HashInFp
    <3> HIDE DEF h1, h2
    <3>2. <<h1, h2>> \in [1 .. 2 -> Fp]
      BY <3>1
    <3>3. u.phi = a.u_i_phi /\ u.x = <<h1, h2>>
      BY DEF h1, h2
    <3> QED BY <3>2, <3>3 DEF PgParts
  <2> HIDE DEF u
  <2> QED BY <2>1, VerifierFolds
<1> HIDE DEF u, v, c, z_i1
<1>3. /\ Hash(PgDummy, 1, a.z_0, z_i1) \in Fp /\ HashCycleFold(DummyInstance(4)) \in Fp
      /\ Hash(v.U, a.i + 1, a.z_0, z_i1) \in Fp
      /\ HashCycleFold(CycleFoldsInCircuit(a, v)) \in Fp
  BY HashInFp
<1>4. c.x = x
  BY <1>1 DEF CircuitOutputs
<1>5. CASE a.i = 0
  <2>1. x = <<Hash(PgDummy, 1, a.z_0, z_i1), HashCycleFold(DummyInstance(4))>>
    BY <1>5
  <2> HIDE DEF x
  <2>2. HashOfClaim(Hash(PgDummy, 1, a.z_0, z_i1), a.i + 1, a.z_0, z_i1)
    BY <1>5, DummyRunning DEF HashOfClaim
  <2> QED BY <1>1, <1>3, <1>4, <2>1, <2>2 DEF c, z_i1
<1>6. CASE a.i # 0
  <2>1. x = <<Hash(v.U, a.i + 1, a.z_0, z_i1), HashCycleFold(CycleFoldsInCircuit(a, v))>>
    BY <1>6
  <2> HIDE DEF x
  <2>2. HashOfClaim(Hash(v.U, a.i + 1, a.z_0, z_i1), a.i + 1, a.z_0, z_i1)
    BY <1>2 DEF HashOfClaim
  <2> QED BY <1>1, <1>3, <1>4, <2>1, <2>2 DEF c, z_i1
<1> QED
  BY <1>5, <1>6

----------------------------------------------------------------------------
\* The scheme's promises.

Fields == {"i", "z_0", "z_i", "w_i", "u_i", "W_i", "U_i", "cf_W_i", "cf_U_i"}

\* The two primary witnesses open the commitments.
Opened(s) == PgOpens(G, s.w_i, s.u_i) /\ PgOpens(G, s.W_i, s.U_i)

\* Every struct holds a satisfied running pair and a sound CycleFold pair and, from the
\* first step on, the last step's fresh one, whose first public input is the hash of
\* its claim with some instance; its commitments open.
WellFormed(s) ==
  /\ DOMAIN s = Fields /\ s = [k \in Fields |-> s[k]]
  /\ s.i \in Nat /\ s.z_0 \in State /\ s.z_i \in State
  /\ Running(s.W_i, s.U_i)
  /\ Sound(CfR1CS, CfG, s.cf_W_i, s.cf_U_i)
  /\ Opened(s)
  /\ s.i = 0 => s = FreshProver(s.z_0)
  /\ s.i > 0 => /\ Len(s.z_0) = 1 /\ Len(s.z_i) = 1
                /\ Fresh(s.w_i, s.u_i)
                /\ HashOfClaim(s.u_i.x[1], s.i, s.z_0, s.z_i)

\* As long as no step failed those hashes are of its own running instances.
Consistent(s) == s.i > 0 => HashesMatch(s)

----------------------------------------------------------------------------
\* One step.

LEMMA FreshWellFormed ==
  ASSUME NEW z \in Z0
  PROVE  /\ WellFormed(FreshProver(z)) /\ Consistent(FreshProver(z))
         /\ FreshProver(z).i = 0 /\ FreshProver(z).z_0 = z /\ FreshProver(z).z_i = z
<1>1. Sound(CfR1CS, CfG, DummyWitness, DummyInstance(4))
  BY CfCircuit, CfGAssumption, DummySound
<1>2. Running(PgDummyWitness, PgDummy)
  BY DummyRunning DEF Running
<1>3. z \in State
  BY Z0Assumption
<1>4. Commit(G, ZeroVec, 0) = 0
  BY GAssumption, CommitZero
<1>5. Opened(FreshProver(z))
  BY <1>4 DEF FreshProver, Opened, PgOpens, PgDummyWitness, PgDummy, PgDummyInstance
<1> QED
  BY <1>1, <1>2, <1>3, <1>5 DEF FreshProver, WellFormed, Fields, Consistent

\* The folds of a step after the base case.
LEMMA StepFolds ==
  ASSUME NEW s, WellFormed(s), s.i > 0
  PROVE  LET f   == PrimaryFold(s)
             cf1 == Cf1Fold(s, f)
             cf2 == Cf2Fold(s, f, cf1)
         IN  /\ f.divided
             /\ Folds(AugR1CS, <<>>, s.U_i, s.W_i, s.u_i, s.w_i, f)
             /\ Running(f.W, f.U) /\ PgOpens(G, f.W, f.U)
             /\ Sound(CfR1CS, CfG, cf1.W, cf1.U) /\ Sound(CfR1CS, CfG, cf2.W, cf2.U)
             /\ s.U_i.phi \in Fp /\ s.u_i.phi \in Fp
<1> DEFINE f   == PrimaryFold(s)
           cf1 == Cf1Fold(s, f)
           cf2 == Cf2Fold(s, f, cf1)
<1>1. /\ s.U_i \in PgRunning(2, 2) /\ s.W_i \in PgWitness(2) /\ PgCheckRunning(AugR1CS, s.W_i, s.U_i)
      /\ s.w_i \in PgWitness(2) /\ PgParts(s.u_i) /\ PgCheckIncoming(AugR1CS, s.w_i, s.u_i)
      /\ Sound(CfR1CS, CfG, s.cf_W_i, s.cf_U_i)
  BY DEF WellFormed, Running, Fresh
<1>2. Folds(AugR1CS, <<>>, s.U_i, s.W_i, s.u_i, s.w_i, f)
  <2> DEFINE U == s.U_i  W == s.W_i  u == s.u_i  w == s.w_i  tr == <<>>
  <2>1. /\ U \in PgRunning(2, 2) /\ W \in PgWitness(2) /\ PgCheckRunning(AugR1CS, W, U)
        /\ w \in PgWitness(2) /\ PgParts(u)
    BY <1>1
  <2>2. f = PgProve(AugR1CS, tr, U, W, <<u>>, <<w>>)
    BY DEF PrimaryFold
  <2> HIDE DEF U, W, u, w, tr, f
  <2>3. Folds(AugR1CS, tr, U, W, u, w, PgProve(AugR1CS, tr, U, W, <<u>>, <<w>>))
    BY <2>1, AugSystem, ProveFolds
  <2> QED BY <2>2, <2>3 DEF U, W, u, w, tr
<1>7. PgOpens(G, f.W, f.U)
  <2>1. PgParts(s.U_i) /\ PgOpens(G, s.W_i, s.U_i) /\ PgOpens(G, s.w_i, s.u_i)
    BY <1>1 DEF WellFormed, Opened, PgRunning, PgParts
  <2> DEFINE v == PgVerify(<<>>, s.U_i, <<s.u_i>>, f.F_coeffs, f.K_coeffs)
  <2> HIDE DEF v
  <2>2. f = PrimaryFold(s) /\ v = PgVerify(<<>>, s.U_i, <<s.u_i>>, f.F_coeffs, f.K_coeffs)
    BY DEF v
  <2> HIDE DEF f
  <2> QED BY <1>1, <2>1, <2>2, LastFoldIs
<1> HIDE DEF f
<1>3. f.divided /\ Running(f.W, f.U)
  BY <1>1, <1>2 DEF Folds, Running
<1>4. /\ f.L[1] \in Fp /\ f.L[2] \in Fp /\ f.phi_stars[1] \in Fp
      /\ s.U_i.phi \in Fp /\ s.u_i.phi \in Fp /\ 0 \in Fp
  BY <1>1, <1>2, ZeroOneInFp DEF Folds, PgRunning, PgParts
<1>5. Sound(CfR1CS, CfG, cf1.W, cf1.U)
  <2> DEFINE o == 0
  <2>1. o \in Fp /\ cf1 = FoldCycleFoldCircuit(f.tr, s.cf_W_i, s.cf_U_i, f.L[1], o, s.U_i.phi, o, o)
    BY <1>4 DEF Cf1Fold
  <2> HIDE DEF o, cf1
  <2> QED BY <1>1, <1>4, <2>1, CfFoldSound
<1> HIDE DEF cf1
<1>6. Sound(CfR1CS, CfG, cf2.W, cf2.U)
  <2> DEFINE o == 0
  <2>1. o \in Fp /\ cf2 = FoldCycleFoldCircuit(cf1.tr, cf1.W, cf1.U, f.L[2], f.phi_stars[1], s.u_i.phi, o, o)
    BY <1>4 DEF Cf2Fold
  <2> HIDE DEF o, cf2
  <2> QED BY <1>4, <1>5, <2>1, CfFoldSound
<1> QED
  BY <1>2, <1>3, <1>4, <1>5, <1>6, <1>7 DEF f, cf1, cf2

\* The fields a step leaves.
LEMMA ProvedFields ==
  ASSUME NEW s, WellFormed(s), NEW ext, NEW d
  PROVE  LET f   == PrimaryFold(s)
             cf1 == Cf1Fold(s, f)
             cf2 == Cf2Fold(s, f, cf1)
             c   == AugmentedCircuit(CircuitInputs(s, ext, f, cf1, cf2))
             w   == PgNewWitness(c.W)
             p   == Proved(s, ext, d)
         IN  /\ DOMAIN p = Fields /\ p = [k \in Fields |-> p[k]]
             /\ p.z_0 = s.z_0
             /\ p.cf_W_i = (IF s.i = 0 THEN s.cf_W_i ELSE cf2.W)
             /\ p.cf_U_i = (IF s.i = 0 THEN s.cf_U_i ELSE cf2.U)
             /\ p.W_i = (IF s.i = 0 THEN s.W_i ELSE f.W)
             /\ p.U_i = (IF s.i = 0 THEN s.U_i ELSE f.U)
             /\ ext \in BadExt => /\ p.i = s.i /\ p.z_i = s.z_i /\ p.w_i = s.w_i
                                  /\ p.u_i = s.u_i
                                  /\ s.i = 0 => p = s
             /\ ext \notin BadExt => /\ p.i = s.i + 1 /\ p.z_i = c.z_i1 /\ p.w_i = w
                                     /\ p.u_i = PgCommit(G, w, c.x)
<1> DEFINE f   == PrimaryFold(s)
           cf1 == Cf1Fold(s, f)
           cf2 == Cf2Fold(s, f, cf1)
           c   == AugmentedCircuit(CircuitInputs(s, ext, f, cf1, cf2))
           w   == PgNewWitness(c.W)
           u   == PgCommit(G, w, c.x)
           run == IF s.i = 0 THEN s ELSE [s EXCEPT !.W_i = f.W, !.U_i = f.U,
                                                   !.cf_W_i = cf2.W, !.cf_U_i = cf2.U]
           p   == Proved(s, ext, d)
<1>1. p = IF ext \in BadExt THEN run
          ELSE [run EXCEPT !.i = @ + 1, !.z_i = c.z_i1, !.w_i = w, !.u_i = u]
  BY DEF Proved, AfterPrimary, AfterCf1, AfterFolds, AfterCircuit
<1> HIDE DEF f, cf1, cf2, c, w, u, p
<1>2. DOMAIN s = Fields /\ s = [k \in Fields |-> s[k]]
  BY DEF WellFormed
<1>3. /\ DOMAIN run = Fields /\ run = [k \in Fields |-> run[k]]
      /\ run.cf_W_i = (IF s.i = 0 THEN s.cf_W_i ELSE cf2.W)
      /\ run.cf_U_i = (IF s.i = 0 THEN s.cf_U_i ELSE cf2.U)
      /\ run.W_i = (IF s.i = 0 THEN s.W_i ELSE f.W)
      /\ run.U_i = (IF s.i = 0 THEN s.U_i ELSE f.U)
      /\ run.i = s.i /\ run.z_0 = s.z_0 /\ run.z_i = s.z_i /\ run.w_i = s.w_i
      /\ run.u_i = s.u_i
      /\ s.i = 0 => run = s
  <2>1. CASE s.i = 0
    <3>1. run = s
      BY <2>1
    <3> HIDE DEF run
    <3> QED BY <1>2, <2>1, <3>1
  <2>2. CASE s.i # 0
    <3> DEFINE r1 == [s EXCEPT !.W_i = f.W]  r2 == [r1 EXCEPT !.U_i = f.U]
               r3 == [r2 EXCEPT !.cf_W_i = cf2.W]
    <3>1. run = [r3 EXCEPT !.cf_U_i = cf2.U]
      BY <2>2
    <3> HIDE DEF r3, run
    <3>2. r3 = [r2 EXCEPT !.cf_W_i = cf2.W]
      BY DEF r3
    <3> HIDE DEF r2
    <3>3. r2 = [r1 EXCEPT !.U_i = f.U]
      BY DEF r2
    <3>4. /\ DOMAIN r1 = Fields /\ r1.i = s.i /\ r1.z_0 = s.z_0 /\ r1.z_i = s.z_i
          /\ r1.w_i = s.w_i /\ r1.u_i = s.u_i /\ r1.W_i = f.W
      BY <1>2 DEF Fields
    <3> HIDE DEF r1
    <3>5. /\ DOMAIN r2 = Fields /\ r2.i = s.i /\ r2.z_0 = s.z_0 /\ r2.z_i = s.z_i
          /\ r2.w_i = s.w_i /\ r2.u_i = s.u_i /\ r2.W_i = f.W /\ r2.U_i = f.U
      BY <3>3, <3>4 DEF Fields
    <3>6. /\ DOMAIN r3 = Fields /\ r3.i = s.i /\ r3.z_0 = s.z_0 /\ r3.z_i = s.z_i
          /\ r3.w_i = s.w_i /\ r3.u_i = s.u_i /\ r3.W_i = f.W /\ r3.U_i = f.U
          /\ r3.cf_W_i = cf2.W
      BY <3>2, <3>5 DEF Fields
    <3>7. /\ DOMAIN run = Fields /\ run.i = s.i /\ run.z_0 = s.z_0 /\ run.z_i = s.z_i
          /\ run.w_i = s.w_i /\ run.u_i = s.u_i /\ run.W_i = f.W /\ run.U_i = f.U
          /\ run.cf_W_i = cf2.W /\ run.cf_U_i = cf2.U
          /\ run = [k \in Fields |-> run[k]]
      BY <3>1, <3>6 DEF Fields
    <3> QED BY <2>2, <3>7
  <2> QED BY <2>1, <2>2
<1> HIDE DEF run
<1> DEFINE Kept    == /\ p.i = s.i /\ p.z_i = s.z_i /\ p.w_i = s.w_i
                      /\ p.u_i = s.u_i
                      /\ s.i = 0 => p = s
           Stepped == /\ p.i = s.i + 1 /\ p.z_i = c.z_i1 /\ p.w_i = w
                      /\ p.u_i = u
           Always  == /\ DOMAIN p = Fields /\ p = [k \in Fields |-> p[k]]
                      /\ p.z_0 = s.z_0
                      /\ p.cf_W_i = (IF s.i = 0 THEN s.cf_W_i ELSE cf2.W)
                      /\ p.cf_U_i = (IF s.i = 0 THEN s.cf_U_i ELSE cf2.U)
                      /\ p.W_i = (IF s.i = 0 THEN s.W_i ELSE f.W)
                      /\ p.U_i = (IF s.i = 0 THEN s.U_i ELSE f.U)
<1>4. ext \in BadExt => Always /\ Kept
  BY <1>1, <1>3
<1>5. ext \notin BadExt => Always /\ Stepped
  <2> SUFFICES ASSUME ext \notin BadExt PROVE Always /\ Stepped
    OBVIOUS
  <2> DEFINE p1 == [run EXCEPT !.i = @ + 1]  p2 == [p1 EXCEPT !.z_i = c.z_i1]
             p3 == [p2 EXCEPT !.w_i = w]
  <2>1. p = [run EXCEPT !.i = @ + 1, !.z_i = c.z_i1, !.w_i = w, !.u_i = u]
    BY <1>1
  <2>2. p = [p3 EXCEPT !.u_i = u]
    BY <2>1
  <2> HIDE DEF p3
  <2>3. p3 = [p2 EXCEPT !.w_i = w]
    BY DEF p3
  <2> HIDE DEF p2
  <2>4. p2 = [p1 EXCEPT !.z_i = c.z_i1]
    BY DEF p2
  <2> HIDE DEF p1
  <2>5. p1 = [run EXCEPT !.i = @ + 1]
    BY DEF p1
  <2>6. /\ DOMAIN p1 = Fields /\ p1.i = s.i + 1 /\ p1.z_0 = run.z_0
        /\ p1.cf_W_i = run.cf_W_i /\ p1.cf_U_i = run.cf_U_i
        /\ p1.W_i = run.W_i /\ p1.U_i = run.U_i
    BY <1>3, <2>5 DEF Fields
  <2>7. /\ DOMAIN p2 = Fields /\ p2.i = s.i + 1 /\ p2.z_0 = run.z_0 /\ p2.z_i = c.z_i1
        /\ p2.cf_W_i = run.cf_W_i /\ p2.cf_U_i = run.cf_U_i
        /\ p2.W_i = run.W_i /\ p2.U_i = run.U_i
    BY <2>4, <2>6 DEF Fields
  <2>8. /\ DOMAIN p3 = Fields /\ p3.i = s.i + 1 /\ p3.z_0 = run.z_0 /\ p3.z_i = c.z_i1
        /\ p3.cf_W_i = run.cf_W_i /\ p3.cf_U_i = run.cf_U_i /\ p3.w_i = w
        /\ p3.W_i = run.W_i /\ p3.U_i = run.U_i
    BY <2>3, <2>7 DEF Fields
  <2>9. /\ DOMAIN p = Fields /\ p.i = s.i + 1 /\ p.z_0 = run.z_0 /\ p.z_i = c.z_i1
        /\ p.cf_W_i = run.cf_W_i /\ p.cf_U_i = run.cf_U_i /\ p.w_i = w /\ p.u_i = u
        /\ p.W_i = run.W_i /\ p.U_i = run.U_i /\ p = [k \in Fields |-> p[k]]
    BY <2>2, <2>8 DEF Fields
  <2> QED BY <1>3, <2>9
<1>6. Always /\ (ext \in BadExt => Kept) /\ (ext \notin BadExt => Stepped)
  BY <1>4, <1>5
<1> QED
  BY <1>6 DEF p, u, w, c, cf2, cf1, f

LEMMA ResizedEmpty == ASSUME NEW n \in Nat PROVE Resize(<<>>, n) \in List(Fp, n)
<1> DEFINE m == 0  a == <<>>
<1>1. m \in Nat /\ a \in List(Fp, m)
  BY DEF List
<1> HIDE DEF m, a
<1>2. Resize(a, n) \in List(Fp, n)
  BY <1>1, ResizeIs
<1> QED
  BY <1>2 DEF a

\* The circuit's inputs and the fresh pair made of its outputs.
LEMMA StepCircuit ==
  ASSUME NEW s, WellFormed(s), NEW ext \in Ext
  PROVE  LET f   == PrimaryFold(s)
             cf1 == Cf1Fold(s, f)
             cf2 == Cf2Fold(s, f, cf1)
             c   == AugmentedCircuit(CircuitInputs(s, ext, f, cf1, cf2))
             w   == PgNewWitness(c.W)
             u   == PgCommit(G, w, c.x)
         IN  /\ c.z_i1 = F(s.z_i, ext)
             /\ Fresh(w, u) /\ u.x = c.x
             /\ HashOfClaim(u.x[1], s.i + 1, s.z_0, F(s.z_i, ext))
<1> DEFINE f   == PrimaryFold(s)
           cf1 == Cf1Fold(s, f)
           cf2 == Cf2Fold(s, f, cf1)
           a   == CircuitInputs(s, ext, f, cf1, cf2)
           c   == AugmentedCircuit(a)
           w   == PgNewWitness(c.W)
           u   == PgCommit(G, w, c.x)
<1>1. s.i \in Nat /\ s.z_i \in State /\ s.U_i \in PgRunning(2, 2)
  BY DEF WellFormed, Running
<1>2. s.i > 0 => /\ f.U.phi \in Fp /\ s.u_i.phi \in Fp
                 /\ f.F_coeffs \in List(Fp, 2) /\ f.K_coeffs \in List(Fp, 3)
  BY StepFolds DEF Folds, PgRunning
<1> HIDE DEF f
<1>3. /\ a.i = s.i /\ a.z_0 = s.z_0 /\ a.z_i = s.z_i /\ a.ext = ext
      /\ a.U_i \in PgRunning(2, 2) /\ a.u_i_phi \in Fp /\ a.U_i1_phi \in Fp
      /\ a.F_coeffs \in List(Fp, 2) /\ a.K_coeffs \in List(Fp, 3)
  <2>1. CASE s.i = 0
    <3>1. /\ a.i = 0 /\ a.z_0 = s.z_0 /\ a.z_i = s.z_i /\ a.ext = ext
          /\ a.U_i = PgDummy /\ a.u_i_phi = 0 /\ a.U_i1_phi = 0
          /\ a.F_coeffs = Resize(<<>>, AugR1CS.t) /\ a.K_coeffs = Resize(<<>>, Degree + 1)
      BY <2>1 DEF CircuitInputs
    <3>2. AugR1CS.t = 2 /\ Degree + 1 = 3
      BY AugRows DEF Degree
    <3>3. Resize(<<>>, 2) \in List(Fp, 2) /\ Resize(<<>>, 3) \in List(Fp, 3)
      <4> DEFINE m == 2  n == 3
      <4>1. m \in Nat /\ n \in Nat
        OBVIOUS
      <4> HIDE DEF m, n
      <4>2. Resize(<<>>, m) \in List(Fp, m) /\ Resize(<<>>, n) \in List(Fp, n)
        BY <4>1, ResizedEmpty
      <4> QED BY <4>2 DEF m, n
    <3> HIDE DEF a
    <3> QED BY <2>1, <3>1, <3>2, <3>3, DummyRunning, ZeroOneInFp
  <2>2. CASE s.i # 0
    <3>1. /\ a.i = s.i /\ a.z_0 = s.z_0 /\ a.z_i = s.z_i /\ a.ext = ext
          /\ a.U_i = s.U_i /\ a.u_i_phi = s.u_i.phi /\ a.U_i1_phi = f.U.phi
          /\ a.F_coeffs = f.F_coeffs /\ a.K_coeffs = f.K_coeffs
      BY <2>2 DEF CircuitInputs
    <3>2. s.i > 0
      BY <1>1, <2>2
    <3> HIDE DEF a
    <3> QED BY <1>1, <1>2, <3>1, <3>2
  <2> QED BY <2>1, <2>2
<1> HIDE DEF a
<1>4. s.z_i[1] \in Fp /\ ext \in Fp
  BY <1>1, FIsState
<1>5. /\ c = CircuitOutputs(a, F(a.z_i, a.ext), c.x)
      /\ \E h1, h2 \in Fp : /\ c.x = <<h1, h2>>
                            /\ HashOfClaim(h1, a.i + 1, a.z_0, F(a.z_i, a.ext))
  BY <1>1, <1>3, CircuitRuns
<1>6. PICK h1 \in Fp, h2 \in Fp :
        c.x = <<h1, h2>> /\ HashOfClaim(h1, a.i + 1, a.z_0, F(a.z_i, a.ext))
  BY <1>5
<1> HIDE DEF c
<1>7. /\ c = CircuitOutputs(a, F(a.z_i, a.ext), <<h1, h2>>)
      /\ c.z_i1 = F(s.z_i, ext)
  <2>1. c = CircuitOutputs(a, F(a.z_i, a.ext), <<h1, h2>>)
    BY <1>5, <1>6
  <2>2. CircuitOutputs(a, F(a.z_i, a.ext), <<h1, h2>>).z_i1 = F(a.z_i, a.ext)
    BY DEF CircuitOutputs
  <2> QED BY <1>3, <2>1, <2>2
<1>8. Fresh(w, u)
  BY <1>3, <1>4, <1>6, <1>7, OutputsFresh
<1>9. u.x = c.x
  BY DEF PgCommit
<1>10. HashOfClaim(u.x[1], s.i + 1, s.z_0, F(s.z_i, ext))
  BY <1>3, <1>6, <1>9
<1> HIDE DEF w, u
<1> QED
  BY <1>7, <1>8, <1>9, <1>10 DEF u, w, c, a, f

LEMMA ProvedWellFormed ==
  ASSUME NEW s, WellFormed(s), NEW ext \in Ext, NEW d, Len(s.z_i) = 1
  PROVE  WellFormed(Proved(s, ext, d))
<1> DEFINE f   == PrimaryFold(s)
           cf1 == Cf1Fold(s, f)
           cf2 == Cf2Fold(s, f, cf1)
           c   == AugmentedCircuit(CircuitInputs(s, ext, f, cf1, cf2))
           w   == PgNewWitness(c.W)
           u   == PgCommit(G, w, c.x)
           p   == Proved(s, ext, d)
<1>1. s.i > 0 => Running(f.W, f.U) /\ PgOpens(G, f.W, f.U) /\ Sound(CfR1CS, CfG, cf2.W, cf2.U)
  BY StepFolds
<1>2. /\ c.z_i1 = F(s.z_i, ext)
      /\ Fresh(w, u)
      /\ HashOfClaim(u.x[1], s.i + 1, s.z_0, F(s.z_i, ext))
  BY StepCircuit
<1>3. /\ DOMAIN p = Fields /\ p = [k \in Fields |-> p[k]]
      /\ p.z_0 = s.z_0
      /\ p.cf_W_i = (IF s.i = 0 THEN s.cf_W_i ELSE cf2.W)
      /\ p.cf_U_i = (IF s.i = 0 THEN s.cf_U_i ELSE cf2.U)
      /\ p.W_i = (IF s.i = 0 THEN s.W_i ELSE f.W)
      /\ p.U_i = (IF s.i = 0 THEN s.U_i ELSE f.U)
  BY ProvedFields
<1>4. ext \in BadExt => /\ p.i = s.i /\ p.z_i = s.z_i /\ p.w_i = s.w_i /\ p.u_i = s.u_i
                        /\ s.i = 0 => p = s
  BY ProvedFields
<1>5. ext \notin BadExt => /\ p.i = s.i + 1 /\ p.z_i = c.z_i1 /\ p.w_i = w /\ p.u_i = u
  BY ProvedFields
<1>11. PgOpens(G, w, u)
  BY DEF PgCommit, PgOpens
<1> HIDE DEF f, cf1, cf2, c, w, u, p
<1>6. /\ s.i \in Nat /\ s.z_0 \in State /\ s.z_i \in State
      /\ Running(s.W_i, s.U_i) /\ Sound(CfR1CS, CfG, s.cf_W_i, s.cf_U_i)
  BY DEF WellFormed
<1>7. Len(s.z_0) = 1
  <2>1. s.i = 0 => s.z_0 = s.z_i
    BY DEF WellFormed, FreshProver
  <2> QED BY <1>6, <2>1 DEF WellFormed
<1>8. Running(p.W_i, p.U_i) /\ Sound(CfR1CS, CfG, p.cf_W_i, p.cf_U_i)
  BY <1>1, <1>3, <1>6
<1>12. Opened(p)
  <2>1. PgOpens(G, s.w_i, s.u_i) /\ PgOpens(G, s.W_i, s.U_i)
    BY DEF WellFormed, Opened
  <2> QED BY <1>1, <1>3, <1>4, <1>5, <1>6, <1>11, <2>1 DEF Opened
<1>9. CASE ext \in BadExt
  <2>1. p.i = 0 => p = FreshProver(p.z_0)
    BY <1>3, <1>4, <1>9 DEF WellFormed
  <2>2. p.i > 0 => /\ Fresh(p.w_i, p.u_i) /\ Len(p.z_0) = 1 /\ Len(p.z_i) = 1
                   /\ HashOfClaim(p.u_i.x[1], p.i, p.z_0, p.z_i)
    BY <1>3, <1>4, <1>9 DEF WellFormed
  <2>3. WellFormed(p)
    BY <1>3, <1>4, <1>6, <1>8, <1>9, <1>12, <2>1, <2>2 DEF WellFormed
  <2> QED BY <2>3 DEF p
<1>10. CASE ext \notin BadExt
  <2>1. p.z_i \in State /\ Len(p.z_i) = 1
    BY <1>2, <1>5, <1>6, <1>10, FIsState
  <2>2. p.i \in Nat /\ p.i # 0
    BY <1>5, <1>6, <1>10
  <2>3. WellFormed(p)
    BY <1>2, <1>3, <1>5, <1>6, <1>7, <1>8, <1>10, <1>12, <2>1, <2>2 DEF WellFormed
  <2> QED BY <2>3 DEF p
<1> QED
  BY <1>9, <1>10

\* From a struct whose hashes match, the circuit computes the hashes of the
\* instances the prover keeps.
LEMMA CircuitAgrees ==
  ASSUME NEW s, WellFormed(s), HashesMatch(s), s.i > 0, NEW ext \in Ext
  PROVE  LET f   == PrimaryFold(s)
             cf1 == Cf1Fold(s, f)
             cf2 == Cf2Fold(s, f, cf1)
             c   == AugmentedCircuit(CircuitInputs(s, ext, f, cf1, cf2))
         IN  c.x = <<Hash(f.U, s.i + 1, s.z_0, F(s.z_i, ext)), HashCycleFold(cf2.U)>>
<1> DEFINE f   == PrimaryFold(s)
           cf1 == Cf1Fold(s, f)
           cf2 == Cf2Fold(s, f, cf1)
           a   == CircuitInputs(s, ext, f, cf1, cf2)
           u   == [phi |-> a.u_i_phi, betas |-> <<>>, e |-> 0,
                   x |-> <<Hash(a.U_i, a.i, a.z_0, a.z_i), HashCycleFold(a.cf_U_i)>>]
           g   == PgVerify(<<>>, a.U_i, <<u>>, a.F_coeffs, a.K_coeffs)
           v   == FoldingGadget(<<>>, a.U_i, u, a.F_coeffs, a.K_coeffs, a.U_i1_phi)
<1>1. /\ a.i = s.i /\ a.z_0 = s.z_0 /\ a.z_i = s.z_i /\ a.ext = ext
      /\ a.U_i = s.U_i /\ a.u_i_phi = s.u_i.phi /\ a.U_i1_phi = f.U.phi
      /\ a.F_coeffs = f.F_coeffs /\ a.K_coeffs = f.K_coeffs /\ a.phi_stars = f.phi_stars
      /\ a.cf_U_i = s.cf_U_i /\ a.cf1_u_i_cmW = cf1.u.cmW /\ a.cf2_u_i_cmW = cf2.u.cmW
      /\ a.cf1_cmT = cf1.cmT /\ a.cf2_cmT = cf2.cmT
  <2>1. s.i # 0
    BY DEF WellFormed
  <2> QED BY <2>1 DEF CircuitInputs
<1>2. Fresh(s.w_i, s.u_i) /\ s.i \in Nat /\ Sound(CfR1CS, CfG, s.cf_W_i, s.cf_U_i)
  BY DEF WellFormed
<1>3. /\ Folds(AugR1CS, <<>>, s.U_i, s.W_i, s.u_i, s.w_i, f)
      /\ Sound(CfR1CS, CfG, cf1.W, cf1.U)
      /\ s.U_i.phi \in Fp /\ s.u_i.phi \in Fp
  BY StepFolds
<1>4. AugmentedCircuit(a).x = <<Hash(v.U, a.i + 1, a.z_0, F(a.z_i, a.ext)),
                                HashCycleFold(CycleFoldsInCircuit(a, v))>>
  <2>1. a.i # 0
    BY <1>1, <1>2
  <2> HIDE DEF a
  <2> QED BY <2>1 DEF AugmentedCircuit, CircuitOutputs
<1>5. u = s.u_i
  <2>1. <<s.u_i.x[1], s.u_i.x[2]>> = s.u_i.x
    BY <1>2 DEF Fresh, PgParts
  <2>2. <<Hash(a.U_i, a.i, a.z_0, a.z_i), HashCycleFold(a.cf_U_i)>> = s.u_i.x
    <3> HIDE DEF a
    <3> QED BY <1>1, <2>1 DEF HashesMatch
  <2> HIDE DEF a
  <2> QED BY <1>1, <1>2, <2>2 DEF Fresh
<1> HIDE DEF a, u
<1>6. g.U = f.U /\ g.L = f.L /\ g.tr = f.tr
  <2> HIDE DEF f, cf1, cf2
  <2> QED BY <1>1, <1>3, <1>5 DEF Folds
<1>7. v.U = f.U /\ v.L = f.L /\ v.tr = f.tr
  <2>1. v = [g EXCEPT !.U.phi = a.U_i1_phi]
    BY DEF FoldingGadget
  <2>2. "U" \in DOMAIN g
    BY DEF PgVerify
  <2>3. f.U.phi = a.U_i1_phi /\ f.U \in PgRunning(2, 2)
    BY <1>1, <1>3 DEF Folds
  <2> HIDE DEF g, v, f, cf1, cf2
  <2>4. v.U = [f.U EXCEPT !.phi = a.U_i1_phi] /\ v.L = g.L /\ v.tr = g.tr
    BY <1>6, <2>1, <2>2
  <2>5. [f.U EXCEPT !.phi = f.U.phi] = f.U
    BY <2>3 DEF PgRunning
  <2> QED BY <1>6, <2>3, <2>4, <2>5
<1>8. /\ f.L[1] \in Fp /\ f.L[2] \in Fp /\ f.phi_stars[1] \in Fp
      /\ f.phi_stars[1] = Rlc(0, f.L[1], s.U_i.phi)
      /\ f.U.phi = Rlc(f.phi_stars[1], f.L[2], s.u_i.phi)
  BY <1>3 DEF Folds
<1> HIDE DEF f, v, g
<1> DEFINE g1 == CycleFoldGadget(v.tr, a.cf_U_i, a.cf1_u_i_cmW,
                   <<v.L[1], 0, a.U_i.phi, a.phi_stars[1]>>, a.cf1_cmT)
<1>9. g1.U = cf1.U /\ g1.tr = cf1.tr
  <2> DEFINE o == 0
  <2>0. o \in Fp
    BY ZeroOneInFp
  <2>1. cf1 = FoldCycleFoldCircuit(f.tr, s.cf_W_i, s.cf_U_i, f.L[1], o, s.U_i.phi, o, o)
    BY DEF Cf1Fold
  <2>2. g1 = CycleFoldGadget(f.tr, s.cf_U_i, cf1.u.cmW,
               <<f.L[1], o, s.U_i.phi, Rlc(o, f.L[1], s.U_i.phi)>>, cf1.cmT)
    <3> HIDE DEF cf1, cf2
    <3> QED BY <1>1, <1>7, <1>8
  <2> HIDE DEF cf1, g1, o
  <2> QED BY <1>2, <1>3, <1>8, <2>0, <2>1, <2>2, CfGadgetAgrees
<1>10. CycleFoldsInCircuit(a, v) = cf2.U
  <2> DEFINE o == 0
  <2>0. o \in Fp
    BY ZeroOneInFp
  <2>1. cf2 = FoldCycleFoldCircuit(cf1.tr, cf1.W, cf1.U, f.L[2], f.phi_stars[1], s.u_i.phi, o, o)
    BY DEF Cf2Fold
  <2>2. CycleFoldsInCircuit(a, v) =
          CycleFoldGadget(g1.tr, g1.U, a.cf2_u_i_cmW,
            <<v.L[2], a.phi_stars[1], a.u_i_phi, v.U.phi>>, a.cf2_cmT).U
    BY DEF CycleFoldsInCircuit
  <2> HIDE DEF cf1, cf2, g1, o
  <2>3. CycleFoldsInCircuit(a, v) =
          CycleFoldGadget(cf1.tr, cf1.U, cf2.u.cmW,
            <<f.L[2], f.phi_stars[1], s.u_i.phi, Rlc(f.phi_stars[1], f.L[2], s.u_i.phi)>>, cf2.cmT).U
    BY <1>1, <1>7, <1>8, <1>9, <2>2
  <2> QED BY <1>3, <1>8, <2>0, <2>1, <2>3, CfGadgetAgrees
<1> QED
  BY <1>1, <1>4, <1>7, <1>10 DEF a, f

LEMMA ProvedConsistent ==
  ASSUME NEW s, WellFormed(s), Consistent(s), NEW ext \in Ext, ext \notin BadExt, NEW d
  PROVE  Consistent(Proved(s, ext, d))
<1> DEFINE f   == PrimaryFold(s)
           cf1 == Cf1Fold(s, f)
           cf2 == Cf2Fold(s, f, cf1)
           a   == CircuitInputs(s, ext, f, cf1, cf2)
           c   == AugmentedCircuit(a)
           w   == PgNewWitness(c.W)
           u   == PgCommit(G, w, c.x)
           p   == Proved(s, ext, d)
<1>1. /\ p.z_0 = s.z_0 /\ p.i = s.i + 1 /\ p.z_i = c.z_i1 /\ p.u_i = u
      /\ p.U_i = (IF s.i = 0 THEN s.U_i ELSE f.U)
      /\ p.cf_U_i = (IF s.i = 0 THEN s.cf_U_i ELSE cf2.U)
  BY ProvedFields
<1>2. c.z_i1 = F(s.z_i, ext) /\ u.x = c.x
  BY StepCircuit
<1>3. s.i \in Nat
  BY DEF WellFormed
<1>4. CASE s.i > 0
  <2>1. c.x = <<Hash(f.U, s.i + 1, s.z_0, F(s.z_i, ext)), HashCycleFold(cf2.U)>>
    BY <1>4, CircuitAgrees DEF Consistent
  <2> HIDE DEF f, cf2, c, u, p
  <2>2. HashesMatch(p)
    BY <1>1, <1>2, <1>4, <2>1 DEF HashesMatch
  <2> QED BY <2>2 DEF Consistent, p
<1>5. CASE s.i = 0
  <2>1. s.U_i = PgDummy /\ s.cf_U_i = DummyInstance(4)
    <3> DEFINE z == s.z_0
    <3> HIDE DEF z
    <3>1. s = FreshProver(z)
      BY <1>5 DEF WellFormed, z
    <3> QED BY <3>1 DEF FreshProver
  <2>2. a.i = 0 /\ a.z_0 = s.z_0 /\ a.z_i = s.z_i /\ a.ext = ext
    BY <1>5 DEF CircuitInputs
  <2> HIDE DEF f, cf2, u, p, a
  <2>3. c.x = <<Hash(PgDummy, 1, s.z_0, F(s.z_i, ext)), HashCycleFold(DummyInstance(4))>>
    BY <2>2 DEF AugmentedCircuit, CircuitOutputs
  <2> HIDE DEF c
  <2>4. HashesMatch(p)
    BY <1>1, <1>2, <1>5, <2>1, <2>3 DEF HashesMatch
  <2> QED BY <2>4 DEF Consistent, p
<1> QED
  BY <1>3, <1>4, <1>5

----------------------------------------------------------------------------
\* What a hash binds.

\* The fresh pair of init does not satisfy the circuit, as the product of F's
\* constraint has a constant term.
LEMMA DummyRefused ==
  ASSUME P # 5
  PROVE  ~PgCheckIncoming(AugR1CS, PgDummyWitness, PgDummyInstance(2, 0))
<1> DEFINE x == [k \in 1 .. 2 |-> 0]  z == Assignment(1, x, ZeroVec)  m == (P - 5) % P
           row == AugR1CS.C[1]  e == EvalAtZ(AugR1CS, z)[1]
<1>1. P > 5
  <2>1. P \in Nat /\ P > 1 /\ (P - 1) % 4 = 0
    BY FourIsOrder, PAssumption DEF Orders
  <2>2. P # 2 /\ P # 3 /\ P # 4
    BY <2>1
  <2> QED BY <2>1, <2>2
<1>2. m = P - 5
  BY <1>1, PAssumption
<1> HIDE DEF m
<1>3. z \in Vec /\ z[0] = 1 /\ z[3] = 0 /\ z[4] = 0 /\ z[5] = 0 /\ \A k \in Slot : z[k] \in Int
  <2>1. z[0] = 1 /\ z[3] = 0 /\ z[4] = 0 /\ z[5] = 0
    BY DEF Assignment, Slot, ZeroVec
  <2>2. z \in Vec
    BY ZeroOneInFp DEF Assignment, Vec, ZeroVec
  <2> QED BY <2>1, <2>2, FpIsInt DEF Vec
<1> HIDE DEF z
<1>4. /\ row[0] = m /\ row[1] = 0 /\ row[2] = 0 /\ row[3] = 0 /\ row[4] = P - 1
      /\ row[5] = 1 /\ row[6] = 0 /\ row[7] = 0
  <2> DEFINE one == [E1(5) EXCEPT ![4] = P - 1]
  <2>1. /\ one[1] = 0 /\ one[2] = 0 /\ one[3] = 0 /\ one[4] = P - 1 /\ one[5] = 1
        /\ one[6] = 0 /\ one[7] = 0 /\ DOMAIN one = Slot
    BY DEF E1, Slot
  <2>2. row = [one EXCEPT ![0] = m]
    BY AugRows DEF StepRows, Slot, m
  <2> HIDE DEF one, row
  <2> QED BY <2>1, <2>2 DEF Slot
<1>5. Dot(row, z) = m
  <2>1. Dot(row, z) = (  row[0] * z[0] + row[1] * z[1] + row[2] * z[2] + row[3] * z[3]
                       + row[4] * z[4] + row[5] * z[5] + row[6] * z[6] + row[7] * z[7]) % P
    BY DEF Dot
  <2> HIDE DEF row
  <2>2. /\ z[1] \in Int /\ z[2] \in Int /\ z[6] \in Int /\ z[7] \in Int /\ m \in Int /\ P - 1 \in Int
    BY <1>1, <1>2, <1>3, PAssumption DEF Slot
  <2>3. row[0] * z[0] + row[1] * z[1] + row[2] * z[2] + row[3] * z[3]
          + row[4] * z[4] + row[5] * z[5] + row[6] * z[6] + row[7] * z[7] = m
    BY <1>3, <1>4, <2>2
  <2>4. m % P = m
    BY <1>1, <1>2, PAssumption
  <2> QED BY <2>1, <2>3, <2>4
<1>6. e \in Fp /\ Cong(e, 0 * 0 - 1 * m)
  <2>1. 1 \in Slot /\ AugR1CS.A[1] = E1(3) /\ AugR1CS.B[1] = E1(3)
    BY AugRows DEF StepRows, Slot
  <2>2. Dot(E1(3), z) = 0
    BY <1>3, DotE1 DEF Slot
  <2>3. Cong(e, Dot(AugR1CS.A[1], z) * Dot(AugR1CS.B[1], z) - z[0] * Dot(row, z))
    BY <1>3, <2>1, AugRows, EvalRow DEF StepRows
  <2>4. e \in Fp
    BY <1>3, <2>1, AugRows, EvalRow DEF StepRows, Vec
  <2> HIDE DEF e, row
  <2> QED BY <1>3, <1>5, <2>1, <2>2, <2>3, <2>4
<1>7. e # 0
  <2> SUFFICES ASSUME e = 0 PROVE FALSE
    OBVIOUS
  <2>1. PICK k \in Int : 0 = 0 * 0 - 1 * m + k * P
    BY <1>6 DEF Cong
  <2>2. m = k * P
    BY <1>1, <1>2, <2>1, PAssumption
  <2>3. P - 5 = k * P /\ P \in Nat
    BY <1>2, <2>2, PAssumption
  <2>4. CASE k <= 0
    <3>1. k * P <= 0
      BY <2>3, <2>4
    <3> QED BY <1>1, <2>3, <3>1
  <2>5. CASE k >= 1
    <3>1. k * P >= P
      BY <2>3, <2>5
    <3> QED BY <1>1, <2>3, <3>1
  <2> QED BY <2>4, <2>5
<1>8. PgEval(AugR1CS, PgDummyWitness, PgDummyInstance(2, 0)) = EvalAtZ(AugR1CS, z)
  BY DEF PgEval, PgDummyWitness, PgDummyInstance, z
<1> QED
  BY <1>7, <1>8 DEF PgCheckIncoming, ZeroVec, Slot

HashInput(U, s) == ClaimInput(s, PgInstanceElements(U))

\* The hash in a is that of pr's instance with another claim.
Forged(a, pr) ==
  /\ a.i > 0 /\ ClaimOf(pr) # ClaimOf(a)
  /\ a.u_i.x[1] = Hash(pr.U_i, pr.i, pr.z_0, pr.z_i)

LEMMA PgElementsAreSix ==
  ASSUME NEW U \in PgRunning(2, 2)
  PROVE  PgInstanceElements(U) \in Seq(Int) /\ Len(PgInstanceElements(U)) = 6
<1> DEFINE a == <<U.phi>>  y == U.betas  c == <<U.e>>  x == U.x
           b == a \o y  d == b \o c  f == d \o x
<1>1. U.phi \in Int /\ U.e \in Int /\ U.betas \in [1 .. 2 -> Int] /\ U.x \in [1 .. 2 -> Int]
  BY FpIsInt DEF PgRunning
<1>2. x \in Seq(Int) /\ Len(x) = 2 /\ y \in Seq(Int) /\ Len(y) = 2
  BY <1>1, PairIsSeq, Zenon
<1>3. a \in Seq(Int) /\ Len(a) = 1 /\ c \in Seq(Int) /\ Len(c) = 1
  BY <1>1
<1> HIDE DEF a, y, c, x
<1>4. b \in Seq(Int) /\ Len(b) = Len(a) + Len(y)
  BY <1>2, <1>3, Concat, Zenon
<1> HIDE DEF b
<1>5. d \in Seq(Int) /\ Len(d) = Len(b) + Len(c)
  BY <1>3, <1>4, Concat, Zenon
<1> HIDE DEF d
<1>6. f \in Seq(Int) /\ Len(f) = Len(d) + Len(x)
  BY <1>2, <1>5, Concat, Zenon
<1> HIDE DEF f
<1>7. f \in Seq(Int) /\ Len(f) = 6
  BY <1>2, <1>3, <1>4, <1>5, <1>6
<1> QED
  BY <1>7 DEF PgInstanceElements, a, y, c, x, b, d, f

\* A forgery is a collision of the oracle: two different sequences with one answer.
LEMMA ForgedIsCollision ==
  ASSUME NEW a, WellFormed(a), NEW pr, Forged(a, pr),
         pr.U_i \in PgRunning(2, 2), pr.i \in Nat, pr.z_0 \in State, pr.z_i \in State,
         Len(pr.z_0) = 1 \/ Len(pr.z_i) = 1
  PROVE  \E U \in PgRunning(2, 2) :
           LET s == HashInput(U, a)
               t == HashInput(pr.U_i, pr)
           IN  s # t /\ RoElement(s) = RoElement(t) /\ a.u_i.x[1] = RoElement(s)
<1>1. PICK U \in PgRunning(2, 2) : a.u_i.x[1] = Hash(U, a.i, a.z_0, a.z_i)
  BY DEF WellFormed, Forged, HashOfClaim
<1>2. /\ a.i \in Nat /\ a.z_0 \in State /\ a.z_i \in State
      /\ Len(a.z_0) = 1 /\ Len(a.z_i) = 1
  BY DEF WellFormed, Forged
<1> DEFINE s == HashInput(U, a)
           t == HashInput(pr.U_i, pr)
<1>3. RoElement(s) = a.u_i.x[1] /\ RoElement(t) = a.u_i.x[1]
  <2>1. \A V, c : Hash(V, c.i, c.z_0, c.z_i) = RoElement(HashInput(V, c))
    BY DEF Hash, HashInput, ClaimInput, Squeeze
  <2> HIDE DEF s, t
  <2>2. a.u_i.x[1] = Hash(pr.U_i, pr.i, pr.z_0, pr.z_i)
    BY DEF Forged
  <2> QED BY <1>1, <2>1, <2>2 DEF s, t
<1>4. s # t
  <2>1. a.i # pr.i \/ a.z_0 # pr.z_0 \/ a.z_i # pr.z_i
    BY DEF Forged, ClaimOf
  <2> SUFFICES ASSUME s = t PROVE FALSE
    OBVIOUS
  <2> DEFINE e == PgInstanceElements(U)  f == PgInstanceElements(pr.U_i)
  <2>2. e \in Seq(Int) /\ f \in Seq(Int) /\ Len(e) = Len(f)
    BY PgElementsAreSix
  <2>3. ClaimInput(a, e) = ClaimInput(pr, f)
    BY DEF HashInput
  <2>4. /\ a.z_0 \in Seq(Int) /\ a.z_i \in Seq(Int)
        /\ pr.z_0 \in Seq(Int) /\ pr.z_i \in Seq(Int) /\ pr.z_0 # <<>> /\ pr.z_i # <<>>
    BY <1>2, FpIsInt, SMTT(30) DEF State
  <2> HIDE DEF e, f
  <2>5. a.i \in Nat /\ pr.i \in Nat
    BY <1>2
  <2>6. /\ a.i = pr.i
        /\ Len(a.z_0) = 1 /\ Len(a.z_i) = 1 /\ (Len(pr.z_0) = 1 \/ Len(pr.z_i) = 1)
             => a.z_0 = pr.z_0 /\ a.z_i = pr.z_i
    BY <2>2, <2>3, <2>4, <2>5, ClaimInputBinds
  <2> QED BY <1>2, <2>1, <2>6
<1> QED
  BY <1>3, <1>4

----------------------------------------------------------------------------
\* ProtoGalaxy is a folding scheme.
FSP == INSTANCE FoldingSchemeProofs

LEMMA PrecheckOk ==
  ASSUME NEW s, NEW multi \in BOOLEAN, Precheck(s, multi) = "Ok"
  PROVE  Len(s.z_i) = 1 /\ ~(s.i > UsizeMax)
BY DEF Precheck, StateLen

LEMMA NeverARemainder ==
  ASSUME NEW s, WellFormed(s), NEW multi \in BOOLEAN
  PROVE  Precheck(s, multi) # "RemainderNotZero"
<1>1. s.i > 0 => PrimaryFold(s).divided
  BY StepFolds
<1> QED
  BY <1>1 DEF Precheck

LEMMA PgSchemeOk == FSP!SchemeOk
<1>1. FSP!FreshOk
  BY FreshWellFormed DEF FSP!FreshOk, FSP!ClaimOf
<1>2. FSP!ProvedOk
  <2> SUFFICES ASSUME NEW s, NEW ext \in Ext, NEW d \in Draws, NEW multi \in BOOLEAN,
                      WellFormed(s), Precheck(s, multi) = "Ok"
               PROVE  /\ WellFormed(Proved(s, ext, d))
                      /\ ext \in BadExt => FSP!ClaimOf(Proved(s, ext, d)) = FSP!ClaimOf(s)
                      /\ ext \notin BadExt =>
                           /\ s.i <= UsizeMax
                           /\ FSP!ClaimOf(Proved(s, ext, d)) = FSP!Step(FSP!ClaimOf(s), ext)
                           /\ Consistent(s) => Consistent(Proved(s, ext, d))
    BY DEF FSP!ProvedOk
  <2>1. Len(s.z_i) = 1 /\ s.i <= UsizeMax
    BY PrecheckOk, BoundsAssumption DEF WellFormed
  <2>2. WellFormed(Proved(s, ext, d))
    BY <2>1, ProvedWellFormed
  <2>3. ext \notin BadExt /\ Consistent(s) => Consistent(Proved(s, ext, d))
    BY ProvedConsistent
  <2>4. /\ Proved(s, ext, d).z_0 = s.z_0
        /\ ext \in BadExt => Proved(s, ext, d).i = s.i /\ Proved(s, ext, d).z_i = s.z_i
        /\ ext \notin BadExt => /\ Proved(s, ext, d).i = s.i + 1
                                /\ Proved(s, ext, d).z_i = F(s.z_i, ext)
    BY <2>1, ProvedFields, StepCircuit
  <2> QED BY <2>1, <2>2, <2>3, <2>4 DEF FSP!ClaimOf, FSP!Step
<1> QED
  BY <1>1, <1>2 DEF FSP!SchemeOk

LEMMA StartedVerifies ==
  ASSUME NEW s, WellFormed(s), Consistent(s), s.i > 0 PROVE Verify(s)
<1>1. /\ PgCheckIncoming(AugR1CS, s.w_i, s.u_i) /\ PgCheckRunning(AugR1CS, s.W_i, s.U_i)
      /\ PgParts(s.u_i) /\ s.U_i \in PgRunning(2, 2)
      /\ CheckRelation(CfR1CS, s.cf_W_i, s.cf_U_i)
  BY DEF WellFormed, Fresh, Running, Sound
<1>2. DOMAIN s.u_i.x = 1 .. 2 /\ DOMAIN s.U_i.x = 1 .. 2
  BY <1>1 DEF PgParts, PgRunning
<1>3. HashesMatch(s)
  BY DEF Consistent
<1> QED
  BY <1>1, <1>2, <1>3 DEF Verify

\* What verify accepts is the claim of the struct whose hashes it is given.
LEMMA PgBindsOk == ASSUME P # 5 PROVE FSP!BindsOk
<1> SUFFICES ASSUME NEW a, NEW b, NEW mixed \in Mixed, WellFormed(a), WellFormed(b),
                    Verify(FSP!MixedUp(a, b, mixed))
             PROVE  \/ FSP!ClaimOf(FSP!MixedUp(a, b, mixed))
                         \in {FSP!ClaimOf(a), FSP!NoSteps(a), FSP!NoSteps(b)}
                    \/ Forged(a, FSP!MixedUp(a, b, mixed))
  BY DEF FSP!BindsOk
<1> DEFINE pr == FSP!MixedUp(a, b, mixed)
<1>1. /\ pr.i = (IF "i" \in mixed THEN b.i ELSE a.i)
      /\ pr.z_0 = (IF "z_0" \in mixed THEN b.z_0 ELSE a.z_0)
      /\ pr.z_i = (IF "z_i" \in mixed THEN b.z_i ELSE a.z_i)
      /\ pr.w_i = (IF "w_i" \in mixed THEN b.w_i ELSE a.w_i)
      /\ pr.u_i = (IF "u_i" \in mixed THEN b.u_i ELSE a.u_i)
  BY DEF FSP!MixedUp, WellFormed, Fields
<1> HIDE DEF pr
<1>2. CASE "u_i" \in mixed
  <2>1. mixed = {"w_i", "u_i"}
    BY <1>2 DEF Mixed
  <2>2. FSP!ClaimOf(pr) = FSP!ClaimOf(a)
    BY <1>1, <2>1 DEF FSP!ClaimOf
  <2> QED BY <2>2 DEF pr
<1>3. CASE "u_i" \notin mixed
  <2>1. HashesMatch(pr) /\ PgCheckIncoming(AugR1CS, pr.w_i, pr.u_i)
    BY DEF Verify, pr
  <2>2. "w_i" \notin mixed
    BY <1>3 DEF Mixed
  <2>3. pr.u_i = a.u_i /\ pr.w_i = a.w_i
    BY <1>1, <1>3, <2>2
  <2>4. a.u_i.x[1] = Hash(pr.U_i, pr.i, pr.z_0, pr.z_i)
    BY <2>1, <2>3 DEF HashesMatch
  <2>5. a.i > 0
    <3> SUFFICES ASSUME a.i = 0 PROVE FALSE
      BY DEF WellFormed
    <3> DEFINE z == a.z_0
    <3> HIDE DEF z
    <3>1. a = FreshProver(z)
      BY DEF WellFormed, z
    <3>2. a.w_i = PgDummyWitness /\ a.u_i = PgDummyInstance(2, 0)
      BY <3>1 DEF FreshProver
    <3> QED BY <2>1, <2>3, <3>2, DummyRefused
  <2>6. FSP!ClaimOf(pr) = ClaimOf(pr) /\ FSP!ClaimOf(a) = ClaimOf(a)
    BY DEF FSP!ClaimOf, ClaimOf
  <2> QED BY <2>4, <2>5, <2>6 DEF Forged, pr
<1> QED
  BY <1>2, <1>3

\* The sentinel of a party without a prover is neither a struct nor a claim.
NoProverApart == DOMAIN NoProver \notin {Fields, {"i", "z_0", "z_i"}}

LEMMA PgNoProverOk == ASSUME NoProverApart PROVE FSP!NoProverOk
<1> SUFFICES ASSUME NEW s, WellFormed(s)
             PROVE  s # NoProver /\ FSP!ClaimOf(s) # NoProver
  BY DEF FSP!NoProverOk
<1>1. DOMAIN s = Fields
  BY DEF WellFormed
<1>2. DOMAIN FSP!ClaimOf(s) = {"i", "z_0", "z_i"}
  BY DEF FSP!ClaimOf
<1> QED
  BY <1>1, <1>2 DEF NoProverApart

LEMMA PgConstantsOk == FSP!Abs!ConstantsOk
<1>1. \A z \in State, e \in Ext \ BadExt : F(z, e) \in State
  BY FIsState
<1> QED
  BY <1>1, Z0Assumption, BoundsAssumption DEF FSP!Abs!ConstantsOk

LEMMA SameSpec ==
  /\ Init <=> FSP!Init
  /\ [Next]_vars <=> [FSP!Next]_FSP!vars
<1>1. Init <=> FSP!Init
  BY DEF Init, FSP!Init, Returned, FSP!Returned
<1>2. \A p \in Party, z_0 \in Z0 : InitProver(p, z_0) <=> FSP!InitProver(p, z_0)
  BY DEF InitProver, FSP!InitProver, Returned, FSP!Returned
<1>3. \A p \in Party, ext \in Ext, multi \in BOOLEAN, d \in Draws :
        ProveStep(p, ext, multi, d) <=> FSP!ProveStep(p, ext, multi, d)
  BY DEF ProveStep, FSP!ProveStep, Returned, FSP!Returned
<1>4. \A p \in Party : Send(p) <=> FSP!Send(p)
  BY DEF Send, FSP!Send, Returned, FSP!Returned, Cardinality, FSP!Cardinality
<1>5. \A p \in Party, pr \in sent : Receive(p, pr) <=> FSP!Receive(p, pr)
  BY DEF Receive, FSP!Receive, Returned, FSP!Returned
<1>6. \A a, b \in sent, mixed \in Mixed : VerifyProof(a, b, mixed) <=> FSP!VerifyProof(a, b, mixed)
  BY DEF VerifyProof, FSP!VerifyProof, Returned, FSP!Returned, ClaimOf, FSP!ClaimOf
<1>7. Next <=> FSP!Next
  BY <1>2, <1>3, <1>4, <1>5, <1>6 DEF Next, FSP!Next
<1> QED
  BY <1>1, <1>7 DEF vars, FSP!vars

\* From its first step on a prover's proof verifies at any time, whoever started it
\* and however often it changed hands, as long as no step failed inside F's circuit.
THEOREM ProtoGalaxyCompleteness == Spec => []StartedProofVerifies
<1>1. FSP!Spec => []FSP!FInv
  BY PgSchemeOk, FSP!FInvariant
<1>2. FSP!FInv => StartedProofVerifies
  <2> SUFFICES ASSUME FSP!FInv, failures = 0, NEW p \in Provers, st[p].i > 0
               PROVE  Verify(st[p])
    BY DEF StartedProofVerifies
  <2>1. WellFormed(st[p]) /\ Consistent(st[p])
    BY DEF FSP!FInv, FSP!Good, FSP!Provers, Provers
  <2> QED BY <2>1, StartedVerifies
<1> QED
  BY <1>1, <1>2, SameSpec, PTL DEF Spec, FSP!Spec

\* No call returned an error of the division.
NoRemainder == verdict.ret # "RemainderNotZero"

\* A step that has folded leaves no remainder.
LEMMA StepDivides ==
  ASSUME FSP!FInv, NEW p \in Party, NEW ext \in Ext, NEW multi \in BOOLEAN, NEW d \in Draws,
         ProveStep(p, ext, multi, d)
  PROVE  verdict'.ret # "RemainderNotZero"
<1>1. WellFormed(st[p])
  BY DEF ProveStep, FSP!FInv, FSP!Good, FSP!Provers
<1>2. Precheck(st[p], multi) # "RemainderNotZero"
  BY <1>1, NeverARemainder
<1> QED
  BY <1>2 DEF ProveStep, Returned

\* A prover's pairs satisfy their relations after every call, a failed step included,
\* and so the polynomial of the next step always divides.
THEOREM ProtoGalaxySatisfied == Spec => []InstancesSatisfied
<1>1. Spec => []FSP!FInv
  BY PgSchemeOk, FSP!FInvariant, SameSpec, PTL DEF Spec, FSP!Spec
<1>2. Init => NoRemainder
  BY DEF Init, Returned, NoRemainder
<1>3. FSP!FInv /\ NoRemainder /\ [Next]_vars => NoRemainder'
  <2> SUFFICES ASSUME FSP!FInv, NoRemainder, [Next]_vars
               PROVE  verdict'.ret # "RemainderNotZero"
    BY DEF NoRemainder
  <2>1. ASSUME NEW p \in Party, NEW z_0 \in Z0, InitProver(p, z_0)
        PROVE  verdict'.ret # "RemainderNotZero"
    BY <2>1 DEF InitProver, Returned
  <2>2. ASSUME NEW p \in Party, NEW ext \in Ext, NEW multi \in BOOLEAN, NEW d \in Draws,
               ProveStep(p, ext, multi, d)
        PROVE  verdict'.ret # "RemainderNotZero"
    BY <2>2, StepDivides
  <2>3. ASSUME NEW p \in Party, Send(p) PROVE verdict'.ret # "RemainderNotZero"
    BY <2>3 DEF Send, Returned
  <2>4. ASSUME NEW p \in Party, NEW pr \in sent, Receive(p, pr)
        PROVE  verdict'.ret # "RemainderNotZero"
    BY <2>4 DEF Receive, Returned
  <2>5. ASSUME NEW a \in sent, NEW b \in sent, NEW mixed \in Mixed, VerifyProof(a, b, mixed)
        PROVE  verdict'.ret # "RemainderNotZero"
    BY <2>5 DEF VerifyProof, Returned
  <2>6. CASE UNCHANGED vars
    BY <2>6 DEF vars, NoRemainder
  <2> QED BY <2>1, <2>2, <2>3, <2>4, <2>5, <2>6 DEF Next
<1>4. FSP!FInv /\ NoRemainder => InstancesSatisfied
  <2> SUFFICES ASSUME FSP!FInv, NEW p \in Provers
               PROVE  /\ st[p].i > 0 => PgCheckIncoming(AugR1CS, st[p].w_i, st[p].u_i)
                      /\ PgCheckRunning(AugR1CS, st[p].W_i, st[p].U_i)
                      /\ CheckRelation(CfR1CS, st[p].cf_W_i, st[p].cf_U_i)
    BY DEF InstancesSatisfied, NoRemainder
  <2>1. WellFormed(st[p])
    BY DEF FSP!FInv, FSP!Good, FSP!Provers, Provers
  <2> QED BY <2>1 DEF WellFormed, Fresh, Running, Sound
<1> QED
  BY <1>1, <1>2, <1>3, <1>4, PTL DEF Spec

\* Some way to mix up two published proofs keeps a hash and changes its claim.
Forgery ==
  \E a, b \in sent, mixed \in Mixed :
    Forged(a, [k \in DOMAIN a |-> IF k \in mixed THEN b[k] ELSE a[k]])

LEMMA SameAbs ==
  /\ FSP!Abs!AInit => Abs!AInit
  /\ [FSP!Abs!ANext]_FSP!Abs!avars => [Abs!ANext]_Abs!avars
<1>1. FSP!Abs!AInit => Abs!AInit
  BY DEF FSP!Abs!AInit, Abs!AInit, FSP!ClaimOf, ClaimOf
<1>2. [FSP!Abs!ANext]_FSP!Abs!avars => [Abs!ANext]_Abs!avars
  BY DEF FSP!Abs!ANext, FSP!Abs!avars, FSP!Abs!Begin, FSP!Abs!Advance, FSP!Abs!Publish,
         FSP!Abs!Adopt, FSP!Abs!Fail, FSP!Abs!Accept, FSP!Abs!Trivial, FSP!ClaimOf,
         Abs!ANext, Abs!avars, Abs!Begin, Abs!Advance, Abs!Publish,
         Abs!Adopt, Abs!Fail, Abs!Accept, Abs!Trivial, ClaimOf
<1> QED
  BY <1>1, <1>2

\* Forgetting all but the claims, ProtoGalaxy implements IVC unless a published hash
\* is that of a second claim.  verify has no case for a proof of no steps: it refuses
\* the dummy pair of init for not satisfying the circuit, which it does modulo 5 only.
THEOREM ProtoGalaxyImplementsIVC ==
  ASSUME NoProverApart, P # 5 PROVE Spec /\ []~Forgery => ImplementsIVC
<1>1. FSP!Spec /\ []~FSP!Forgery => FSP!ImplementsIVC
  BY PgSchemeOk, PgBindsOk, PgNoProverOk, FSP!Refinement
<1>2. ~Forgery => ~FSP!Forgery
  BY DEF Forgery, FSP!Forgery, FSP!MixedUp
<1> QED
  BY <1>1, <1>2, SameSpec, SameAbs, PTL
     DEF Spec, FSP!Spec, ImplementsIVC, FSP!ImplementsIVC, Abs!ASpec, FSP!Abs!ASpec

\* What verify accepts is true: some run of F of that length leads from z_0 to z_i.
THEOREM ProtoGalaxySoundness ==
  ASSUME NoProverApart, P # 5 PROVE Spec /\ []~Forgery => []Abs!AcceptedTrue
<1>1. FSP!Spec /\ []~FSP!Forgery => []FSP!Abs!AcceptedTrue
  BY PgSchemeOk, PgBindsOk, PgNoProverOk, PgConstantsOk, FSP!Soundness
<1>2. ~Forgery => ~FSP!Forgery
  BY DEF Forgery, FSP!Forgery, FSP!MixedUp
<1>3. FSP!Abs!AcceptedTrue => Abs!AcceptedTrue
  BY DEF FSP!Abs!AcceptedTrue, FSP!Abs!True, Abs!AcceptedTrue, Abs!True
<1> QED
  BY <1>1, <1>2, <1>3, SameSpec, PTL DEF Spec, FSP!Spec

----------------------------------------------------------------------------
\* The decider.

\* What a struct holds, whether or not its fields belong together.
Typed(s) ==
  /\ s.i \in Nat /\ s.z_0 \in State /\ s.z_i \in State
  /\ s.w_i \in PgWitness(2) /\ PgParts(s.u_i) /\ IncomingOk(s.u_i)
  /\ s.W_i \in PgWitness(2) /\ s.U_i \in PgRunning(2, 2)
  /\ s.cf_W_i \in Witness(4) /\ s.cf_U_i \in CommittedInstance(4)

\* What the verifier in the circuit makes of the prover's messages.
CircuitFold(s) ==
  LET f == PrimaryFold(s) IN PgVerify(<<>>, s.U_i, <<s.u_i>>, f.F_coeffs, f.K_coeffs)

\* What the decider looks at: the last fold, and what is left of verify.
FoldHolds(s) ==
  LET f == PrimaryFold(s)
  IN  /\ f.divided /\ PartialEqual(CircuitFold(s).U, f.U)
      /\ PgCheckRunning(AugR1CS, f.W, f.U) /\ PgOpens(G, f.W, f.U)
RestHolds(s) ==
  HashesMatch(s) /\ CheckRelation(CfR1CS, s.cf_W_i, s.cf_U_i) /\ CfCommitted(s.cf_W_i, s.cf_U_i)

\* What verify looks at instead of the fold, with the openings.
PartsHold(s) ==
  /\ PgCheckIncoming(AugR1CS, s.w_i, s.u_i) /\ PgCheckRunning(AugR1CS, s.W_i, s.U_i)
  /\ Opened(s)

\* A commitment is one of KZG's.
LEMMA CommitIsKzg ==
  ASSUME NEW v \in Vec, NEW r
  PROVE  /\ Commit(G, v, r) = KzgCommit(Entries(v))
         /\ Entries(v) \in List(Int, 8)
<1>1. KzgCommit(Entries(v)) = Dot(G, v) /\ Dot(G, v) \in Fp
  BY KzgKeyAssumption, KzgIsDot
<1>2. Dot(G, v) + 0 = Dot(G, v)
  BY <1>1, FpIsInt
<1>3. Commit(G, v, r) = Dot(G, v) % P
  BY <1>2, SchemeAssumption DEF Commit
<1> QED
  BY <1>1, <1>3, ModOfFp, EntriesIs

\* A proof with KZG that a vector opens a commitment.
KzgOne(w, cs) == [j \in DOMAIN cs |-> KzgProveWithChallenge(cs[j], Openings(w)[j])]

LEMMA KzgOneOpens ==
  ASSUME NEW w, Entries(w.w) \in List(Int, 8), NEW tr, NEW cms, cms = <<cms[1]>>, NEW a \in Fp,
         NEW cs, cs = KzgChallenges(tr, cms), NEW pfs, pfs = KzgOne(w, cs)
  PROVE  /\ cs \in Seq(Int) /\ Eth!Evaluations(Openings(w), cs) \in Seq(Int)
         /\ Eth!Evals(pfs) = Eth!Evaluations(Openings(w), cs)
         /\ Eth!KzgOk(<<a>>, cs, pfs) <=> a = KzgCommit(Entries(w.w))
<1>1. DOMAIN cs = 1 .. 1 /\ cs[1] \in Fp /\ cs \in Seq(Int)
  BY KzgChallengeIs
<1>2. Openings(w)[1] = Entries(w.w) /\ \A j \in 1 .. 1 : j = 1
  BY DEF Openings
<1>3. DOMAIN pfs = 1 .. 1 /\ pfs[1] = KzgProveWithChallenge(cs[1], Entries(w.w))
  BY <1>1, <1>2 DEF KzgOne
<1>4. /\ pfs[1].eval = EvalVec(Entries(w.w), cs[1])
      /\ KzgVerifyWithChallenge(cs[1], a, pfs[1]) <=> a = KzgCommit(Entries(w.w))
  BY <1>1, <1>3, KzgOpens
<1>5. Eth!Evals(pfs) = Eth!Evaluations(Openings(w), cs)
  <2>1. \A j \in 1 .. 1 : pfs[j].eval = EvalVec(Openings(w)[j], cs[j])
    BY <1>2, <1>4
  <2> QED BY <1>1, <1>3, <2>1 DEF Eth!Evals, Eth!Evaluations
<1>6. Eth!KzgOk(<<a>>, cs, pfs) <=> KzgVerifyWithChallenge(cs[1], a, pfs[1])
  <2>1. DOMAIN <<a>> = 1 .. 1 /\ <<a>>[1] = a
    OBVIOUS
  <2> QED BY <1>2, <2>1 DEF Eth!KzgOk
<1>7. Eth!Evaluations(Openings(w), cs) \in Seq(Int)
  <2>1. EvalVec(Entries(w.w), cs[1]) \in Int
    BY <1>1, EvaluationInFp, FpIsInt
  <2>2. \A j \in 1 .. 1 : EvalVec(Openings(w)[j], cs[j]) \in Int
    BY <1>2, <2>1
  <2>3. Eth!Evaluations(Openings(w), cs) \in [1 .. 1 -> Int]
    BY <1>1, <2>2 DEF Eth!Evaluations
  <2> QED BY <2>3, SeqDef
<1> QED
  BY <1>1, <1>4, <1>5, <1>6, <1>7

\* The circuit of a struct.
LEMMA LastCircuitIs ==
  ASSUME NEW s, Typed(s), NEW f, f = PrimaryFold(s), NEW c, c = Eth!TryFrom(s)
  PROVE  /\ c.i = s.i /\ c.z_0 = s.z_0 /\ c.z_i = s.z_i /\ c.U_i = s.U_i /\ c.u_i = s.u_i
         /\ c.cf_U_i = s.cf_U_i /\ c.cf_W_i = s.cf_W_i /\ c.U_i1 = f.U /\ c.W_i1 = f.W
         /\ c.proof = [F_coeffs |-> f.F_coeffs, K_coeffs |-> f.K_coeffs] /\ c.randomness = f.L
         /\ c.kzg_challenges = KzgChallenges(f.tr, <<f.U.phi>>)
         /\ c.kzg_evaluations = Eth!Evaluations(Openings(f.W), c.kzg_challenges)
         /\ Eth!KzgProofs(c) = KzgOne(f.W, c.kzg_challenges)
<1>1. c = Eth!WithEvaluations(s, LastFoldOf(f), KzgChallenges(f.tr, <<f.U.phi>>))
  BY DEF Eth!TryFrom, Eth!WithFold, LastFold, LastFoldOf, Commitments
<1>2. /\ LastFoldOf(f).U = f.U /\ LastFoldOf(f).W = f.W /\ LastFoldOf(f).randomness = f.L
      /\ LastFoldOf(f).proof = [F_coeffs |-> f.F_coeffs, K_coeffs |-> f.K_coeffs]
  BY DEF LastFoldOf
<1> QED
  BY <1>1, <1>2 DEF Eth!WithEvaluations, Eth!KzgProofs, KzgOne

\* The prover's last fold, of any struct.
LEMMA LastFoldTyped ==
  ASSUME NEW s, Typed(s), NEW f, f = PrimaryFold(s)
  PROVE  /\ CircuitFold(s).L = f.L /\ CircuitFold(s).tr = f.tr
         /\ f.L \in List(Fp, 2) /\ f.W.w \in Vec
         /\ f.U.phi = Join(f.L, s.U_i.phi, s.u_i.phi)
         /\ Opened(s) => PgOpens(G, f.W, f.U)
<1>1. /\ s.W_i \in PgWitness(2) /\ s.w_i \in PgWitness(2) /\ PgParts(s.U_i) /\ PgParts(s.u_i)
  BY DEF Typed, PgParts, PgRunning
<1>2. CircuitFold(s) = PgVerify(<<>>, s.U_i, <<s.u_i>>, f.F_coeffs, f.K_coeffs)
  BY DEF CircuitFold
<1> DEFINE v == CircuitFold(s)
<1>3. v = PgVerify(<<>>, s.U_i, <<s.u_i>>, f.F_coeffs, f.K_coeffs)
  BY <1>2
<1> HIDE DEF v
<1>4. /\ v.L = f.L /\ v.tr = f.tr
      /\ f.L \in List(Fp, 2) /\ f.W.w \in Vec
      /\ f.U.phi = Join(f.L, s.U_i.phi, s.u_i.phi)
      /\ PgOpens(G, s.W_i, s.U_i) /\ PgOpens(G, s.w_i, s.u_i) => PgOpens(G, f.W, f.U)
  BY <1>1, <1>3, LastFoldIs
<1> QED
  BY <1>4 DEF v, Opened

\* The circuit's constraints on the fold are that both sides make the same of it.
LEMMA FoldIsConstrained ==
  ASSUME NEW s, Typed(s), NEW f, f = PrimaryFold(s), NEW c, c = Eth!TryFrom(s)
  PROVE  Eth!OnchainConstraints(c) <=>
           PartialEqual(CircuitFold(s).U, f.U) /\ PgCheckRunning(AugR1CS, f.W, f.U) /\ RestHolds(s)
<1> DEFINE v == CircuitFold(s)
<1>1. v.L = f.L /\ v.tr = f.tr
  BY LastFoldTyped
<1>2. v = PgVerify(<<>>, s.U_i, <<s.u_i>>, f.F_coeffs, f.K_coeffs)
  BY DEF CircuitFold
<1> HIDE DEF v
<1>4. /\ c.i = s.i /\ c.z_0 = s.z_0 /\ c.z_i = s.z_i /\ c.U_i = s.U_i /\ c.u_i = s.u_i
      /\ c.cf_U_i = s.cf_U_i /\ c.cf_W_i = s.cf_W_i /\ c.U_i1 = f.U /\ c.W_i1 = f.W
      /\ c.proof = [F_coeffs |-> f.F_coeffs, K_coeffs |-> f.K_coeffs] /\ c.randomness = f.L
      /\ c.kzg_challenges = KzgChallenges(f.tr, <<f.U.phi>>)
      /\ c.kzg_evaluations = Eth!Evaluations(Openings(f.W), c.kzg_challenges)
      /\ Eth!KzgProofs(c) = KzgOne(f.W, c.kzg_challenges)
  BY LastCircuitIs
<1>5. Eth!FoldConstraints(c, FoldFields(c)) <=> PartialEqual(v.U, f.U)
  <2> DEFINE w == [U |-> v.U, tr |-> v.tr, holds |-> v.L = f.L]
  <2>1. FoldFields(c) = w
    <3>1. c.proof.F_coeffs = f.F_coeffs /\ c.proof.K_coeffs = f.K_coeffs
      BY <1>4
    <3> QED BY <1>2, <1>4, <3>1 DEF FoldFields, WithInputs
  <2>2. c.kzg_challenges = KzgChallenges(f.tr, Commitments(f.U))
    BY <1>4 DEF Commitments
  <2>3. c.kzg_evaluations = Eth!Evaluations(Openings(f.W), c.kzg_challenges)
    BY <1>4
  <2>4. w.U = v.U /\ w.tr = f.tr /\ w.holds
    BY <1>1
  <2> HIDE DEF w
  <2>5. Eth!FoldConstraints(c, w) <=> PartialEqual(v.U, f.U)
    BY <1>4, <2>2, <2>3, <2>4 DEF Eth!FoldConstraints
  <2> QED BY <2>1, <2>5
<1>6. HashesMatch(c) <=> HashesMatch(s)
  BY <1>4 DEF HashesMatch
<1>7. /\ Relation(c.W_i1, c.U_i1) = PgCheckRunning(AugR1CS, f.W, f.U)
      /\ IncomingOk(c.u_i) = IncomingOk(s.u_i) /\ IncomingOk(s.u_i)
      /\ CfCommitted(c.cf_W_i, c.cf_U_i) = CfCommitted(s.cf_W_i, s.cf_U_i)
      /\ CfRelation(c.cf_W_i, c.cf_U_i) = CheckRelation(CfR1CS, s.cf_W_i, s.cf_U_i)
  BY <1>4 DEF Relation, CfRelation, Typed
<1>8. Eth!MainConstraints(c) <=>
        PgCheckRunning(AugR1CS, f.W, f.U) /\ HashesMatch(s) /\ PartialEqual(v.U, f.U)
  BY <1>5, <1>6, <1>7 DEF Eth!MainConstraints
<1> QED
  BY <1>7, <1>8 DEF Eth!OnchainConstraints, RestHolds, v

\* The verifier's fold of two commitments, by the L it is given.
LEMMA GroupFolds ==
  ASSUME NEW L \in List(Fp, 2), NEW U, PgParts(U), NEW u, PgParts(u), NEW x,
         NEW g, g = FoldGroup(Commitments(U), Commitments(u), x, L)
  PROVE  g.ret = "Ok" /\ g.cms = <<Join(L, U.phi, u.phi)>> /\ Join(L, U.phi, u.phi) \in Fp
<1>1. U.phi \in Fp /\ u.phi \in Fp /\ L[1] \in Fp /\ L[2] \in Fp
  BY DEF PgParts, List
<1>2. Join(L, U.phi, u.phi) \in Fp /\ Cong(Join(L, U.phi, u.phi), L[1] * U.phi + L[2] * u.phi)
  BY <1>1, InnerOfTwo
<1>3. U.phi \in Int /\ u.phi \in Int /\ L[1] \in Int /\ L[2] \in Int
  BY <1>1, FpIsInt
<1> DEFINE j == Join(L, U.phi, u.phi)  a == U.phi * L[1] + u.phi * L[2]
<1>4. a \in Int /\ L[1] * U.phi + L[2] * u.phi = a
  BY <1>3
<1>5. j \in Fp /\ j \in Int /\ Cong(j, a)
  BY <1>2, <1>4, FpIsInt
<1> HIDE DEF j, a
<1>6. (a % P) = j
  <2>1. (a % P) \in Fp /\ Cong(a % P, a) /\ (a % P) \in Int /\ Cong(a, j)
    BY <1>4, <1>5, ModInFp, CongOfMod, CongSym, FpIsInt
  <2>2. Cong(a % P, j)
    BY <1>4, <1>5, <2>1, CongTrans
  <2> QED BY <1>5, <2>1, <2>2, EqOfCong
<1>7. Commitments(U)[1] = U.phi /\ Commitments(u)[1] = u.phi
  BY DEF Commitments
<1>8. FoldGroup(Commitments(U), Commitments(u), x, L) = [ret |-> "Ok", cms |-> <<a % P>>]
  BY <1>7 DEF FoldGroup, a
<1> QED
  BY <1>5, <1>6, <1>8 DEF j

\* From the second step on the decider accepts a struct's proof of its own claim and
\* commitments if and only if the last fold and the rest of the struct hold.
LEMMA DeciderAccepts ==
  ASSUME NEW s, Typed(s), s.i > 1
  PROVE  PrimaryFold(s).divided /\ Answer(ClaimOf(s), s, s, Proof(s)) = "Verified"
           <=> FoldHolds(s) /\ RestHolds(s)
<1> DEFINE f   == PrimaryFold(s)
           c   == Eth!TryFrom(s)
           pf  == Eth!ProofOf(c)
           g   == FoldGroup(Commitments(s.U_i), Commitments(s.u_i), pf.proof, f.L)
           cms == Commitments(f.U)
<1>1. f.W.w \in Vec /\ f.L \in List(Fp, 2) /\ f.U.phi = Join(f.L, s.U_i.phi, s.u_i.phi)
  BY LastFoldTyped
<1>0. f = PrimaryFold(s) /\ c = Eth!TryFrom(s)
  OBVIOUS
<1> HIDE DEF f, c
<1>14. /\ c.i = s.i /\ c.z_0 = s.z_0 /\ c.z_i = s.z_i /\ c.U_i = s.U_i /\ c.u_i = s.u_i
      /\ c.cf_U_i = s.cf_U_i /\ c.cf_W_i = s.cf_W_i /\ c.U_i1 = f.U /\ c.W_i1 = f.W
      /\ c.proof = [F_coeffs |-> f.F_coeffs, K_coeffs |-> f.K_coeffs] /\ c.randomness = f.L
      /\ c.kzg_challenges = KzgChallenges(f.tr, <<f.U.phi>>)
      /\ c.kzg_evaluations = Eth!Evaluations(Openings(f.W), c.kzg_challenges)
      /\ Eth!KzgProofs(c) = KzgOne(f.W, c.kzg_challenges)
  BY <1>0, LastCircuitIs
<1>2. /\ pf.snark_proof = Eth!SnarkProve(Eth!OnchainConstraints(c), Eth!CircuitInputs(c))
      /\ pf.proof = c.proof /\ pf.randomness = f.L
      /\ pf.kzg_challenges = c.kzg_challenges /\ pf.kzg_proofs = KzgOne(f.W, c.kzg_challenges)
  BY <1>14 DEF Eth!ProofOf
<1>4. /\ c.kzg_challenges = KzgChallenges(f.tr, <<f.U.phi>>)
      /\ cms = <<f.U.phi>>
      /\ c.kzg_evaluations = Eth!Evaluations(Openings(f.W), c.kzg_challenges)
      /\ c.randomness = f.L /\ c.U_i1 = f.U
      /\ c.i = s.i /\ c.z_0 = s.z_0 /\ c.z_i = s.z_i
  BY <1>14 DEF Commitments
<1>3. /\ Entries(f.W.w) \in List(Int, 8)
      /\ PgOpens(G, f.W, f.U) <=> f.U.phi = KzgCommit(Entries(f.W.w))
  BY <1>1, CommitIsKzg DEF PgOpens
<1>11. g.ret = "Ok" /\ g.cms = cms /\ f.U.phi \in Fp
  <2> DEFINE x == pf.proof
  <2>1. g = FoldGroup(Commitments(s.U_i), Commitments(s.u_i), x, f.L)
    OBVIOUS
  <2> HIDE DEF x, g, cms
  <2>2. PgParts(s.U_i) /\ PgParts(s.u_i)
    BY DEF Typed, PgParts, PgRunning
  <2> QED BY <1>1, <1>4, <2>1, <2>2, GroupFolds
<1> HIDE DEF pf
<1>5. /\ Eth!Evals(pf.kzg_proofs) = c.kzg_evaluations
      /\ Eth!KzgOk(cms, pf.kzg_challenges, pf.kzg_proofs) <=> PgOpens(G, f.W, f.U)
  <2>1. /\ Eth!Evals(pf.kzg_proofs) = Eth!Evaluations(Openings(f.W), c.kzg_challenges)
        /\ Eth!KzgOk(<<f.U.phi>>, c.kzg_challenges, pf.kzg_proofs)
             <=> f.U.phi = KzgCommit(Entries(f.W.w))
    <3> DEFINE w == f.W  tr == f.tr  a == f.U.phi  l == <<a>>
               cs == c.kzg_challenges  pfs == pf.kzg_proofs
    <3>1. /\ pfs = KzgOne(w, cs)
          /\ cs = KzgChallenges(tr, l) /\ l = <<l[1]>> /\ a \in Fp /\ Entries(w.w) \in List(Int, 8)
      BY <1>2, <1>3, <1>4, <1>11
    <3> HIDE DEF w, tr, a, l, cs, pfs
    <3>2. /\ Eth!Evals(pfs) = Eth!Evaluations(Openings(w), cs)
          /\ Eth!KzgOk(<<a>>, cs, pfs) <=> a = KzgCommit(Entries(w.w))
      BY <3>1, KzgOneOpens
    <3> QED BY <3>2 DEF w, a, cs, pfs
  <2> QED BY <1>2, <1>3, <1>4, <2>1
<1>6. /\ ClaimOf(s).i = s.i /\ ClaimOf(s).z_0 = s.z_0 /\ ClaimOf(s).z_i = s.z_i
      /\ ~(ClaimOf(s).i <= 1)
  BY DEF ClaimOf, Typed
<1>7. Eth!SnarkVerify(Eth!PublicInputs(ClaimOf(s), cms, pf.kzg_challenges,
                        Eth!Evals(pf.kzg_proofs), FoldInputs(pf.proof, pf.randomness)),
                      pf.snark_proof)
        <=> Eth!OnchainConstraints(c)
  <2>1. Commitments(c.U_i1) = cms /\ FoldInputs(pf.proof, pf.randomness) = f.L
        /\ FoldInputs(c.proof, c.randomness) = f.L
    BY <1>2, <1>4 DEF FoldInputs
  <2> HIDE DEF cms
  <2>2. Eth!PublicInputs(ClaimOf(s), cms, pf.kzg_challenges,
                         Eth!Evals(pf.kzg_proofs), FoldInputs(pf.proof, pf.randomness))
          = Eth!CircuitInputs(c)
    BY <1>2, <1>4, <1>5, <1>6, <2>1 DEF Eth!PublicInputs, Eth!CircuitInputs
  <2> QED BY <1>2, <2>2 DEF Eth!SnarkVerify, Eth!SnarkProve
<1>8. Eth!VerifyFolded(ClaimOf(s), cms, pf) = "Verified"
        <=> Eth!OnchainConstraints(c) /\ PgOpens(G, f.W, f.U)
  BY <1>5, <1>7 DEF Eth!VerifyFolded
<1>9. f.divided /\ Eth!OnchainConstraints(c) /\ PgOpens(G, f.W, f.U) <=> FoldHolds(s) /\ RestHolds(s)
  <2>2. Eth!OnchainConstraints(c) <=>
          PartialEqual(CircuitFold(s).U, f.U) /\ PgCheckRunning(AugR1CS, f.W, f.U) /\ RestHolds(s)
    BY FoldIsConstrained DEF f, c
  <2> QED BY <2>2 DEF FoldHolds, f
<1>10. Answer(ClaimOf(s), s, s, pf)
         = (IF g.ret # "Ok" THEN g.ret ELSE Eth!VerifyFolded(ClaimOf(s), g.cms, pf))
  BY <1>2, <1>6 DEF Answer, Eth!DeciderVerify, Eth!VerifyGroup
<1> HIDE DEF g, cms
<1>13. f.divided /\ Answer(ClaimOf(s), s, s, pf) = "Verified" <=> FoldHolds(s) /\ RestHolds(s)
  BY <1>8, <1>9, <1>10, <1>11
<1> QED
  BY <1>13 DEF pf, c, f, Proof

\* A fold of two pairs that hold, holds.
LEMMA PartsFold == ASSUME NEW s, Typed(s), PartsHold(s) PROVE FoldHolds(s)
<1> DEFINE f == PrimaryFold(s)
           U == s.U_i  W == s.W_i  u == s.u_i  w == s.w_i  tr == <<>>
<1>1. f = PrimaryFold(s)
  OBVIOUS
<1>2. /\ U \in PgRunning(2, 2) /\ W \in PgWitness(2) /\ PgCheckRunning(AugR1CS, W, U)
      /\ w \in PgWitness(2) /\ PgParts(u) /\ PgCheckIncoming(AugR1CS, w, u) /\ Opened(s)
  BY DEF Typed, PartsHold
<1>3. f = PgProve(AugR1CS, tr, U, W, <<u>>, <<w>>)
  BY DEF PrimaryFold
<1> HIDE DEF f, U, W, u, w, tr
<1>4. Folds(AugR1CS, tr, U, W, u, w, f)
  <2>1. Folds(AugR1CS, tr, U, W, u, w, PgProve(AugR1CS, tr, U, W, <<u>>, <<w>>))
    BY <1>2, AugSystem, ProveFolds
  <2> QED BY <1>3, <2>1
<1>5. CircuitFold(s).U = f.U
  <2>1. CircuitFold(s) = PgVerify(tr, U, <<u>>, f.F_coeffs, f.K_coeffs)
    BY DEF CircuitFold, f, tr, U, u
  <2> QED BY <1>4, <2>1 DEF Folds
<1>6. f.divided /\ PgCheckRunning(AugR1CS, f.W, f.U)
  BY <1>2, <1>4 DEF Folds
<1>7. PgOpens(G, f.W, f.U)
  BY <1>1, <1>2, LastFoldTyped
<1> QED
  BY <1>5, <1>6, <1>7 DEF FoldHolds, PartialEqual, f

\* What verify and the openings ask of a struct.
LEMMA VerifyIsParts ==
  ASSUME NEW s, Typed(s)
  PROVE  Verify(s) /\ AllOpen(s) <=> PartsHold(s) /\ RestHolds(s)
<1>1. DOMAIN s.u_i.x = 1 .. 2 /\ DOMAIN s.U_i.x = 1 .. 2
  BY DEF Typed, PgParts, PgRunning
<1> QED
  BY <1>1 DEF Verify, AllOpen, PartsHold, RestHolds, Opened, CfCommitted

\* A prover's own struct and those mixed with a published proof.
LEMMA WellFormedOpens == ASSUME NEW s, WellFormed(s) PROVE Typed(s) /\ AllOpen(s)
<1>1. CfR1CS.l = 4
  BY CfCircuit
<1>2. s.w_i \in PgWitness(2) /\ PgParts(s.u_i) /\ IncomingOk(s.u_i)
  <2>1. CASE s.i > 0
    <3>1. Fresh(s.w_i, s.u_i)
      BY <2>1 DEF WellFormed
    <3>2. s.u_i.betas = <<>> /\ s.u_i.e = 0
      BY <3>1 DEF Fresh
    <3> QED BY <3>1, <3>2 DEF Fresh, IncomingOk
  <2>2. CASE ~(s.i > 0)
    <3> DEFINE z == s.z_0
    <3> HIDE DEF z
    <3>1. s = FreshProver(z)
      BY <2>2 DEF WellFormed, z
    <3>2. s.w_i = PgDummyWitness /\ s.u_i = PgDummyInstance(2, 0)
      BY <3>1 DEF FreshProver
    <3>3. PgParts(PgDummyInstance(2, 0))
      BY ZeroOneInFp DEF PgDummyInstance, PgParts
    <3>4. IncomingOk(PgDummyInstance(2, 0))
      BY DEF PgDummyInstance, IncomingOk
    <3> QED BY <3>2, <3>3, <3>4, DummyRunning
  <2> QED BY <2>1, <2>2
<1>3. Typed(s)
  BY <1>1, <1>2 DEF WellFormed, Running, Sound, Typed
<1>4. CfCommitted(s.cf_W_i, s.cf_U_i)
  <2>1. Opens(CfG, s.cf_W_i, s.cf_U_i) /\ s.cf_W_i.W \in Vec /\ s.cf_W_i.E \in Vec
    <3>0. Opens(CfG, s.cf_W_i, s.cf_U_i)
      BY SchemeAssumption DEF WellFormed, Sound, Opens
    <3> DEFINE l == 4  w == s.cf_W_i
    <3>1. l \in 0 .. 7 /\ w \in Witness(l)
      BY <1>3 DEF Typed
    <3> HIDE DEF l, w
    <3>2. w.W \in Vec /\ w.E \in Vec
      BY <3>1, WitnessParts
    <3> QED BY <3>0, <3>2 DEF w
  <2>2. \A v \in Vec : \A r : Commit(CfG, v, r) = Dot(CfG, v)
    <3> SUFFICES ASSUME NEW v \in Vec, NEW r PROVE Commit(CfG, v, r) = Dot(CfG, v)
      OBVIOUS
    <3>1. Dot(CfG, v) \in Fp
      BY CfGAssumption, DotIsSum
    <3>2. Dot(CfG, v) + 0 = Dot(CfG, v)
      BY <3>1, FpIsInt
    <3> QED BY <3>1, <3>2, ModOfFp, SchemeAssumption DEF Commit
  <2> QED BY <2>1, <2>2 DEF Opens, OpensW, OpensE, CfCommitted
<1>5. AllOpen(s)
  BY <1>4 DEF WellFormed, Opened, AllOpen, CfCommitted
<1> QED
  BY <1>3, <1>5

LEMMA MixedTyped ==
  ASSUME NEW a, NEW b, WellFormed(a), WellFormed(b), NEW mixed
  PROVE  Typed(MixedUp(a, b, mixed))
<1>1. Typed(a) /\ Typed(b)
  BY WellFormedOpens
<1> DEFINE m == MixedUp(a, b, mixed)
<1>2. \A k \in Fields : m[k] = a[k] \/ m[k] = b[k]
  BY DEF MixedUp, WellFormed
<1> HIDE DEF m
<1>3. /\ m.i = a.i \/ m.i = b.i
      /\ m.z_0 = a.z_0 \/ m.z_0 = b.z_0
      /\ m.z_i = a.z_i \/ m.z_i = b.z_i
      /\ m.w_i = a.w_i \/ m.w_i = b.w_i
      /\ m.u_i = a.u_i \/ m.u_i = b.u_i
      /\ m.W_i = a.W_i \/ m.W_i = b.W_i
      /\ m.U_i = a.U_i \/ m.U_i = b.U_i
      /\ m.cf_W_i = a.cf_W_i \/ m.cf_W_i = b.cf_W_i
      /\ m.cf_U_i = a.cf_U_i \/ m.cf_U_i = b.cf_U_i
  BY <1>2 DEF Fields
<1>4. Typed(m)
  BY <1>1, <1>3 DEF Typed
<1> QED
  BY <1>4 DEF m

LEMMA StructsOk ==
  ASSUME FSP!FInv, NEW p \in Provers, NEW s \in Structs(p)
  PROVE  Typed(s) /\ (s = st[p] => AllOpen(s))
<1>1. WellFormed(st[p]) /\ \A pr \in sent : WellFormed(pr)
  BY DEF FSP!FInv, FSP!Good, Provers, FSP!Provers
<1>2. CASE s = st[p]
  BY <1>1, <1>2, WellFormedOpens
<1>3. CASE s # st[p]
  <2>1. PICK b \in sent, mixed \in Mixed : s = MixedUp(st[p], b, mixed)
    BY <1>3 DEF Structs
  <2> QED BY <1>1, <1>3, <2>1, MixedTyped
<1> QED
  BY <1>2, <1>3

\* The challenges of the last fold hide that one of the two pairs does not hold.
HidesError ==
  \E p \in Provers : \E s \in Structs(p) : s.i > 1 /\ FoldHolds(s) /\ ~PartsHold(s)

\* The decider makes a proof, and accepts it, of every struct that verify accepts and whose
\* witnesses open.
AcceptWhatVerifies ==
  \A p \in Provers : \A s \in Structs(p) :
    s.i > 1 /\ Verify(s) /\ AllOpen(s) =>
      PrimaryFold(s).divided /\ Answer(ClaimOf(s), s, s, Proof(s)) = "Verified"

\* A struct that ProtoGalaxy's own verify accepts can be decided: whoever ran the prover,
\* and whichever fields come from another proof, as long as the witnesses open.
THEOREM ProtoGalaxyDeciderComplete == Spec => []AcceptWhatVerifies
<1>1. FSP!Spec => []FSP!FInv
  BY PgSchemeOk, FSP!FInvariant
<1>2. FSP!FInv => AcceptWhatVerifies
  <2> SUFFICES ASSUME FSP!FInv, NEW p \in Provers, NEW s \in Structs(p),
                      s.i > 1, Verify(s), AllOpen(s)
               PROVE  PrimaryFold(s).divided /\ Answer(ClaimOf(s), s, s, Proof(s)) = "Verified"
    BY DEF AcceptWhatVerifies
  <2>1. Typed(s)
    BY StructsOk
  <2> QED BY <2>1, VerifyIsParts, PartsFold, DeciderAccepts
<1> QED
  BY <1>1, <1>2, SameSpec, PTL DEF Spec, FSP!Spec

\* And as long as no challenges of a last fold hide an error, the decider accepts nothing
\* else: its circuit and its verifier are together the verify of ProtoGalaxy.
THEOREM ProtoGalaxyDeciderAgrees == Spec /\ []~HidesError => []DeciderAgrees
<1>1. FSP!Spec => []FSP!FInv
  BY PgSchemeOk, FSP!FInvariant
<1>2. FSP!FInv /\ ~HidesError => DeciderAgrees
  <2> SUFFICES ASSUME FSP!FInv, ~HidesError, NEW p \in Provers, NEW s \in Structs(p), s.i > 1
               PROVE  Verify(s) /\ (s = st[p] \/ AllOpen(s))
                        <=> PrimaryFold(s).divided /\ Answer(ClaimOf(s), s, s, Proof(s)) = "Verified"
    BY DEF DeciderAgrees
  <2>1. Typed(s) /\ (s = st[p] => AllOpen(s))
    BY StructsOk
  <2>2. Verify(s) /\ (s = st[p] \/ AllOpen(s)) <=> PartsHold(s) /\ RestHolds(s)
    BY <2>1, VerifyIsParts
  <2>3. PartsHold(s) <=> FoldHolds(s)
    BY <2>1, PartsFold DEF HidesError
  <2> QED BY <2>1, <2>2, <2>3, DeciderAccepts
<1> QED
  BY <1>1, <1>2, SameSpec, PTL DEF Spec, FSP!Spec

----------------------------------------------------------------------------
\* What the public inputs of the decider's circuit bind.

LEMMA StateIsSeq == ASSUME NEW z \in State PROVE z \in Seq(Int) /\ z # <<>>
<1>1. z \in Seq(Fp) /\ z # <<>>
  BY DEF State
<1>2. z \in [1 .. Len(z) -> Fp] /\ Len(z) \in Nat
  BY <1>1
<1>3. z \in [1 .. Len(z) -> Int]
  BY <1>2 DEF Fp
<1>4. z \in Seq(Int)
  BY <1>2, <1>3
<1> QED
  BY <1>1, <1>4

\* Who holds a claim.
ClaimTyped(c) == c.i \in Nat /\ c.z_0 \in State /\ c.z_i \in State

\* A proof of s is accepted with its claim and its L only, and with commitments that fold
\* to its own.
BindsFold(s, c, r, n, L) ==
  /\ c.i = s.i /\ c.z_0 = s.z_0 /\ c.z_i = s.z_i
  /\ L = PrimaryFold(s).L
  /\ Join(L, r.U_i.phi, n.u_i.phi) = Join(L, s.U_i.phi, s.u_i.phi)

LEMMA DeciderBinds ==
  ASSUME NEW s, Typed(s), Len(s.z_0) = 1, Len(s.z_i) = 1,
         NEW c, ClaimTyped(c), NEW r, Typed(r), NEW n, Typed(n), NEW L \in List(Fp, 2),
         Answer(c, r, n, [Proof(s) EXCEPT !.randomness = L]) = "Verified"
  PROVE  BindsFold(s, c, r, n, L)
<1> DEFINE f   == PrimaryFold(s)
           d   == Eth!TryFrom(s)
           pf  == [Eth!ProofOf(d) EXCEPT !.randomness = L]
           g   == FoldGroup(Commitments(r.U_i), Commitments(n.u_i), pf.proof, L)
           cms == <<Join(f.L, s.U_i.phi, s.u_i.phi)>>
           fld == <<Join(L, r.U_i.phi, n.u_i.phi)>>
<1>1. f.W.w \in Vec /\ f.L \in List(Fp, 2) /\ f.U.phi = Join(f.L, s.U_i.phi, s.u_i.phi)
  BY LastFoldTyped
<1>2. f = PrimaryFold(s) /\ d = Eth!TryFrom(s)
  OBVIOUS
<1> HIDE DEF f, d
<1>3. /\ d.i = s.i /\ d.z_0 = s.z_0 /\ d.z_i = s.z_i /\ d.U_i = s.U_i /\ d.u_i = s.u_i
      /\ d.cf_U_i = s.cf_U_i /\ d.cf_W_i = s.cf_W_i /\ d.U_i1 = f.U /\ d.W_i1 = f.W
      /\ d.proof = [F_coeffs |-> f.F_coeffs, K_coeffs |-> f.K_coeffs] /\ d.randomness = f.L
      /\ d.kzg_challenges = KzgChallenges(f.tr, <<f.U.phi>>)
      /\ d.kzg_evaluations = Eth!Evaluations(Openings(f.W), d.kzg_challenges)
      /\ Eth!KzgProofs(d) = KzgOne(f.W, d.kzg_challenges)
  BY <1>2, LastCircuitIs
<1>4. /\ pf.snark_proof = Eth!SnarkProve(Eth!OnchainConstraints(d), Eth!CircuitInputs(d))
      /\ pf.randomness = L /\ pf.kzg_challenges = d.kzg_challenges
      /\ pf.kzg_proofs = KzgOne(f.W, d.kzg_challenges)
  BY <1>3 DEF Eth!ProofOf
<1>5. /\ d.kzg_challenges \in Seq(Int) /\ d.kzg_evaluations \in Seq(Int)
      /\ Eth!Evals(pf.kzg_proofs) = d.kzg_evaluations
  <2> DEFINE w == f.W  tr == f.tr  a == f.U.phi  l == <<a>>  cs == d.kzg_challenges
             pfs == pf.kzg_proofs
  <2>1. Entries(f.W.w) \in List(Int, 8) /\ f.U.phi \in Fp
    <3>1. PgParts(s.U_i) /\ PgParts(s.u_i)
      BY DEF Typed, PgParts, PgRunning
    <3> HIDE DEF pf
    <3>2. Join(f.L, s.U_i.phi, s.u_i.phi) \in Fp
      BY <1>1, <3>1, InnerOfTwo DEF PgParts
    <3> QED BY <1>1, <3>2, CommitIsKzg
  <2>2. /\ pfs = KzgOne(w, cs)
        /\ cs = KzgChallenges(tr, l) /\ l = <<l[1]>> /\ a \in Fp /\ Entries(w.w) \in List(Int, 8)
    BY <1>3, <1>4, <2>1
  <2> HIDE DEF w, tr, a, l, cs, pfs
  <2>3. /\ cs \in Seq(Int) /\ Eth!Evaluations(Openings(w), cs) \in Seq(Int)
        /\ Eth!Evals(pfs) = Eth!Evaluations(Openings(w), cs)
    BY <2>2, KzgOneOpens, ZenonT(60)
  <2> QED BY <1>3, <2>3 DEF w, cs, pfs
<1>6. g.ret = "Ok" /\ g.cms = fld /\ fld \in Seq(Int) /\ Len(fld) = 1
  <2> DEFINE x == pf.proof  U == r.U_i  u == n.u_i  j == Join(L, U.phi, u.phi)
  <2>1. g = FoldGroup(Commitments(U), Commitments(u), x, L)
    OBVIOUS
  <2>2. PgParts(U) /\ PgParts(u)
    BY DEF Typed, PgParts, PgRunning
  <2> HIDE DEF x, g, U, u
  <2>3. g.ret = "Ok" /\ g.cms = <<Join(L, U.phi, u.phi)>> /\ Join(L, U.phi, u.phi) \in Fp
    BY <2>1, <2>2, GroupFolds
  <2>4. j \in Int /\ g.cms = <<j>>
    BY <2>3, FpIsInt
  <2>5. fld = <<j>>
    BY DEF U, u
  <2> HIDE DEF j, fld
  <2> QED BY <2>3, <2>4, <2>5
<1>7. cms \in Seq(Int) /\ Len(cms) = 1
  <2> DEFINE j == Join(f.L, s.U_i.phi, s.u_i.phi)
  <2>1. j \in Int
    <3>1. PgParts(s.U_i) /\ PgParts(s.u_i)
      BY DEF Typed, PgParts, PgRunning
    <3>2. j \in Fp
      BY <1>1, <3>1, InnerOfTwo DEF PgParts
    <3> QED BY <3>2, FpIsInt
  <2> HIDE DEF j
  <2>2. <<j>> \in Seq(Int) /\ Len(<<j>>) = 1
    BY <2>1
  <2> QED BY <2>2 DEF j
<1>8. L \in Seq(Int) /\ f.L \in Seq(Int) /\ Len(L) = 2 /\ Len(f.L) = 2
  BY <1>1, ListInt, PairIsSeq DEF List
<1>9. Eth!VerifyFolded(c, g.cms, pf) = "Verified"
  <2>1. Answer(c, r, n, pf) = "Verified"
    BY DEF pf, d, Proof
  <2>2. Answer(c, r, n, pf) \in {"NotEnoughSteps", IF g.ret # "Ok" THEN g.ret
                                                   ELSE Eth!VerifyFolded(c, g.cms, pf)}
    BY <1>4 DEF Answer, Eth!DeciderVerify, Eth!VerifyGroup
  <2> HIDE DEF g, pf
  <2> QED BY <1>6, <2>1, <2>2
<1> HIDE DEF g, fld, pf
<1>10. Eth!PublicInputs(c, fld, pf.kzg_challenges, Eth!Evals(pf.kzg_proofs),
                        FoldInputs(pf.proof, pf.randomness)) = Eth!CircuitInputs(d)
  BY <1>4, <1>6, <1>9 DEF Eth!VerifyFolded, Eth!SnarkVerify, Eth!SnarkProve
<1>11. Followed(ClaimInput(c, fld), d.kzg_challenges, d.kzg_evaluations, L)
         = Followed(ClaimInput(s, cms), d.kzg_challenges, d.kzg_evaluations, f.L)
  <2>1. Commitments(d.U_i1) = cms /\ FoldInputs(pf.proof, pf.randomness) = L
        /\ FoldInputs(d.proof, d.randomness) = f.L
    BY <1>1, <1>3, <1>4 DEF FoldInputs, Commitments
  <2> HIDE DEF cms
  <2> QED BY <1>3, <1>4, <1>5, <1>10, <2>1
          DEF Eth!PublicInputs, Eth!CircuitInputs, ClaimInput, Followed
<1> HIDE DEF cms
<1>12. /\ s.i \in Nat /\ s.z_0 \in Seq(Int) /\ s.z_i \in Seq(Int)
       /\ c.i \in Nat /\ c.z_0 \in Seq(Int) /\ c.z_i \in Seq(Int) /\ c.z_0 # <<>> /\ c.z_i # <<>>
  BY StateIsSeq DEF Typed, ClaimTyped
<1>13. s.i = c.i /\ s.z_0 = c.z_0 /\ s.z_i = c.z_i /\ cms = fld /\ L = f.L
  <2> DEFINE t1 == d.kzg_challenges  t2 == d.kzg_evaluations  t3 == f.L
             A  == ClaimInput(s, cms)  B == ClaimInput(c, fld)
  <2>1. A \in Seq(Int) /\ B \in Seq(Int)
    BY <1>6, <1>7, <1>12, ClaimInputIsSeq
  <2>2. /\ t1 \in Seq(Int) /\ t2 \in Seq(Int) /\ t3 \in Seq(Int) /\ L \in Seq(Int) /\ Len(L) = Len(t3)
        /\ Followed(B, t1, t2, L) = Followed(A, t1, t2, t3)
    BY <1>5, <1>8, <1>11
  <2> HIDE DEF t1, t2, t3, A, B
  <2>3. (A \o t1) \o t2 \in Seq(Int) /\ (B \o t1) \o t2 \in Seq(Int)
    BY <2>1, <2>2, Concat, Zenon
  <2>4. ((B \o t1) \o t2) \o L = ((A \o t1) \o t2) \o t3
    BY <2>2 DEF Followed
  <2>5. L = t3
    <3> DEFINE X == (B \o t1) \o t2  Y == (A \o t1) \o t2
    <3>1. Alike(X, L, Y, t3)
      BY <2>2, <2>3, <2>4, Zenon DEF Alike
    <3> HIDE DEF X, Y
    <3> QED BY <3>1, AlikeBinds
  <2>6. A = B
    BY <2>1, <2>2, <2>5, CancelThree
  <2>7. ClaimInput(s, cms) = ClaimInput(c, fld) /\ Len(cms) = Len(fld)
    BY <1>6, <1>7, <2>6 DEF A, B
  <2>8. s.i = c.i /\ s.z_0 = c.z_0 /\ s.z_i = c.z_i /\ cms = fld
    BY <1>6, <1>7, <1>12, <2>7, InputsBind
  <2> QED BY <2>5, <2>8 DEF t3
<1>14. Join(L, r.U_i.phi, n.u_i.phi) = Join(L, s.U_i.phi, s.u_i.phi)
  <2>1. fld[1] = Join(L, r.U_i.phi, n.u_i.phi)
    BY DEF fld
  <2>2. cms[1] = Join(f.L, s.U_i.phi, s.u_i.phi)
    BY DEF cms
  <2> QED BY <1>13, <2>1, <2>2
<1> QED
  BY <1>13, <1>14 DEF BindsFold, f

\* Other running and incoming commitments that the last fold of a struct makes the same of
\* as of its own.
CommitmentsCollide ==
  \E p \in Provers : \E b \in sent : \E r, n \in {st[p], b} :
    LET s == st[p]
        L == PrimaryFold(s).L
    IN  /\ s.i > 1
        /\ r.U_i.phi # s.U_i.phi \/ n.u_i.phi # s.u_i.phi
        /\ Join(L, r.U_i.phi, n.u_i.phi) = Join(L, s.U_i.phi, s.u_i.phi)

\* A claim's fields are those of the struct it is compared with.
LEMMA ClaimIs ==
  ASSUME NEW a, NEW b, NEW c \in MixedClaims(a, b), NEW s,
         c.i = s.i, c.z_0 = s.z_0, c.z_i = s.z_i
  PROVE  c = ClaimOf(s)
<1>1. PICK x \in {a, b}, y \in {a, b}, z \in {a, b} :
        c = [i |-> x.i, z_0 |-> y.z_0, z_i |-> z.z_i]
  BY DEF MixedClaims
<1> QED
  BY <1>1 DEF ClaimOf

\* No decider proof of a struct past its first step is accepted with another claim, with
\* another L, nor with the commitments of another proof, unless these fold to the same.
THEOREM ProtoGalaxyDeciderBinds == Spec /\ []~CommitmentsCollide => []DeciderBindsClaim
<1>1. FSP!Spec => []FSP!FInv
  BY PgSchemeOk, FSP!FInvariant
<1>2. FSP!FInv /\ ~CommitmentsCollide => DeciderBindsClaim
  <2> SUFFICES ASSUME FSP!FInv, ~CommitmentsCollide,
                      NEW p \in Provers, st[p].i > 1, NEW b \in sent
               PROVE  BoundTo(st[p], b, Proof(st[p]))
    BY DEF DeciderBindsClaim
  <2> DEFINE s == st[p]  f == PrimaryFold(s)  proof == Proof(s)
  <2>1. WellFormed(s) /\ WellFormed(b)
    BY DEF FSP!FInv, FSP!Good, Provers, FSP!Provers
  <2>2. Typed(s) /\ Typed(b)
    BY <2>1, WellFormedOpens
  <2>3. Len(s.z_0) = 1 /\ Len(s.z_i) = 1
    BY <2>1 DEF WellFormed
  <2>4. f.L \in List(Fp, 2) /\ proof.randomness = f.L
    <3>1. f.L \in List(Fp, 2)
      BY <2>2, LastFoldTyped
    <3>2. proof.randomness = f.L
      <4> DEFINE d == Eth!TryFrom(s)
      <4>0. f = PrimaryFold(s) /\ d = Eth!TryFrom(s)
        OBVIOUS
      <4> HIDE DEF s, f, d
      <4>1. /\ d.i = s.i /\ d.z_0 = s.z_0 /\ d.z_i = s.z_i /\ d.U_i = s.U_i /\ d.u_i = s.u_i
            /\ d.cf_U_i = s.cf_U_i /\ d.cf_W_i = s.cf_W_i /\ d.U_i1 = f.U /\ d.W_i1 = f.W
            /\ d.proof = [F_coeffs |-> f.F_coeffs, K_coeffs |-> f.K_coeffs] /\ d.randomness = f.L
            /\ d.kzg_challenges = KzgChallenges(f.tr, <<f.U.phi>>)
            /\ d.kzg_evaluations = Eth!Evaluations(Openings(f.W), d.kzg_challenges)
            /\ Eth!KzgProofs(d) = KzgOne(f.W, d.kzg_challenges)
        BY <2>2, <4>0, LastCircuitIs
      <4>2. Eth!ProofOf(d).randomness = d.randomness
        BY DEF Eth!ProofOf
      <4> QED BY <4>1, <4>2 DEF Proof, d
    <3> QED BY <3>1, <3>2
  <2>5. <<1, 0>> \in List(Fp, 2)
    BY ZeroOneInFp DEF List
  <2>6. ASSUME NEW c \in MixedClaims(s, b), NEW r \in {s, b}, NEW n \in {s, b},
               NEW L \in {proof.randomness, <<1, 0>>},
               Answer(c, r, n, [proof EXCEPT !.randomness = L]) = "Verified"
        PROVE  /\ c = ClaimOf(s)
               /\ Commitments(r.U_i) = Commitments(s.U_i) /\ Commitments(n.u_i) = Commitments(s.u_i)
               /\ L = proof.randomness
    <3>1. ClaimTyped(c)
      BY <2>2 DEF MixedClaims, Typed, ClaimTyped
    <3>2. Typed(r) /\ Typed(n) /\ L \in List(Fp, 2)
      BY <2>2, <2>4, <2>5
    <3>3. Answer(c, r, n, [Proof(s) EXCEPT !.randomness = L]) = "Verified"
      BY <2>6
    <3> HIDE DEF s, f, proof
    <3>4. BindsFold(s, c, r, n, L)
      BY <2>2, <2>3, <3>1, <3>2, <3>3, DeciderBinds
    <3>5. c = ClaimOf(s)
      BY <3>4, ClaimIs DEF BindsFold
    <3>6. L = f.L /\ Join(f.L, r.U_i.phi, n.u_i.phi) = Join(f.L, s.U_i.phi, s.u_i.phi)
      BY <3>4 DEF BindsFold, f
    <3>7. r.U_i.phi = s.U_i.phi /\ n.u_i.phi = s.u_i.phi
      BY <3>6 DEF CommitmentsCollide, s, f
    <3> QED BY <2>4, <3>5, <3>6, <3>7 DEF Commitments
  <2> HIDE DEF s, f, proof
  <2>7. BoundTo(s, b, proof)
    BY <2>6 DEF BoundTo
  <2> QED BY <2>7 DEF s, proof
<1> QED
  BY <1>1, <1>2, SameSpec, PTL DEF Spec, FSP!Spec
=============================================================================

------------------------- MODULE HyperNovaNIMFSProofs -------------------------
(***************************************************************************)
(* The multifolding of HyperNova.                                          *)
(***************************************************************************)
EXTENDS HyperNovaNIMFS, NIFSProofs

\* The values of a multilinear polynomial on the hypercube.
Table == Seq(Fp)

----------------------------------------------------------------------------
\* Recursive functions.

\* The partial products of a sequence.
LEMMA ProdSeqRun ==
  ASSUME NEW n \in Nat, NEW s \in List(Int, n)
  PROVE  \E f \in [0 .. n -> Fp] :
           f[0] = 1 /\ (\A j \in 1 .. n : f[j] = (f[j - 1] * s[j]) % P) /\ ProdSeq(s) = f[n]
<1> DEFINE g == [j \in 1 .. n |-> [y \in Fp |-> (y * s[j]) % P]]
<1>1. g \in [1 .. n -> [Fp -> Fp]]
  BY ModInFp, FpIsInt DEF List
<1>2. \A y \in Fp, j \in 1 .. n : g[j][y] = (y * s[j]) % P
  OBVIOUS
<1> DEFINE a == 1
<1> HIDE DEF g, a
<1>3. PICK f \in [0 .. n -> Fp] : f[0] = 1 /\ \A j \in 1 .. n : f[j] = g[j][f[j - 1]]
  <2>1. a \in Fp
    BY ZeroOneInFp DEF a
  <2>2. \E f \in [0 .. n -> Fp] : f[0] = a /\ \A j \in 1 .. n : f[j] = g[j][f[j - 1]]
    BY <1>1, <2>1, Recursion
  <2> QED BY <2>2 DEF a
<1>4. \A j \in 1 .. n : f[j] = (f[j - 1] * s[j]) % P
  <2>1. \A j \in 1 .. n : f[j - 1] \in Fp
    OBVIOUS
  <2> QED BY <1>2, <1>3, <2>1
<1> DEFINE Rec(h) == h = [j \in 0 .. n |-> IF j = 0 THEN 1 ELSE (h[j - 1] * s[j]) % P]
           c == CHOOSE h : Rec(h)
<1>5. Rec(f)
  <2>1. \A j \in 0 .. n : f[j] = IF j = 0 THEN 1 ELSE (f[j - 1] * s[j]) % P
    BY <1>3, <1>4
  <2> QED BY <2>1
<1>6. ProdSeq(s) = c[n]
  <2>1. Len(s) = n
    BY DEF List
  <2> QED BY <2>1 DEF ProdSeq
<1>7. Rec(c)
  <2> HIDE DEF Rec
  <2> QED BY <1>5
<1>8. c[0] = f[0] /\ \A j \in 1 .. n : c[j - 1] = f[j - 1] => c[j] = f[j]
  <2> HIDE DEF c
  <2>1. c[0] = 1
    BY <1>7
  <2>2. ASSUME NEW j \in 1 .. n PROVE c[j] = (c[j - 1] * s[j]) % P
    BY <1>7
  <2> QED BY <1>3, <1>4, <2>1, <2>2
<1> HIDE DEF c
<1>9. c[n] = f[n]
  <2>1. \A j \in 0 .. n : c[j] = f[j]
    BY <1>8, SameRun, ZenonT(60)
  <2> QED BY <2>1
<1> QED
  BY <1>3, <1>4, <1>6, <1>9

----------------------------------------------------------------------------
\* Vectors made by Collect.

LEMMA FixVariableIs ==
  ASSUME NEW t \in Seq(Fp), NEW r \in Fp
  PROVE  /\ FixVariable(t, r) \in Seq(Fp) /\ Len(FixVariable(t, r)) = Len(t) \div 2
         /\ \A b \in 1 .. Len(t) \div 2 :
              FixVariable(t, r)[b] = Rlc(t[2 * b - 1], r, t[2 * b] - t[2 * b - 1])
<1> DEFINE n == Len(t) \div 2
           f == [b \in 1 .. n |-> Rlc(t[2 * b - 1], r, t[2 * b] - t[2 * b - 1])]
<1>1. n \in Nat /\ 2 * n <= Len(t)
  OBVIOUS
<1>2. ASSUME NEW b \in 1 .. n PROVE Rlc(t[2 * b - 1], r, t[2 * b] - t[2 * b - 1]) \in Fp
  <2>1. 2 * b - 1 \in 1 .. Len(t) /\ 2 * b \in 1 .. Len(t)
    BY <1>1
  <2>2. t[2 * b - 1] \in Int /\ t[2 * b] \in Int /\ r \in Int
    BY <2>1, FpIsInt
  <2> QED BY <2>2, ModInFp DEF Rlc
<1>3. FixVariable(t, r) = <<>> \o f
  BY DEF FixVariable, Collect
<1>4. f \in [1 .. n -> Fp]
  BY <1>2
<1>5. \A b \in 1 .. n : f[b] = Rlc(t[2 * b - 1], r, t[2 * b] - t[2 * b - 1])
  OBVIOUS
<1> HIDE DEF f
<1>6. <<>> \o f = f /\ f \in Seq(Fp) /\ Len(f) = n
  <2> HIDE DEF n
  <2> QED BY <1>1, <1>4, CollectIs
<1> QED
  BY <1>3, <1>5, <1>6

\* The tables left after each value of a multilinear polynomial's variables.
LEMMA MleRun ==
  ASSUME NEW t \in Table, NEW n \in Nat, NEW point \in List(Fp, n)
  PROVE  \E f \in [0 .. n -> Table] :
           /\ f[0] = t /\ (\A j \in 1 .. n : f[j] = FixVariable(f[j - 1], point[j]))
           /\ MleEvaluate(t, point) = f[n][1]
<1> DEFINE g == [j \in 1 .. n |-> [y \in Table |-> FixVariable(y, point[j])]]
<1>1. g \in [1 .. n -> [Table -> Table]]
  <2>1. \A j \in 1 .. n : point[j] \in Fp
    BY DEF List
  <2>2. \A y \in Table, r \in Fp : FixVariable(y, r) \in Table
    BY FixVariableIs DEF Table
  <2> QED BY <2>1, <2>2
<1>2. \A y \in Table, j \in 1 .. n : g[j][y] = FixVariable(y, point[j])
  OBVIOUS
<1> HIDE DEF g
<1>3. PICK f \in [0 .. n -> Table] : f[0] = t /\ \A j \in 1 .. n : f[j] = g[j][f[j - 1]]
  <2>1. \E f \in [0 .. n -> Table] : f[0] = t /\ \A j \in 1 .. n : f[j] = g[j][f[j - 1]]
    BY <1>1, Recursion
  <2> QED BY <2>1
<1>4. \A j \in 1 .. n : f[j] = FixVariable(f[j - 1], point[j])
  <2>1. \A j \in 1 .. n : f[j - 1] \in Table
    OBVIOUS
  <2> QED BY <1>2, <1>3, <2>1
<1> DEFINE Rec(h) == h = [j \in 0 .. n |-> IF j = 0 THEN t ELSE FixVariable(h[j - 1], point[j])]
           c == CHOOSE h : Rec(h)
<1>5. Rec(f)
  <2>1. \A j \in 0 .. n : f[j] = IF j = 0 THEN t ELSE FixVariable(f[j - 1], point[j])
    BY <1>3, <1>4
  <2> QED BY <2>1
<1>6. MleEvaluate(t, point) = c[n][1]
  <2>1. Len(point) = n
    BY DEF List
  <2> QED BY <2>1 DEF MleEvaluate
<1>7. Rec(c)
  <2> HIDE DEF Rec
  <2> QED BY <1>5
<1>8. c[0] = f[0] /\ \A j \in 1 .. n : c[j - 1] = f[j - 1] => c[j] = f[j]
  <2> HIDE DEF c
  <2>1. c[0] = t
    BY <1>7
  <2>2. ASSUME NEW j \in 1 .. n PROVE c[j] = FixVariable(c[j - 1], point[j])
    BY <1>7
  <2> QED BY <1>3, <1>4, <2>1, <2>2
<1> HIDE DEF c
<1>9. c[n] = f[n]
  <2>1. \A j \in 0 .. n : c[j] = f[j]
    BY <1>8, SameRun, ZenonT(60)
  <2> QED BY <2>1
<1> QED
  BY <1>3, <1>4, <1>6, <1>9

\* The number of corners of a hypercube.
Corners(n) == 2^n

\* The sizes of the hypercubes a system of eight rows can have.
LEMMA PowersOfTwo ==
  /\ 2^0 = 1 /\ 2^1 = 2 /\ 2^2 = 4 /\ 2^3 = 8
  /\ \A n \in 0 .. 3 : 2^n \in Nat /\ 2^n >= 1 /\ 2^n <= 8
  /\ \A n \in 1 .. 3 : 2^n = 2 * 2^(n - 1)
<1>1. 2^0 = 1 /\ 2^1 = 2 /\ 2^2 = 4 /\ 2^3 = 8
  OBVIOUS
<1>2. ASSUME NEW n \in 0 .. 3 PROVE 2^n \in Nat /\ 2^n >= 1 /\ 2^n <= 8
  <2>1. CASE n = 0
    BY <1>1, <2>1
  <2>2. CASE n = 1
    BY <1>1, <2>2
  <2>3. CASE n = 2
    BY <1>1, <2>3
  <2>4. CASE n = 3
    BY <1>1, <2>4
  <2> QED BY <2>1, <2>2, <2>3, <2>4
<1>3. ASSUME NEW n \in 1 .. 3 PROVE 2^n = 2 * 2^(n - 1)
  <2>1. CASE n = 1
    <3>1. n - 1 = 0
      BY <2>1
    <3> QED BY <1>1, <2>1, <3>1
  <2>2. CASE n = 2
    <3>1. n - 1 = 1
      BY <2>2
    <3> QED BY <1>1, <2>2, <3>1
  <2>3. CASE n = 3
    <3>1. n - 1 = 2
      BY <2>3
    <3> QED BY <1>1, <2>3, <3>1
  <2> QED BY <2>1, <2>2, <2>3
<1> QED
  BY <1>1, <1>2, <1>3

\* Interpolating between two combinations combines the interpolations.
LEMMA RlcLinear ==
  ASSUME NEW a1 \in Fp, NEW a2 \in Fp, NEW b1 \in Fp, NEW b2 \in Fp, NEW r \in Fp, NEW x \in Fp
  PROVE  Rlc(Rlc(a1, r, b1), x, Rlc(a2, r, b2) - Rlc(a1, r, b1))
           = Rlc(Rlc(a1, x, a2 - a1), r, Rlc(b1, x, b2 - b1))
<1> DEFINE t1 == Rlc(a1, r, b1)  t2 == Rlc(a2, r, b2)
           y1 == Rlc(a1, x, a2 - a1)  y2 == Rlc(b1, x, b2 - b1)
<1>1. /\ a1 \in Int /\ a2 \in Int /\ b1 \in Int /\ b2 \in Int /\ r \in Int /\ x \in Int
      /\ a2 - a1 \in Int /\ b2 - b1 \in Int
  BY FpIsInt
<1>2. t1 \in Int /\ Cong(t1, a1 + r * b1) /\ t2 \in Int /\ Cong(t2, a2 + r * b2)
  BY <1>1, RlcInt
<1>3. y1 \in Int /\ Cong(y1, a1 + x * (a2 - a1)) /\ y2 \in Int /\ Cong(y2, b1 + x * (b2 - b1))
  BY <1>1, RlcInt
<1>4. Rlc(t1, x, t2 - t1) \in Fp /\ Cong(Rlc(t1, x, t2 - t1), t1 + x * (t2 - t1))
  <2>1. t2 - t1 \in Int
    BY <1>2
  <2> HIDE DEF t1, t2
  <2> QED BY <1>1, <1>2, <2>1, RlcInt
<1>5. Rlc(y1, r, y2) \in Fp /\ Cong(Rlc(y1, r, y2), y1 + r * y2)
  BY <1>1, <1>3, RlcInt
<1> HIDE DEF t1, t2, y1, y2
<1>6. Cong(t1 + x * (t2 - t1), y1 + r * y2)
  <2>1. PICK i \in Int : t1 = (a1 + r * b1) + i * P
    BY <1>2 DEF Cong
  <2>2. PICK j \in Int : t2 = (a2 + r * b2) + j * P
    BY <1>2 DEF Cong
  <2>3. PICK k \in Int : y1 = (a1 + x * (a2 - a1)) + k * P
    BY <1>3 DEF Cong
  <2>4. PICK l \in Int : y2 = (b1 + x * (b2 - b1)) + l * P
    BY <1>3 DEF Cong
  <2>5. t1 + x * (t2 - t1) = (y1 + r * y2) + (i + x * (j - i) - k - r * l) * P
    BY <1>1, <2>1, <2>2, <2>3, <2>4, PAssumption
  <2> QED BY <1>1, <2>5 DEF Cong
<1>7. Cong(Rlc(t1, x, t2 - t1), Rlc(y1, r, y2))
  <2> DEFINE p == Rlc(t1, x, t2 - t1)  q == Rlc(y1, r, y2)
             v == t1 + x * (t2 - t1)  w == y1 + r * y2
  <2>1. p \in Int /\ q \in Int
    BY <1>4, <1>5, FpIsInt
  <2>2. v \in Int /\ w \in Int
    BY <1>1, <1>2, <1>3
  <2>3. Cong(p, v) /\ Cong(v, w) /\ Cong(q, w)
    BY <1>4, <1>5, <1>6
  <2> HIDE DEF p, q, v, w
  <2>4. Cong(w, q)
    BY <2>1, <2>2, <2>3, CongSym
  <2>5. Cong(p, w)
    BY <2>1, <2>2, <2>3, CongTrans
  <2>6. Cong(p, q)
    BY <2>1, <2>2, <2>4, <2>5, CongTrans
  <2> QED BY <2>6 DEF p, q
<1> QED
  BY <1>4, <1>5, <1>7, EqOfCong DEF t1, t2, y1, y2

\* z is x + r y, entry by entry.
TablesCombine(z, x, r, y, n) ==
  /\ x \in Table /\ y \in Table /\ z \in Table
  /\ Len(x) = n /\ Len(y) = n /\ Len(z) = n
  /\ \A k \in 1 .. n : z[k] = Rlc(x[k], r, y[k])

\* Fixing a variable of a combination.
LEMMA FixLinear ==
  ASSUME NEW m \in Nat, NEW r \in Fp, NEW q \in Fp,
         NEW x, NEW y, NEW z, TablesCombine(z, x, r, y, 2 * m)
  PROVE  TablesCombine(FixVariable(z, q), FixVariable(x, q), r, FixVariable(y, q), m)
<1> DEFINE c == FixVariable(z, q)  a == FixVariable(x, q)  b == FixVariable(y, q)
<1>1. /\ x \in Seq(Fp) /\ y \in Seq(Fp) /\ z \in Seq(Fp)
      /\ Len(x) = 2 * m /\ Len(y) = 2 * m /\ Len(z) = 2 * m
      /\ \A k \in 1 .. 2 * m : z[k] = Rlc(x[k], r, y[k])
  BY DEF TablesCombine, Table
<1>2. Len(x) \div 2 = m /\ Len(y) \div 2 = m /\ Len(z) \div 2 = m
  BY <1>1
<1>3. /\ a \in Seq(Fp) /\ Len(a) = m
      /\ \A k \in 1 .. m : a[k] = Rlc(x[2 * k - 1], q, x[2 * k] - x[2 * k - 1])
  BY <1>1, <1>2, FixVariableIs, ZenonT(30)
<1>4. /\ b \in Seq(Fp) /\ Len(b) = m
      /\ \A k \in 1 .. m : b[k] = Rlc(y[2 * k - 1], q, y[2 * k] - y[2 * k - 1])
  BY <1>1, <1>2, FixVariableIs, Zenon
<1>5. /\ c \in Seq(Fp) /\ Len(c) = m
      /\ \A k \in 1 .. m : c[k] = Rlc(z[2 * k - 1], q, z[2 * k] - z[2 * k - 1])
  BY <1>1, <1>2, FixVariableIs, Zenon
<1> HIDE DEF a, b, c
<1>6. ASSUME NEW k \in 1 .. m PROVE c[k] = Rlc(a[k], r, b[k])
  <2>1. 2 * k - 1 \in 1 .. 2 * m /\ 2 * k \in 1 .. 2 * m
    OBVIOUS
  <2> DEFINE a1 == x[2 * k - 1]  a2 == x[2 * k]  b1 == y[2 * k - 1]  b2 == y[2 * k]
  <2>2. /\ z[2 * k - 1] = Rlc(a1, r, b1) /\ z[2 * k] = Rlc(a2, r, b2)
        /\ a1 \in Fp /\ a2 \in Fp /\ b1 \in Fp /\ b2 \in Fp
    BY <1>1, <2>1
  <2>3. /\ a[k] = Rlc(a1, q, a2 - a1) /\ b[k] = Rlc(b1, q, b2 - b1)
        /\ c[k] = Rlc(Rlc(a1, r, b1), q, Rlc(a2, r, b2) - Rlc(a1, r, b1))
    BY <1>3, <1>4, <1>5, <2>2
  <2> HIDE DEF a1, a2, b1, b2
  <2> QED BY <2>2, <2>3, RlcLinear
<1> QED
  BY <1>3, <1>4, <1>5, <1>6 DEF TablesCombine, Table, a, b, c

\* The value of a combination is that of the values.
LEMMA MleLinear ==
  ASSUME NEW n \in 0 .. 3, NEW r \in Fp, NEW point \in List(Fp, n),
         NEW x, NEW y, NEW z, TablesCombine(z, x, r, y, Corners(n))
  PROVE  /\ MleEvaluate(x, point) \in Fp /\ MleEvaluate(y, point) \in Fp
         /\ MleEvaluate(z, point) = Rlc(MleEvaluate(x, point), r, MleEvaluate(y, point))
<1>1. x \in Table /\ y \in Table /\ z \in Table /\ n \in Nat
  BY DEF TablesCombine
<1>2. PICK f \in [0 .. n -> Table] :
        /\ f[0] = x /\ (\A j \in 1 .. n : f[j] = FixVariable(f[j - 1], point[j]))
        /\ MleEvaluate(x, point) = f[n][1]
  BY <1>1, MleRun
<1>3. PICK g \in [0 .. n -> Table] :
        /\ g[0] = y /\ (\A j \in 1 .. n : g[j] = FixVariable(g[j - 1], point[j]))
        /\ MleEvaluate(y, point) = g[n][1]
  BY <1>1, MleRun
<1>4. PICK h \in [0 .. n -> Table] :
        /\ h[0] = z /\ (\A j \in 1 .. n : h[j] = FixVariable(h[j - 1], point[j]))
        /\ MleEvaluate(z, point) = h[n][1]
  BY <1>1, MleRun
<1> DEFINE S == {j \in Nat : j <= n => TablesCombine(h[j], f[j], r, g[j], Corners(n - j))}
<1>5. 0 \in S
  <2>1. n - 0 = n
    OBVIOUS
  <2> QED BY <1>2, <1>3, <1>4, <2>1
<1>6. ASSUME NEW j \in Nat, j \in S PROVE j + 1 \in S
  <2> SUFFICES ASSUME j + 1 <= n
               PROVE  TablesCombine(h[j + 1], f[j + 1], r, g[j + 1], Corners(n - (j + 1)))
    OBVIOUS
  <2> DEFINE m == Corners(n - (j + 1))  q == point[j + 1]
  <2>1. j + 1 \in 1 .. n /\ (j + 1) - 1 = j /\ j <= n
        /\ n - j \in 1 .. 3 /\ (n - j) - 1 = n - (j + 1) /\ n - (j + 1) \in 0 .. 3
    OBVIOUS
  <2>2. Corners(n - j) = 2 * m /\ m \in Nat
    BY <2>1, PowersOfTwo DEF Corners
  <2>3. q \in Fp
    BY <2>1 DEF List
  <2>4. /\ f[j + 1] = FixVariable(f[j], q) /\ g[j + 1] = FixVariable(g[j], q)
        /\ h[j + 1] = FixVariable(h[j], q)
    BY <1>2, <1>3, <1>4, <2>1
  <2>5. TablesCombine(h[j], f[j], r, g[j], 2 * m)
    BY <1>6, <2>1, <2>2
  <2> HIDE DEF m, q
  <2>6. TablesCombine(h[j + 1], f[j + 1], r, g[j + 1], m)
    BY <2>2, <2>3, <2>4, <2>5, FixLinear
  <2> QED BY <2>6 DEF m
<1>7. n \in S
  <2> HIDE DEF S
  <2> QED BY <1>1, <1>5, <1>6, SetInduction
<1>8. TablesCombine(h[n], f[n], r, g[n], 1)
  <2>1. n - n = 0 /\ n <= n
    OBVIOUS
  <2>2. Corners(n - n) = 1
    BY <2>1, PowersOfTwo DEF Corners
  <2> QED BY <1>7, <2>1, <2>2
<1>9. f[n][1] \in Fp /\ g[n][1] \in Fp /\ h[n][1] = Rlc(f[n][1], r, g[n][1])
  BY <1>8 DEF TablesCombine, Table
<1> QED
  BY <1>2, <1>3, <1>4, <1>9

----------------------------------------------------------------------------
\* The evaluations of M_j z.
CcsOk(R) == MatricesOk(R) /\ R.s \in 0 .. 3

LEMMA DotCombination ==
  ASSUME NEW a \in Vec, NEW x \in Vec, NEW y \in Vec, NEW r \in Fp
  PROVE  /\ Dot(a, x) \in Fp /\ Dot(a, y) \in Fp
         /\ Dot(a, VecRlc(x, r, y)) = Rlc(Dot(a, x), r, Dot(a, y))
<1> DEFINE z == VecRlc(x, r, y)
<1>1. z \in Vec /\ r \in Int
  BY VecRlcInVec, FpIsInt
<1>2. \A k \in Slot : Cong(z[k], x[k] + r * y[k])
  BY RlcCong DEF Vec, VecRlc
<1>3. Dot(a, x) \in Fp /\ Dot(a, y) \in Fp /\ Dot(a, z) \in Fp
  BY <1>1, DotIsSum
<1> HIDE DEF z
<1>4. Cong(Dot(a, z), Dot(a, x) + r * Dot(a, y))
  BY <1>1, <1>2, DotLinear
<1>5. Rlc(Dot(a, x), r, Dot(a, y)) \in Fp
      /\ Cong(Rlc(Dot(a, x), r, Dot(a, y)), Dot(a, x) + r * Dot(a, y))
  BY <1>3, RlcCong
<1>6. Dot(a, z) = Rlc(Dot(a, x), r, Dot(a, y))
  <2> DEFINE p == Dot(a, z)  q == Rlc(Dot(a, x), r, Dot(a, y))  v == Dot(a, x) + r * Dot(a, y)
  <2>1. p \in Int /\ q \in Int
    BY <1>3, <1>5, FpIsInt
  <2>2. v \in Int
    <3>1. Dot(a, x) \in Int /\ Dot(a, y) \in Int
      BY <1>3, FpIsInt
    <3> QED BY <1>1, <3>1
  <2>3. p \in Fp /\ q \in Fp /\ Cong(p, v) /\ Cong(q, v)
    BY <1>3, <1>4, <1>5
  <2> HIDE DEF p, q, v
  <2>4. Cong(v, q)
    BY <2>1, <2>2, <2>3, CongSym
  <2>5. Cong(p, q)
    BY <2>1, <2>2, <2>3, <2>4, CongTrans
  <2>6. p = q
    BY <2>3, <2>5, EqOfCong
  <2> QED BY <2>6 DEF p, q
<1> QED
  BY <1>3, <1>6 DEF z

LEMMA MzMleIs ==
  ASSUME NEW R, CcsOk(R), NEW j \in 1 .. 3, NEW z \in Vec
  PROVE  /\ MzMle(R, j, z) \in Table /\ Len(MzMle(R, j, z)) = Corners(R.s)
         /\ \A k \in 1 .. Corners(R.s) :
              /\ Matrices(R)[j][k - 1] \in Vec
              /\ MzMle(R, j, z)[k] = Dot(Matrices(R)[j][k - 1], z)
<1> DEFINE n == Corners(R.s)  M == Matrices(R)[j]  f == [k \in 1 .. n |-> Dot(M[k - 1], z)]
<1>1. n \in Nat /\ n <= 8
  BY PowersOfTwo DEF CcsOk, Corners
<1>2. M \in [Slot -> Vec]
  <2>1. CASE j = 1
    BY <2>1 DEF CcsOk, MatricesOk, Matrices, Matrix
  <2>2. CASE j = 2
    BY <2>2 DEF CcsOk, MatricesOk, Matrices, Matrix
  <2>3. CASE j = 3
    BY <2>3 DEF CcsOk, MatricesOk, Matrices, Matrix
  <2> QED BY <2>1, <2>2, <2>3
<1> HIDE DEF n, M
<1>3. ASSUME NEW k \in 1 .. n PROVE M[k - 1] \in Vec /\ Dot(M[k - 1], z) \in Fp
  <2>1. k - 1 \in Slot
    BY <1>1 DEF Slot
  <2>2. M[k - 1] \in Vec
    BY <1>2, <2>1
  <2> QED BY <2>2, DotIsSum
<1>4. f \in [1 .. n -> Fp]
  BY <1>3
<1>5. MzMle(R, j, z) = <<>> \o f
  BY DEF MzMle, Collect, Corners, n, M
<1>6. \A k \in 1 .. n : f[k] = Dot(M[k - 1], z)
  OBVIOUS
<1> HIDE DEF f
<1>7. <<>> \o f = f /\ f \in Seq(Fp) /\ Len(f) = n
  BY <1>1, <1>4, CollectIs
<1> QED
  BY <1>3, <1>5, <1>6, <1>7 DEF n, M, Table

LEMMA MzCombines ==
  ASSUME NEW R, CcsOk(R), NEW j \in 1 .. 3, NEW x \in Vec, NEW y \in Vec, NEW r \in Fp
  PROVE  TablesCombine(MzMle(R, j, VecRlc(x, r, y)), MzMle(R, j, x), r, MzMle(R, j, y),
                       Corners(R.s))
<1> DEFINE z == VecRlc(x, r, y)
<1>1. z \in Vec
  BY VecRlcInVec
<1>2. \A k \in 1 .. Corners(R.s) :
        Dot(Matrices(R)[j][k - 1], z)
          = Rlc(Dot(Matrices(R)[j][k - 1], x), r, Dot(Matrices(R)[j][k - 1], y))
  BY MzMleIs, DotCombination
<1> HIDE DEF z
<1> QED
  BY <1>1, <1>2, MzMleIs DEF TablesCombine, z

\* The evaluations are in the field, and linear in the assignment.
LEMMA MzAtLinear ==
  ASSUME NEW R, CcsOk(R), NEW point \in List(Fp, R.s),
         NEW x \in Vec, NEW y \in Vec, NEW r \in Fp
  PROVE  /\ MzAt(R, x, point) \in [1 .. 3 -> Fp]
         /\ MzAt(R, y, point) \in [1 .. 3 -> Fp]
         /\ \A j \in 1 .. 3 : MzAt(R, VecRlc(x, r, y), point)[j]
                                = Rlc(MzAt(R, x, point)[j], r, MzAt(R, y, point)[j])
<1> DEFINE z == VecRlc(x, r, y)
           f(v) == [j \in 1 .. 3 |-> MleEvaluate(MzMle(R, j, v), point)]
<1>1. ASSUME NEW v \in Vec
      PROVE  MzAt(R, v, point) = f(v) /\ f(v) \in [1 .. 3 -> Fp]
  <2>1. ASSUME NEW j \in 1 .. 3 PROVE MleEvaluate(MzMle(R, j, v), point) \in Fp
    <3>1. TablesCombine(MzMle(R, j, VecRlc(v, r, v)), MzMle(R, j, v), r, MzMle(R, j, v),
                        Corners(R.s))
      BY MzCombines
    <3>2. R.s \in 0 .. 3
      BY DEF CcsOk
    <3> QED BY <3>1, <3>2, MleLinear
  <2>2. f(v) \in [1 .. 3 -> Fp]
    BY <2>1
  <2>3. MzAt(R, v, point) = <<>> \o f(v)
    BY DEF MzAt, Collect
  <2> HIDE DEF f
  <2>4. <<>> \o f(v) = f(v)
    <3>1. 3 \in Nat
      OBVIOUS
    <3> QED BY <2>2, <3>1, CollectIs
  <2> QED BY <2>2, <2>3, <2>4
<1>2. z \in Vec
  BY VecRlcInVec
<1>3. ASSUME NEW j \in 1 .. 3 PROVE f(z)[j] = Rlc(f(x)[j], r, f(y)[j])
  <2>1. TablesCombine(MzMle(R, j, z), MzMle(R, j, x), r, MzMle(R, j, y), Corners(R.s))
    BY MzCombines
  <2>2. R.s \in 0 .. 3
    BY DEF CcsOk
  <2> HIDE DEF z
  <2>3. MleEvaluate(MzMle(R, j, z), point)
          = Rlc(MleEvaluate(MzMle(R, j, x), point), r, MleEvaluate(MzMle(R, j, y), point))
    BY <2>1, <2>2, MleLinear
  <2> QED BY <2>3
<1> HIDE DEF f
<1>4. MzAt(R, x, point) = f(x) /\ MzAt(R, y, point) = f(y) /\ MzAt(R, z, point) = f(z)
      /\ f(x) \in [1 .. 3 -> Fp] /\ f(y) \in [1 .. 3 -> Fp]
  BY <1>1, <1>2
<1> QED
  BY <1>3, <1>4 DEF z

----------------------------------------------------------------------------
\* Combinations by powers of rho.

\* The vectors of a list, combined slot by slot.
CombineVecs(zs, n, rho) == [k \in Slot |-> PolyEval([i \in 1 .. n |-> zs[i][k]], rho)]

\* The partial combinations, from the last vector on.
VecRun(f, zs, rho, n) ==
  /\ f[0] = ZeroVec
  /\ \A j \in 0 .. n : f[j] \in Vec
  /\ \A j \in 1 .. n : f[j] = VecRlc(zs[n + 1 - j], rho, f[j - 1])

LEMMA CombineRun ==
  ASSUME NEW n \in Nat, NEW zs \in List(Vec, n), NEW rho \in Fp
  PROVE  \E f : VecRun(f, zs, rho, n) /\ CombineVecs(zs, n, rho) = f[n]
<1> DEFINE g == [j \in 1 .. n |-> [y \in Vec |-> VecRlc(zs[n + 1 - j], rho, y)]]
<1>1. ASSUME NEW j \in 1 .. n PROVE n + 1 - j \in 1 .. n /\ zs[n + 1 - j] \in Vec
  <2>1. n + 1 - j \in 1 .. n
    OBVIOUS
  <2> QED BY <2>1 DEF List
<1>2. g \in [1 .. n -> [Vec -> Vec]]
  <2>1. \A j \in 1 .. n, y \in Vec : VecRlc(zs[n + 1 - j], rho, y) \in Vec
    BY <1>1, VecRlcInVec
  <2> QED BY <2>1
<1>3. \A j \in 1 .. n, y \in Vec : g[j][y] = VecRlc(zs[n + 1 - j], rho, y)
  OBVIOUS
<1> HIDE DEF g
<1>4. PICK f \in [0 .. n -> Vec] : f[0] = ZeroVec /\ \A j \in 1 .. n : f[j] = g[j][f[j - 1]]
  <2>1. \E f \in [0 .. n -> Vec] : f[0] = ZeroVec /\ \A j \in 1 .. n : f[j] = g[j][f[j - 1]]
    <3>1. ASSUME NEW a \in Vec, NEW e \in [1 .. n -> [Vec -> Vec]]
          PROVE  \E f \in [0 .. n -> Vec] : f[0] = a /\ \A j \in 1 .. n : f[j] = e[j][f[j - 1]]
      BY Recursion
    <3> QED BY <1>2, <3>1, ZeroVecInVec
  <2> QED BY <2>1
<1>5. VecRun(f, zs, rho, n)
  <2>1. \A j \in 1 .. n : f[j - 1] \in Vec
    OBVIOUS
  <2> QED BY <1>3, <1>4, <2>1 DEF VecRun
<1>6. \E h : VecRun(h, zs, rho, n)
  BY <1>5
<1>7. ASSUME NEW h, VecRun(h, zs, rho, n) PROVE CombineVecs(zs, n, rho) = h[n]
  <2>1. ASSUME NEW k \in Slot PROVE PolyEval([i \in 1 .. n |-> zs[i][k]], rho) = h[n][k]
    <3> DEFINE c == [i \in 1 .. n |-> zs[i][k]]  e == [j \in 0 .. n |-> h[j][k]]
    <3>1. c \in List(Int, n)
      BY FpIsInt DEF List, Vec
    <3>2. e[0] = 0
      BY <1>7 DEF VecRun, ZeroVec
    <3>3. ASSUME NEW j \in 1 .. n PROVE e[j] = Rlc(c[n + 1 - j], rho, e[j - 1])
      <4>1. h[j] = VecRlc(zs[n + 1 - j], rho, h[j - 1])
        BY <1>7 DEF VecRun
      <4>2. h[j][k] = Rlc(zs[n + 1 - j][k], rho, h[j - 1][k])
        BY <4>1 DEF VecRlc
      <4> QED BY <1>1, <4>2
    <3>4. e[n] = h[n][k] /\ rho \in Int
      BY FpIsInt
    <3> HIDE DEF c, e
    <3>5. HornerRun(e, c, rho, n)
      BY <3>2, <3>3 DEF HornerRun
    <3>6. PolyEval(c, rho) = e[n]
      BY <3>1, <3>4, <3>5, PolyValue
    <3> QED BY <3>4, <3>6 DEF c
  <2>2. h[n] \in Vec
    BY <1>7 DEF VecRun
  <2>3. h[n] = [k \in Slot |-> h[n][k]]
    BY <2>2 DEF Vec
  <2> QED BY <2>1, <2>3 DEF CombineVecs
<1> QED
  BY <1>6, <1>7

LEMMA CombineInVec ==
  ASSUME NEW n \in Nat, NEW zs \in List(Vec, n), NEW rho \in Fp
  PROVE  CombineVecs(zs, n, rho) \in Vec
<1>1. PICK f : VecRun(f, zs, rho, n) /\ CombineVecs(zs, n, rho) = f[n]
  BY CombineRun
<1>2. f[n] \in Vec
  BY <1>1 DEF VecRun
<1> QED
  BY <1>1, <1>2

\* Nothing evaluates to nothing.
LEMMA RlcSelf == ASSUME NEW v \in Fp, \A r \in Fp : v = Rlc(v, r, v) PROVE v = 0
<1>1. v = Rlc(v, P - 1, v)
  BY PAssumption DEF Fp
<1>2. v + (P - 1) * v = 0 + v * P /\ v \in Int
  BY FpIsInt, PAssumption
<1>3. Cong(v + (P - 1) * v, 0)
  BY <1>2 DEF Cong
<1>4. Cong(v, v + (P - 1) * v)
  <2>1. P - 1 \in Fp
    BY PAssumption DEF Fp
  <2> QED BY <1>1, <2>1, RlcCong
<1>5. v + (P - 1) * v \in Int
  BY <1>2, PAssumption
<1> DEFINE w == v + (P - 1) * v
<1> HIDE DEF w
<1>6. Cong(v, 0)
  BY <1>2, <1>3, <1>4, <1>5, CongTrans DEF w
<1> QED
  BY <1>6, ZeroOneInFp, EqOfCong

LEMMA MzAtZero ==
  ASSUME NEW R, CcsOk(R), NEW point \in List(Fp, R.s), NEW j \in 1 .. 3
  PROVE  MzAt(R, ZeroVec, point)[j] = 0
<1> DEFINE v == MzAt(R, ZeroVec, point)[j]
<1>1. ASSUME NEW r \in Fp PROVE v \in Fp /\ v = Rlc(v, r, v)
  <2>1. VecRlc(ZeroVec, r, ZeroVec) = ZeroVec
    BY ZeroVecInVec, VecRlcZero
  <2> QED BY <2>1, ZeroVecInVec, MzAtLinear
<1> HIDE DEF v
<1>2. v = 0
  BY <1>1, ZeroOneInFp, RlcSelf
<1> QED
  BY <1>2 DEF v

\* The evaluations of M_j at the vectors of a list.
MzEntries(R, zs, n, point, j) == [i \in 1 .. n |-> MzAt(R, zs[i], point)[j]]

\* The evaluations of a combination are the combined evaluations.
LEMMA MzAtCombined ==
  ASSUME NEW R, CcsOk(R), NEW point \in List(Fp, R.s),
         NEW n \in Nat, NEW zs \in List(Vec, n), NEW rho \in Fp, NEW j \in 1 .. 3
  PROVE  MzAt(R, CombineVecs(zs, n, rho), point)[j]
           = PolyEval(MzEntries(R, zs, n, point, j), rho)
<1>1. PICK f : VecRun(f, zs, rho, n) /\ CombineVecs(zs, n, rho) = f[n]
  BY CombineRun
<1> DEFINE c == [i \in 1 .. n |-> MzAt(R, zs[i], point)[j]]
           h == [i \in 0 .. n |-> MzAt(R, f[i], point)[j]]
<1>2. ASSUME NEW v \in Vec PROVE MzAt(R, v, point)[j] \in Fp
  BY MzAtLinear, ZeroOneInFp
<1>3. c \in List(Int, n)
  <2>1. ASSUME NEW i \in 1 .. n PROVE MzAt(R, zs[i], point)[j] \in Int
    BY <1>2, FpIsInt DEF List
  <2> QED BY <2>1 DEF List
<1>4. h[0] = 0
  BY <1>1, MzAtZero DEF VecRun
<1>5. ASSUME NEW i \in 1 .. n PROVE h[i] = Rlc(c[n + 1 - i], rho, h[i - 1])
  <2>1. n + 1 - i \in 1 .. n /\ i - 1 \in 0 .. n
    OBVIOUS
  <2>2. zs[n + 1 - i] \in Vec /\ f[i - 1] \in Vec /\ f[i] = VecRlc(zs[n + 1 - i], rho, f[i - 1])
    BY <1>1, <2>1 DEF List, VecRun
  <2>3. MzAt(R, f[i], point)[j]
          = Rlc(MzAt(R, zs[n + 1 - i], point)[j], rho, MzAt(R, f[i - 1], point)[j])
    BY <2>2, MzAtLinear
  <2> QED BY <2>1, <2>3
<1>6. h[n] = MzAt(R, f[n], point)[j] /\ rho \in Int
  BY FpIsInt
<1> HIDE DEF c, h
<1>7. HornerRun(h, c, rho, n)
  BY <1>4, <1>5 DEF HornerRun
<1>8. PolyEval(c, rho) = h[n]
  BY <1>3, <1>6, <1>7, PolyValue
<1> QED
  BY <1>1, <1>6, <1>8 DEF c, MzEntries

\* The commitments to the vectors of a list.
Commitments(g, zs, rs, n) == [i \in 1 .. n |-> Commit(g, zs[i], rs[i])]

\* A commitment to a combination is the combined commitment.
LEMMA CommitCombined ==
  ASSUME NEW g \in Vec, NEW n \in Nat, NEW zs \in List(Vec, n), NEW rs \in List(Fp, n),
         NEW rho \in Fp
  PROVE  Commit(g, CombineVecs(zs, n, rho), PolyEval(rs, rho))
           = PolyEval(Commitments(g, zs, rs, n), rho)
<1>1. PICK f : VecRun(f, zs, rho, n) /\ CombineVecs(zs, n, rho) = f[n]
  BY CombineRun
<1>2. rs \in List(Int, n) /\ rho \in Int
  BY FpIsInt DEF List
<1>3. PICK e \in [0 .. n -> Fp] : HornerRun(e, rs, rho, n) /\ PolyEval(rs, rho) = e[n]
  BY <1>2, PolyRun
<1> DEFINE c == [i \in 1 .. n |-> Commit(g, zs[i], rs[i])]
           h == [i \in 0 .. n |-> Commit(g, f[i], e[i])]
<1>4. c \in List(Int, n)
  <2>1. ASSUME NEW i \in 1 .. n PROVE Commit(g, zs[i], rs[i]) \in Int
    <3>1. zs[i] \in Vec /\ rs[i] \in Fp
      BY DEF List
    <3> QED BY <3>1, CommitCong, FpIsInt
  <2> QED BY <2>1 DEF List
<1>5. h[0] = 0
  BY <1>1, <1>3, CommitZero DEF VecRun, HornerRun
<1>6. ASSUME NEW i \in 1 .. n PROVE h[i] = Rlc(c[n + 1 - i], rho, h[i - 1])
  <2>1. n + 1 - i \in 1 .. n /\ i - 1 \in 0 .. n /\ i \in 0 .. n
    OBVIOUS
  <2>2. /\ zs[n + 1 - i] \in Vec /\ f[i - 1] \in Vec
        /\ f[i] = VecRlc(zs[n + 1 - i], rho, f[i - 1])
    BY <1>1, <2>1 DEF List, VecRun
  <2>3. /\ rs[n + 1 - i] \in Fp /\ e[i - 1] \in Fp
        /\ e[i] = Rlc(rs[n + 1 - i], rho, e[i - 1])
    BY <1>3, <2>1 DEF List, HornerRun
  <2>4. Commit(g, f[i], e[i])
          = Rlc(Commit(g, zs[n + 1 - i], rs[n + 1 - i]), rho, Commit(g, f[i - 1], e[i - 1]))
    BY <2>2, <2>3, CommitLinear
  <2> QED BY <2>1, <2>4
<1>7. h[n] = Commit(g, f[n], e[n])
  OBVIOUS
<1> HIDE DEF c, h
<1>8. HornerRun(h, c, rho, n)
  BY <1>5, <1>6 DEF HornerRun
<1>9. PolyEval(c, rho) = h[n]
  BY <1>2, <1>4, <1>8, PolyValue
<1> QED
  BY <1>1, <1>3, <1>7, <1>9 DEF c, Commitments

----------------------------------------------------------------------------
\* The multifold of m running and n incoming pairs.

\* Two lists, one after the other.
Joined(a, b, m, n) == [i \in 1 .. m + n |-> IF i <= m THEN a[i] ELSE b[i - m]]

LEMMA JoinedList ==
  ASSUME NEW S, NEW m \in Nat, NEW n \in Nat, NEW a \in List(S, m), NEW b \in List(S, n)
  PROVE  /\ a \o b = Joined(a, b, m, n) /\ Joined(a, b, m, n) \in List(S, m + n)
         /\ \A i \in 1 .. m : Joined(a, b, m, n)[i] = a[i]
         /\ \A i \in 1 .. n : Joined(a, b, m, n)[m + i] = b[i]
<1> DEFINE c == Joined(a, b, m, n)
<1>1. ASSUME NEW i \in 1 .. m + n PROVE c[i] \in S
  <2>1. CASE i <= m
    BY <2>1 DEF Joined, List
  <2>2. CASE ~(i <= m)
    <3>1. i - m \in 1 .. n
      BY <2>2
    <3> QED BY <2>2, <3>1 DEF Joined, List
  <2> QED BY <2>1, <2>2
<1>2. c \in List(S, m + n)
  BY <1>1 DEF Joined, List
<1>3. ASSUME NEW i \in 1 .. m PROVE c[i] = a[i]
  <2>1. i \in 1 .. m + n /\ i <= m
    OBVIOUS
  <2> QED BY <2>1 DEF Joined
<1>4. ASSUME NEW i \in 1 .. n PROVE c[m + i] = b[i]
  <2>1. m + i \in 1 .. m + n /\ ~(m + i <= m) /\ (m + i) - m = i
    OBVIOUS
  <2> QED BY <2>1 DEF Joined
<1> HIDE DEF c
<1>5. a \in Seq(S) /\ b \in Seq(S) /\ Len(a) = m /\ Len(b) = n
  BY LenProperties DEF List
<1> DEFINE d == a \o b
<1>6. /\ d \in Seq(S) /\ Len(d) = m + n
      /\ \A i \in 1 .. m : d[i] = a[i]
      /\ \A i \in 1 .. n : d[m + i] = b[i]
  BY <1>5
<1>7. c \in Seq(S) /\ Len(c) = m + n
  BY <1>2, LenProperties DEF List
<1> HIDE DEF d
<1>8. ASSUME NEW i \in 1 .. m + n PROVE d[i] = c[i]
  <2>1. CASE i <= m
    BY <1>3, <1>6, <2>1
  <2>2. CASE ~(i <= m)
    <3>1. i - m \in 1 .. n /\ m + (i - m) = i
      BY <2>2
    <3>2. c[m + (i - m)] = b[i - m] /\ d[m + (i - m)] = b[i - m]
      BY <1>4, <1>6, <3>1, Zenon
    <3> QED BY <3>1, <3>2
  <2> QED BY <2>1, <2>2
<1>9. d = c
  BY <1>6, <1>7, <1>8, SeqEqual
<1> QED
  BY <1>2, <1>3, <1>4, <1>9 DEF c, d

\* Pairs that can be folded, with their assignments.
PairsToFold(l, s, m, n, Us, us, Ws, ws, zLs, zCs) ==
  /\ m \in Nat /\ n \in Nat /\ m > 0 /\ l \in 0 .. 7
  /\ Us \in List(Lcccs(l, s), m) /\ Ws \in List(HnWitness(l), m)
  /\ us \in List(Cccs(l), n) /\ ws \in List(HnWitness(l), n)
  /\ zLs = [i \in 1 .. m |-> LcccsZ(Us[i], Ws[i])]
  /\ zCs = [i \in 1 .. n |-> CccsZ(us[i], ws[i])]

\* The parts of the pairs and of their assignments.
ZParts(l, m, n, Us, us, Ws, ws, zLs, zCs) ==
  /\ zLs \in List(Vec, m) /\ zCs \in List(Vec, n)
  /\ \A i \in 1 .. m :
       /\ zLs[i][0] = Us[i].u /\ Us[i].u \in Fp /\ Us[i].C \in Fp
       /\ \A j \in 1 .. l : zLs[i][j] = Us[i].x[j]
       /\ \A k \in Slot : k > l => zLs[i][k] = Ws[i].w[k]
       /\ Ws[i].w \in WitnessVec(l) /\ Ws[i].r_w \in Fp
       /\ Us[i].x \in [1 .. l -> Fp]
  /\ \A i \in 1 .. n :
       /\ zCs[i][0] = 1 /\ us[i].C \in Fp
       /\ \A j \in 1 .. l : zCs[i][j] = us[i].x[j]
       /\ \A k \in Slot : k > l => zCs[i][k] = ws[i].w[k]
       /\ ws[i].w \in WitnessVec(l) /\ ws[i].r_w \in Fp
       /\ us[i].x \in [1 .. l -> Fp]

LEMMA PairsToFoldZ ==
  ASSUME NEW l, NEW s, NEW m, NEW n, NEW Us, NEW us, NEW Ws, NEW ws, NEW zLs, NEW zCs,
         PairsToFold(l, s, m, n, Us, us, Ws, ws, zLs, zCs)
  PROVE  ZParts(l, m, n, Us, us, Ws, ws, zLs, zCs)
<1>1. ASSUME NEW u \in Fp, NEW x \in [1 .. l -> Fp], NEW w \in WitnessVec(l)
      PROVE  /\ Assignment(u, x, w) \in Vec /\ Assignment(u, x, w)[0] = u
             /\ \A j \in 1 .. l : Assignment(u, x, w)[j] = x[j]
             /\ \A k \in Slot : k > l => Assignment(u, x, w)[k] = w[k]
  <2>1. l \in 0 .. 7 /\ w \in Vec
    BY DEF PairsToFold, WitnessVec
  <2>2. Assignment(u, x, w) \in Vec
    BY <2>1, AssignmentInVec
  <2>3. /\ Assignment(u, x, w)[0] = u
        /\ \A j \in 1 .. l : Assignment(u, x, w)[j] = x[j]
        /\ \A k \in Slot : k > l => Assignment(u, x, w)[k] = w[k]
    BY <2>1 DEF Assignment, Slot
  <2> QED BY <2>2, <2>3
<1>2. ASSUME NEW i \in 1 .. m
      PROVE  /\ zLs[i] = Assignment(Us[i].u, Us[i].x, Ws[i].w)
             /\ Us[i].u \in Fp /\ Us[i].C \in Fp /\ Us[i].x \in [1 .. l -> Fp]
             /\ Ws[i].w \in WitnessVec(l) /\ Ws[i].r_w \in Fp
  <2>1. Us[i] \in Lcccs(l, s) /\ Ws[i] \in HnWitness(l) /\ zLs[i] = LcccsZ(Us[i], Ws[i])
    BY DEF PairsToFold, List
  <2> QED BY <2>1 DEF Lcccs, HnWitness, LcccsZ
<1>3. ASSUME NEW i \in 1 .. n
      PROVE  /\ zCs[i] = Assignment(1, us[i].x, ws[i].w)
             /\ us[i].C \in Fp /\ us[i].x \in [1 .. l -> Fp]
             /\ ws[i].w \in WitnessVec(l) /\ ws[i].r_w \in Fp
  <2>1. us[i] \in Cccs(l) /\ ws[i] \in HnWitness(l) /\ zCs[i] = CccsZ(us[i], ws[i])
    BY DEF PairsToFold, List
  <2> QED BY <2>1 DEF Cccs, HnWitness, CccsZ
<1>4. zLs = [i \in 1 .. m |-> zLs[i]] /\ zCs = [i \in 1 .. n |-> zCs[i]]
  BY DEF PairsToFold
<1>5. \A i \in 1 .. m : zLs[i] \in Vec
  BY <1>1, <1>2
<1>6. \A i \in 1 .. n : zCs[i] \in Vec
  BY <1>1, <1>3, ZeroOneInFp
<1>7. zLs \in List(Vec, m) /\ zCs \in List(Vec, n)
  BY <1>4, <1>5, <1>6 DEF List
<1>8. ASSUME NEW i \in 1 .. m
      PROVE  /\ zLs[i][0] = Us[i].u
             /\ \A j \in 1 .. l : zLs[i][j] = Us[i].x[j]
             /\ \A k \in Slot : k > l => zLs[i][k] = Ws[i].w[k]
  BY <1>1, <1>2
<1>9. ASSUME NEW i \in 1 .. n
      PROVE  /\ zCs[i][0] = 1
             /\ \A j \in 1 .. l : zCs[i][j] = us[i].x[j]
             /\ \A k \in Slot : k > l => zCs[i][k] = ws[i].w[k]
  BY <1>1, <1>3, ZeroOneInFp
<1> QED
  BY <1>2, <1>3, <1>7, <1>8, <1>9 DEF ZParts

\* The folded assignment is the combination of the assignments, slot by slot.
LEMMA MultifoldZ ==
  ASSUME NEW l, NEW s, NEW m, NEW n, NEW Us, NEW us, NEW Ws, NEW ws, NEW zLs, NEW zCs,
         PairsToFold(l, s, m, n, Us, us, Ws, ws, zLs, zCs), NEW rho \in Fp
  PROVE  /\ FoldU(Us, us, rho) \in Fp /\ FoldX(Us, us, rho) \in [1 .. l -> Fp]
         /\ FoldHnWitness(Ws \o ws, rho) \in HnWitness(l)
         /\ Assignment(FoldU(Us, us, rho), FoldX(Us, us, rho), FoldHnWitness(Ws \o ws, rho).w)
              = CombineVecs(Joined(zLs, zCs, m, n), m + n, rho)
<1> DEFINE zs == Joined(zLs, zCs, m, n)  N == m + n
           At(k) == [i \in 1 .. N |-> zs[i][k]]
<1>1. m \in Nat /\ n \in Nat /\ m > 0 /\ l \in 0 .. 7 /\ N \in Nat
  BY DEF PairsToFold
<1>2. /\ DOMAIN Us = 1 .. m /\ DOMAIN us = 1 .. n /\ DOMAIN Ws = 1 .. m /\ DOMAIN ws = 1 .. n
      /\ Ws \in List(HnWitness(l), m) /\ ws \in List(HnWitness(l), n) /\ 1 \in 1 .. m
  BY <1>1 DEF PairsToFold, List
<1>3. ZParts(l, m, n, Us, us, Ws, ws, zLs, zCs)
  BY PairsToFoldZ
<1>3a. zLs \in List(Vec, m) /\ zCs \in List(Vec, n)
  BY <1>3 DEF ZParts
<1>4. /\ zs \in List(Vec, N)
      /\ \A i \in 1 .. m : zs[i] = zLs[i]
      /\ \A i \in 1 .. n : zs[m + i] = zCs[i]
  <2>1. zs \in List(Vec, m + n)
    BY <1>1, <1>3a, JoinedList
  <2>2. \A i \in 1 .. m : zs[i] = zLs[i]
    BY <1>1, <1>3a, JoinedList
  <2>3. \A i \in 1 .. n : zs[m + i] = zCs[i]
    BY <1>1, <1>3a, JoinedList
  <2> QED BY <2>1, <2>2, <2>3
<1> HIDE DEF zs
<1>5. ASSUME NEW k \in Slot PROVE At(k) \in List(Int, N) /\ At(k) \in List(Fp, N)
  BY <1>4, FpIsInt DEF List, Vec
\* A list of entries of the running and of the incoming pairs is that of the assignments.
<1>6. ASSUME NEW k \in Slot, NEW a \in List(Fp, m), NEW b \in List(Fp, n),
             \A i \in 1 .. m : a[i] = zLs[i][k], \A i \in 1 .. n : b[i] = zCs[i][k]
      PROVE  a \o b = At(k)
  <2>1. a \o b = Joined(a, b, m, n)
    BY <1>1, JoinedList
  <2>2. ASSUME NEW i \in 1 .. N PROVE Joined(a, b, m, n)[i] = zs[i][k]
    <3>1. CASE i <= m
      <4>1. i \in 1 .. m
        BY <1>1, <3>1
      <4> QED BY <1>4, <1>6, <3>1, <4>1 DEF Joined
    <3>2. CASE ~(i <= m)
      <4>1. i - m \in 1 .. n /\ m + (i - m) = i
        BY <1>1, <3>2
      <4>2. zs[m + (i - m)] = zCs[i - m] /\ b[i - m] = zCs[i - m][k]
        BY <1>4, <1>6, <4>1, Zenon
      <4> QED BY <3>2, <4>1, <4>2 DEF Joined
    <3> QED BY <3>1, <3>2
  <2>3. Joined(a, b, m, n) = [i \in 1 .. N |-> zs[i][k]]
    BY <2>2 DEF Joined
  <2> QED BY <2>1, <2>3
<1>7. ASSUME NEW k \in Slot PROVE PolyEval(At(k), rho) \in Fp
  <2>1. rho \in Int /\ At(k) \in List(Int, N)
    BY <1>5, FpIsInt
  <2> HIDE DEF At
  <2>2. \E h : HornerRun(h, At(k), rho, N)
    BY <1>1, <2>1, PolyRun
  <2> QED BY <1>1, <2>1, <2>2, PolyValue
<1> HIDE DEF At
<1>8. FoldU(Us, us, rho) = PolyEval(At(0), rho)
  <2> DEFINE a == [i \in DOMAIN Us |-> Us[i].u]  b == [k \in DOMAIN us |-> 1]
  <2>1. a \in List(Fp, m) /\ b \in List(Fp, n)
    BY <1>2, <1>3, ZeroOneInFp DEF List, ZParts
  <2>2. /\ \A i \in 1 .. m : a[i] = zLs[i][0]
        /\ \A i \in 1 .. n : b[i] = zCs[i][0]
    BY <1>2, <1>3 DEF ZParts
  <2>3. 0 \in Slot
    BY DEF Slot
  <2> HIDE DEF a, b
  <2>4. a \o b = At(0)
    BY <1>6, <2>1, <2>2, <2>3
  <2> QED BY <2>4 DEF FoldU, Horner, a, b
<1>9. ASSUME NEW j \in 1 .. l
      PROVE  /\ j \in Slot
             /\ Horner([i \in DOMAIN Us |-> Us[i].x[j]] \o [k \in DOMAIN us |-> us[k].x[j]], rho)
                  = PolyEval(At(j), rho)
  <2> DEFINE a == [i \in DOMAIN Us |-> Us[i].x[j]]  b == [k \in DOMAIN us |-> us[k].x[j]]
  <2>1. a \in List(Fp, m) /\ b \in List(Fp, n)
    <3>1. \A i \in 1 .. m : Us[i].x[j] \in Fp
      BY <1>3 DEF ZParts
    <3>2. \A i \in 1 .. n : us[i].x[j] \in Fp
      BY <1>3 DEF ZParts
    <3> QED BY <1>2, <3>1, <3>2 DEF List
  <2>2. /\ \A i \in 1 .. m : a[i] = zLs[i][j]
        /\ \A i \in 1 .. n : b[i] = zCs[i][j]
    BY <1>2, <1>3 DEF ZParts
  <2>3. j \in Slot
    BY <1>1 DEF Slot
  <2> HIDE DEF a, b
  <2>4. a \o b = At(j)
    BY <1>6, <2>1, <2>2, <2>3
  <2> QED BY <2>3, <2>4 DEF Horner, a, b
<1>10. DOMAIN Us[1].x = 1 .. l
  <2>1. Us[1].x \in [1 .. l -> Fp]
    BY <1>2, <1>3 DEF ZParts
  <2> QED BY <2>1
<1>11. FoldX(Us, us, rho) = [j \in 1 .. l |-> PolyEval(At(j), rho)]
  BY <1>9, <1>10 DEF FoldX
<1> DEFINE V == Joined(Ws, ws, m, n)
<1>12. /\ Ws \o ws = V /\ V \in List(HnWitness(l), N) /\ DOMAIN V = 1 .. N
       /\ \A i \in 1 .. m : V[i] = Ws[i]
       /\ \A i \in 1 .. n : V[m + i] = ws[i]
  <2>1. /\ Ws \o ws = V /\ V \in List(HnWitness(l), N)
        /\ \A i \in 1 .. m : V[i] = Ws[i]
        /\ \A i \in 1 .. n : V[m + i] = ws[i]
    <3> DEFINE S == HnWitness(l)
    <3>0. m \in Nat /\ n \in Nat /\ Ws \in List(S, m) /\ ws \in List(S, n)
      BY <1>1, <1>2
    <3> HIDE DEF S
    <3>1. Ws \o ws = V
      BY <3>0, JoinedList
    <3>2. V \in List(S, m + n)
      BY <3>0, JoinedList
    <3>3. \A i \in 1 .. m : V[i] = Ws[i]
      BY <3>0, JoinedList
    <3>4. \A i \in 1 .. n : V[m + i] = ws[i]
      BY <3>0, JoinedList
    <3> QED BY <3>1, <3>2, <3>3, <3>4 DEF S
  <2> QED BY <2>1 DEF Joined
<1> HIDE DEF V
<1>13. ASSUME NEW k \in Slot
       PROVE  Horner([i \in DOMAIN V |-> V[i].w[k]], rho)
                = IF k <= l THEN 0 ELSE PolyEval(At(k), rho)
  <2>1. CASE k <= l
    <3> DEFINE c == [i \in 1 .. N |-> V[i].w[k]]  h == [i \in 0 .. N |-> 0]
    <3>1. ASSUME NEW i \in 1 .. N PROVE V[i].w[k] = 0
      <4>1. V[i] \in HnWitness(l) /\ k \in 0 .. l
        BY <1>1, <1>12, <2>1 DEF List, Slot
      <4> QED BY <4>1 DEF HnWitness, WitnessVec
    <3>2. c \in List(Int, N) /\ rho \in Int
      BY <3>1, FpIsInt DEF List
    <3>3. HornerRun(h, c, rho, N)
      <4>1. ASSUME NEW i \in 1 .. N PROVE h[i] = Rlc(c[N + 1 - i], rho, h[i - 1])
        <5>1. N + 1 - i \in 1 .. N /\ i - 1 \in 0 .. N
          BY <1>1
        <5>2. c[N + 1 - i] = 0 /\ h[i - 1] = 0 /\ h[i] = 0
          BY <3>1, <5>1
        <5> QED BY <5>2, ZeroOneInFp, RlcZero
      <4> QED BY <1>1, <4>1 DEF HornerRun
    <3>4. h[N] = 0
      BY <1>1
    <3> HIDE DEF c, h
    <3>5. PolyEval(c, rho) = h[N]
      BY <1>1, <3>2, <3>3, PolyValue
    <3> QED BY <1>12, <2>1, <3>4, <3>5 DEF Horner, c
  <2>2. CASE ~(k <= l)
    <3>1. ASSUME NEW i \in 1 .. N PROVE V[i].w[k] = zs[i][k]
      <4>1. CASE i <= m
        <5>1. i \in 1 .. m /\ k > l
          BY <1>1, <2>2, <4>1 DEF Slot
        <5>2. zLs[i][k] = Ws[i].w[k]
          BY <1>3, <5>1 DEF ZParts
        <5> QED BY <1>4, <1>12, <5>1, <5>2
      <4>2. CASE ~(i <= m)
        <5>1. i - m \in 1 .. n /\ m + (i - m) = i /\ k > l
          BY <1>1, <2>2, <4>2 DEF Slot
        <5>2. zCs[i - m][k] = ws[i - m].w[k]
          BY <1>3, <5>1 DEF ZParts
        <5>3. zs[m + (i - m)] = zCs[i - m] /\ V[m + (i - m)] = ws[i - m]
          BY <1>4, <1>12, <5>1, Zenon
        <5> QED BY <5>1, <5>2, <5>3
      <4> QED BY <4>1, <4>2
    <3>2. [i \in DOMAIN V |-> V[i].w[k]] = At(k)
      BY <1>12, <3>1 DEF At
    <3> QED BY <2>2, <3>2 DEF Horner
  <2> QED BY <2>1, <2>2
<1> DEFINE w == FoldHnWitness(V, rho)
<1>14. w.w = [k \in Slot |-> IF k <= l THEN 0 ELSE PolyEval(At(k), rho)]
  BY <1>13 DEF FoldHnWitness
<1>15. w.w \in WitnessVec(l)
  <2>1. w.w \in Vec
    BY <1>7, <1>14, ZeroOneInFp DEF Vec
  <2>2. \A k \in 0 .. l : w.w[k] = 0
    BY <1>1, <1>14 DEF Slot
  <2> QED BY <2>1, <2>2 DEF WitnessVec
<1>16. w.r_w \in Fp
  <2> DEFINE c == [i \in 1 .. N |-> V[i].r_w]
  <2>1. ASSUME NEW i \in 1 .. N PROVE V[i].r_w \in Fp
    <3>1. V[i] \in HnWitness(l)
      BY <1>12 DEF List
    <3> QED BY <3>1 DEF HnWitness
  <2>2. c \in List(Int, N) /\ rho \in Int
    BY <2>1, FpIsInt DEF List
  <2>3. w.r_w = PolyEval(c, rho)
    BY <1>12 DEF FoldHnWitness, Horner
  <2> HIDE DEF c
  <2>4. \E h : HornerRun(h, c, rho, N)
    BY <1>1, <2>2, PolyRun
  <2>5. PolyEval(c, rho) \in Fp
    BY <1>1, <2>2, <2>4, PolyValue
  <2> QED BY <2>3, <2>5
<1>17. w \in HnWitness(l)
  BY <1>15, <1>16 DEF HnWitness, FoldHnWitness
<1>18. FoldU(Us, us, rho) \in Fp /\ FoldX(Us, us, rho) \in [1 .. l -> Fp]
  BY <1>1, <1>7, <1>8, <1>9, <1>11 DEF Slot
<1> HIDE DEF w
<1> DEFINE z == Assignment(FoldU(Us, us, rho), FoldX(Us, us, rho), w.w)
<1>19. ASSUME NEW k \in Slot PROVE z[k] = PolyEval(At(k), rho)
  <2>1. CASE k = 0
    BY <1>8, <2>1 DEF Assignment
  <2>2. CASE k \in 1 .. l
    BY <1>11, <2>2 DEF Assignment
  <2>3. CASE k # 0 /\ ~(k \in 1 .. l)
    <3>1. ~(k <= l)
      BY <1>1, <2>3 DEF Slot
    <3> QED BY <1>11, <1>14, <2>3, <3>1 DEF Assignment
  <2> QED BY <2>1, <2>2, <2>3
<1>20. z = [k \in Slot |-> PolyEval([i \in 1 .. N |-> zs[i][k]], rho)]
  BY <1>19 DEF Assignment, At
<1> QED
  BY <1>12, <1>17, <1>18, <1>20 DEF CombineVecs, w, zs

\* The sigmas and thetas are the evaluations of the assignments.
LEMMA SigmasThetasAre ==
  ASSUME NEW R, CcsOk(R), NEW point \in List(Fp, R.s), NEW m \in Nat, NEW n \in Nat,
         NEW zLs \in List(Vec, m), NEW zCs \in List(Vec, n)
  PROVE  LET st == SigmasThetas(R, zLs, zCs, point) IN
         /\ st.sigmas = [i \in 1 .. m |-> MzAt(R, zLs[i], point)]
         /\ st.thetas = [i \in 1 .. n |-> MzAt(R, zCs[i], point)]
         /\ st.sigmas \in List([1 .. 3 -> Fp], m) /\ st.thetas \in List([1 .. 3 -> Fp], n)
<1> DEFINE T == [1 .. 3 -> Fp]
           a == [i \in 1 .. m |-> MzAt(R, zLs[i], point)]
           b == [i \in 1 .. n |-> MzAt(R, zCs[i], point)]
<1>1. Len(zLs) = m /\ Len(zCs) = n
  BY DEF List
<1>2. ASSUME NEW z \in Vec PROVE MzAt(R, z, point) \in T
  BY MzAtLinear, ZeroOneInFp
<1>3. (\A i \in 1 .. m : zLs[i] \in Vec) /\ (\A i \in 1 .. n : zCs[i] \in Vec)
  BY DEF List
<1> HIDE DEF T
<1>4. a \in [1 .. m -> T] /\ b \in [1 .. n -> T]
  BY <1>2, <1>3
<1>5. /\ SigmasThetas(R, zLs, zCs, point).sigmas = <<>> \o a
      /\ SigmasThetas(R, zLs, zCs, point).thetas = <<>> \o b
  BY <1>1 DEF SigmasThetas, Collect
<1> HIDE DEF a, b
<1>6. <<>> \o a = a /\ <<>> \o b = b
  BY <1>4, CollectIs
<1> QED
  BY <1>4, <1>5, <1>6 DEF a, b, List, T

\* The folded pair satisfies the linearized relation at the new point, whatever pairs
\* were folded: sigmas and thetas are the evaluations of their assignments.
THEOREM MultifoldSatisfies ==
  ASSUME NEW R, CcsOk(R), NEW point \in List(Fp, R.s), NEW rho \in Fp,
         NEW m, NEW n, NEW Us, NEW us, NEW Ws, NEW ws, NEW zLs, NEW zCs,
         PairsToFold(R.l, R.s, m, n, Us, us, Ws, ws, zLs, zCs)
  PROVE  LET U == Fold(Us, us, SigmasThetas(R, zLs, zCs, point), point, rho)
             W == FoldHnWitness(Ws \o ws, rho)
         IN  /\ U \in Lcccs(R.l, R.s) /\ W \in HnWitness(R.l)
             /\ CheckLcccs(R, W, U)
<1> DEFINE st == SigmasThetas(R, zLs, zCs, point)
           U == Fold(Us, us, st, point, rho)
           W == FoldHnWitness(Ws \o ws, rho)
           zs == Joined(zLs, zCs, m, n)
           z == CombineVecs(zs, m + n, rho)
<1>1. m \in Nat /\ n \in Nat /\ m > 0
      /\ DOMAIN Us = 1 .. m /\ DOMAIN us = 1 .. n /\ rho \in Int
  BY FpIsInt DEF PairsToFold, List
<1>2. ZParts(R.l, m, n, Us, us, Ws, ws, zLs, zCs)
  BY PairsToFoldZ
<1>3. zLs \in List(Vec, m) /\ zCs \in List(Vec, n)
  BY <1>2 DEF ZParts
<1>4. /\ FoldU(Us, us, rho) \in Fp /\ FoldX(Us, us, rho) \in [1 .. R.l -> Fp]
      /\ W \in HnWitness(R.l)
      /\ Assignment(FoldU(Us, us, rho), FoldX(Us, us, rho), W.w) = z
  BY MultifoldZ
<1>5. zs \in List(Vec, m + n)
  BY <1>1, <1>3, JoinedList
<1>6. \A i \in 1 .. m : zs[i] = zLs[i]
  BY <1>1, <1>3, JoinedList
<1>7. \A i \in 1 .. n : zs[m + i] = zCs[i]
  BY <1>1, <1>3, JoinedList
<1> HIDE DEF zs
<1>8. z \in Vec
  BY <1>1, <1>5, CombineInVec
<1> HIDE DEF z, W
<1>9. /\ st.sigmas = [i \in 1 .. m |-> MzAt(R, zLs[i], point)]
      /\ st.thetas = [i \in 1 .. n |-> MzAt(R, zCs[i], point)]
      /\ st.sigmas \in List([1 .. 3 -> Fp], m) /\ st.thetas \in List([1 .. 3 -> Fp], n)
  BY <1>1, <1>3, SigmasThetasAre
<1> HIDE DEF st
<1>10. ASSUME NEW j \in 1 .. 3 PROVE FoldV(st, rho)[j] = MzAt(R, z, point)[j]
  <2> DEFINE a == [i \in 1 .. m |-> st.sigmas[i][j]]
             b == [i \in 1 .. n |-> st.thetas[i][j]]
             c == [i \in 1 .. m + n |-> MzAt(R, zs[i], point)[j]]
  <2>1. a \in List(Fp, m) /\ b \in List(Fp, n)
    BY <1>9 DEF List
  <2>2. a \o b = Joined(a, b, m, n)
    <3> HIDE DEF a, b
    <3> QED BY <1>1, <2>1, JoinedList
  <2>3. ASSUME NEW i \in 1 .. m + n PROVE Joined(a, b, m, n)[i] = c[i]
    <3>1. CASE i <= m
      <4>1. i \in 1 .. m
        BY <1>1, <3>1
      <4> QED BY <1>6, <1>9, <3>1, <4>1 DEF Joined
    <3>2. CASE ~(i <= m)
      <4>1. i - m \in 1 .. n /\ m + (i - m) = i
        BY <1>1, <3>2
      <4>2. zs[m + (i - m)] = zCs[i - m]
        BY <1>7, <4>1, Zenon
      <4> QED BY <1>9, <3>2, <4>1, <4>2 DEF Joined
    <3> QED BY <3>1, <3>2
  <2>4. Joined(a, b, m, n) = c
    BY <2>3 DEF Joined
  <2>5. DOMAIN st.sigmas = 1 .. m /\ DOMAIN st.thetas = 1 .. n
    BY <1>9
  <2>6. FoldV(st, rho)[j] = PolyEval(a \o b, rho)
    BY <2>5 DEF FoldV, Horner
  <2>7. m + n \in Nat
    BY <1>1
  <2>8. MzAt(R, z, point)[j] = PolyEval(c, rho)
    <3> DEFINE N == m + n
    <3>1. N \in Nat /\ zs \in List(Vec, N)
      BY <1>5, <2>7
    <3> HIDE DEF N
    <3>2. MzAt(R, CombineVecs(zs, N, rho), point)[j]
            = PolyEval(MzEntries(R, zs, N, point, j), rho)
      BY <3>1, MzAtCombined
    <3> QED BY <3>2 DEF N, z, MzEntries
  <2> QED BY <2>2, <2>4, <2>6, <2>8
<1>11. MzAt(R, z, point) \in [1 .. 3 -> Fp]
  BY <1>8, MzAtLinear, ZeroOneInFp
<1>12. FoldV(st, rho) = MzAt(R, z, point)
  BY <1>10, <1>11 DEF FoldV
<1>13. U.C \in Fp
  <2> DEFINE a == [i \in DOMAIN Us |-> Us[i].C]  b == [i \in DOMAIN us |-> us[i].C]
             N == m + n  c == Joined(a, b, m, n)
  <2>1. a \in List(Fp, m) /\ b \in List(Fp, n)
    BY <1>1, <1>2 DEF List, ZParts
  <2> HIDE DEF a, b
  <2>2. a \o b = c /\ c \in List(Fp, N)
    <3>1. a \o b = c
      BY <1>1, <2>1, JoinedList
    <3>2. c \in List(Fp, m + n)
      BY <1>1, <2>1, JoinedList
    <3> QED BY <3>1, <3>2
  <2>3. N \in Nat
    BY <1>1
  <2> HIDE DEF c, N
  <2>4. c \in List(Int, N)
    BY <2>2, FpIsInt DEF List
  <2>5. \E h : HornerRun(h, c, rho, N)
    BY <1>1, <2>3, <2>4, PolyRun
  <2>6. PolyEval(c, rho) \in Fp
    BY <1>1, <2>3, <2>4, <2>5, PolyValue
  <2> QED BY <2>2, <2>6 DEF Fold, Horner, a, b
<1>14. U.u = FoldU(Us, us, rho) /\ U.x = FoldX(Us, us, rho) /\ U.r_x = point
       /\ U.v = FoldV(st, rho)
  BY DEF Fold
<1>15. U \in Lcccs(R.l, R.s)
  <2>1. point \in [1 .. R.s -> Fp]
    BY DEF List
  <2> QED BY <1>4, <1>11, <1>12, <1>13, <2>1 DEF Lcccs, Fold
<1>16. CheckLcccs(R, W, U)
  BY <1>4, <1>12, <1>14 DEF CheckLcccs, LcccsZ
<1> QED
  BY <1>4, <1>15, <1>16 DEF W, st

\* The folded witness opens the folded commitment, if the pairs' witnesses open theirs.
THEOREM MultifoldOpens ==
  ASSUME NEW g \in Vec, NEW l, NEW s, NEW rho \in Fp, NEW st, NEW point,
         NEW m, NEW n, NEW Us, NEW us, NEW Ws, NEW ws, NEW zLs, NEW zCs,
         PairsToFold(l, s, m, n, Us, us, Ws, ws, zLs, zCs),
         \A i \in 1 .. m : HnOpens(g, Ws[i], Us[i]),
         \A i \in 1 .. n : HnOpens(g, ws[i], us[i])
  PROVE  HnOpens(g, FoldHnWitness(Ws \o ws, rho), Fold(Us, us, st, point, rho))
<1> DEFINE N == m + n  V == Joined(Ws, ws, m, n)
           zs == [i \in 1 .. N |-> V[i].w]  rs == [i \in 1 .. N |-> V[i].r_w]
           a == [i \in DOMAIN Us |-> Us[i].C]  b == [i \in DOMAIN us |-> us[i].C]
           T == HnWitness(l)
<1>1. m \in Nat /\ n \in Nat /\ N \in Nat
      /\ DOMAIN Us = 1 .. m /\ DOMAIN us = 1 .. n /\ rho \in Int
  BY FpIsInt DEF PairsToFold, List
<1>2. ZParts(l, m, n, Us, us, Ws, ws, zLs, zCs)
  BY PairsToFoldZ
<1>3. Ws \in List(T, m) /\ ws \in List(T, n)
  BY DEF PairsToFold
<1>4. ASSUME NEW t \in T PROVE t.w \in Vec /\ t.r_w \in Fp
  BY <1>4 DEF HnWitness, WitnessVec
<1> HIDE DEF T
<1>5. Ws \o ws = V
  BY <1>1, <1>3, JoinedList
<1>6. V \in List(T, m + n)
  BY <1>1, <1>3, JoinedList
<1>7. \A i \in 1 .. m : V[i] = Ws[i]
  BY <1>1, <1>3, JoinedList
<1>8. \A i \in 1 .. n : V[m + i] = ws[i]
  BY <1>1, <1>3, JoinedList
<1> HIDE DEF V
<1>9. zs \in List(Vec, N) /\ rs \in List(Fp, N) /\ DOMAIN V = 1 .. N
  <2>1. \A i \in 1 .. N : V[i] \in T
    BY <1>6 DEF List
  <2>2. DOMAIN V = 1 .. N
    BY <1>6 DEF List
  <2> QED BY <1>4, <2>1, <2>2 DEF List
<1>10. a \in List(Fp, m) /\ b \in List(Fp, n)
  BY <1>1, <1>2 DEF List, ZParts
<1>11. ASSUME NEW i \in 1 .. N
       PROVE  Joined(a, b, m, n)[i] = Commit(g, zs[i], rs[i])
  <2>1. CASE i <= m
    <3>1. i \in 1 .. m
      BY <1>1, <2>1
    <3>2. a[i] = Commit(g, Ws[i].w, Ws[i].r_w)
      BY <1>1, <3>1 DEF HnOpens
    <3> QED BY <1>7, <2>1, <3>1, <3>2 DEF Joined
  <2>2. CASE ~(i <= m)
    <3>1. i - m \in 1 .. n /\ m + (i - m) = i
      BY <1>1, <2>2
    <3>2. b[i - m] = Commit(g, ws[i - m].w, ws[i - m].r_w)
      BY <1>1, <3>1 DEF HnOpens
    <3>3. V[m + (i - m)] = ws[i - m]
      BY <1>8, <3>1, Zenon
    <3> QED BY <2>2, <3>1, <3>2, <3>3 DEF Joined
  <2> QED BY <2>1, <2>2
<1>12. Joined(a, b, m, n) = Commitments(g, zs, rs, N)
  BY <1>11 DEF Joined, Commitments
<1>13. Fold(Us, us, st, point, rho).C = PolyEval(a \o b, rho)
  BY DEF Fold, Horner
<1>14. /\ FoldHnWitness(V, rho).w = CombineVecs(zs, N, rho)
       /\ FoldHnWitness(V, rho).r_w = PolyEval(rs, rho)
  <2>1. ASSUME NEW k \in Slot
        PROVE  [i \in DOMAIN V |-> V[i].w[k]] = [i \in 1 .. N |-> zs[i][k]]
    BY <1>9
  <2>2. [i \in DOMAIN V |-> V[i].r_w] = rs
    BY <1>9
  <2> QED BY <2>1, <2>2 DEF FoldHnWitness, CombineVecs, Horner
<1> HIDE DEF a, b, zs, rs, N
<1>15. a \o b = Joined(a, b, m, n)
  BY <1>1, <1>10, JoinedList
<1>16. Commit(g, CombineVecs(zs, N, rho), PolyEval(rs, rho))
         = PolyEval(Commitments(g, zs, rs, N), rho)
  BY <1>1, <1>9, CommitCombined
<1> QED
  BY <1>5, <1>12, <1>13, <1>14, <1>15, <1>16 DEF HnOpens

----------------------------------------------------------------------------
\* Polynomials.

LEMMA TimesLinearIs ==
  ASSUME NEW n \in Nat, NEW c \in List(Fp, n), NEW a \in Int, NEW x \in Int
  PROVE  /\ TimesLinear(c, a) \in List(Fp, n + 1)
         /\ Cong(PolyEval(TimesLinear(c, a), x), (x - a) * PolyEval(c, x))
<1> DEFINE b == (-a) % P  s == <<0>> \o c  d == PolyScale(c, b)  t == TimesLinear(c, a)
           e == [j \in 1 .. n + 1 |-> Coefficient(c, n, j)]  m == n + 1
<1>1. c \in List(Int, n)
  BY ListInt
<1>2. b \in Int /\ Cong(b, -a)
  <2>1. -a \in Int
    OBVIOUS
  <2> QED BY <2>1, ModInFp, FpIsInt, CongOfMod
<1>3. t = PolyAdd(s, d)
  BY DEF TimesLinear
<1>4. s \in List(Fp, m) /\ s[1] = 0 /\ \A j \in 1 .. n : s[j + 1] = c[j]
  BY ShiftIs
<1> HIDE DEF b
<1>5. d \in List(Fp, n) /\ \A j \in 1 .. n : d[j] = (b * c[j]) % P
  BY <1>1, <1>2, PolyScaleIs
<1> HIDE DEF s, d, t
<1>6. s \in List(Int, m) /\ d \in List(Int, n) /\ m \in Nat /\ m = (IF m < n THEN n ELSE m)
  BY <1>4, <1>5, ListInt
<1>7. /\ t \in List(Fp, m)
      /\ \A j \in 1 .. m : t[j] = (Coefficient(s, m, j) + Coefficient(d, n, j)) % P
  <2> HIDE DEF m
  <2> QED BY <1>3, <1>6, PolyAddIs
<1>8. e \in List(Int, m)
  BY <1>1 DEF List, Coefficient
<1>9. ASSUME NEW j \in 1 .. m PROVE Cong(t[j], s[j] + (-a) * e[j])
  <2>1. s[j] \in Int /\ Coefficient(s, m, j) = s[j]
    BY <1>6 DEF List, Coefficient
  <2>2. e[j] \in Int /\ Coefficient(d, n, j) \in Int /\ Cong(Coefficient(d, n, j), b * e[j])
    <3>1. CASE j <= n
      <4>1. c[j] \in Int /\ e[j] = c[j] /\ Coefficient(d, n, j) = (b * c[j]) % P
        BY <1>1, <1>5, <3>1 DEF List, Coefficient
      <4>2. b * c[j] \in Int
        BY <1>2, <4>1
      <4> QED BY <4>1, <4>2, ModInFp, FpIsInt, CongOfMod
    <3>2. CASE ~(j <= n)
      <4>1. e[j] = 0 /\ Coefficient(d, n, j) = 0 /\ b * 0 = 0
        BY <1>2, <3>2 DEF Coefficient
      <4> QED BY <4>1, CongRefl
    <3> QED BY <3>1, <3>2
  <2> DEFINE u == s[j]  v == Coefficient(d, n, j)  w == e[j]
  <2>3. t[j] = (u + v) % P
    BY <1>7, <2>1
  <2>4. u \in Int /\ v \in Int /\ w \in Int /\ Cong(v, b * w)
    BY <2>1, <2>2
  <2> HIDE DEF u, v, w
  <2>5. Cong(t[j], u + v)
    <3>1. u + v \in Int
      BY <2>4
    <3> QED BY <2>3, <3>1, CongOfMod
  <2>6. PICK k1 \in Int : t[j] = u + v + k1 * P
    BY <2>5 DEF Cong
  <2>7. PICK k2 \in Int : v = b * w + k2 * P
    BY <2>4 DEF Cong
  <2>8. PICK k3 \in Int : b = -a + k3 * P
    BY <1>2 DEF Cong
  <2>9. t[j] = u + (-a) * w + (k1 + k2 + w * k3) * P
    BY <1>2, <2>4, <2>6, <2>7, <2>8, PAssumption
  <2>10. Cong(t[j], u + (-a) * w)
    BY <2>4, <2>9 DEF Cong
  <2> QED BY <2>10 DEF u, w
<1>10. PolyEval(c, x) = PolyEval(e, x)
  <2>1. \A j \in 1 .. n : c[j] = e[j]
    BY DEF Coefficient
  <2>2. \A j \in n + 1 .. m : e[j] = 0
    BY DEF Coefficient
  <2>3. n \in 0 .. m
    OBVIOUS
  <2> HIDE DEF e, m
  <2> QED BY <1>1, <1>6, <1>8, <2>1, <2>2, <2>3, PolyPadded
<1> HIDE DEF e
<1>11. Cong(PolyEval(s, x), x * PolyEval(c, x))
  BY <1>1, <1>4, <1>6, PolyShift
<1>12. t \in List(Int, m)
  BY <1>7, ListInt
<1>13. Cong(PolyEval(t, x), PolyEval(s, x) + (-a) * PolyEval(e, x))
  <2>1. -a \in Int
    OBVIOUS
  <2> HIDE DEF m
  <2> QED BY <1>6, <1>8, <1>9, <1>12, <2>1, PolyLinear
<1>14. Cong(PolyEval(t, x), (x - a) * PolyEval(c, x))
  <2> DEFINE p == PolyEval(c, x)  q == PolyEval(s, x)  r == PolyEval(t, x)
  <2>1. p \in Int /\ q \in Int /\ r \in Int
    <3> HIDE DEF m
    <3> QED BY <1>1, <1>6, <1>12, PolyInFp
  <2>2. Cong(r, q + (-a) * p) /\ Cong(q, x * p)
    BY <1>10, <1>11, <1>13
  <2> HIDE DEF p, q, r
  <2>3. PICK k1 \in Int : r = q + (-a) * p + k1 * P
    BY <2>2 DEF Cong
  <2>4. PICK k2 \in Int : q = x * p + k2 * P
    BY <2>2 DEF Cong
  <2>5. r = (x - a) * p + (k1 + k2) * P
    BY <2>1, <2>3, <2>4, PAssumption
  <2> QED BY <2>5 DEF Cong, p, r
<1> QED
  BY <1>7, <1>14 DEF t

\* Inverses.
LEMMA InverseIs ==
  ASSUME NEW e \in Int, NEW y \in Int, Cong(e * y, 1)
  PROVE  InverseMod(e % P) \in Fp /\ Cong(InverseMod(e % P), y)
<1> DEFINE a == e % P  b == y % P  z == InverseMod(a)
<1>1. a \in Int /\ Cong(a, e) /\ b \in Int /\ b \in Fp /\ Cong(b, y)
  BY ModInFp, FpIsInt, CongOfMod
<1> HIDE DEF a, b
<1>2. (a * b) % P = 1
  <2>1. PICK i \in Int : a = e + i * P
    BY <1>1 DEF Cong
  <2>2. PICK j \in Int : b = y + j * P
    BY <1>1 DEF Cong
  <2>3. PICK k \in Int : e * y = 1 + k * P
    BY DEF Cong
  <2>4. a * b = 1 + (k + e * j + i * y + i * j * P) * P
    <3>1. a * b = e * y + (e * j + i * y + i * j * P) * P
      BY <2>1, <2>2, PAssumption
    <3> DEFINE m == e * y  l == e * j + i * y + i * j * P
    <3>2. l \in Int
      BY PAssumption
    <3>3. m = 1 + k * P /\ a * b = m + l * P
      BY <2>3, <3>1
    <3>4. k + e * j + i * y + i * j * P = k + l
      BY PAssumption
    <3> HIDE DEF m, l
    <3> QED BY <3>2, <3>3, <3>4, PAssumption
  <2>5. a * b \in Int /\ Cong(a * b, 1)
    BY <1>1, <2>4, PAssumption DEF Cong
  <2>6. (a * b) % P = 1 % P
    BY <2>5, ModOfCong
  <2> QED BY <2>6, ModOfFp, ZeroOneInFp
<1>3. z \in Fp /\ (a * z) % P = 1
  <2>1. \E x \in Fp : (a * x) % P = 1
    BY <1>1, <1>2
  <2> QED BY <2>1 DEF InverseMod
<1> HIDE DEF z
<1>4. z \in Int /\ Cong(1, a * z)
  <2>1. z \in Int
    BY <1>3, FpIsInt
  <2>2. a * z \in Int
    BY <1>1, <2>1
  <2>3. Cong((a * z) % P, a * z)
    BY <2>2, CongOfMod
  <2> QED BY <1>3, <2>1, <2>3
<1>5. Cong(z, y)
  <2>1. PICK i \in Int : a = e + i * P
    BY <1>1 DEF Cong
  <2>2. PICK k \in Int : e * y = 1 + k * P
    BY DEF Cong
  <2>3. PICK l \in Int : 1 = a * z + l * P
    BY <1>4 DEF Cong
  <2>4. y = y * (a * z) + y * l * P
    BY <1>1, <1>4, <2>3, PAssumption
  <2>5. y * (a * z) = (e * y) * z + i * y * z * P
    BY <1>4, <2>1, PAssumption
  <2>6. (e * y) * z = z + k * z * P
    BY <1>4, <2>2, PAssumption
  <2>7. z = y + (0 - k * z - i * y * z - y * l) * P
    <3> DEFINE s == (e * y) * z  t == y * (a * z)  A == k * z  B == i * y * z  C == y * l
    <3>1. s \in Int /\ t \in Int /\ A \in Int /\ B \in Int /\ C \in Int
      BY <1>1, <1>4
    <3>2. y = t + C * P /\ t = s + B * P /\ s = z + A * P
      BY <2>4, <2>5, <2>6
    <3>3. 0 - k * z - i * y * z - y * l = 0 - A - B - C
      OBVIOUS
    <3> HIDE DEF s, t, A, B, C
    <3> QED BY <1>4, <3>1, <3>2, <3>3, PAssumption
  <2>8. 0 - k * z - i * y * z - y * l \in Int
    BY <1>4
  <2> QED BY <2>7, <2>8 DEF Cong
<1> QED
  BY <1>3, <1>5 DEF z, a

\* The inverses of two and three, and of the differences of the points of a basis.
Half  == InverseMod(2 % P)
Third == InverseMod(3 % P)
Inv(d) == CASE d = 1 -> 1 [] d = -1 -> -1 [] d = 2 -> Half [] d = -2 -> -Half
            [] d = 3 -> Third [] d = -3 -> -Third

LEMMA HalfThird ==
  /\ Half \in Int /\ Cong(2 * Half, 1)
  /\ Third \in Int /\ Cong(3 * Third, 1)
<1>1. ASSUME NEW d \in 1 .. 3
      PROVE  InverseMod(d % P) \in Int /\ Cong(d * InverseMod(d % P), 1)
  <2>1. PICK y \in Fp : (d * y) % P = 1
    BY InvertibleAssumption
  <2>2. y \in Int /\ d * y \in Int /\ 1 \in Int
    BY <2>1, FpIsInt
  <2>3. Cong(d * y, 1)
    <3>1. Cong((d * y) % P, d * y)
      BY <2>2, CongOfMod
    <3> QED BY <2>1, <2>2, <3>1, CongSym
  <2> DEFINE z == InverseMod(d % P)
  <2>4. z \in Fp /\ Cong(z, y)
    BY <2>2, <2>3, InverseIs
  <2>5. z \in Int
    BY <2>4, FpIsInt
  <2> HIDE DEF z
  <2>6. Cong(d * z, d * y)
    <3>1. d \in Int /\ Cong(d, d)
      BY CongRefl
    <3> QED BY <2>2, <2>4, <2>5, <3>1, CongMul
  <2>7. Cong(d * z, 1)
    <3>1. d * z \in Int
      BY <2>5
    <3> QED BY <2>2, <2>3, <2>6, <3>1, CongTrans
  <2> QED BY <2>5, <2>7 DEF z
<1>2. 2 \in 1 .. 3 /\ 3 \in 1 .. 3
  OBVIOUS
<1> QED
  BY <1>1, <1>2 DEF Half, Third

LEMMA InvIs ==
  ASSUME NEW d \in {1, -1, 2, -2, 3, -3}
  PROVE  /\ Inv(d) \in Int /\ InverseMod(d % P) \in Fp /\ InverseMod(d % P) \in Int
         /\ Cong(InverseMod(d % P), Inv(d))
<1>1. Inv(d) \in Int /\ Cong(d * Inv(d), 1)
  <2>0. Cong(1, 1)
    BY CongRefl
  <2>1. CASE d = 1
    BY <2>0, <2>1 DEF Inv
  <2>2. CASE d = -1
    <3>1. Inv(d) = -1 /\ (-1) * (-1) = 1
      BY <2>2 DEF Inv
    <3> QED BY <2>0, <2>2, <3>1
  <2>3. CASE d = 2
    BY <2>3, HalfThird DEF Inv
  <2>4. CASE d = -2
    <3>1. Inv(d) = -Half /\ Half \in Int /\ Cong(2 * Half, 1)
      BY <2>4, HalfThird DEF Inv
    <3>2. (-2) * (-Half) = 2 * Half
      BY <3>1
    <3> QED BY <2>4, <3>1, <3>2
  <2>5. CASE d = 3
    BY <2>5, HalfThird DEF Inv
  <2>6. CASE d = -3
    <3>1. Inv(d) = -Third /\ Third \in Int /\ Cong(3 * Third, 1)
      BY <2>6, HalfThird DEF Inv
    <3>2. (-3) * (-Third) = 3 * Third
      BY <3>1
    <3> QED BY <2>6, <3>1, <3>2
  <2> QED BY <2>1, <2>2, <2>3, <2>4, <2>5, <2>6
<1>2. d \in Int
  OBVIOUS
<1> QED
  BY <1>1, <1>2, InverseIs, FpIsInt

\* The basis polynomials, factor by factor: what is left of the first m of them.
BasisStep(c, j, m) ==
  IF m - 1 = j THEN c
  ELSE PolyScale(TimesLinear(c, m - 1), InverseMod((j - (m - 1)) % P))

LEMMA BasisStepIs ==
  ASSUME NEW j \in 0 .. 3, NEW m \in 1 .. 4,
         NEW n \in Nat, NEW c \in List(Fp, n)
  PROVE  /\ BasisStep(c, j, m) \in List(Fp, IF m - 1 = j THEN n ELSE n + 1)
         /\ m - 1 # j => \A x \in Int :
              Cong(PolyEval(BasisStep(c, j, m), x),
                   Inv(j - (m - 1)) * ((x - (m - 1)) * PolyEval(c, x)))
<1>1. CASE m - 1 = j
  BY <1>1 DEF BasisStep
<1>2. CASE m - 1 # j
  <2> DEFINE d == j - (m - 1)  i == InverseMod(d % P)  t == TimesLinear(c, m - 1)
             e == PolyScale(t, i)  k == n + 1
  <2>1. /\ d \in {1, -1, 2, -2, 3, -3} /\ d \in Int /\ m - 1 \in Int /\ k \in Nat
    BY <1>2
  <2>2. BasisStep(c, j, m) = e
    BY <1>2 DEF BasisStep
  <2> HIDE DEF d
  <2>3. Inv(d) \in Int /\ i \in Int /\ Cong(i, Inv(d))
    BY <2>1, InvIs
  <2> HIDE DEF i
  <2>4. t \in List(Fp, k) /\ \A x \in Int : Cong(PolyEval(t, x), (x - (m - 1)) * PolyEval(c, x))
    BY <2>1, TimesLinearIs
  <2> HIDE DEF t, k
  <2>5. e \in List(Fp, k) /\ \A x \in Int : Cong(PolyEval(e, x), i * PolyEval(t, x))
    BY <2>1, <2>3, <2>4, PolyScaleEval
  <2> HIDE DEF e
  <2>6. ASSUME NEW x \in Int
        PROVE  Cong(PolyEval(e, x), Inv(d) * ((x - (m - 1)) * PolyEval(c, x)))
    <3> DEFINE p == PolyEval(c, x)  q == PolyEval(t, x)  r == PolyEval(e, x)  y == x - (m - 1)
               z == Inv(d)
    <3>1. p \in Int /\ q \in Int /\ r \in Int /\ y \in Int /\ z \in Int
      <4>1. c \in List(Int, n) /\ t \in List(Int, k) /\ e \in List(Int, k)
        BY <2>4, <2>5, ListInt
      <4> QED BY <2>1, <2>3, <4>1, PolyInFp
    <3>2. Cong(q, y * p) /\ Cong(r, i * q) /\ Cong(i, z)
      BY <2>3, <2>4, <2>5
    <3> HIDE DEF p, q, r, y, z
    <3> DEFINE w == y * p
    <3>3. w \in Int
      BY <3>1
    <3>4. Cong(q, w)
      BY <3>2
    <3> HIDE DEF w
    <3>5. Cong(i * q, z * w)
      BY <2>3, <3>1, <3>2, <3>3, <3>4, CongMul
    <3>6. i * q \in Int /\ z * w \in Int
      BY <2>3, <3>1, <3>3
    <3>7. Cong(r, z * w)
      BY <3>1, <3>2, <3>5, <3>6, CongTrans
    <3> QED BY <3>7 DEF p, r, y, z, w
  <2> QED BY <1>2, <2>2, <2>5, <2>6 DEF d, k
<1> QED
  BY <1>1, <1>2

LEMMA BasisRun ==
  ASSUME NEW n \in 1 .. 4, NEW j \in 0 .. n - 1
  PROVE  \E f \in [0 .. n -> Seq(Fp)] :
           /\ f[0] = <<1>> /\ \A m \in 1 .. n : f[m] = BasisStep(f[m - 1], j, m)
           /\ LagrangeBasis[n][j] = f[n]
<1> DEFINE S == Seq(Fp)
           g == [m \in 1 .. n |-> [c \in S |-> BasisStep(c, j, m)]]
           a == <<1>>
<1>1. g \in [1 .. n -> [S -> S]]
  <2>1. ASSUME NEW m \in 1 .. n, NEW c \in S PROVE BasisStep(c, j, m) \in S
    <3>1. m \in 1 .. 4 /\ j \in 0 .. 3
      OBVIOUS
    <3> DEFINE k == Len(c)  l == IF m - 1 = j THEN k ELSE k + 1  e == BasisStep(c, j, m)
    <3>2. k \in Nat /\ c \in List(Fp, k) /\ l \in Nat
      BY LenProperties DEF List
    <3>3. e \in List(Fp, l)
      BY <3>1, <3>2, BasisStepIs
    <3> HIDE DEF e, l
    <3>4. e \in S
      BY <3>2, <3>3, SeqDef DEF List
    <3> QED BY <3>4 DEF e
  <2> QED BY <2>1
<1>2. \A c \in S, m \in 1 .. n : g[m][c] = BasisStep(c, j, m)
  OBVIOUS
<1>3. a \in S
  BY ZeroOneInFp
<1> HIDE DEF g, a, S
<1>4. PICK f \in [0 .. n -> S] : f[0] = a /\ \A m \in 1 .. n : f[m] = g[m][f[m - 1]]
  <2>1. n \in Nat
    OBVIOUS
  <2>2. \E f \in [0 .. n -> S] : f[0] = a /\ \A m \in 1 .. n : f[m] = g[m][f[m - 1]]
    BY <1>1, <1>3, <2>1, Recursion, Z3T(60)
  <2> QED BY <2>2
<1>5. \A m \in 1 .. n : f[m] = BasisStep(f[m - 1], j, m)
  <2>1. \A m \in 1 .. n : f[m - 1] \in S
    OBVIOUS
  <2> QED BY <1>2, <1>4, <2>1
<1> DEFINE Rec(h) == h = [m \in -1 .. n - 1 |->
                            IF m = -1 THEN <<1>>
                            ELSE IF m = j THEN h[m - 1]
                            ELSE PolyScale(TimesLinear(h[m - 1], m), InverseMod((j - m) % P))]
           c == CHOOSE h : Rec(h)
           b == [m \in -1 .. n - 1 |-> f[m + 1]]
<1>6. Rec(b)
  <2>1. ASSUME NEW m \in -1 .. n - 1
        PROVE  b[m] = IF m = -1 THEN <<1>>
                      ELSE IF m = j THEN b[m - 1]
                      ELSE PolyScale(TimesLinear(b[m - 1], m), InverseMod((j - m) % P))
    <3>1. CASE m = -1
      BY <1>4, <3>1 DEF a
    <3>2. CASE m # -1
      <4>1. m + 1 \in 1 .. n /\ (m + 1) - 1 = m /\ (m - 1) + 1 = m /\ m - 1 \in -1 .. n - 1
        BY <3>2
      <4>2. b[m] = f[m + 1] /\ b[m - 1] = f[m]
        BY <4>1
      <4>3. f[m + 1] = BasisStep(f[m], j, m + 1)
        BY <1>5, <4>1
      <4> HIDE DEF b
      <4> QED BY <3>2, <4>1, <4>2, <4>3 DEF BasisStep
    <3> QED BY <3>1, <3>2
  <2> HIDE DEF b
  <2>2. b = [m \in -1 .. n - 1 |-> b[m]]
    BY DEF b
  <2> QED BY <2>1, <2>2
<1>7. LagrangeBasis[n][j] = c[n - 1]
  BY DEF LagrangeBasis
<1>8. Rec(c)
  <2> HIDE DEF Rec
  <2> QED BY <1>6
<1> DEFINE e == [m \in 0 .. n |-> c[m - 1]]
<1>9. e[0] = f[0] /\ \A m \in 1 .. n : e[m - 1] = f[m - 1] => e[m] = f[m]
  <2> HIDE DEF c
  <2>1. e[0] = <<1>>
    <3>1. -1 \in -1 .. n - 1 /\ 0 - 1 = -1 /\ 0 \in 0 .. n
      OBVIOUS
    <3>2. c[-1] = <<1>>
      BY <1>8, <3>1
    <3> QED BY <3>1, <3>2
  <2>2. ASSUME NEW m \in 1 .. n PROVE e[m] = BasisStep(e[m - 1], j, m)
    <3>1. m - 1 \in -1 .. n - 1 /\ m - 1 # -1 /\ (m - 1) - 1 = m - 2
      OBVIOUS
    <3>2. c[m - 1] = IF m - 1 = j THEN c[(m - 1) - 1]
                     ELSE PolyScale(TimesLinear(c[(m - 1) - 1], m - 1), InverseMod((j - (m - 1)) % P))
      BY <1>8, <3>1
    <3>3. e[m] = c[m - 1] /\ e[m - 1] = c[(m - 1) - 1]
      OBVIOUS
    <3> HIDE DEF e
    <3> QED BY <3>2, <3>3 DEF BasisStep
  <2> HIDE DEF e
  <2> QED BY <1>4, <1>5, <2>1, <2>2 DEF a
<1>10. e[n] = c[n - 1]
  <2> HIDE DEF c
  <2> QED OBVIOUS
<1> HIDE DEF e, c
<1>11. e[n] = f[n]
  <2>1. \A m \in 0 .. n : e[m] = f[m]
    BY <1>9, SameRun
  <2> QED BY <2>1
<1> QED
  BY <1>4, <1>5, <1>7, <1>10, <1>11 DEF S, a

LEMMA BasisValues ==
  ASSUME NEW n \in 1 .. 4, NEW j \in 0 .. n - 1
  PROVE  /\ LagrangeBasis[n][j] \in List(Fp, n)
         /\ \A x \in Int : \E v \in [0 .. n -> Int] :
              /\ Cong(v[0], 1) /\ Cong(PolyEval(LagrangeBasis[n][j], x), v[n])
              /\ \A m \in 1 .. n :
                   IF m - 1 = j THEN v[m] = v[m - 1]
                   ELSE Cong(v[m], Inv(j - (m - 1)) * ((x - (m - 1)) * v[m - 1]))
<1>1. PICK f \in [0 .. n -> Seq(Fp)] :
        /\ f[0] = <<1>> /\ \A m \in 1 .. n : f[m] = BasisStep(f[m - 1], j, m)
        /\ LagrangeBasis[n][j] = f[n]
  BY BasisRun
<1> DEFINE len(m) == IF m <= j THEN m + 1 ELSE m
           T == {m \in Nat : m <= n => f[m] \in List(Fp, len(m))}
<1>2. 0 \in T
  <2>1. f[0] \in [1 .. 1 -> Fp]
    BY <1>1, ZeroOneInFp
  <2> QED BY <2>1 DEF List
<1>3. ASSUME NEW k \in Nat, k \in T PROVE k + 1 \in T
  <2> SUFFICES ASSUME k + 1 <= n PROVE f[k + 1] \in List(Fp, len(k + 1))
    OBVIOUS
  <2> DEFINE m == k + 1
  <2>1. /\ m \in 1 .. n /\ m \in 1 .. 4 /\ m - 1 = k /\ j \in 0 .. 3
        /\ len(k) \in Nat /\ len(m) = IF m - 1 = j THEN len(k) ELSE len(k) + 1
    OBVIOUS
  <2>2. f[k] \in List(Fp, len(k)) /\ f[m] = BasisStep(f[k], j, m)
    BY <1>1, <1>3, <2>1, SMTT(30)
  <2> HIDE DEF m, len
  <2> DEFINE l == len(k)
  <2>3. l \in Nat /\ f[k] \in List(Fp, l)
    BY <2>1, <2>2
  <2> HIDE DEF l
  <2> DEFINE c == f[k]
  <2>4. c \in List(Fp, l)
    BY <2>3
  <2>5. f[m] = BasisStep(c, j, m)
    BY <2>2
  <2> HIDE DEF c
  <2>6. BasisStep(c, j, m) \in List(Fp, IF m - 1 = j THEN l ELSE l + 1)
    BY <2>1, <2>3, <2>4, BasisStepIs
  <2> QED BY <2>1, <2>5, <2>6 DEF l, m
<1>4. \A m \in 0 .. n : f[m] \in List(Fp, len(m)) /\ len(m) \in Nat
  <2>1. \A m \in Nat : m \in T
    <3> HIDE DEF T
    <3> QED BY <1>2, <1>3, SetInduction
  <2> QED BY <2>1
<1>5. LagrangeBasis[n][j] \in List(Fp, n)
  <2>1. len(n) = n /\ n \in 0 .. n
    OBVIOUS
  <2> HIDE DEF len
  <2> QED BY <1>1, <1>4, <2>1
<1> HIDE DEF len, T
<1>6. ASSUME NEW x \in Int
      PROVE  \E v \in [0 .. n -> Int] :
              /\ Cong(v[0], 1) /\ Cong(PolyEval(LagrangeBasis[n][j], x), v[n])
              /\ \A m \in 1 .. n :
                   IF m - 1 = j THEN v[m] = v[m - 1]
                   ELSE Cong(v[m], Inv(j - (m - 1)) * ((x - (m - 1)) * v[m - 1]))
  <2> DEFINE v == [m \in 0 .. n |-> PolyEval(f[m], x)]
  <2>1. v \in [0 .. n -> Int]
    <3>1. ASSUME NEW m \in 0 .. n PROVE PolyEval(f[m], x) \in Int
      <4>1. f[m] \in List(Int, len(m)) /\ len(m) \in Nat
        BY <1>4, ListInt
      <4> QED BY <4>1, PolyInFp
    <3> QED BY <3>1
  <2>2. Cong(v[0], 1)
    <3>1. f[0] \in List(Int, 1) /\ f[0][1] = 1
      BY <1>1 DEF List
    <3>2. Cong(PolyEval(f[0], x), 1)
      BY <3>1, PolyOfOne
    <3> QED BY <3>2
  <2>3. Cong(PolyEval(LagrangeBasis[n][j], x), v[n])
    <3>1. n \in 0 .. n
      OBVIOUS
    <3>2. v[n] \in Int /\ v[n] = PolyEval(f[n], x)
      BY <2>1, <3>1
    <3> QED BY <1>1, <3>2, CongRefl
  <2>4. ASSUME NEW m \in 1 .. n
        PROVE  IF m - 1 = j THEN v[m] = v[m - 1]
               ELSE Cong(v[m], Inv(j - (m - 1)) * ((x - (m - 1)) * v[m - 1]))
    <3>1. /\ m \in 1 .. 4 /\ j \in 0 .. 3 /\ m \in 0 .. n /\ m - 1 \in 0 .. n
      OBVIOUS
    <3>2. v[m] = PolyEval(f[m], x) /\ v[m - 1] = PolyEval(f[m - 1], x)
      BY <3>1
    <3>3. f[m] = BasisStep(f[m - 1], j, m)
      BY <1>1
    <3> HIDE DEF v
    <3>4. CASE m - 1 = j
      <4>1. f[m] = f[m - 1]
        BY <3>3, <3>4 DEF BasisStep
      <4> QED BY <3>2, <3>4, <4>1
    <3>5. CASE m - 1 # j
      <4> DEFINE l == len(m - 1)  c == f[m - 1]
      <4>1. l \in Nat /\ c \in List(Fp, l)
        BY <1>4, <3>1
      <4> HIDE DEF l, c
      <4>2. Cong(PolyEval(BasisStep(c, j, m), x), Inv(j - (m - 1)) * ((x - (m - 1)) * PolyEval(c, x)))
        BY <3>1, <3>5, <4>1, BasisStepIs
      <4> QED BY <3>2, <3>3, <3>5, <4>2 DEF c
    <3> QED BY <3>4, <3>5
  <2> HIDE DEF v
  <2>5. /\ Cong(v[0], 1) /\ Cong(PolyEval(LagrangeBasis[n][j], x), v[n])
        /\ \A m \in 1 .. n :
             IF m - 1 = j THEN v[m] = v[m - 1]
             ELSE Cong(v[m], Inv(j - (m - 1)) * ((x - (m - 1)) * v[m - 1]))
    BY <2>2, <2>3, <2>4
  <2> QED BY <2>1, <2>5
<1> QED
  BY <1>5, <1>6

\* A product of factors, one after the other.
LEMMA Chain ==
  ASSUME NEW w0 \in Int, NEW w1 \in Int, NEW a \in Int, NEW k \in Int, NEW y \in Int,
         Cong(w0, a), Cong(w1, k * (y * w0))
  PROVE  Cong(w1, k * (y * a))
<1>1. y * w0 \in Int /\ y * a \in Int /\ Cong(y, y) /\ Cong(k, k)
  BY CongRefl
<1>2. Cong(y * w0, y * a)
  BY <1>1, CongMul
<1> DEFINE p == y * w0  q == y * a
<1>3. p \in Int /\ q \in Int /\ Cong(p, q) /\ Cong(w1, k * p)
  BY <1>1, <1>2
<1> HIDE DEF p, q
<1>4. Cong(k * p, k * q) /\ k * p \in Int /\ k * q \in Int
  BY <1>1, <1>3, CongMul
<1>5. Cong(w1, k * q)
  BY <1>3, <1>4, CongTrans
<1> QED
  BY <1>5 DEF q

LEMMA TwoFactors ==
  ASSUME NEW w0 \in Int, NEW w1 \in Int, NEW w2 \in Int,
         NEW k1 \in Int, NEW y1 \in Int, NEW k2 \in Int, NEW y2 \in Int,
         Cong(w0, 1), Cong(w1, k1 * (y1 * w0)), Cong(w2, k2 * (y2 * w1))
  PROVE  Cong(w2, k2 * (y2 * (k1 * y1)))
<1> DEFINE o == 1
<1>1. o \in Int /\ y1 * o = y1 /\ Cong(w0, o)
  OBVIOUS
<1> HIDE DEF o
<1>2. Cong(w1, k1 * (y1 * o))
  BY <1>1, Chain
<1> DEFINE b == k1 * y1
<1>3. b \in Int /\ Cong(w1, b)
  BY <1>1, <1>2
<1> HIDE DEF b
<1>4. Cong(w2, k2 * (y2 * b))
  BY <1>3, Chain
<1> QED
  BY <1>4 DEF b

\* The values of a basis polynomial, whose factors are multiplied in turn.
BasisRunOf(v, n, j, x) ==
  /\ v \in [0 .. n -> Int] /\ Cong(v[0], 1)
  /\ PolyEval(LagrangeBasis[n][j], x) \in Int /\ Cong(PolyEval(LagrangeBasis[n][j], x), v[n])
  /\ \A m \in 1 .. n : IF m - 1 = j THEN v[m] = v[m - 1]
                        ELSE Cong(v[m], Inv(j - (m - 1)) * ((x - (m - 1)) * v[m - 1]))

LEMMA BasisRunIs ==
  ASSUME NEW n \in 1 .. 4, NEW j \in 0 .. n - 1, NEW x \in Int
  PROVE  \E v : BasisRunOf(v, n, j, x)
<1>1. LagrangeBasis[n][j] \in List(Int, n)
  BY BasisValues, ListInt
<1>2. n \in Nat
  OBVIOUS
<1>3. PolyEval(LagrangeBasis[n][j], x) \in Int
  BY <1>1, <1>2, PolyInFp
<1> QED
  BY <1>3, BasisValues DEF BasisRunOf

LEMMA BasisOfThree ==
  ASSUME NEW x \in Int
  PROVE  /\ Cong(PolyEval(LagrangeBasis[3][0], x), Inv(-2) * ((x - 2) * (Inv(-1) * (x - 1))))
         /\ Cong(PolyEval(LagrangeBasis[3][1], x), Inv(-1) * ((x - 2) * (Inv(1) * (x - 0))))
         /\ Cong(PolyEval(LagrangeBasis[3][2], x), Inv(1) * ((x - 1) * (Inv(2) * (x - 0))))
<1> DEFINE n == 3
<1>0. n \in 1 .. 4 /\ n = 3
  OBVIOUS
<1> HIDE DEF n
<1>1. Cong(PolyEval(LagrangeBasis[3][0], x), Inv(-2) * ((x - 2) * (Inv(-1) * (x - 1))))
  <2> DEFINE j == 0
  <2>1. j \in 0 .. n - 1 /\ j = 0
    BY <1>0
  <2> HIDE DEF j
  <2>2. PICK v : BasisRunOf(v, n, j, x)
    BY <1>0, <2>1, BasisRunIs
  <2>3. v[0] \in Int /\ v[1] \in Int /\ v[2] \in Int /\ v[3] \in Int
    BY <1>0, <2>2 DEF BasisRunOf
  <2>m1. v[1] = v[0]
    <3>1. 1 \in 1 .. n /\ 1 - 1 = 0 /\ 0 - 0 = 0
      BY <1>0
    <3> QED BY <2>1, <2>2, <3>1 DEF BasisRunOf
  <2>m2. Cong(v[2], Inv(-1) * ((x - 1) * v[1]))
    <3>1. 2 \in 1 .. n /\ 2 - 1 = 1 /\ 0 - 1 = -1
      BY <1>0
    <3> QED BY <2>1, <2>2, <3>1 DEF BasisRunOf
  <2>m3. Cong(v[3], Inv(-2) * ((x - 2) * v[2]))
    <3>1. 3 \in 1 .. n /\ 3 - 1 = 2 /\ 0 - 2 = -2
      BY <1>0
    <3> QED BY <2>1, <2>2, <3>1 DEF BasisRunOf
  <2> DEFINE w0 == v[1]  w1 == v[2]  w2 == v[3]
             k1 == Inv(-1)  y1 == x - 1  k2 == Inv(-2)  y2 == x - 2
  <2>4. /\ w0 \in Int /\ w1 \in Int /\ w2 \in Int
        /\ k1 \in Int /\ y1 \in Int /\ k2 \in Int /\ y2 \in Int
    BY <2>3, InvIs
  <2>5. /\ Cong(w0, 1)
        /\ Cong(w1, k1 * (y1 * w0))
        /\ Cong(w2, k2 * (y2 * w1))
    BY <2>1, <2>2, <2>m1, <2>m2, <2>m3 DEF BasisRunOf
  <2>6. PolyEval(LagrangeBasis[3][0], x) \in Int /\ Cong(PolyEval(LagrangeBasis[3][0], x), w2)
    BY <1>0, <2>1, <2>2, <2>m1, <2>m2, <2>m3 DEF BasisRunOf
  <2> DEFINE e == k2 * (y2 * (k1 * y1))
  <2> HIDE DEF w0, w1, w2, k1, y1, k2, y2
  <2>7. e \in Int
    BY <2>4
  <2>8. Cong(w2, e)
    BY <2>4, <2>5, TwoFactors
  <2> HIDE DEF e
  <2>9. Cong(PolyEval(LagrangeBasis[3][0], x), e)
    BY <2>4, <2>6, <2>7, <2>8, CongTrans
  <2> QED BY <2>9 DEF e, k1, y1, k2, y2
<1>2. Cong(PolyEval(LagrangeBasis[3][1], x), Inv(-1) * ((x - 2) * (Inv(1) * (x - 0))))
  <2> DEFINE j == 1
  <2>1. j \in 0 .. n - 1 /\ j = 1
    BY <1>0
  <2> HIDE DEF j
  <2>2. PICK v : BasisRunOf(v, n, j, x)
    BY <1>0, <2>1, BasisRunIs
  <2>3. v[0] \in Int /\ v[1] \in Int /\ v[2] \in Int /\ v[3] \in Int
    BY <1>0, <2>2 DEF BasisRunOf
  <2>m1. Cong(v[1], Inv(1) * ((x - 0) * v[0]))
    <3>1. 1 \in 1 .. n /\ 1 - 1 = 0 /\ 1 - 0 = 1
      BY <1>0
    <3> QED BY <2>1, <2>2, <3>1 DEF BasisRunOf
  <2>m2. v[2] = v[1]
    <3>1. 2 \in 1 .. n /\ 2 - 1 = 1 /\ 1 - 1 = 0
      BY <1>0
    <3> QED BY <2>1, <2>2, <3>1 DEF BasisRunOf
  <2>m3. Cong(v[3], Inv(-1) * ((x - 2) * v[2]))
    <3>1. 3 \in 1 .. n /\ 3 - 1 = 2 /\ 1 - 2 = -1
      BY <1>0
    <3> QED BY <2>1, <2>2, <3>1 DEF BasisRunOf
  <2> DEFINE w0 == v[0]  w1 == v[1]  w2 == v[3]
             k1 == Inv(1)  y1 == x - 0  k2 == Inv(-1)  y2 == x - 2
  <2>4. /\ w0 \in Int /\ w1 \in Int /\ w2 \in Int
        /\ k1 \in Int /\ y1 \in Int /\ k2 \in Int /\ y2 \in Int
    BY <2>3, InvIs
  <2>5. /\ Cong(w0, 1)
        /\ Cong(w1, k1 * (y1 * w0))
        /\ Cong(w2, k2 * (y2 * w1))
    BY <2>1, <2>2, <2>m1, <2>m2, <2>m3 DEF BasisRunOf
  <2>6. PolyEval(LagrangeBasis[3][1], x) \in Int /\ Cong(PolyEval(LagrangeBasis[3][1], x), w2)
    BY <1>0, <2>1, <2>2, <2>m1, <2>m2, <2>m3 DEF BasisRunOf
  <2> DEFINE e == k2 * (y2 * (k1 * y1))
  <2> HIDE DEF w0, w1, w2, k1, y1, k2, y2
  <2>7. e \in Int
    BY <2>4
  <2>8. Cong(w2, e)
    BY <2>4, <2>5, TwoFactors
  <2> HIDE DEF e
  <2>9. Cong(PolyEval(LagrangeBasis[3][1], x), e)
    BY <2>4, <2>6, <2>7, <2>8, CongTrans
  <2> QED BY <2>9 DEF e, k1, y1, k2, y2
<1>3. Cong(PolyEval(LagrangeBasis[3][2], x), Inv(1) * ((x - 1) * (Inv(2) * (x - 0))))
  <2> DEFINE j == 2
  <2>1. j \in 0 .. n - 1 /\ j = 2
    BY <1>0
  <2> HIDE DEF j
  <2>2. PICK v : BasisRunOf(v, n, j, x)
    BY <1>0, <2>1, BasisRunIs
  <2>3. v[0] \in Int /\ v[1] \in Int /\ v[2] \in Int /\ v[3] \in Int
    BY <1>0, <2>2 DEF BasisRunOf
  <2>m1. Cong(v[1], Inv(2) * ((x - 0) * v[0]))
    <3>1. 1 \in 1 .. n /\ 1 - 1 = 0 /\ 2 - 0 = 2
      BY <1>0
    <3> QED BY <2>1, <2>2, <3>1 DEF BasisRunOf
  <2>m2. Cong(v[2], Inv(1) * ((x - 1) * v[1]))
    <3>1. 2 \in 1 .. n /\ 2 - 1 = 1 /\ 2 - 1 = 1
      BY <1>0
    <3> QED BY <2>1, <2>2, <3>1 DEF BasisRunOf
  <2>m3. v[3] = v[2]
    <3>1. 3 \in 1 .. n /\ 3 - 1 = 2 /\ 2 - 2 = 0
      BY <1>0
    <3> QED BY <2>1, <2>2, <3>1 DEF BasisRunOf
  <2> DEFINE w0 == v[0]  w1 == v[1]  w2 == v[2]
             k1 == Inv(2)  y1 == x - 0  k2 == Inv(1)  y2 == x - 1
  <2>4. /\ w0 \in Int /\ w1 \in Int /\ w2 \in Int
        /\ k1 \in Int /\ y1 \in Int /\ k2 \in Int /\ y2 \in Int
    BY <2>3, InvIs
  <2>5. /\ Cong(w0, 1)
        /\ Cong(w1, k1 * (y1 * w0))
        /\ Cong(w2, k2 * (y2 * w1))
    BY <2>1, <2>2, <2>m1, <2>m2, <2>m3 DEF BasisRunOf
  <2>6. PolyEval(LagrangeBasis[3][2], x) \in Int /\ Cong(PolyEval(LagrangeBasis[3][2], x), w2)
    BY <1>0, <2>1, <2>2, <2>m1, <2>m2, <2>m3 DEF BasisRunOf
  <2> DEFINE e == k2 * (y2 * (k1 * y1))
  <2> HIDE DEF w0, w1, w2, k1, y1, k2, y2
  <2>7. e \in Int
    BY <2>4
  <2>8. Cong(w2, e)
    BY <2>4, <2>5, TwoFactors
  <2> HIDE DEF e
  <2>9. Cong(PolyEval(LagrangeBasis[3][2], x), e)
    BY <2>4, <2>6, <2>7, <2>8, CongTrans
  <2> QED BY <2>9 DEF e, k1, y1, k2, y2
<1> QED
  BY <1>1, <1>2, <1>3

LEMMA BasisOfFour ==
  ASSUME NEW x \in Int
  PROVE  /\ Cong(PolyEval(LagrangeBasis[4][0], x), Inv(-3) * ((x - 3) * (Inv(-2) * ((x - 2) * (Inv(-1) * (x - 1))))))
         /\ Cong(PolyEval(LagrangeBasis[4][1], x), Inv(-2) * ((x - 3) * (Inv(-1) * ((x - 2) * (Inv(1) * (x - 0))))))
         /\ Cong(PolyEval(LagrangeBasis[4][2], x), Inv(-1) * ((x - 3) * (Inv(1) * ((x - 1) * (Inv(2) * (x - 0))))))
         /\ Cong(PolyEval(LagrangeBasis[4][3], x), Inv(1) * ((x - 2) * (Inv(2) * ((x - 1) * (Inv(3) * (x - 0))))))
<1> DEFINE n == 4
<1>0. n \in 1 .. 4 /\ n = 4
  OBVIOUS
<1> HIDE DEF n
<1>1. Cong(PolyEval(LagrangeBasis[4][0], x), Inv(-3) * ((x - 3) * (Inv(-2) * ((x - 2) * (Inv(-1) * (x - 1))))))
  <2> DEFINE j == 0
  <2>1. j \in 0 .. n - 1 /\ j = 0
    BY <1>0
  <2> HIDE DEF j
  <2>2. PICK v : BasisRunOf(v, n, j, x)
    BY <1>0, <2>1, BasisRunIs
  <2>3. v[0] \in Int /\ v[1] \in Int /\ v[2] \in Int /\ v[3] \in Int /\ v[4] \in Int
    BY <1>0, <2>2 DEF BasisRunOf
  <2>m1. v[1] = v[0]
    <3>1. 1 \in 1 .. n /\ 1 - 1 = 0 /\ 0 - 0 = 0
      BY <1>0
    <3> QED BY <2>1, <2>2, <3>1 DEF BasisRunOf
  <2>m2. Cong(v[2], Inv(-1) * ((x - 1) * v[1]))
    <3>1. 2 \in 1 .. n /\ 2 - 1 = 1 /\ 0 - 1 = -1
      BY <1>0
    <3> QED BY <2>1, <2>2, <3>1 DEF BasisRunOf
  <2>m3. Cong(v[3], Inv(-2) * ((x - 2) * v[2]))
    <3>1. 3 \in 1 .. n /\ 3 - 1 = 2 /\ 0 - 2 = -2
      BY <1>0
    <3> QED BY <2>1, <2>2, <3>1 DEF BasisRunOf
  <2>m4. Cong(v[4], Inv(-3) * ((x - 3) * v[3]))
    <3>1. 4 \in 1 .. n /\ 4 - 1 = 3 /\ 0 - 3 = -3
      BY <1>0
    <3> QED BY <2>1, <2>2, <3>1 DEF BasisRunOf
  <2> DEFINE w0 == v[1]  w1 == v[2]  w2 == v[3]  w3 == v[4]
             k1 == Inv(-1)  y1 == x - 1  k2 == Inv(-2)  y2 == x - 2  k3 == Inv(-3)  y3 == x - 3
  <2>4. /\ w0 \in Int /\ w1 \in Int /\ w2 \in Int /\ w3 \in Int
        /\ k1 \in Int /\ y1 \in Int /\ k2 \in Int /\ y2 \in Int /\ k3 \in Int /\ y3 \in Int
    BY <2>3, InvIs
  <2>5. /\ Cong(w0, 1)
        /\ Cong(w1, k1 * (y1 * w0))
        /\ Cong(w2, k2 * (y2 * w1))
        /\ Cong(w3, k3 * (y3 * w2))
    BY <2>1, <2>2, <2>m1, <2>m2, <2>m3, <2>m4 DEF BasisRunOf
  <2>6. PolyEval(LagrangeBasis[4][0], x) \in Int /\ Cong(PolyEval(LagrangeBasis[4][0], x), w3)
    BY <1>0, <2>1, <2>2, <2>m1, <2>m2, <2>m3, <2>m4 DEF BasisRunOf
  <2> DEFINE e == k3 * (y3 * (k2 * (y2 * (k1 * y1))))
  <2> HIDE DEF w0, w1, w2, w3, k1, y1, k2, y2, k3, y3
  <2>7. e \in Int
    BY <2>4
  <2>8. Cong(w3, e)
    <3> DEFINE b == k2 * (y2 * (k1 * y1))
    <3>1. b \in Int
      BY <2>4
    <3>2. Cong(w2, b)
      BY <2>4, <2>5, TwoFactors
    <3> HIDE DEF b
    <3>3. Cong(w3, k3 * (y3 * b))
      BY <2>4, <2>5, <3>1, <3>2, Chain
    <3> QED BY <3>3 DEF b
  <2> HIDE DEF e
  <2>9. Cong(PolyEval(LagrangeBasis[4][0], x), e)
    BY <2>4, <2>6, <2>7, <2>8, CongTrans
  <2> QED BY <2>9 DEF e, k1, y1, k2, y2, k3, y3
<1>2. Cong(PolyEval(LagrangeBasis[4][1], x), Inv(-2) * ((x - 3) * (Inv(-1) * ((x - 2) * (Inv(1) * (x - 0))))))
  <2> DEFINE j == 1
  <2>1. j \in 0 .. n - 1 /\ j = 1
    BY <1>0
  <2> HIDE DEF j
  <2>2. PICK v : BasisRunOf(v, n, j, x)
    BY <1>0, <2>1, BasisRunIs
  <2>3. v[0] \in Int /\ v[1] \in Int /\ v[2] \in Int /\ v[3] \in Int /\ v[4] \in Int
    BY <1>0, <2>2 DEF BasisRunOf
  <2>m1. Cong(v[1], Inv(1) * ((x - 0) * v[0]))
    <3>1. 1 \in 1 .. n /\ 1 - 1 = 0 /\ 1 - 0 = 1
      BY <1>0
    <3> QED BY <2>1, <2>2, <3>1 DEF BasisRunOf
  <2>m2. v[2] = v[1]
    <3>1. 2 \in 1 .. n /\ 2 - 1 = 1 /\ 1 - 1 = 0
      BY <1>0
    <3> QED BY <2>1, <2>2, <3>1 DEF BasisRunOf
  <2>m3. Cong(v[3], Inv(-1) * ((x - 2) * v[2]))
    <3>1. 3 \in 1 .. n /\ 3 - 1 = 2 /\ 1 - 2 = -1
      BY <1>0
    <3> QED BY <2>1, <2>2, <3>1 DEF BasisRunOf
  <2>m4. Cong(v[4], Inv(-2) * ((x - 3) * v[3]))
    <3>1. 4 \in 1 .. n /\ 4 - 1 = 3 /\ 1 - 3 = -2
      BY <1>0
    <3> QED BY <2>1, <2>2, <3>1 DEF BasisRunOf
  <2> DEFINE w0 == v[0]  w1 == v[1]  w2 == v[3]  w3 == v[4]
             k1 == Inv(1)  y1 == x - 0  k2 == Inv(-1)  y2 == x - 2  k3 == Inv(-2)  y3 == x - 3
  <2>4. /\ w0 \in Int /\ w1 \in Int /\ w2 \in Int /\ w3 \in Int
        /\ k1 \in Int /\ y1 \in Int /\ k2 \in Int /\ y2 \in Int /\ k3 \in Int /\ y3 \in Int
    BY <2>3, InvIs
  <2>5. /\ Cong(w0, 1)
        /\ Cong(w1, k1 * (y1 * w0))
        /\ Cong(w2, k2 * (y2 * w1))
        /\ Cong(w3, k3 * (y3 * w2))
    BY <2>1, <2>2, <2>m1, <2>m2, <2>m3, <2>m4 DEF BasisRunOf
  <2>6. PolyEval(LagrangeBasis[4][1], x) \in Int /\ Cong(PolyEval(LagrangeBasis[4][1], x), w3)
    BY <1>0, <2>1, <2>2, <2>m1, <2>m2, <2>m3, <2>m4 DEF BasisRunOf
  <2> DEFINE e == k3 * (y3 * (k2 * (y2 * (k1 * y1))))
  <2> HIDE DEF w0, w1, w2, w3, k1, y1, k2, y2, k3, y3
  <2>7. e \in Int
    BY <2>4
  <2>8. Cong(w3, e)
    <3> DEFINE b == k2 * (y2 * (k1 * y1))
    <3>1. b \in Int
      BY <2>4
    <3>2. Cong(w2, b)
      BY <2>4, <2>5, TwoFactors
    <3> HIDE DEF b
    <3>3. Cong(w3, k3 * (y3 * b))
      BY <2>4, <2>5, <3>1, <3>2, Chain
    <3> QED BY <3>3 DEF b
  <2> HIDE DEF e
  <2>9. Cong(PolyEval(LagrangeBasis[4][1], x), e)
    BY <2>4, <2>6, <2>7, <2>8, CongTrans
  <2> QED BY <2>9 DEF e, k1, y1, k2, y2, k3, y3
<1>3. Cong(PolyEval(LagrangeBasis[4][2], x), Inv(-1) * ((x - 3) * (Inv(1) * ((x - 1) * (Inv(2) * (x - 0))))))
  <2> DEFINE j == 2
  <2>1. j \in 0 .. n - 1 /\ j = 2
    BY <1>0
  <2> HIDE DEF j
  <2>2. PICK v : BasisRunOf(v, n, j, x)
    BY <1>0, <2>1, BasisRunIs
  <2>3. v[0] \in Int /\ v[1] \in Int /\ v[2] \in Int /\ v[3] \in Int /\ v[4] \in Int
    BY <1>0, <2>2 DEF BasisRunOf
  <2>m1. Cong(v[1], Inv(2) * ((x - 0) * v[0]))
    <3>1. 1 \in 1 .. n /\ 1 - 1 = 0 /\ 2 - 0 = 2
      BY <1>0
    <3> QED BY <2>1, <2>2, <3>1 DEF BasisRunOf
  <2>m2. Cong(v[2], Inv(1) * ((x - 1) * v[1]))
    <3>1. 2 \in 1 .. n /\ 2 - 1 = 1 /\ 2 - 1 = 1
      BY <1>0
    <3> QED BY <2>1, <2>2, <3>1 DEF BasisRunOf
  <2>m3. v[3] = v[2]
    <3>1. 3 \in 1 .. n /\ 3 - 1 = 2 /\ 2 - 2 = 0
      BY <1>0
    <3> QED BY <2>1, <2>2, <3>1 DEF BasisRunOf
  <2>m4. Cong(v[4], Inv(-1) * ((x - 3) * v[3]))
    <3>1. 4 \in 1 .. n /\ 4 - 1 = 3 /\ 2 - 3 = -1
      BY <1>0
    <3> QED BY <2>1, <2>2, <3>1 DEF BasisRunOf
  <2> DEFINE w0 == v[0]  w1 == v[1]  w2 == v[2]  w3 == v[4]
             k1 == Inv(2)  y1 == x - 0  k2 == Inv(1)  y2 == x - 1  k3 == Inv(-1)  y3 == x - 3
  <2>4. /\ w0 \in Int /\ w1 \in Int /\ w2 \in Int /\ w3 \in Int
        /\ k1 \in Int /\ y1 \in Int /\ k2 \in Int /\ y2 \in Int /\ k3 \in Int /\ y3 \in Int
    BY <2>3, InvIs
  <2>5. /\ Cong(w0, 1)
        /\ Cong(w1, k1 * (y1 * w0))
        /\ Cong(w2, k2 * (y2 * w1))
        /\ Cong(w3, k3 * (y3 * w2))
    BY <2>1, <2>2, <2>m1, <2>m2, <2>m3, <2>m4 DEF BasisRunOf
  <2>6. PolyEval(LagrangeBasis[4][2], x) \in Int /\ Cong(PolyEval(LagrangeBasis[4][2], x), w3)
    BY <1>0, <2>1, <2>2, <2>m1, <2>m2, <2>m3, <2>m4 DEF BasisRunOf
  <2> DEFINE e == k3 * (y3 * (k2 * (y2 * (k1 * y1))))
  <2> HIDE DEF w0, w1, w2, w3, k1, y1, k2, y2, k3, y3
  <2>7. e \in Int
    BY <2>4
  <2>8. Cong(w3, e)
    <3> DEFINE b == k2 * (y2 * (k1 * y1))
    <3>1. b \in Int
      BY <2>4
    <3>2. Cong(w2, b)
      BY <2>4, <2>5, TwoFactors
    <3> HIDE DEF b
    <3>3. Cong(w3, k3 * (y3 * b))
      BY <2>4, <2>5, <3>1, <3>2, Chain
    <3> QED BY <3>3 DEF b
  <2> HIDE DEF e
  <2>9. Cong(PolyEval(LagrangeBasis[4][2], x), e)
    BY <2>4, <2>6, <2>7, <2>8, CongTrans
  <2> QED BY <2>9 DEF e, k1, y1, k2, y2, k3, y3
<1>4. Cong(PolyEval(LagrangeBasis[4][3], x), Inv(1) * ((x - 2) * (Inv(2) * ((x - 1) * (Inv(3) * (x - 0))))))
  <2> DEFINE j == 3
  <2>1. j \in 0 .. n - 1 /\ j = 3
    BY <1>0
  <2> HIDE DEF j
  <2>2. PICK v : BasisRunOf(v, n, j, x)
    BY <1>0, <2>1, BasisRunIs
  <2>3. v[0] \in Int /\ v[1] \in Int /\ v[2] \in Int /\ v[3] \in Int /\ v[4] \in Int
    BY <1>0, <2>2 DEF BasisRunOf
  <2>m1. Cong(v[1], Inv(3) * ((x - 0) * v[0]))
    <3>1. 1 \in 1 .. n /\ 1 - 1 = 0 /\ 3 - 0 = 3
      BY <1>0
    <3> QED BY <2>1, <2>2, <3>1 DEF BasisRunOf
  <2>m2. Cong(v[2], Inv(2) * ((x - 1) * v[1]))
    <3>1. 2 \in 1 .. n /\ 2 - 1 = 1 /\ 3 - 1 = 2
      BY <1>0
    <3> QED BY <2>1, <2>2, <3>1 DEF BasisRunOf
  <2>m3. Cong(v[3], Inv(1) * ((x - 2) * v[2]))
    <3>1. 3 \in 1 .. n /\ 3 - 1 = 2 /\ 3 - 2 = 1
      BY <1>0
    <3> QED BY <2>1, <2>2, <3>1 DEF BasisRunOf
  <2>m4. v[4] = v[3]
    <3>1. 4 \in 1 .. n /\ 4 - 1 = 3 /\ 3 - 3 = 0
      BY <1>0
    <3> QED BY <2>1, <2>2, <3>1 DEF BasisRunOf
  <2> DEFINE w0 == v[0]  w1 == v[1]  w2 == v[2]  w3 == v[3]
             k1 == Inv(3)  y1 == x - 0  k2 == Inv(2)  y2 == x - 1  k3 == Inv(1)  y3 == x - 2
  <2>4. /\ w0 \in Int /\ w1 \in Int /\ w2 \in Int /\ w3 \in Int
        /\ k1 \in Int /\ y1 \in Int /\ k2 \in Int /\ y2 \in Int /\ k3 \in Int /\ y3 \in Int
    BY <2>3, InvIs
  <2>5. /\ Cong(w0, 1)
        /\ Cong(w1, k1 * (y1 * w0))
        /\ Cong(w2, k2 * (y2 * w1))
        /\ Cong(w3, k3 * (y3 * w2))
    BY <2>1, <2>2, <2>m1, <2>m2, <2>m3, <2>m4 DEF BasisRunOf
  <2>6. PolyEval(LagrangeBasis[4][3], x) \in Int /\ Cong(PolyEval(LagrangeBasis[4][3], x), w3)
    BY <1>0, <2>1, <2>2, <2>m1, <2>m2, <2>m3, <2>m4 DEF BasisRunOf
  <2> DEFINE e == k3 * (y3 * (k2 * (y2 * (k1 * y1))))
  <2> HIDE DEF w0, w1, w2, w3, k1, y1, k2, y2, k3, y3
  <2>7. e \in Int
    BY <2>4
  <2>8. Cong(w3, e)
    <3> DEFINE b == k2 * (y2 * (k1 * y1))
    <3>1. b \in Int
      BY <2>4
    <3>2. Cong(w2, b)
      BY <2>4, <2>5, TwoFactors
    <3> HIDE DEF b
    <3>3. Cong(w3, k3 * (y3 * b))
      BY <2>4, <2>5, <3>1, <3>2, Chain
    <3> QED BY <3>3 DEF b
  <2> HIDE DEF e
  <2>9. Cong(PolyEval(LagrangeBasis[4][3], x), e)
    BY <2>4, <2>6, <2>7, <2>8, CongTrans
  <2> QED BY <2>9 DEF e, k1, y1, k2, y2, k3, y3
<1> QED
  BY <1>1, <1>2, <1>3, <1>4

\* A combination without the zeros at its end has the same values.
LEMMA TrimLength ==
  ASSUME NEW n \in Nat, NEW c
  PROVE  \E m \in 0 .. n : (m > 0 => c[m] # 0) /\ \A j \in m + 1 .. n : c[j] = 0
<1> DEFINE Ends(k, m) == (m > 0 => c[m] # 0) /\ \A j \in m + 1 .. k : c[j] = 0
           T == {k \in Nat : \E m \in 0 .. k : Ends(k, m)}
<1>1. 0 \in T
  OBVIOUS
<1>2. ASSUME NEW k \in Nat, k \in T PROVE k + 1 \in T
  <2>1. PICK m \in 0 .. k : Ends(k, m)
    BY <1>2
  <2>2. CASE c[k + 1] = 0
    <3>1. Ends(k + 1, m) /\ m \in 0 .. k + 1
      BY <2>1, <2>2
    <3> QED BY <3>1
  <2>3. CASE c[k + 1] # 0
    <3>1. Ends(k + 1, k + 1) /\ k + 1 \in 0 .. k + 1
      BY <2>3
    <3> QED BY <3>1
  <2> QED BY <2>2, <2>3
<1>3. n \in T
  <2> HIDE DEF T
  <2> QED BY <1>1, <1>2, SetInduction
<1> QED
  BY <1>3

LEMMA TrimIs ==
  ASSUME NEW n \in Nat, NEW c \in List(Fp, n)
  PROVE  Trim(c) \in Seq(Fp) /\ \A x \in Int : PolyEval(Trim(c), x) = PolyEval(c, x)
<1> DEFINE Ends(m) == (m > 0 => c[m] # 0) /\ \A j \in m + 1 .. n : c[j] = 0
           m == CHOOSE k \in 0 .. n : Ends(k)
           t == SubSeq(c, 1, m)
<1>1. Len(c) = n
  BY DEF List
<1>2. Trim(c) = t
  BY <1>1 DEF Trim
<1>3. m \in 0 .. n /\ Ends(m)
  <2>1. \E k \in 0 .. n : Ends(k)
    BY TrimLength
  <2> HIDE DEF Ends
  <2> QED BY <2>1
<1> HIDE DEF m
<1>4. c \in List(Int, n)
  BY ListInt
<1>5. t \in Seq(Fp) /\ t \in List(Fp, m) /\ \A j \in 1 .. m : t[j] = c[j]
  <2>1. /\ t \in Seq(Fp) /\ Len(t) = m /\ \A j \in 1 .. m : t[j] = c[j]
    <3>1. \A j \in 1 .. m : c[j] \in Fp
      BY <1>3 DEF List
    <3>2. /\ t \in Seq(Fp) /\ Len(t) = (IF 1 <= m THEN m - 1 + 1 ELSE 0)
          /\ \A j \in 1 .. m - 1 + 1 : t[j] = c[1 + j - 1]
      BY <1>3, <3>1, SubSeqProperties
    <3>3. m - 1 + 1 = m /\ (IF 1 <= m THEN m - 1 + 1 ELSE 0) = m
      BY <1>3
    <3>4. \A j \in 1 .. m : 1 + j - 1 = j
      BY <1>3
    <3> QED BY <3>2, <3>3, <3>4
  <2> HIDE DEF t
  <2>2. t \in [1 .. m -> Fp]
    BY <2>1
  <2> QED BY <2>1, <2>2 DEF List
<1> HIDE DEF t
<1>6. ASSUME NEW x \in Int PROVE PolyEval(t, x) = PolyEval(c, x)
  <2>1. t \in List(Int, m)
    BY <1>5, ListInt
  <2>2. \A j \in m + 1 .. n : c[j] = 0
    BY <1>3
  <2> QED BY <1>3, <1>4, <1>5, <2>1, <2>2, PolyPadded
<1> QED
  BY <1>2, <1>5, <1>6

\* The interpolation is a combination of the basis polynomials.
LEMMA LagrangeIs ==
  ASSUME NEW n \in 1 .. 4, NEW e \in List(Int, n)
  PROVE  /\ LagrangeInterpolated(e) \in Seq(Fp)
         /\ \A x \in Int :
              Cong(PolyEval(LagrangeInterpolated(e), x),
                   SumSeq([j \in 1 .. n |-> e[j] * PolyEval(LagrangeBasis[n][j - 1], x)]))
<1> DEFINE d(j) == LagrangeBasis[n][j - 1]
           Col(k) == <<>> \o [j \in 1 .. n |-> (e[j] * d(j)[k]) % P]
           s == <<>> \o [k \in 1 .. n |-> SumSeq(Col(k))]
<1>0. n \in Nat /\ Len(e) = n
  BY DEF List
<1>1. LagrangeInterpolated(e) = Trim(s)
  BY <1>0 DEF LagrangeInterpolated, Collect
<1>2. \A j \in 1 .. n : d(j) \in List(Fp, n)
  <2>1. \A j \in 1 .. n : j - 1 \in 0 .. n - 1
    OBVIOUS
  <2> QED BY <2>1, BasisValues
<1>3. \A j \in 1 .. n : d(j) \in List(Int, n) /\ e[j] \in Int
  <2>1. \A j \in 1 .. n : e[j] \in Int
    BY DEF List
  <2> QED BY <1>2, <2>1, ListInt
<1> HIDE DEF d
<1>4. ASSUME NEW k \in 1 .. n
      PROVE  /\ Col(k) \in List(Int, n) /\ SumSeq(Col(k)) \in Fp
             /\ \A j \in 1 .. n : Cong(Col(k)[j], e[j] * d(j)[k])
  <2> DEFINE f == [j \in 1 .. n |-> (e[j] * d(j)[k]) % P]
  <2>1. ASSUME NEW j \in 1 .. n
        PROVE  /\ (e[j] * d(j)[k]) % P \in Int /\ Cong((e[j] * d(j)[k]) % P, e[j] * d(j)[k])
    <3>1. d(j)[k] \in Int
      BY <1>3 DEF List
    <3>2. e[j] * d(j)[k] \in Int
      BY <1>3, <3>1
    <3> DEFINE a == e[j] * d(j)[k]
    <3>3. a \in Int
      BY <3>2
    <3> HIDE DEF a
    <3>4. a % P \in Int /\ Cong(a % P, a)
      BY <3>3, ModInFp, FpIsInt, CongOfMod
    <3> QED BY <3>4 DEF a
  <2>2. f \in [1 .. n -> Int] /\ \A j \in 1 .. n : f[j] = (e[j] * d(j)[k]) % P
    BY <2>1
  <2> HIDE DEF f
  <2>3. <<>> \o f = f
    BY <1>0, <2>2, CollectIs
  <2>4. Col(k) = f
    BY <2>3 DEF f
  <2>5. f \in List(Int, n)
    BY <2>2 DEF List
  <2>6. SumSeq(f) \in Fp
    BY <1>0, <2>5, SumInFp
  <2> QED BY <2>1, <2>2, <2>4, <2>5, <2>6
<1> HIDE DEF Col
<1>5. s \in List(Fp, n) /\ \A k \in 1 .. n : s[k] = SumSeq(Col(k))
  <2> DEFINE f == [k \in 1 .. n |-> SumSeq(Col(k))]
  <2>1. f \in [1 .. n -> Fp] /\ \A k \in 1 .. n : f[k] = SumSeq(Col(k))
    BY <1>4
  <2> HIDE DEF f
  <2>2. <<>> \o f = f
    BY <1>0, <2>1, CollectIs
  <2> QED BY <2>1, <2>2 DEF List, f
<1> HIDE DEF s
<1>6. Trim(s) \in Seq(Fp) /\ \A x \in Int : PolyEval(Trim(s), x) = PolyEval(s, x)
  BY <1>0, <1>5, TrimIs
<1>7. ASSUME NEW x \in Int
      PROVE  Cong(PolyEval(s, x), SumSeq([j \in 1 .. n |-> e[j] * PolyEval(d(j), x)]))
  <2> DEFINE w == [j \in 1 .. n |-> e[j] * PolyEval(d(j), x)]
             Q(m) == [k \in 1 .. n |-> SumSeq(Prefix(Col(k), m))]
             V(m) == PolyEval(Q(m), x)
             S(m) == SumSeq(Prefix(w, m))
             T == {m \in Nat : m <= n => Cong(V(m), S(m))}
  <2>1. w \in List(Int, n) /\ \A j \in 1 .. n : w[j] = e[j] * PolyEval(d(j), x)
                                                /\ PolyEval(d(j), x) \in Int
    <3>1. \A j \in 1 .. n : PolyEval(d(j), x) \in Int
      BY <1>0, <1>3, PolyInFp
    <3> QED BY <1>3, <3>1 DEF List
  <2> HIDE DEF w
  <2>2. ASSUME NEW m \in 0 .. n
        PROVE  /\ Q(m) \in List(Int, n) /\ V(m) \in Int /\ S(m) \in Int
               /\ \A k \in 1 .. n : Q(m)[k] = SumSeq(Prefix(Col(k), m))
    <3>0. m \in Nat
      OBVIOUS
    <3>1. \A k \in 1 .. n : SumSeq(Prefix(Col(k), m)) \in Int
      <4> TAKE k \in 1 .. n
      <4>1. Prefix(Col(k), m) \in List(Int, m)
        BY <1>0, <1>4, PrefixIs
      <4> QED BY <3>0, <4>1, SumInFp
    <3>2. Q(m) \in List(Int, n) /\ \A k \in 1 .. n : Q(m)[k] = SumSeq(Prefix(Col(k), m))
      BY <3>1 DEF List
    <3>3. Prefix(w, m) \in List(Int, m)
      BY <1>0, <2>1, PrefixIs
    <3>4. S(m) \in Int
      BY <3>0, <3>3, SumInFp
    <3> HIDE DEF Q
    <3>5. V(m) \in Int
      BY <1>0, <3>2, PolyInFp
    <3> QED BY <3>2, <3>4, <3>5
  <2>3. 0 \in T
    <3> DEFINE z == 0  q == Q(z)
    <3>1. z \in 0 .. n /\ z \in Int
      OBVIOUS
    <3>2. q \in List(Int, n) /\ V(z) = PolyEval(q, x) /\ PolyEval(q, x) \in Int
      BY <2>2, <3>1
    <3>3. \A k \in 1 .. n : q[k] = 0
      <4> TAKE k \in 1 .. n
      <4>1. q[k] = SumSeq(Prefix(Col(k), z))
        BY <2>2, <3>1
      <4> HIDE DEF q
      <4> QED BY <4>1, SumOfNone
    <3>4. S(z) = 0
      BY SumOfNone
    <3> HIDE DEF q
    <3>5. \A k \in 1 .. n : Cong(q[k], z * q[k])
      BY <3>3, CongRefl
    <3> HIDE DEF z, Q, V, S
    <3>6. Cong(PolyEval(q, x), z * PolyEval(q, x))
      BY <1>0, <3>1, <3>2, <3>5, PolyScaled
    <3>7. z * PolyEval(q, x) = 0
      BY <3>2 DEF z
    <3>8. Cong(V(z), S(z))
      BY <3>2, <3>4, <3>6, <3>7
    <3> QED BY <3>8 DEF z
  <2>4. ASSUME NEW m \in Nat, m \in T PROVE m + 1 \in T
    <3> SUFFICES ASSUME m + 1 <= n PROVE Cong(V(m + 1), S(m + 1))
      OBVIOUS
    <3> DEFINE l == m + 1  a == Q(l)  b == Q(m)  c == d(l)  r == e[l]
    <3>1. l \in 1 .. n /\ m \in 0 .. n /\ l \in 0 .. n
      OBVIOUS
    <3>2. /\ a \in List(Int, n) /\ b \in List(Int, n) /\ c \in List(Int, n) /\ r \in Int
          /\ V(l) = PolyEval(a, x) /\ V(m) = PolyEval(b, x)
          /\ \A k \in 1 .. n : a[k] = SumSeq(Prefix(Col(k), l)) /\ b[k] = SumSeq(Prefix(Col(k), m))
      <4>1. a \in List(Int, n) /\ \A k \in 1 .. n : a[k] = SumSeq(Prefix(Col(k), l))
        BY <2>2, <3>1
      <4>2. b \in List(Int, n) /\ \A k \in 1 .. n : b[k] = SumSeq(Prefix(Col(k), m))
        BY <2>2, <3>1
      <4>3. c \in List(Int, n) /\ r \in Int
        BY <1>3, <3>1
      <4>4. V(l) = PolyEval(a, x) /\ V(m) = PolyEval(b, x)
        OBVIOUS
      <4> HIDE DEF a, b
      <4> QED BY <4>1, <4>2, <4>3, <4>4
    <3>3. V(l) \in Int /\ V(m) \in Int /\ S(l) \in Int /\ S(m) \in Int
      BY <2>2, <3>1
    <3>4. Cong(V(m), S(m))
      BY <2>4
    <3> HIDE DEF a, b
    <3>5. \A k \in 1 .. n : Cong(a[k], b[k] + r * c[k])
      <4> TAKE k \in 1 .. n
      <4> DEFINE A == SumSeq(Prefix(Col(k), l))  B == SumSeq(Prefix(Col(k), m))  C == Col(k)[l]
      <4>1. Cong(A, B + C)
        BY <1>0, <1>4, SumSnoc
      <4>2. A \in Int /\ B \in Int /\ C \in Int /\ a[k] = A /\ b[k] = B
        <5>1. a[k] \in Int /\ b[k] \in Int
          BY <3>2 DEF List
        <5>2. C \in Int
          BY <1>4, <3>1 DEF List
        <5> QED BY <3>2, <5>1, <5>2
      <4>3. Cong(C, r * c[k]) /\ c[k] \in Int
        <5>1. c[k] \in Int
          BY <3>2 DEF List
        <5> QED BY <1>4, <3>1, <5>1
      <4> HIDE DEF A, B, C
      <4>4. PICK i1 \in Int : A = B + C + i1 * P
        BY <4>1 DEF Cong
      <4>5. PICK i2 \in Int : C = r * c[k] + i2 * P
        BY <4>3 DEF Cong
      <4> DEFINE y == r * c[k]
      <4>6. y \in Int
        BY <3>2, <4>3
      <4>7. C = y + i2 * P
        BY <4>5
      <4> HIDE DEF y
      <4>8. A = B + y + (i1 + i2) * P
        BY <4>2, <4>4, <4>6, <4>7, PAssumption
      <4>9. Cong(A, B + y)
        BY <4>8 DEF Cong
      <4> QED BY <4>2, <4>9 DEF y
    <3>6. w[l] \in Int /\ w[l] = r * PolyEval(c, x) /\ PolyEval(c, x) \in Int
      BY <2>1, <3>1 DEF List
    <3>7. Cong(S(l), S(m) + w[l])
      BY <1>0, <2>1, SumSnoc
    <3> HIDE DEF r, c, V, S, Q
    <3>8. Cong(PolyEval(a, x), PolyEval(b, x) + r * PolyEval(c, x))
      BY <1>0, <3>2, <3>5, PolyLinear
    <3> DEFINE y == r * PolyEval(c, x)  A == V(l)  B == V(m)  C == S(l)  D == S(m)
    <3>9. y \in Int /\ Cong(A, B + y) /\ Cong(C, D + y) /\ Cong(B, D)
      BY <3>2, <3>4, <3>6, <3>7, <3>8
    <3>10. A \in Int /\ B \in Int /\ C \in Int /\ D \in Int
      BY <3>3
    <3> HIDE DEF y, A, B, C, D
    <3>11. PICK i1 \in Int : A = B + y + i1 * P
      BY <3>9 DEF Cong
    <3>12. PICK i2 \in Int : C = D + y + i2 * P
      BY <3>9 DEF Cong
    <3>13. PICK i3 \in Int : B = D + i3 * P
      BY <3>9 DEF Cong
    <3>14. A = C + (i1 + i3 - i2) * P
      BY <3>9, <3>10, <3>11, <3>12, <3>13, PAssumption
    <3>15. Cong(A, C)
      BY <3>14 DEF Cong
    <3> QED BY <3>15 DEF A, C, l
  <2>5. n \in T
    <3> HIDE DEF T
    <3> QED BY <1>0, <2>3, <2>4, SetInduction
  <2>6. Cong(V(n), S(n))
    <3> HIDE DEF V, S
    <3> QED BY <2>5
  <2>7. V(n) = PolyEval(s, x)
    <3>1. Q(n) = s
      <4>1. \A k \in 1 .. n : SumSeq(Prefix(Col(k), n)) = s[k]
        BY <1>0, <1>4, <1>5, PrefixIs
      <4> QED BY <1>5, <4>1 DEF List
    <3> HIDE DEF Q
    <3> QED BY <3>1
  <2>8. S(n) = SumSeq(w)
    BY <1>0, <2>1, PrefixIs
  <2> QED BY <2>6, <2>7, <2>8 DEF w
<1> QED
  BY <1>1, <1>6, <1>7 DEF d

LEMMA SumOfThree ==
  ASSUME NEW a \in List(Int, 3) PROVE Cong(SumSeq(a), a[1] + a[2] + a[3])
<1> DEFINE n == 3  A(k) == SumSeq(Prefix(a, k))
<1>1. n \in Nat /\ n = 3 /\ a \in List(Int, n)
  OBVIOUS
<1>2. a[1] \in Int /\ a[2] \in Int /\ a[3] \in Int
  BY DEF List
<1> HIDE DEF n
<1>3. \A k \in 0 .. n : A(k) \in Int
  <2> TAKE k \in 0 .. n
  <2>1. k \in Nat /\ Prefix(a, k) \in List(Int, k)
    BY <1>1, PrefixIs
  <2> QED BY <2>1, SumInFp
<1>4. \A k \in 1 .. n : Cong(A(k), A(k - 1) + a[k])
  <2> TAKE k \in 1 .. n
  <2> DEFINE m == k - 1
  <2>1. m \in Nat /\ m + 1 <= n /\ m + 1 = k
    BY <1>1
  <2> HIDE DEF m
  <2>2. Cong(A(m + 1), A(m) + a[m + 1])
    BY <1>1, <2>1, SumSnoc
  <2> QED BY <2>1, <2>2 DEF m
<1>5. A(0) = 0 /\ A(n) = SumSeq(a)
  BY <1>1, SumOfNone, PrefixIs
<1> HIDE DEF A
<1>6. /\ A(0) = 0 /\ A(1) \in Int /\ A(2) \in Int /\ A(3) \in Int
  BY <1>1, <1>3, <1>5
<1>7. /\ Cong(A(1), A(0) + a[1]) /\ Cong(A(2), A(1) + a[2]) /\ Cong(A(3), A(2) + a[3])
  <2>1. 1 \in 1 .. n /\ 2 \in 1 .. n /\ 3 \in 1 .. n /\ 1 - 1 = 0 /\ 2 - 1 = 1 /\ 3 - 1 = 2
    BY <1>1
  <2> QED BY <1>4, <2>1
<1>8. PICK i1 \in Int : A(1) = A(0) + a[1] + i1 * P
  BY <1>7 DEF Cong
<1>9. PICK i2 \in Int : A(2) = A(1) + a[2] + i2 * P
  BY <1>7 DEF Cong
<1>10. PICK i3 \in Int : A(3) = A(2) + a[3] + i3 * P
  BY <1>7 DEF Cong
<1>11. A(3) = a[1] + a[2] + a[3] + (i1 + i2 + i3) * P
  BY <1>2, <1>6, <1>8, <1>9, <1>10, PAssumption
<1>12. Cong(A(3), a[1] + a[2] + a[3])
  BY <1>11 DEF Cong
<1> QED
  BY <1>1, <1>5, <1>12

LEMMA SumOfFour ==
  ASSUME NEW a \in List(Int, 4) PROVE Cong(SumSeq(a), a[1] + a[2] + a[3] + a[4])
<1> DEFINE n == 4  k == 3  b == Prefix(a, k)
<1>1. n \in Nat /\ k \in Nat /\ k + 1 <= n /\ k + 1 = n /\ a \in List(Int, n) /\ k \in 0 .. n
  OBVIOUS
<1>2. a[1] \in Int /\ a[2] \in Int /\ a[3] \in Int /\ a[4] \in Int
  BY DEF List
<1>3. b[1] = a[1] /\ b[2] = a[2] /\ b[3] = a[3]
  BY DEF Prefix
<1> HIDE DEF n, k
<1>4. b \in List(Int, k) /\ Cong(SumSeq(Prefix(a, k + 1)), SumSeq(b) + a[k + 1]) /\ Prefix(a, n) = a
  BY <1>1, PrefixIs, SumSnoc
<1> HIDE DEF b
<1>5. b \in List(Int, 3) /\ Cong(SumSeq(a), SumSeq(b) + a[4])
  BY <1>1, <1>4 DEF n, k
<1>6. Cong(SumSeq(b), a[1] + a[2] + a[3])
  BY <1>3, <1>5, SumOfThree
<1> DEFINE A == SumSeq(a)  B == SumSeq(b)
<1>7. A \in Int /\ B \in Int
  BY <1>1, <1>4, SumInFp
<1>8. Cong(A, B + a[4]) /\ Cong(B, a[1] + a[2] + a[3])
  BY <1>5, <1>6
<1> HIDE DEF A, B
<1>9. PICK i \in Int : A = B + a[4] + i * P
  BY <1>8 DEF Cong
<1>10. PICK j \in Int : B = a[1] + a[2] + a[3] + j * P
  BY <1>8 DEF Cong
<1>11. A = a[1] + a[2] + a[3] + a[4] + (i + j) * P
  BY <1>2, <1>7, <1>9, <1>10, PAssumption
<1> QED
  BY <1>11 DEF Cong, A

\* The interpolation of a polynomial's values is the polynomial.
LEMMA InterpolatedThree ==
  ASSUME NEW e \in List(Int, 3), NEW x \in Int,
         NEW q0 \in Int, NEW q1 \in Int, NEW q2 \in Int,
         Cong(e[1], q0), Cong(e[2], q0 + q1 + q2), Cong(e[3], q0 + 2 * q1 + 4 * q2)
  PROVE  Cong(PolyEval(LagrangeInterpolated(e), x), q0 + x * (q1 + x * q2))
<1> DEFINE B(j) == PolyEval(LagrangeBasis[3][j], x)
           w == [j \in 1 .. 3 |-> e[j] * PolyEval(LagrangeBasis[3][j - 1], x)]
           n == 3  l == PolyEval(LagrangeInterpolated(e), x)
           e1 == e[1]  e2 == e[2]  e3 == e[3]
           h == Half
           L0 == Inv(-2) * ((x - 2) * (Inv(-1) * (x - 1)))
           L1 == Inv(-1) * ((x - 2) * (Inv(1) * (x - 0)))
           L2 == Inv(1) * ((x - 1) * (Inv(2) * (x - 0)))
           v1 == q0 + q1 + q2  v2 == q0 + 2 * q1 + 4 * q2
           g == q0 + x * (q1 + x * q2)
<1>1. n \in 1 .. 4 /\ n = 3 /\ n \in Nat
  OBVIOUS
<1>2. B(0) \in Int /\ B(1) \in Int /\ B(2) \in Int
  <2> HIDE DEF n
  <2>1. \A j \in 0 .. n - 1 : LagrangeBasis[n][j] \in List(Int, n)
    BY <1>1, BasisValues, ListInt
  <2>2. \A j \in 0 .. n - 1 : PolyEval(LagrangeBasis[n][j], x) \in Int
    BY <1>1, <2>1, PolyInFp
  <2> QED BY <1>1, <2>2
<1>3. e1 \in Int /\ e2 \in Int /\ e3 \in Int
  BY DEF List
<1>4. h \in Int /\ Cong(2 * h, 1)
  BY HalfThird
<1>5. Cong(B(0), L0) /\ Cong(B(1), L1) /\ Cong(B(2), L2)
  BY BasisOfThree
<1>6. w \in List(Int, 3) /\ w[1] = e1 * B(0) /\ w[2] = e2 * B(1) /\ w[3] = e3 * B(2)
  <2>1. w[1] = e1 * B(0) /\ w[2] = e2 * B(1) /\ w[3] = e3 * B(2)
    OBVIOUS
  <2> HIDE DEF B, e1, e2, e3
  <2>2. w[1] \in Int /\ w[2] \in Int /\ w[3] \in Int
    BY <1>2, <1>3, <2>1
  <2>3. \A j \in 1 .. 3 : w[j] \in Int
    <3> HIDE DEF w
    <3> QED BY <2>2
  <2> QED BY <2>1, <2>3 DEF List
<1>7. Cong(l, SumSeq(w)) /\ l \in Int
  <2>1. /\ LagrangeInterpolated(e) \in Seq(Fp)
        /\ Cong(l, SumSeq([j \in 1 .. n |-> e[j] * PolyEval(LagrangeBasis[n][j - 1], x)]))
    <3> HIDE DEF n
    <3>1. e \in List(Int, n)
      BY <1>1
    <3> QED BY <1>1, <3>1, LagrangeIs
  <2> DEFINE k == Len(LagrangeInterpolated(e))  c == LagrangeInterpolated(e)
  <2>2. k \in Nat /\ c \in List(Fp, k)
    <3>1. \A s \in Seq(Fp) : Len(s) \in Nat /\ s \in List(Fp, Len(s))
      BY LenProperties DEF List
    <3> HIDE DEF c
    <3> QED BY <2>1, <3>1 DEF c
  <2> HIDE DEF k
  <2>3. PolyEval(c, x) \in Int
    BY <2>2, ListInt, PolyInFp
  <2> QED BY <2>1, <2>3
<1>8. Cong(SumSeq(w), w[1] + w[2] + w[3]) /\ SumSeq(w) \in Int
  <2>1. w \in List(Int, n)
    BY <1>6
  <2> HIDE DEF w
  <2> QED BY <1>1, <1>6, <2>1, SumOfThree, SumInFp
<1>9. L0 = h * ((x - 2) * (x - 1)) /\ L1 = 0 - (x - 2) * x /\ L2 = h * ((x - 1) * x)
  <2>1. Inv(-2) = -h /\ Inv(-1) = -1 /\ Inv(1) = 1 /\ Inv(2) = h
    BY DEF Inv
  <2>2. /\ L0 = (-h) * ((x - 2) * ((-1) * (x - 1)))
        /\ L1 = (-1) * ((x - 2) * (1 * (x - 0)))
        /\ L2 = 1 * ((x - 1) * (h * (x - 0)))
    BY <2>1
  <2> HIDE DEF h, L0, L1, L2
  <2>3. (-h) * ((x - 2) * ((-1) * (x - 1))) = h * ((x - 2) * (x - 1))
    BY <1>4
  <2>4. (-1) * ((x - 2) * (1 * (x - 0))) = 0 - (x - 2) * x
    OBVIOUS
  <2>5. 1 * ((x - 1) * (h * (x - 0))) = h * ((x - 1) * x)
    BY <1>4
  <2> QED BY <2>2, <2>3, <2>4, <2>5
<1>10. v1 \in Int /\ v2 \in Int /\ L0 \in Int /\ L1 \in Int /\ L2 \in Int /\ g \in Int
  <2>1. v1 \in Int /\ v2 \in Int /\ g \in Int
    OBVIOUS
  <2> HIDE DEF L0, L1, L2, h
  <2> QED BY <1>4, <1>9, <2>1
<1>11. Cong(e1, q0) /\ Cong(e2, v1) /\ Cong(e3, v2)
  OBVIOUS
<1> HIDE DEF w, B, l, e1, e2, e3, L0, L1, L2, v1, v2, g, h
<1>12. Cong(e1 * B(0), q0 * L0) /\ Cong(e2 * B(1), v1 * L1) /\ Cong(e3 * B(2), v2 * L2)
  BY <1>2, <1>3, <1>5, <1>10, <1>11, CongMul
<1>13. q0 * L0 + v1 * L1 + v2 * L2 = g + (2 * h - 1) * ((x - 1) * (q0 * (x - 1) + x * q1 + 2 * x * q2))
  BY <1>4, <1>9 DEF v1, v2, g
<1> DEFINE K == (x - 1) * (q0 * (x - 1) + x * q1 + 2 * x * q2)
           a1 == e1 * B(0)  a2 == e2 * B(1)  a3 == e3 * B(2)
           b1 == q0 * L0  b2 == v1 * L1  b3 == v2 * L2  s == SumSeq(w)
<1>14. K \in Int
  OBVIOUS
<1>15. /\ a1 \in Int /\ a2 \in Int /\ a3 \in Int /\ b1 \in Int /\ b2 \in Int /\ b3 \in Int
  BY <1>2, <1>3, <1>10
<1>16. /\ Cong(l, s) /\ Cong(s, a1 + a2 + a3) /\ s \in Int /\ b1 + b2 + b3 = g + (2 * h - 1) * K
       /\ Cong(a1, b1) /\ Cong(a2, b2) /\ Cong(a3, b3)
  BY <1>6, <1>7, <1>8, <1>12, <1>13
<1> HIDE DEF K, a1, a2, a3, b1, b2, b3, s
<1>17. PICK i1 \in Int : l = s + i1 * P
  BY <1>16 DEF Cong
<1>18. PICK i2 \in Int : s = a1 + a2 + a3 + i2 * P
  BY <1>16 DEF Cong
<1>19. PICK i3 \in Int : a1 = b1 + i3 * P
  BY <1>16 DEF Cong
<1>20. PICK i4 \in Int : a2 = b2 + i4 * P
  BY <1>16 DEF Cong
<1>21. PICK i5 \in Int : a3 = b3 + i5 * P
  BY <1>16 DEF Cong
<1>22. PICK i6 \in Int : 2 * h = 1 + i6 * P
  BY <1>4 DEF Cong
<1>23. (2 * h - 1) * K = i6 * K * P
  <2>1. 2 * h - 1 = i6 * P
    BY <1>4, <1>22, PAssumption
  <2> QED BY <1>14, <2>1, PAssumption
<1> DEFINE y == i6 * K
<1>24. y \in Int /\ b1 + b2 + b3 = g + y * P
  BY <1>14, <1>16, <1>23
<1> HIDE DEF y
<1>25. l = g + (i1 + i2 + i3 + i4 + i5 + y) * P
  BY <1>7, <1>10, <1>15, <1>16, <1>17, <1>18, <1>19, <1>20, <1>21, <1>24, PAssumption
<1> QED
  BY <1>25, <1>24 DEF Cong, l, g

LEMMA InterpolatedFour ==
  ASSUME NEW e \in List(Int, 4), NEW x \in Int,
         NEW q0 \in Int, NEW q1 \in Int, NEW q2 \in Int, NEW q3 \in Int,
         Cong(e[1], q0), Cong(e[2], q0 + q1 + q2 + q3),
         Cong(e[3], q0 + 2 * q1 + 4 * q2 + 8 * q3), Cong(e[4], q0 + 3 * q1 + 9 * q2 + 27 * q3)
  PROVE  Cong(PolyEval(LagrangeInterpolated(e), x), q0 + x * (q1 + x * (q2 + x * q3)))
<1> DEFINE B(j) == PolyEval(LagrangeBasis[4][j], x)
           w == [j \in 1 .. 4 |-> e[j] * PolyEval(LagrangeBasis[4][j - 1], x)]
           n == 4  l == PolyEval(LagrangeInterpolated(e), x)
           e1 == e[1]  e2 == e[2]  e3 == e[3]  e4 == e[4]
           h == Half  t == Third
           L0 == Inv(-3) * ((x - 3) * (Inv(-2) * ((x - 2) * (Inv(-1) * (x - 1)))))
           L1 == Inv(-2) * ((x - 3) * (Inv(-1) * ((x - 2) * (Inv(1) * (x - 0)))))
           L2 == Inv(-1) * ((x - 3) * (Inv(1) * ((x - 1) * (Inv(2) * (x - 0)))))
           L3 == Inv(1) * ((x - 2) * (Inv(2) * ((x - 1) * (Inv(3) * (x - 0)))))
           v1 == q0 + q1 + q2 + q3
           v2 == q0 + 2 * q1 + 4 * q2 + 8 * q3
           v3 == q0 + 3 * q1 + 9 * q2 + 27 * q3
           g == q0 + x * (q1 + x * (q2 + x * q3))
<1>1. n \in 1 .. 4 /\ n = 4 /\ n \in Nat
  OBVIOUS
<1>2. B(0) \in Int /\ B(1) \in Int /\ B(2) \in Int /\ B(3) \in Int
  <2> HIDE DEF n
  <2>1. \A j \in 0 .. n - 1 : LagrangeBasis[n][j] \in List(Int, n)
    BY <1>1, BasisValues, ListInt
  <2>2. \A j \in 0 .. n - 1 : PolyEval(LagrangeBasis[n][j], x) \in Int
    BY <1>1, <2>1, PolyInFp
  <2> QED BY <1>1, <2>2
<1>3. e1 \in Int /\ e2 \in Int /\ e3 \in Int /\ e4 \in Int
  BY DEF List
<1>4. h \in Int /\ Cong(2 * h, 1) /\ t \in Int /\ Cong(3 * t, 1)
  BY HalfThird
<1>5. Cong(B(0), L0) /\ Cong(B(1), L1) /\ Cong(B(2), L2) /\ Cong(B(3), L3)
  BY BasisOfFour
<1>6. /\ w \in List(Int, 4) /\ w[1] = e1 * B(0) /\ w[2] = e2 * B(1) /\ w[3] = e3 * B(2)
      /\ w[4] = e4 * B(3)
  <2>1. w[1] = e1 * B(0) /\ w[2] = e2 * B(1) /\ w[3] = e3 * B(2) /\ w[4] = e4 * B(3)
    OBVIOUS
  <2> HIDE DEF B, e1, e2, e3, e4
  <2>2. w[1] \in Int /\ w[2] \in Int /\ w[3] \in Int /\ w[4] \in Int
    BY <1>2, <1>3, <2>1
  <2>3. \A j \in 1 .. 4 : w[j] \in Int
    <3> HIDE DEF w
    <3> QED BY <2>2
  <2> QED BY <2>1, <2>3 DEF List
<1>7. Cong(l, SumSeq(w)) /\ l \in Int
  <2>1. /\ LagrangeInterpolated(e) \in Seq(Fp)
        /\ Cong(l, SumSeq([j \in 1 .. n |-> e[j] * PolyEval(LagrangeBasis[n][j - 1], x)]))
    <3> HIDE DEF n
    <3>1. e \in List(Int, n)
      BY <1>1
    <3> QED BY <1>1, <3>1, LagrangeIs
  <2> DEFINE k == Len(LagrangeInterpolated(e))  c == LagrangeInterpolated(e)
  <2>2. k \in Nat /\ c \in List(Fp, k)
    <3>1. \A s \in Seq(Fp) : Len(s) \in Nat /\ s \in List(Fp, Len(s))
      BY LenProperties DEF List
    <3> HIDE DEF c
    <3> QED BY <2>1, <3>1 DEF c
  <2> HIDE DEF k
  <2>3. PolyEval(c, x) \in Int
    BY <2>2, ListInt, PolyInFp
  <2> QED BY <2>1, <2>3
<1>8. Cong(SumSeq(w), w[1] + w[2] + w[3] + w[4]) /\ SumSeq(w) \in Int
  <2>1. w \in List(Int, n)
    BY <1>6
  <2> HIDE DEF w
  <2> QED BY <1>1, <1>6, <2>1, SumOfFour, SumInFp
<1> DEFINE C0 == (x - 1) * ((x - 2) * (x - 3))  C1 == x * ((x - 2) * (x - 3))
           C2 == x * ((x - 1) * (x - 3))  C3 == x * ((x - 1) * (x - 2))
<1>0. C0 \in Int /\ C1 \in Int /\ C2 \in Int /\ C3 \in Int
  OBVIOUS
<1>9. L0 = 0 - h * (t * C0) /\ L1 = h * C1 /\ L2 = 0 - h * C2 /\ L3 = h * (t * C3)
  <2>1. Inv(-3) = -t /\ Inv(-2) = -h /\ Inv(-1) = -1 /\ Inv(1) = 1 /\ Inv(2) = h /\ Inv(3) = t
    BY DEF Inv
  <2>2. /\ L0 = (-t) * ((x - 3) * ((-h) * ((x - 2) * ((-1) * (x - 1)))))
        /\ L1 = (-h) * ((x - 3) * ((-1) * ((x - 2) * (1 * (x - 0)))))
        /\ L2 = (-1) * ((x - 3) * (1 * ((x - 1) * (h * (x - 0)))))
        /\ L3 = 1 * ((x - 2) * (h * ((x - 1) * (t * (x - 0)))))
    BY <2>1
  <2> HIDE DEF h, t, L0, L1, L2, L3
  <2>3. (-t) * ((x - 3) * ((-h) * ((x - 2) * ((-1) * (x - 1))))) = 0 - h * (t * C0)
    BY <1>4
  <2>4. (-h) * ((x - 3) * ((-1) * ((x - 2) * (1 * (x - 0))))) = h * C1
    BY <1>4
  <2>5. (-1) * ((x - 3) * (1 * ((x - 1) * (h * (x - 0))))) = 0 - h * C2
    BY <1>4
  <2>6. 1 * ((x - 2) * (h * ((x - 1) * (t * (x - 0))))) = h * (t * C3)
    BY <1>4
  <2> QED BY <2>2, <2>3, <2>4, <2>5, <2>6
<1>10. /\ v1 \in Int /\ v2 \in Int /\ v3 \in Int /\ g \in Int
       /\ L0 \in Int /\ L1 \in Int /\ L2 \in Int /\ L3 \in Int
  <2>1. v1 \in Int /\ v2 \in Int /\ v3 \in Int /\ g \in Int
    OBVIOUS
  <2> HIDE DEF L0, L1, L2, L3, h, t, C0, C1, C2, C3
  <2> QED BY <1>0, <1>4, <1>9, <2>1
<1>11. Cong(e1, q0) /\ Cong(e2, v1) /\ Cong(e3, v2) /\ Cong(e4, v3)
  OBVIOUS
<1> HIDE DEF w, B, l, e1, e2, e3, e4, L0, L1, L2, L3, v1, v2, v3, g, h, t
<1>12. /\ Cong(e1 * B(0), q0 * L0) /\ Cong(e2 * B(1), v1 * L1) /\ Cong(e3 * B(2), v2 * L2)
       /\ Cong(e4 * B(3), v3 * L3)
  BY <1>2, <1>3, <1>5, <1>10, <1>11, CongMul
<1> DEFINE K == q0 * ((x - 1) * (x - 2)) + (q1 + 3 * q2 + 9 * q3) * C3
           U == v3 * C3 - q0 * C0  V == v1 * C1 - v2 * C2
<1>13. U = 3 * K
  BY DEF v3
<1>14. K + V = 2 * g
  BY DEF v1, v2, g
<1>15. K \in Int /\ U \in Int /\ V \in Int
  <2> HIDE DEF C0, C1, C2, C3
  <2> QED BY <1>0, <1>10
<1>16. q0 * L0 + v1 * L1 + v2 * L2 + v3 * L3 = h * (t * U + V)
  <2>1. q0 * L0 = 0 - h * (t * (q0 * C0))
    <3> HIDE DEF C0, C1, C2, C3
    <3> QED BY <1>0, <1>4, <1>9
  <2>2. v1 * L1 = h * (v1 * C1)
    <3> HIDE DEF C0, C1, C2, C3
    <3> QED BY <1>0, <1>4, <1>9, <1>10
  <2>3. v2 * L2 = 0 - h * (v2 * C2)
    <3> HIDE DEF C0, C1, C2, C3
    <3> QED BY <1>0, <1>4, <1>9, <1>10
  <2>4. v3 * L3 = h * (t * (v3 * C3))
    <3> HIDE DEF C0, C1, C2, C3
    <3> QED BY <1>0, <1>4, <1>9, <1>10
  <2> DEFINE p0 == q0 * C0  p1 == v1 * C1  p2 == v2 * C2  p3 == v3 * C3
  <2>5. p0 \in Int /\ p1 \in Int /\ p2 \in Int /\ p3 \in Int
    <3> HIDE DEF C0, C1, C2, C3
    <3> QED BY <1>0, <1>10
  <2>6. U = p3 - p0 /\ V = p1 - p2
    OBVIOUS
  <2> HIDE DEF p0, p1, p2, p3, U, V
  <2>7. 0 - h * (t * p0) + h * p1 + (0 - h * p2) + h * (t * p3) = h * (t * U + V)
    BY <1>4, <2>5, <2>6
  <2> QED BY <2>1, <2>2, <2>3, <2>4, <2>7 DEF p0, p1, p2, p3
<1> DEFINE a1 == e1 * B(0)  a2 == e2 * B(1)  a3 == e3 * B(2)  a4 == e4 * B(3)
           b1 == q0 * L0  b2 == v1 * L1  b3 == v2 * L2  b4 == v3 * L3  s == SumSeq(w)
<1>17. /\ a1 \in Int /\ a2 \in Int /\ a3 \in Int /\ a4 \in Int
       /\ b1 \in Int /\ b2 \in Int /\ b3 \in Int /\ b4 \in Int
  BY <1>2, <1>3, <1>10
<1>18. /\ Cong(l, s) /\ Cong(s, a1 + a2 + a3 + a4) /\ s \in Int
       /\ b1 + b2 + b3 + b4 = h * (t * U + V)
       /\ Cong(a1, b1) /\ Cong(a2, b2) /\ Cong(a3, b3) /\ Cong(a4, b4)
  BY <1>6, <1>7, <1>8, <1>12, <1>16
<1> HIDE DEF K, U, V, a1, a2, a3, a4, b1, b2, b3, b4, s, C0, C1, C2, C3
<1>19. PICK i1 \in Int : l = s + i1 * P
  BY <1>18 DEF Cong
<1>20. PICK i2 \in Int : s = a1 + a2 + a3 + a4 + i2 * P
  BY <1>18 DEF Cong
<1>21. PICK i3 \in Int : a1 = b1 + i3 * P
  BY <1>18 DEF Cong
<1>22. PICK i4 \in Int : a2 = b2 + i4 * P
  BY <1>18 DEF Cong
<1>23. PICK i5 \in Int : a3 = b3 + i5 * P
  BY <1>18 DEF Cong
<1>24. PICK i6 \in Int : a4 = b4 + i6 * P
  BY <1>18 DEF Cong
<1>25. PICK i7 \in Int : 2 * h = 1 + i7 * P
  BY <1>4 DEF Cong
<1>26. PICK i8 \in Int : 3 * t = 1 + i8 * P
  BY <1>4 DEF Cong
<1>27. h * (t * U + V) = g + (i7 * g + h * (i8 * K)) * P
  <2>1. t * U = K + (i8 * K) * P
    <3>1. t * U = (3 * t) * K
      BY <1>4, <1>13, <1>15
    <3> QED BY <1>15, <1>26, <3>1, PAssumption
  <2> DEFINE z == i8 * K
  <2>2. z \in Int
    BY <1>15
  <2>3. t * U + V = 2 * g + z * P
    <3> DEFINE a == t * U
    <3>1. a = K + z * P
      BY <2>1
    <3> HIDE DEF a, z
    <3>2. a + V = 2 * g + z * P
      BY <1>10, <1>14, <1>15, <2>2, <3>1, PAssumption
    <3> QED BY <3>2 DEF a
  <2> HIDE DEF z
  <2>4. h * (2 * g + z * P) = (2 * h) * g + h * z * P
    BY <1>4, <1>10, <2>2, PAssumption
  <2>5. (2 * h) * g = g + i7 * g * P
    BY <1>4, <1>10, <1>25, PAssumption
  <2>6. h * (t * U + V) = g + (i7 * g + h * z) * P
    <3> DEFINE A == (2 * h) * g  D == i7 * g  E == h * z
    <3>1. A \in Int /\ D \in Int /\ E \in Int
      BY <1>4, <1>10, <2>2
    <3>2. h * (t * U + V) = A + E * P /\ A = g + D * P
      BY <2>3, <2>4, <2>5
    <3> HIDE DEF A, D, E
    <3>3. h * (t * U + V) = g + (D + E) * P
      BY <1>10, <3>1, <3>2, PAssumption
    <3> QED BY <3>3 DEF D, E
  <2> QED BY <2>6 DEF z
<1> DEFINE y == i7 * g + h * (i8 * K)
<1>28. y \in Int /\ b1 + b2 + b3 + b4 = g + y * P
  BY <1>4, <1>10, <1>15, <1>18, <1>27
<1> HIDE DEF y
<1>29. l = g + (i1 + i2 + i3 + i4 + i5 + i6 + y) * P
  BY <1>7, <1>10, <1>17, <1>18, <1>19, <1>20, <1>21, <1>22, <1>23, <1>24, <1>28, PAssumption
<1> QED
  BY <1>29, <1>28 DEF Cong, l, g

----------------------------------------------------------------------------
\* The rounds of the sum-check, for products of two or three tables of M values.
Product(M) == [c : Int, mles : List(List(Fp, M), 2) \cup List(List(Fp, M), 3)]

\* What a product contributes at a value of the variable and one of the others, and
\* at a corner.
FactorsAt(p, b, x) ==
  Collect(Len(p.mles), LAMBDA j :
    Rlc(p.mles[j][2 * b - 1], x, p.mles[j][2 * b] - p.mles[j][2 * b - 1]))
Summand(p, b, x) == (p.c * ProdSeq(FactorsAt(p, b, x))) % P
SumAt(p, n, x)   == SumSeq(Collect(n, LAMBDA b : Summand(p, b, x)))
Entry(p, i)      == (p.c * ProdSeq(Collect(Len(p.mles), LAMBDA j : p.mles[j][i]))) % P
TotalOf(p, m)    == SumSeq(Collect(m, LAMBDA i : Entry(p, i)))

\* The coefficients of what it contributes; a missing third factor is one.
Low(p, b, j)   == IF j <= Len(p.mles) THEN p.mles[j][2 * b - 1] ELSE 1
Slope(p, b, j) == IF j <= Len(p.mles) THEN p.mles[j][2 * b] - p.mles[j][2 * b - 1] ELSE 0
Coeff0(p, b) == p.c * (Low(p, b, 1) * (Low(p, b, 2) * Low(p, b, 3)))
Coeff1(p, b) == p.c * (Slope(p, b, 1) * (Low(p, b, 2) * Low(p, b, 3))
                       + Low(p, b, 1) * (Slope(p, b, 2) * Low(p, b, 3))
                       + Low(p, b, 1) * (Low(p, b, 2) * Slope(p, b, 3)))
Coeff2(p, b) == p.c * (Slope(p, b, 1) * (Slope(p, b, 2) * Low(p, b, 3))
                       + Slope(p, b, 1) * (Low(p, b, 2) * Slope(p, b, 3))
                       + Low(p, b, 1) * (Slope(p, b, 2) * Slope(p, b, 3)))
Coeff3(p, b) == p.c * (Slope(p, b, 1) * (Slope(p, b, 2) * Slope(p, b, 3)))

LEMMA ProdOfTwo ==
  ASSUME NEW s \in List(Int, 2)
  PROVE  ProdSeq(s) \in Fp /\ ProdSeq(s) \in Int /\ Cong(ProdSeq(s), s[1] * s[2])
<1> DEFINE n == 2
<1>1. n \in Nat /\ n = 2 /\ s \in List(Int, n) /\ s[1] \in Int /\ s[2] \in Int
  BY DEF List
<1> HIDE DEF n
<1>2. PICK f \in [0 .. n -> Fp] :
        f[0] = 1 /\ (\A j \in 1 .. n : f[j] = (f[j - 1] * s[j]) % P) /\ ProdSeq(s) = f[n]
  BY <1>1, ProdSeqRun
<1>3. f[2] \in Fp /\ f[2] \in Int /\ f[1] \in Int /\ f[0] = 1 /\ ProdSeq(s) = f[2]
  BY <1>1, <1>2, FpIsInt
<1>4. f[1] = (f[0] * s[1]) % P /\ f[2] = (f[1] * s[2]) % P
  <2>1. 1 \in 1 .. n /\ 2 \in 1 .. n /\ 1 - 1 = 0 /\ 2 - 1 = 1
    BY <1>1
  <2> QED BY <1>2, <2>1
<1>5. Cong(f[1], s[1])
  <2>1. f[0] * s[1] = s[1]
    BY <1>1, <1>3
  <2> QED BY <1>1, <1>4, <2>1, CongOfMod
<1>6. Cong(f[2], f[1] * s[2]) /\ f[1] * s[2] \in Int /\ s[1] * s[2] \in Int
  BY <1>1, <1>3, <1>4, CongOfMod
<1>7. Cong(f[1] * s[2], s[1] * s[2])
  <2>1. Cong(s[2], s[2])
    BY <1>1, CongRefl
  <2> QED BY <1>1, <1>3, <1>5, <2>1, CongMul
<1>8. Cong(f[2], s[1] * s[2])
  BY <1>3, <1>6, <1>7, CongTrans
<1> QED
  BY <1>3, <1>8

LEMMA ProdOfThree ==
  ASSUME NEW s \in List(Int, 3)
  PROVE  ProdSeq(s) \in Fp /\ ProdSeq(s) \in Int /\ Cong(ProdSeq(s), s[1] * (s[2] * s[3]))
<1> DEFINE n == 3
<1>1. n \in Nat /\ n = 3 /\ s \in List(Int, n) /\ s[1] \in Int /\ s[2] \in Int /\ s[3] \in Int
  BY DEF List
<1> HIDE DEF n
<1>2. PICK f \in [0 .. n -> Fp] :
        f[0] = 1 /\ (\A j \in 1 .. n : f[j] = (f[j - 1] * s[j]) % P) /\ ProdSeq(s) = f[n]
  BY <1>1, ProdSeqRun
<1>3. /\ f[3] \in Fp /\ f[3] \in Int /\ f[2] \in Int /\ f[1] \in Int /\ f[0] = 1
      /\ ProdSeq(s) = f[3]
  BY <1>1, <1>2, FpIsInt
<1>4. f[1] = (f[0] * s[1]) % P /\ f[2] = (f[1] * s[2]) % P /\ f[3] = (f[2] * s[3]) % P
  <2>1. 1 \in 1 .. n /\ 2 \in 1 .. n /\ 3 \in 1 .. n /\ 1 - 1 = 0 /\ 2 - 1 = 1 /\ 3 - 1 = 2
    BY <1>1
  <2> QED BY <1>2, <2>1
<1>5. Cong(f[1], s[1])
  <2>1. f[0] * s[1] = s[1]
    BY <1>1, <1>3
  <2> QED BY <1>1, <1>4, <2>1, CongOfMod
<1>6. /\ Cong(f[2], f[1] * s[2]) /\ f[1] * s[2] \in Int /\ s[1] * s[2] \in Int
      /\ Cong(f[3], f[2] * s[3]) /\ f[2] * s[3] \in Int /\ (s[1] * s[2]) * s[3] \in Int
  <2>1. f[1] * s[2] \in Int /\ s[1] * s[2] \in Int /\ f[2] * s[3] \in Int /\ (s[1] * s[2]) * s[3] \in Int
    BY <1>1, <1>3
  <2> QED BY <1>4, <2>1, CongOfMod
<1>0. Cong(s[2], s[2]) /\ Cong(s[3], s[3])
  BY <1>1, CongRefl
<1>7. Cong(f[1] * s[2], s[1] * s[2])
  BY <1>0, <1>1, <1>3, <1>5, CongMul
<1>8. Cong(f[2], s[1] * s[2])
  BY <1>3, <1>6, <1>7, CongTrans
<1>9. Cong(f[2] * s[3], (s[1] * s[2]) * s[3])
  BY <1>0, <1>1, <1>3, <1>6, <1>8, CongMul
<1>10. Cong(f[3], (s[1] * s[2]) * s[3])
  BY <1>3, <1>6, <1>9, CongTrans
<1>11. (s[1] * s[2]) * s[3] = s[1] * (s[2] * s[3])
  BY <1>1
<1> QED
  BY <1>3, <1>10, <1>11

LEMMA ListIsSeq ==
  ASSUME NEW S, NEW n \in Nat, NEW s \in List(S, n)
  PROVE  s \in Seq(S) /\ Len(s) = n
BY SeqDef, LenProperties DEF List

LEMMA SeqIsList ==
  ASSUME NEW S, NEW s \in Seq(S)
  PROVE  Len(s) \in Nat /\ s \in List(S, Len(s))
BY LenProperties DEF List

LEMMA ProductParts ==
  ASSUME NEW m \in Nat, NEW p \in Product(m)
  PROVE  /\ p.c \in Int
         /\ Len(p.mles) \in {2, 3} /\ p.mles \in List(List(Fp, m), Len(p.mles))
         /\ \A j \in 1 .. Len(p.mles), i \in 1 .. m : p.mles[j][i] \in Fp /\ p.mles[j][i] \in Int
<1>1. p.c \in Int /\ (p.mles \in List(List(Fp, m), 2) \/ p.mles \in List(List(Fp, m), 3))
  BY DEF Product
<1>2. Len(p.mles) \in {2, 3} /\ p.mles \in List(List(Fp, m), Len(p.mles))
  <2> DEFINE two == 2  three == 3
  <2>1. two \in Nat /\ three \in Nat
    OBVIOUS
  <2> HIDE DEF two, three
  <2>2. CASE p.mles \in List(List(Fp, m), two)
    <3>1. Len(p.mles) = two
      BY <2>1, <2>2, ListIsSeq
    <3> QED BY <2>2, <3>1 DEF two
  <2>3. CASE p.mles \in List(List(Fp, m), three)
    <3>1. Len(p.mles) = three
      BY <2>1, <2>3, ListIsSeq
    <3> QED BY <2>3, <3>1 DEF three
  <2> QED BY <1>1, <2>2, <2>3 DEF two, three
<1>3. \A j \in 1 .. Len(p.mles), i \in 1 .. m : p.mles[j][i] \in Fp
  <2> HIDE DEF Product
  <2> QED BY <1>2 DEF List
<1> QED
  BY <1>1, <1>2, <1>3, FpIsInt

LEMMA SummandIs ==
  ASSUME NEW n \in Nat, NEW p \in Product(2 * n), NEW b \in 1 .. n, NEW x \in Int
  PROVE  /\ Summand(p, b, x) \in Fp /\ Summand(p, b, x) \in Int
         /\ Coeff0(p, b) \in Int /\ Coeff1(p, b) \in Int /\ Coeff2(p, b) \in Int /\ Coeff3(p, b) \in Int
         /\ Cong(Summand(p, b, x),
                 Coeff0(p, b) + x * (Coeff1(p, b) + x * (Coeff2(p, b) + x * Coeff3(p, b))))
         /\ Len(p.mles) = 2 => Coeff3(p, b) = 0
<1> DEFINE l == Len(p.mles)  m == 2 * n
           t(j) == p.mles[j]
           f == [j \in 1 .. l |-> Rlc(t(j)[2 * b - 1], x, t(j)[2 * b] - t(j)[2 * b - 1])]
           c == p.c
           a1 == Low(p, b, 1)  a2 == Low(p, b, 2)  a3 == Low(p, b, 3)
           d1 == Slope(p, b, 1)  d2 == Slope(p, b, 2)  d3 == Slope(p, b, 3)
           g == Coeff0(p, b) + x * (Coeff1(p, b) + x * (Coeff2(p, b) + x * Coeff3(p, b)))
<1>0. m \in Nat /\ 2 * b - 1 \in 1 .. m /\ 2 * b \in 1 .. m
  OBVIOUS
<1>1. l \in {2, 3} /\ l \in Nat /\ c \in Int
  <2> HIDE DEF m
  <2>1. p \in Product(m)
    BY DEF m
  <2> QED BY <1>0, <2>1, ProductParts
<1>2. \A j \in 1 .. l : t(j)[2 * b - 1] \in Int /\ t(j)[2 * b] \in Int
  <2> HIDE DEF m
  <2>1. p \in Product(m)
    BY DEF m
  <2> QED BY <1>0, <2>1, ProductParts
<1> HIDE DEF l, t
<1>3. \A j \in 1 .. l : /\ Low(p, b, j) = t(j)[2 * b - 1] /\ Low(p, b, j) \in Int
                        /\ Slope(p, b, j) = t(j)[2 * b] - t(j)[2 * b - 1] /\ Slope(p, b, j) \in Int
  BY <1>2 DEF Low, Slope, l, t
<1>4. ASSUME NEW j \in 1 .. l
      PROVE  /\ f[j] \in Fp /\ f[j] \in Int /\ Cong(f[j], Low(p, b, j) + x * Slope(p, b, j))
  <2> DEFINE u == t(j)[2 * b - 1]  v == t(j)[2 * b] - t(j)[2 * b - 1]
  <2>1. f[j] = Rlc(u, x, v)
    OBVIOUS
  <2>2. u \in Int /\ v \in Int /\ Low(p, b, j) = u /\ Slope(p, b, j) = v
    BY <1>2, <1>3
  <2> HIDE DEF u, v, f
  <2>3. Rlc(u, x, v) \in Fp /\ Rlc(u, x, v) \in Int /\ Cong(Rlc(u, x, v), u + x * v)
    BY <2>2, RlcInt
  <2> QED BY <2>1, <2>2, <2>3
<1>5. f \in List(Int, l) /\ FactorsAt(p, b, x) = f
  <2>1. f \in [1 .. l -> Fp] /\ f \in List(Int, l)
    BY <1>4 DEF List
  <2>2. FactorsAt(p, b, x) = <<>> \o f
    BY DEF FactorsAt, Collect, l, t
  <2> HIDE DEF f
  <2>3. <<>> \o f = f
    BY <1>1, <2>1, CollectIs
  <2> QED BY <2>1, <2>2, <2>3
<1> HIDE DEF f
<1> DEFINE q == ProdSeq(f)
<1>6. a1 \in Int /\ a2 \in Int /\ a3 \in Int /\ d1 \in Int /\ d2 \in Int /\ d3 \in Int
  <2>1. 1 \in 1 .. l /\ 2 \in 1 .. l
    BY <1>1
  <2>2. CASE l = 2
    <3>1. a3 = 1 /\ d3 = 0
      BY <2>2 DEF Low, Slope, l
    <3> QED BY <1>3, <2>1, <3>1
  <2>3. CASE l = 3
    BY <1>3, <2>1, <2>3
  <2> QED BY <1>1, <2>2, <2>3
<1> DEFINE e == (a1 + x * d1) * ((a2 + x * d2) * (a3 + x * d3))
<1>7. q \in Fp /\ q \in Int /\ Cong(q, e)
  <2>1. 1 \in 1 .. l /\ 2 \in 1 .. l
    BY <1>1
  <2> DEFINE f1 == f[1]  f2 == f[2]  f3 == f[3]  g1 == a1 + x * d1  g2 == a2 + x * d2  g3 == a3 + x * d3
  <2>2. f1 \in Int /\ f2 \in Int /\ Cong(f1, g1) /\ Cong(f2, g2)
    BY <1>4, <2>1
  <2>3. g1 \in Int /\ g2 \in Int /\ g3 \in Int
    BY <1>6
  <2>4. e = g1 * (g2 * g3)
    OBVIOUS
  <2>5. CASE l = 2
    <3>1. f \in List(Int, 2)
      BY <1>5, <2>5
    <3>2. q \in Fp /\ q \in Int /\ Cong(q, f1 * f2)
      BY <3>1, ProdOfTwo
    <3>3. a3 = 1 /\ d3 = 0
      BY <2>5 DEF Low, Slope, l
    <3>4. g3 = 1
      BY <3>3
    <3> HIDE DEF q, f1, f2, g1, g2, g3, e
    <3>5. Cong(f1 * f2, g1 * g2) /\ f1 * f2 \in Int /\ g1 * g2 \in Int
      BY <2>2, <2>3, CongMul
    <3>6. e = g1 * g2
      BY <2>3, <2>4, <3>4
    <3> QED BY <3>2, <3>5, <3>6, CongTrans
  <2>6. CASE l = 3
    <3>1. f \in List(Int, 3) /\ f3 \in Int /\ Cong(f3, g3)
      <4>1. 3 \in 1 .. l
        BY <2>6
      <4> QED BY <1>4, <1>5, <2>6, <4>1
    <3>2. q \in Fp /\ q \in Int /\ Cong(q, f1 * (f2 * f3))
      BY <3>1, ProdOfThree
    <3> HIDE DEF q, f1, f2, f3, g1, g2, g3, e
    <3>3. Cong(f2 * f3, g2 * g3) /\ f2 * f3 \in Int /\ g2 * g3 \in Int
      BY <2>2, <2>3, <3>1, CongMul
    <3> DEFINE u == f2 * f3  v == g2 * g3
    <3>4. u \in Int /\ v \in Int /\ Cong(u, v) /\ Cong(q, f1 * u) /\ e = g1 * v
      BY <2>4, <3>2, <3>3
    <3> HIDE DEF u, v
    <3>5. Cong(f1 * u, g1 * v) /\ f1 * u \in Int /\ g1 * v \in Int
      BY <2>2, <2>3, <3>4, CongMul
    <3> QED BY <3>2, <3>4, <3>5, CongTrans
  <2> QED BY <1>1, <2>5, <2>6
<1>8. Summand(p, b, x) = (c * q) % P
  BY <1>5 DEF Summand
<1>9. /\ Coeff0(p, b) \in Int /\ Coeff1(p, b) \in Int /\ Coeff2(p, b) \in Int /\ Coeff3(p, b) \in Int
  <2> HIDE DEF c, a1, a2, a3, d1, d2, d3
  <2>1. c * (a1 * (a2 * a3)) \in Int
    BY <1>1, <1>6
  <2>2. c * (d1 * (a2 * a3) + a1 * (d2 * a3) + a1 * (a2 * d3)) \in Int
    BY <1>1, <1>6
  <2>3. c * (d1 * (d2 * a3) + d1 * (a2 * d3) + a1 * (d2 * d3)) \in Int
    BY <1>1, <1>6
  <2>4. c * (d1 * (d2 * d3)) \in Int
    BY <1>1, <1>6
  <2> QED BY <2>1, <2>2, <2>3, <2>4 DEF Coeff0, Coeff1, Coeff2, Coeff3, c, a1, a2, a3, d1, d2, d3
<1>10. c * e = g
  <2>1. g = c * (a1 * (a2 * a3))
            + x * (c * (d1 * (a2 * a3) + a1 * (d2 * a3) + a1 * (a2 * d3))
            + x * (c * (d1 * (d2 * a3) + d1 * (a2 * d3) + a1 * (d2 * d3))
            + x * (c * (d1 * (d2 * d3)))))
    BY DEF Coeff0, Coeff1, Coeff2, Coeff3
  <2> HIDE DEF c, a1, a2, a3, d1, d2, d3, g
  <2>2. c * e = c * (a1 * (a2 * a3))
            + x * (c * (d1 * (a2 * a3) + a1 * (d2 * a3) + a1 * (a2 * d3))
            + x * (c * (d1 * (d2 * a3) + d1 * (a2 * d3) + a1 * (d2 * d3))
            + x * (c * (d1 * (d2 * d3)))))
    BY <1>1, <1>6
  <2> QED BY <2>1, <2>2
<1>11. l = 2 => Coeff3(p, b) = 0
  <2>1. SUFFICES ASSUME l = 2 PROVE Coeff3(p, b) = 0
    OBVIOUS
  <2>2. d3 = 0
    BY <2>1 DEF Slope, l
  <2> HIDE DEF c, d1, d2, d3
  <2>3. c * (d1 * (d2 * d3)) = 0
    BY <1>1, <1>6, <2>2
  <2> QED BY <2>3 DEF Coeff3, c, d1, d2, d3
<1>12. e \in Int
  <2> HIDE DEF a1, a2, a3, d1, d2, d3
  <2> QED BY <1>6
<1> HIDE DEF q, e, g, c
<1>13. c * q \in Int /\ c * e \in Int /\ Cong(c * q, c * e)
  <2>1. Cong(c, c)
    BY <1>1, CongRefl
  <2> QED BY <1>1, <1>7, <1>12, <2>1, CongMul
<1>14. Summand(p, b, x) \in Fp /\ Summand(p, b, x) \in Int /\ Cong(Summand(p, b, x), c * q)
  BY <1>8, <1>13, ModInFp, FpIsInt, CongOfMod
<1>15. Cong(Summand(p, b, x), g)
  BY <1>10, <1>13, <1>14, CongTrans
<1> QED
  BY <1>9, <1>11, <1>14, <1>15 DEF g, l

\* The sum of polynomials, by their coefficients.
LEMMA SumHorner ==
  ASSUME NEW n \in Nat, NEW s \in List(Int, n), NEW c0 \in List(Int, n), NEW c1 \in List(Int, n),
         NEW c2 \in List(Int, n), NEW c3 \in List(Int, n), NEW x \in Int,
         \A i \in 1 .. n : Cong(s[i], c0[i] + x * (c1[i] + x * (c2[i] + x * c3[i])))
  PROVE  Cong(SumSeq(s), SumSeq(c0) + x * (SumSeq(c1) + x * (SumSeq(c2) + x * SumSeq(c3))))
<1> DEFINE u2 == [i \in 1 .. n |-> c2[i] + x * c3[i]]
           u1 == [i \in 1 .. n |-> c1[i] + x * u2[i]]
<1>1. \A i \in 1 .. n : c0[i] \in Int /\ c1[i] \in Int /\ c2[i] \in Int /\ c3[i] \in Int
  BY DEF List
<1>2. u2 \in List(Int, n) /\ \A i \in 1 .. n : u2[i] = c2[i] + x * c3[i] /\ u2[i] \in Int
  <2>1. \A i \in 1 .. n : c2[i] + x * c3[i] \in Int
    BY <1>1
  <2>2. \A i \in 1 .. n : u2[i] = c2[i] + x * c3[i]
    OBVIOUS
  <2>3. u2 \in List(Int, n)
    BY <2>1, Zenon DEF List
  <2> HIDE DEF u2
  <2> QED BY <2>1, <2>2, <2>3
<1> HIDE DEF u2
<1>3. u1 \in List(Int, n) /\ \A i \in 1 .. n : u1[i] = c1[i] + x * u2[i] /\ u1[i] \in Int
  <2>1. \A i \in 1 .. n : c1[i] + x * u2[i] \in Int
    BY <1>1, <1>2
  <2>2. \A i \in 1 .. n : u1[i] = c1[i] + x * u2[i]
    OBVIOUS
  <2>3. u1 \in List(Int, n)
    BY <2>1, Zenon DEF List
  <2> HIDE DEF u1
  <2> QED BY <2>1, <2>2, <2>3
<1> HIDE DEF u1
<1>4. \A i \in 1 .. n : /\ Cong(u2[i], c2[i] + x * c3[i]) /\ Cong(u1[i], c1[i] + x * u2[i])
                        /\ Cong(s[i], c0[i] + x * u1[i])
  <2> TAKE i \in 1 .. n
  <2>1. Cong(u2[i], u2[i]) /\ Cong(u1[i], u1[i])
    BY <1>2, <1>3, CongRefl
  <2>2. Cong(s[i], c0[i] + x * (c1[i] + x * (c2[i] + x * c3[i])))
    OBVIOUS
  <2> QED BY <1>2, <1>3, <2>1, <2>2
<1> DEFINE S == SumSeq(s)  S0 == SumSeq(c0)  S1 == SumSeq(c1)  S2 == SumSeq(c2)  S3 == SumSeq(c3)
           T1 == SumSeq(u1)  T2 == SumSeq(u2)
<1>5. /\ S \in Int /\ S0 \in Int /\ S1 \in Int /\ S2 \in Int /\ S3 \in Int /\ T1 \in Int /\ T2 \in Int
  BY <1>2, <1>3, SumInFp
<1>6. Cong(T2, S2 + x * S3)
  BY <1>2, <1>4, SumLinear
<1>7. Cong(T1, S1 + x * T2)
  BY <1>2, <1>3, <1>4, SumLinear
<1>8. Cong(S, S0 + x * T1)
  BY <1>3, <1>4, SumLinear
<1> HIDE DEF S, S0, S1, S2, S3, T1, T2
<1> DEFINE y2 == S2 + x * S3  y1 == S1 + x * y2
<1>9. y2 \in Int /\ Cong(T2, y2)
  BY <1>5, <1>6
<1> HIDE DEF y2
<1>10. PICK i \in Int : T2 = y2 + i * P
  BY <1>9 DEF Cong
<1>11. PICK j \in Int : T1 = S1 + x * T2 + j * P
  BY <1>7 DEF Cong
<1>12. PICK k \in Int : S = S0 + x * T1 + k * P
  BY <1>8 DEF Cong
<1>13. T1 = y1 + (j + x * i) * P /\ y1 \in Int
  BY <1>5, <1>9, <1>10, <1>11, PAssumption
<1> DEFINE w == j + x * i
<1>14. w \in Int /\ T1 = y1 + w * P
  BY <1>13
<1> HIDE DEF w, y1
<1>15. S = S0 + x * y1 + (k + x * w) * P
  BY <1>5, <1>12, <1>13, <1>14, PAssumption
<1>16. k + x * w \in Int
  BY <1>14
<1>17. Cong(S, S0 + x * y1)
  BY <1>15, <1>16 DEF Cong
<1> QED
  BY <1>17 DEF S, S0, S1, S2, S3, y1, y2

\* The sums of the coefficients of a product.
Sum0(p, n) == SumSeq([b \in 1 .. n |-> Coeff0(p, b)])
Sum1(p, n) == SumSeq([b \in 1 .. n |-> Coeff1(p, b)])
Sum2(p, n) == SumSeq([b \in 1 .. n |-> Coeff2(p, b)])
Sum3(p, n) == SumSeq([b \in 1 .. n |-> Coeff3(p, b)])

LEMMA SumAtIs ==
  ASSUME NEW n \in Nat, NEW p \in Product(2 * n), NEW x \in Int
  PROVE  /\ SumAt(p, n, x) = SumSeq([b \in 1 .. n |-> Summand(p, b, x)])
         /\ [b \in 1 .. n |-> Summand(p, b, x)] \in List(Int, n)
         /\ SumAt(p, n, x) \in Fp /\ SumAt(p, n, x) \in Int
         /\ Sum0(p, n) \in Int /\ Sum1(p, n) \in Int /\ Sum2(p, n) \in Int /\ Sum3(p, n) \in Int
         /\ Cong(SumAt(p, n, x), Sum0(p, n) + x * (Sum1(p, n) + x * (Sum2(p, n) + x * Sum3(p, n))))
         /\ Len(p.mles) = 2 => Sum3(p, n) = 0
<1> DEFINE s == [b \in 1 .. n |-> Summand(p, b, x)]
           c0 == [b \in 1 .. n |-> Coeff0(p, b)]  c1 == [b \in 1 .. n |-> Coeff1(p, b)]
           c2 == [b \in 1 .. n |-> Coeff2(p, b)]  c3 == [b \in 1 .. n |-> Coeff3(p, b)]
<1>1. /\ s \in List(Int, n) /\ s \in List(Fp, n) /\ \A b \in 1 .. n : s[b] = Summand(p, b, x)
  BY SummandIs DEF List
<1>2. /\ c0 \in List(Int, n) /\ c1 \in List(Int, n) /\ c2 \in List(Int, n) /\ c3 \in List(Int, n)
      /\ \A b \in 1 .. n : /\ c0[b] = Coeff0(p, b) /\ c1[b] = Coeff1(p, b)
                           /\ c2[b] = Coeff2(p, b) /\ c3[b] = Coeff3(p, b)
  <2>1. \A b \in 1 .. n : /\ Coeff0(p, b) \in Int /\ Coeff1(p, b) \in Int
                          /\ Coeff2(p, b) \in Int /\ Coeff3(p, b) \in Int
    BY SummandIs
  <2> QED BY <2>1 DEF List
<1>3. SumAt(p, n, x) = SumSeq(s)
  <2>1. SumAt(p, n, x) = SumSeq(<<>> \o s)
    BY DEF SumAt, Collect
  <2> HIDE DEF s
  <2>2. <<>> \o s = s
    BY <1>1, CollectIs DEF List
  <2> QED BY <2>1, <2>2
<1> HIDE DEF s, c0, c1, c2, c3
<1>4. SumSeq(s) \in Fp /\ SumSeq(s) \in Int
  BY <1>1, SumInFp
<1>5. SumSeq(c0) \in Int /\ SumSeq(c1) \in Int /\ SumSeq(c2) \in Int /\ SumSeq(c3) \in Int
  BY <1>2, SumInFp
<1>6. \A b \in 1 .. n : Cong(s[b], c0[b] + x * (c1[b] + x * (c2[b] + x * c3[b])))
  <2> TAKE b \in 1 .. n
  <2>1. Cong(Summand(p, b, x),
                 Coeff0(p, b) + x * (Coeff1(p, b) + x * (Coeff2(p, b) + x * Coeff3(p, b))))
    BY SummandIs
  <2> QED BY <1>1, <1>2, <2>1
<1>7. Cong(SumSeq(s), SumSeq(c0) + x * (SumSeq(c1) + x * (SumSeq(c2) + x * SumSeq(c3))))
  BY <1>1, <1>2, <1>6, SumHorner
<1>8. Len(p.mles) = 2 => SumSeq(c3) = 0
  <2>1. SUFFICES ASSUME Len(p.mles) = 2 PROVE SumSeq(c3) = 0
    OBVIOUS
  <2>2. \A b \in 1 .. n : Cong(c3[b], 0)
    <3> TAKE b \in 1 .. n
    <3>1. Coeff3(p, b) = 0 /\ 0 \in Int
      BY <2>1, SummandIs
    <3>2. Cong(0, 0)
      BY CongRefl
    <3> QED BY <1>2, <3>1, <3>2
  <2> QED BY <1>2, <2>2, SumOfZeros
<1>9. Sum0(p, n) = SumSeq(c0) /\ Sum1(p, n) = SumSeq(c1) /\ Sum2(p, n) = SumSeq(c2) /\ Sum3(p, n) = SumSeq(c3)
  BY DEF Sum0, Sum1, Sum2, Sum3, c0, c1, c2, c3
<1> QED
  BY <1>1, <1>3, <1>4, <1>5, <1>7, <1>8, <1>9 DEF s

LEMMA EntryIs ==
  ASSUME NEW m \in Nat, NEW p \in Product(m), NEW i \in 1 .. m
  PROVE  Entry(p, i) \in Fp /\ Entry(p, i) \in Int
<1> DEFINE l == Len(p.mles)  f == [j \in 1 .. l |-> p.mles[j][i]]  c == p.c
<1>1. /\ l \in {2, 3} /\ l \in Nat /\ c \in Int /\ f \in [1 .. l -> Int]
  BY ProductParts
<1>2. Entry(p, i) = (c * ProdSeq(<<>> \o f)) % P
  BY DEF Entry, Collect
<1> HIDE DEF f, c, l
<1>3. <<>> \o f = f
  BY <1>1, CollectIs
<1>4. f \in List(Int, l)
  BY <1>1 DEF List
<1>5. ProdSeq(f) \in Int
  <2>1. CASE l = 2
    BY <1>4, <2>1, ProdOfTwo
  <2>2. CASE l = 3
    BY <1>4, <2>2, ProdOfThree
  <2> QED BY <1>1, <2>1, <2>2
<1>6. c * ProdSeq(f) \in Int
  BY <1>1, <1>5
<1> QED
  BY <1>2, <1>3, <1>6, ModInFp, FpIsInt

LEMMA TotalIs ==
  ASSUME NEW m \in Nat, NEW p \in Product(m)
  PROVE  /\ TotalOf(p, m) = SumSeq([i \in 1 .. m |-> Entry(p, i)])
         /\ [i \in 1 .. m |-> Entry(p, i)] \in List(Int, m)
         /\ TotalOf(p, m) \in Fp /\ TotalOf(p, m) \in Int
<1> DEFINE s == [i \in 1 .. m |-> Entry(p, i)]
<1>1. s \in List(Int, m)
  BY EntryIs DEF List
<1>2. TotalOf(p, m) = SumSeq(<<>> \o s)
  BY DEF TotalOf, Collect
<1> HIDE DEF s
<1>3. <<>> \o s = s
  BY <1>1, CollectIs DEF List
<1>4. SumSeq(s) \in Fp /\ SumSeq(s) \in Int
  BY <1>1, SumInFp
<1> QED
  BY <1>1, <1>2, <1>3, <1>4 DEF s

LEMMA RlcAtBits ==
  ASSUME NEW a \in Fp, NEW b \in Fp
  PROVE  Rlc(a, 0, b - a) = a /\ Rlc(a, 1, b - a) = b
<1>1. a \in Int /\ b \in Int
  BY FpIsInt
<1>2. a + 0 * (b - a) = a /\ a + 1 * (b - a) = b
  BY <1>1
<1> QED
  BY <1>2, ModOfFp DEF Rlc

\* At the values of a bit a line is at the table's entries.
LEMMA SummandAtBits ==
  ASSUME NEW n \in Nat, NEW p \in Product(2 * n), NEW b \in 1 .. n
  PROVE  Summand(p, b, 0) = Entry(p, 2 * b - 1) /\ Summand(p, b, 1) = Entry(p, 2 * b)
<1> DEFINE m == 2 * n  l == Len(p.mles)
<1>1. m \in Nat /\ p \in Product(m) /\ 2 * b - 1 \in 1 .. m /\ 2 * b \in 1 .. m
  OBVIOUS
<1> HIDE DEF m
<1>2. \A j \in 1 .. l : p.mles[j][2 * b - 1] \in Fp /\ p.mles[j][2 * b] \in Fp
  BY <1>1, ProductParts
<1> HIDE DEF l
<1>3. \A j \in 1 .. l :
        /\ Rlc(p.mles[j][2 * b - 1], 0, p.mles[j][2 * b] - p.mles[j][2 * b - 1]) = p.mles[j][2 * b - 1]
        /\ Rlc(p.mles[j][2 * b - 1], 1, p.mles[j][2 * b] - p.mles[j][2 * b - 1]) = p.mles[j][2 * b]
  BY <1>2, RlcAtBits
<1>4. /\ [j \in 1 .. l |-> Rlc(p.mles[j][2 * b - 1], 0, p.mles[j][2 * b] - p.mles[j][2 * b - 1])]
           = [j \in 1 .. l |-> p.mles[j][2 * b - 1]]
      /\ [j \in 1 .. l |-> Rlc(p.mles[j][2 * b - 1], 1, p.mles[j][2 * b] - p.mles[j][2 * b - 1])]
           = [j \in 1 .. l |-> p.mles[j][2 * b]]
  BY <1>3, Zenon
<1>5. /\ FactorsAt(p, b, 0) = <<>> \o [j \in 1 .. l |-> p.mles[j][2 * b - 1]]
      /\ FactorsAt(p, b, 1) = <<>> \o [j \in 1 .. l |-> p.mles[j][2 * b]]
  BY <1>4, Zenon DEF FactorsAt, Collect, l
<1> QED
  BY <1>5 DEF Summand, Entry, Collect, l

\* The message's sum over a bit is the sum over the hypercube.
LEMMA SumAtBits ==
  ASSUME NEW n \in Nat, NEW p \in Product(2 * n)
  PROVE  Cong(SumAt(p, n, 0) + SumAt(p, n, 1), TotalOf(p, 2 * n))
<1> DEFINE m == 2 * n  z == 0  o == 1
           a == [i \in 1 .. m |-> Entry(p, i)]
           s0 == [b \in 1 .. n |-> Summand(p, b, z)]  s1 == [b \in 1 .. n |-> Summand(p, b, o)]
           d == [b \in 1 .. n |-> s0[b] + s1[b]]
<1>1. m \in Nat /\ p \in Product(m) /\ z \in Int /\ o \in Int
  OBVIOUS
<1>2. \A b \in 1 .. n : 2 * b - 1 \in 1 .. m /\ 2 * b \in 1 .. m
  OBVIOUS
<1>3. \A b \in 1 .. n : Summand(p, b, z) = Entry(p, 2 * b - 1) /\ Summand(p, b, o) = Entry(p, 2 * b)
  BY SummandAtBits
<1> HIDE DEF z, o
<1>4. /\ s0 \in List(Int, n) /\ SumAt(p, n, z) = SumSeq(s0)
      /\ s1 \in List(Int, n) /\ SumAt(p, n, o) = SumSeq(s1)
  BY <1>1, SumAtIs
<1>5. \A b \in 1 .. n : s0[b] = Entry(p, 2 * b - 1) /\ s1[b] = Entry(p, 2 * b)
  BY <1>3
<1>6. a \in List(Int, m) /\ TotalOf(p, m) = SumSeq(a) /\ \A i \in 1 .. m : a[i] = Entry(p, i)
  <2> HIDE DEF m
  <2> QED BY <1>1, TotalIs
<1> HIDE DEF a, s0, s1
<1>7. \A b \in 1 .. n : s0[b] \in Int /\ s1[b] \in Int
  BY <1>4 DEF List
<1>8. d \in List(Int, n) /\ \A b \in 1 .. n : d[b] = s0[b] + s1[b] /\ d[b] \in Int
  BY <1>7 DEF List
<1> HIDE DEF d
<1>9. \A b \in 1 .. n : Cong(d[b], a[2 * b - 1] + a[2 * b]) /\ Cong(d[b], s0[b] + o * s1[b])
  <2> TAKE b \in 1 .. n
  <2>1. a[2 * b - 1] = s0[b] /\ a[2 * b] = s1[b]
    BY <1>2, <1>5, <1>6
  <2>2. o * s1[b] = s1[b]
    BY <1>7 DEF o
  <2>3. Cong(d[b], d[b])
    BY <1>8, CongRefl
  <2> QED BY <1>8, <2>1, <2>2, <2>3
<1>10. Cong(SumSeq(a), SumSeq(d))
  <2>1. a \in List(Int, 2 * n)
    BY <1>6 DEF m
  <2> QED BY <1>8, <1>9, <2>1, SumPairs
<1>11. Cong(SumSeq(d), SumSeq(s0) + o * SumSeq(s1))
  BY <1>1, <1>4, <1>8, <1>9, SumLinear
<1>12. SumSeq(a) \in Int /\ SumSeq(d) \in Int /\ SumSeq(s0) \in Int /\ SumSeq(s1) \in Int
  BY <1>1, <1>4, <1>6, <1>8, SumInFp
<1>13. SumSeq(s0) + o * SumSeq(s1) = SumSeq(s0) + SumSeq(s1) /\ SumSeq(s0) + SumSeq(s1) \in Int
  BY <1>12 DEF o
<1>14. Cong(SumSeq(s0) + SumSeq(s1), SumSeq(a))
  BY <1>10, <1>11, <1>12, <1>13, CongTrans, CongSym
<1> QED
  BY <1>4, <1>6, <1>14 DEF m, z, o

\* Fixing the variable leaves what the message says of its value.
LEMMA FixProductIs ==
  ASSUME NEW n \in Nat, NEW p \in Product(2 * n), NEW r \in Fp
  PROVE  /\ FixProduct(p, r) \in Product(n) /\ TotalOf(FixProduct(p, r), n) = SumAt(p, n, r)
         /\ Len(FixProduct(p, r).mles) = Len(p.mles) /\ FixProduct(p, r).c = p.c
         /\ \A j \in 1 .. Len(p.mles) : FixProduct(p, r).mles[j] = FixVariable(p.mles[j], r)
<1> DEFINE m == 2 * n  l == Len(p.mles)
           f == [j \in 1 .. l |-> FixVariable(p.mles[j], r)]
           q == FixProduct(p, r)
<1>1. m \in Nat /\ p \in Product(m) /\ m \div 2 = n
  OBVIOUS
<1> HIDE DEF m
<1>2. l \in {2, 3} /\ l \in Nat /\ p.mles \in List(List(Fp, m), l) /\ p.c \in Int
  BY <1>1, ProductParts
<1>3. ASSUME NEW j \in 1 .. l
      PROVE  /\ FixVariable(p.mles[j], r) \in List(Fp, n)
             /\ \A b \in 1 .. n : FixVariable(p.mles[j], r)[b]
                  = Rlc(p.mles[j][2 * b - 1], r, p.mles[j][2 * b] - p.mles[j][2 * b - 1])
  <2> DEFINE t == p.mles[j]  u == FixVariable(t, r)
  <2>1. t \in List(Fp, m)
    BY <1>2 DEF List
  <2> HIDE DEF t
  <2>2. t \in Seq(Fp) /\ Len(t) = m
    BY <1>1, <2>1, ListIsSeq
  <2>3. /\ u \in Seq(Fp) /\ Len(u) = n
        /\ \A b \in 1 .. n : u[b] = Rlc(t[2 * b - 1], r, t[2 * b] - t[2 * b - 1])
    BY <1>1, <2>2, FixVariableIs
  <2> HIDE DEF u
  <2>4. u \in List(Fp, n)
    BY <2>3, SeqIsList
  <2> QED BY <2>3, <2>4 DEF t, u
<1> HIDE DEF l
<1>4. DOMAIN p.mles = 1 .. l
  BY <1>2 DEF List
<1>5. q = [c |-> p.c, mles |-> f]
  <2>1. p \in [c : Int, mles : List(List(Fp, m), 2) \cup List(List(Fp, m), 3)]
    BY <1>1 DEF Product
  <2>2. [p EXCEPT !.mles = [j \in DOMAIN @ |-> FixVariable(@[j], r)]]
         = [c |-> p.c, mles |-> [j \in DOMAIN p.mles |-> FixVariable(p.mles[j], r)]]
    BY <2>1
  <2> QED BY <1>4, <2>2 DEF FixProduct
<1>6. q.c = p.c /\ q.mles = f
  BY <1>5
<1>7. f \in List(List(Fp, n), l) /\ \A j \in 1 .. l : f[j] = FixVariable(p.mles[j], r)
  BY <1>3 DEF List
<1> HIDE DEF f
<1>8. Len(f) = l
  BY <1>2, <1>7, ListIsSeq
<1>9. q \in Product(n)
  <2>1. f \in List(List(Fp, n), 2) \cup List(List(Fp, n), 3)
    BY <1>2, <1>7
  <2> QED BY <1>2, <1>5, <2>1 DEF Product
<1> HIDE DEF q
<1>10. ASSUME NEW b \in 1 .. n PROVE Entry(q, b) = Summand(p, b, r)
  <2>1. \A j \in 1 .. l : q.mles[j][b] = Rlc(p.mles[j][2 * b - 1], r, p.mles[j][2 * b] - p.mles[j][2 * b - 1])
    BY <1>3, <1>6, <1>7
  <2>2. [j \in 1 .. l |-> q.mles[j][b]]
         = [j \in 1 .. l |-> Rlc(p.mles[j][2 * b - 1], r, p.mles[j][2 * b] - p.mles[j][2 * b - 1])]
    BY <2>1, Zenon
  <2>3. Len(q.mles) = l /\ Len(p.mles) = l
    BY <1>6, <1>8 DEF l
  <2>4. Entry(q, b) = (p.c * ProdSeq(<<>> \o [j \in 1 .. l |-> q.mles[j][b]])) % P
    BY <1>6, <2>3 DEF Entry, Collect
  <2>5. Summand(p, b, r)
         = (p.c * ProdSeq(<<>> \o [j \in 1 .. l |->
              Rlc(p.mles[j][2 * b - 1], r, p.mles[j][2 * b] - p.mles[j][2 * b - 1])])) % P
    BY <2>3 DEF Summand, FactorsAt, Collect
  <2> QED BY <2>2, <2>4, <2>5
<1>11. TotalOf(q, n) = SumAt(p, n, r)
  <2>1. [b \in 1 .. n |-> Entry(q, b)] = [b \in 1 .. n |-> Summand(p, b, r)]
    BY <1>10, Zenon
  <2> QED BY <2>1 DEF TotalOf, SumAt, Collect
<1> QED
  BY <1>6, <1>7, <1>8, <1>9, <1>11 DEF q, l

LEMMA ProductSumsAre ==
  ASSUME NEW n \in Nat, NEW p \in Product(2 * n)
  PROVE  /\ ProductSums(p) \in List(Int, Len(p.mles) + 1)
         /\ Len(ProductSums(p)) = Len(p.mles) + 1
         /\ \A x \in 0 .. Len(p.mles) : ProductSums(p)[x + 1] = SumAt(p, n, x)
<1> DEFINE m == 2 * n  l == Len(p.mles)  k == l + 1
           f == [x \in 1 .. k |-> SumAt(p, n, x - 1)]
<1>1. m \in Nat /\ p \in Product(m) /\ m \div 2 = n
  OBVIOUS
<1>2. l \in {2, 3} /\ k \in Nat /\ p.mles \in List(List(Fp, m), l)
  <2> HIDE DEF m
  <2> QED BY <1>1, ProductParts
<1>3. Len(p.mles[1]) = m
  <2> HIDE DEF m, l
  <2>1. 1 \in 1 .. l
    BY <1>2
  <2>2. p.mles[1] \in List(Fp, m)
    BY <1>2, <2>1 DEF List
  <2> QED BY <1>1, <2>2, ListIsSeq
<1>4. f \in List(Int, k) /\ \A x \in 0 .. l : f[x + 1] = SumAt(p, n, x)
  <2>1. \A x \in 1 .. k : SumAt(p, n, x - 1) \in Int
    <3> TAKE x \in 1 .. k
    <3> DEFINE y == x - 1
    <3>1. y \in Int
      OBVIOUS
    <3> HIDE DEF y
    <3>2. SumAt(p, n, y) \in Int
      BY <3>1, SumAtIs
    <3> QED BY <3>2 DEF y
  <2>2. f \in List(Int, k)
    BY <2>1, Zenon DEF List
  <2>3. \A x \in 0 .. l : x + 1 \in 1 .. k /\ (x + 1) - 1 = x
    BY <1>2
  <2> QED BY <2>2, <2>3
<1>5. ProductSums(p) = <<>> \o f
  <2>1. Len(p.mles[1]) \div 2 = n
    BY <1>1, <1>3
  <2> QED BY <2>1 DEF ProductSums, SumAt, Summand, FactorsAt, Collect
<1> HIDE DEF f, l, k
<1>6. <<>> \o f = f /\ Len(f) = k
  <2>1. f \in [1 .. k -> Int]
    BY <1>4 DEF List
  <2> QED BY <1>2, <2>1, CollectIs
<1> QED
  BY <1>4, <1>5, <1>6 DEF k, l

\* The values of a product's sums, taken or extrapolated.
LEMMA ProductSumAtIs ==
  ASSUME NEW n \in Nat, NEW p \in Product(2 * n), NEW x \in 0 .. 3
  PROVE  /\ ProductSumAt(ProductSums(p), x) \in Int
         /\ Cong(ProductSumAt(ProductSums(p), x),
                 Sum0(p, n) + x * (Sum1(p, n) + x * (Sum2(p, n) + x * Sum3(p, n))))
<1> DEFINE l == Len(p.mles)  e == ProductSums(p)
           S0 == Sum0(p, n)  S1 == Sum1(p, n)  S2 == Sum2(p, n)  S3 == Sum3(p, n)
<1>1. e \in List(Int, l + 1) /\ Len(e) = l + 1 /\ \A y \in 0 .. l : e[y + 1] = SumAt(p, n, y)
  BY ProductSumsAre
<1>2. l \in {2, 3}
  <2> DEFINE m == 2 * n
  <2>1. m \in Nat /\ p \in Product(m)
    OBVIOUS
  <2> HIDE DEF m
  <2> QED BY <2>1, ProductParts
<1>3. ASSUME NEW y \in Int
      PROVE  SumAt(p, n, y) \in Int /\ Cong(SumAt(p, n, y), S0 + y * (S1 + y * (S2 + y * S3)))
  BY SumAtIs
<1>4. S0 \in Int /\ S1 \in Int /\ S2 \in Int /\ S3 \in Int /\ (l = 2 => S3 = 0)
  <2> DEFINE z == 0
  <2>1. z \in Int
    OBVIOUS
  <2> HIDE DEF z
  <2> QED BY <2>1, SumAtIs
<1> HIDE DEF l, e, S0, S1, S2, S3
<1>5. CASE x < Len(e)
  <2>1. x \in 0 .. l /\ x \in Int
    BY <1>1, <1>2, <1>5
  <2>2. ProductSumAt(e, x) = e[x + 1]
    BY <1>5 DEF ProductSumAt
  <2> QED BY <1>1, <1>3, <2>1, <2>2 DEF e, S0, S1, S2, S3
<1>6. CASE ~(x < Len(e))
  <2>1. l = 2 /\ x = 3
    BY <1>1, <1>2, <1>6
  <2>2. e \in List(Int, 3)
    BY <1>1, <2>1
  <2>3. e[1] = SumAt(p, n, 0) /\ e[2] = SumAt(p, n, 1) /\ e[3] = SumAt(p, n, 2)
    <3>1. 0 \in 0 .. l /\ 1 \in 0 .. l /\ 2 \in 0 .. l /\ 0 + 1 = 1 /\ 1 + 1 = 2 /\ 2 + 1 = 3
      BY <2>1
    <3> QED BY <1>1, <3>1
  <2>4. /\ S0 + 0 * (S1 + 0 * (S2 + 0 * S3)) = S0
        /\ S0 + 1 * (S1 + 1 * (S2 + 1 * S3)) = S0 + S1 + S2
        /\ S0 + 2 * (S1 + 2 * (S2 + 2 * S3)) = S0 + 2 * S1 + 4 * S2
    BY <1>4, <2>1
  <2>5. Cong(e[1], S0) /\ Cong(e[2], S0 + S1 + S2) /\ Cong(e[3], S0 + 2 * S1 + 4 * S2)
    <3>1. 0 \in Int /\ 1 \in Int /\ 2 \in Int
      OBVIOUS
    <3>2. /\ Cong(SumAt(p, n, 0), S0 + 0 * (S1 + 0 * (S2 + 0 * S3)))
          /\ Cong(SumAt(p, n, 1), S0 + 1 * (S1 + 1 * (S2 + 1 * S3)))
          /\ Cong(SumAt(p, n, 2), S0 + 2 * (S1 + 2 * (S2 + 2 * S3)))
      BY <1>3, <3>1
    <3> QED BY <2>3, <2>4, <3>2
  <2>6. ProductSumAt(e, x) = PolyEval(LagrangeInterpolated(e), x)
    BY <1>6 DEF ProductSumAt
  <2>7. Cong(PolyEval(LagrangeInterpolated(e), x), S0 + x * (S1 + x * S2))
    <3>1. x \in Int
      OBVIOUS
    <3> QED BY <1>4, <2>2, <2>5, <3>1, InterpolatedThree
  <2>8. S0 + x * (S1 + x * (S2 + x * S3)) = S0 + x * (S1 + x * S2)
    BY <1>4, <2>1
  <2>9. PolyEval(LagrangeInterpolated(e), x) \in Int
    <3> DEFINE k == 3  c == LagrangeInterpolated(e)
    <3>1. k \in 1 .. 4 /\ e \in List(Int, k)
      BY <2>2
    <3> HIDE DEF k
    <3>2. c \in Seq(Fp)
      BY <3>1, LagrangeIs
    <3> HIDE DEF c
    <3>3. Len(c) \in Nat /\ c \in List(Int, Len(c))
      BY <3>2, SeqIsList, ListInt
    <3>4. PolyEval(c, x) \in Int
      BY <3>3, PolyInFp
    <3> QED BY <3>4 DEF c
  <2> QED BY <2>6, <2>7, <2>8, <2>9 DEF e, S0, S1, S2, S3
<1> QED
  BY <1>5, <1>6

\* The polynomials of a sum-check: k products, the largest of three factors.
IsVirtual(vp, k, m) ==
  vp \in [num_variables : Nat, max_degree : {3}, products : List(Product(m), k)]

\* The message of a round is what is summed, as a polynomial in the variable.
LEMMA RoundMessageIs ==
  ASSUME NEW n \in Nat, NEW k \in Nat, NEW vp, IsVirtual(vp, k, 2 * n)
  PROVE  /\ RoundMessage(vp) \in Seq(Fp)
         /\ \A y \in Int :
              /\ [i \in 1 .. k |-> SumAt(vp.products[i], n, y)] \in List(Int, k)
              /\ Cong(PolyEval(RoundMessage(vp), y),
                      SumSeq([i \in 1 .. k |-> SumAt(vp.products[i], n, y)]))
<1> DEFINE p(i) == vp.products[i]
           sums == [i \in DOMAIN vp.products |-> ProductSums(p(i))]
           row(x) == [i \in 1 .. k |-> ProductSumAt(sums[i], x - 1)]
           e == [x \in 1 .. 4 |-> SumSeq(<<>> \o row(x))]
           R0 == [i \in 1 .. k |-> Sum0(p(i), n)]  R1 == [i \in 1 .. k |-> Sum1(p(i), n)]
           R2 == [i \in 1 .. k |-> Sum2(p(i), n)]  R3 == [i \in 1 .. k |-> Sum3(p(i), n)]
<1>1. DOMAIN vp.products = 1 .. k /\ Len(vp.products) = k /\ \A i \in 1 .. k : p(i) \in Product(2 * n)
  <2> DEFINE S == Product(2 * n)
  <2>1. vp.products \in List(S, k)
    BY DEF IsVirtual
  <2> HIDE DEF S
  <2>2. Len(vp.products) = k
    BY <2>1, ListIsSeq
  <2>3. DOMAIN vp.products = 1 .. k /\ \A i \in 1 .. k : p(i) \in S
    BY <2>1 DEF List
  <2> QED BY <2>2, <2>3 DEF S
<1>2. RoundMessage(vp) = LagrangeInterpolated(<<>> \o e)
  <2>1. vp.max_degree + 1 = 4
    BY DEF IsVirtual
  <2> QED BY <1>1, <2>1 DEF RoundMessage, Collect
<1>3. \A i \in 1 .. k : sums[i] = ProductSums(p(i))
  BY <1>1
<1> HIDE DEF p, sums
<1>4. ASSUME NEW i \in 1 .. k
      PROVE  /\ Sum0(p(i), n) \in Int /\ Sum1(p(i), n) \in Int
             /\ Sum2(p(i), n) \in Int /\ Sum3(p(i), n) \in Int
             /\ \A y \in Int : /\ SumAt(p(i), n, y) \in Int
                               /\ Cong(SumAt(p(i), n, y),
                                       Sum0(p(i), n) + y * (Sum1(p(i), n) + y * (Sum2(p(i), n) + y * Sum3(p(i), n))))
  <2> DEFINE q == p(i)  z == 0
  <2>1. q \in Product(2 * n) /\ z \in Int
    BY <1>1
  <2> HIDE DEF q, z
  <2>2. \A y \in Int : /\ SumAt(q, n, y) \in Int
                       /\ Cong(SumAt(q, n, y), Sum0(q, n) + y * (Sum1(q, n) + y * (Sum2(q, n) + y * Sum3(q, n))))
    BY <2>1, SumAtIs
  <2>3. Sum0(q, n) \in Int /\ Sum1(q, n) \in Int /\ Sum2(q, n) \in Int /\ Sum3(q, n) \in Int
    BY <2>1, SumAtIs
  <2> QED BY <2>2, <2>3 DEF q
<1>5. /\ R0 \in List(Int, k) /\ R1 \in List(Int, k) /\ R2 \in List(Int, k) /\ R3 \in List(Int, k)
      /\ \A i \in 1 .. k : /\ R0[i] = Sum0(p(i), n) /\ R1[i] = Sum1(p(i), n)
                           /\ R2[i] = Sum2(p(i), n) /\ R3[i] = Sum3(p(i), n)
  BY <1>4 DEF List
<1> HIDE DEF R0, R1, R2, R3
<1> DEFINE q0 == SumSeq(R0)  q1 == SumSeq(R1)  q2 == SumSeq(R2)  q3 == SumSeq(R3)
           G(y) == q0 + y * (q1 + y * (q2 + y * q3))
<1>6. q0 \in Int /\ q1 \in Int /\ q2 \in Int /\ q3 \in Int
  BY <1>5, SumInFp
<1>7. ASSUME NEW y \in Int
      PROVE  /\ [i \in 1 .. k |-> SumAt(p(i), n, y)] \in List(Int, k)
             /\ SumSeq([i \in 1 .. k |-> SumAt(p(i), n, y)]) \in Int
             /\ Cong(SumSeq([i \in 1 .. k |-> SumAt(p(i), n, y)]), G(y))
  <2> DEFINE s == [i \in 1 .. k |-> SumAt(p(i), n, y)]
  <2>1. s \in List(Int, k) /\ \A i \in 1 .. k : s[i] = SumAt(p(i), n, y)
    BY <1>4 DEF List
  <2> HIDE DEF s
  <2>2. \A i \in 1 .. k : Cong(s[i], R0[i] + y * (R1[i] + y * (R2[i] + y * R3[i])))
    BY <1>4, <1>5, <2>1
  <2>3. Cong(SumSeq(s), G(y)) /\ SumSeq(s) \in Int
    BY <1>5, <2>1, <2>2, SumHorner, SumInFp
  <2> QED BY <2>1, <2>3 DEF s
<1>8. ASSUME NEW x \in 1 .. 4
      PROVE  SumSeq(<<>> \o row(x)) \in Int /\ Cong(SumSeq(<<>> \o row(x)), G(x - 1))
  <2> DEFINE y == x - 1  s == row(x)
  <2>1. y \in 0 .. 3 /\ y \in Int
    OBVIOUS
  <2>2. \A i \in 1 .. k : s[i] = ProductSumAt(ProductSums(p(i)), y)
    BY <1>3
  <2> HIDE DEF y
  <2>3. ASSUME NEW i \in 1 .. k
        PROVE  s[i] \in Int /\ Cong(s[i], R0[i] + y * (R1[i] + y * (R2[i] + y * R3[i])))
    <3> DEFINE q == p(i)
    <3>1. q \in Product(2 * n)
      BY <1>1 DEF p
    <3> HIDE DEF q
    <3>2. /\ ProductSumAt(ProductSums(q), y) \in Int
          /\ Cong(ProductSumAt(ProductSums(q), y),
                  Sum0(q, n) + y * (Sum1(q, n) + y * (Sum2(q, n) + y * Sum3(q, n))))
      BY <2>1, <3>1, ProductSumAtIs
    <3> HIDE DEF s
    <3> QED BY <1>5, <2>2, <3>2 DEF q
  <2>4. s \in List(Int, k)
    <3>1. \A i \in 1 .. k : ProductSumAt(sums[i], x - 1) \in Int
      BY <2>3
    <3> QED BY <3>1, Zenon DEF List
  <2> HIDE DEF s
  <2>5. <<>> \o s = s
    BY <2>4, CollectIs DEF List
  <2>6. Cong(SumSeq(s), G(y)) /\ SumSeq(s) \in Int
    BY <1>5, <2>1, <2>3, <2>4, SumHorner, SumInFp
  <2> QED BY <2>5, <2>6 DEF s, y
<1>9. e \in List(Int, 4) /\ \A x \in 1 .. 4 : Cong(e[x], G(x - 1))
  <2> HIDE DEF row, G
  <2> QED BY <1>8 DEF List
<1>10. <<>> \o e = e
  <2> DEFINE m == 4
  <2>1. m \in Nat /\ e \in [1 .. m -> Int]
    BY <1>9 DEF List
  <2> HIDE DEF m, e
  <2> QED BY <2>1, CollectIs
<1> HIDE DEF e
<1>11. /\ Cong(e[1], q0) /\ Cong(e[2], q0 + q1 + q2 + q3)
       /\ Cong(e[3], q0 + 2 * q1 + 4 * q2 + 8 * q3) /\ Cong(e[4], q0 + 3 * q1 + 9 * q2 + 27 * q3)
  <2>1. 1 - 1 = 0 /\ 2 - 1 = 1 /\ 3 - 1 = 2 /\ 4 - 1 = 3
    OBVIOUS
  <2>2. Cong(e[1], G(0)) /\ Cong(e[2], G(1)) /\ Cong(e[3], G(2)) /\ Cong(e[4], G(3))
    <3> HIDE DEF G
    <3> QED BY <1>9, <2>1
  <2> HIDE DEF q0, q1, q2, q3
  <2>3. /\ G(0) = q0 /\ G(1) = q0 + q1 + q2 + q3
        /\ G(2) = q0 + 2 * q1 + 4 * q2 + 8 * q3 /\ G(3) = q0 + 3 * q1 + 9 * q2 + 27 * q3
    BY <1>6
  <2> QED BY <2>2, <2>3
<1>12. RoundMessage(vp) \in Seq(Fp)
  <2> DEFINE m == 4
  <2>1. m \in 1 .. 4 /\ e \in List(Int, m)
    BY <1>9
  <2> HIDE DEF m
  <2> QED BY <1>2, <1>10, <2>1, LagrangeIs
<1>13. ASSUME NEW y \in Int
       PROVE  Cong(PolyEval(RoundMessage(vp), y), SumSeq([i \in 1 .. k |-> SumAt(p(i), n, y)]))
  <2> DEFINE s == SumSeq([i \in 1 .. k |-> SumAt(p(i), n, y)])  c == RoundMessage(vp)
  <2>1. s \in Int /\ Cong(s, G(y))
    BY <1>7
  <2>2. Cong(PolyEval(c, y), G(y))
    <3> HIDE DEF q0, q1, q2, q3
    <3> QED BY <1>2, <1>6, <1>9, <1>10, <1>11, InterpolatedFour
  <2>3. PolyEval(c, y) \in Int
    <3> HIDE DEF c
    <3>1. c \in Seq(Fp)
      BY <1>12 DEF c
    <3>2. Len(c) \in Nat /\ c \in List(Int, Len(c))
      BY <3>1, SeqIsList, ListInt
    <3> QED BY <3>2, PolyInFp
  <2> DEFINE g == G(y)
  <2>4. g \in Int
    <3> HIDE DEF q0, q1, q2, q3
    <3> QED BY <1>6
  <2> HIDE DEF s, c, g
  <2>5. Cong(PolyEval(c, y), g) /\ Cong(s, g)
    BY <2>1, <2>2 DEF g
  <2>6. Cong(PolyEval(c, y), s)
    BY <2>1, <2>3, <2>4, <2>5, CongSym, CongTrans
  <2> QED BY <2>6 DEF s, c
<1> QED
  BY <1>7, <1>12, <1>13 DEF p

VirtualTotal(vp, k, m) == SumSeq([i \in 1 .. k |-> TotalOf(vp.products[i], m)])

LEMMA VirtualParts ==
  ASSUME NEW k \in Nat, NEW m \in Nat, NEW vp, IsVirtual(vp, k, m)
  PROVE  /\ DOMAIN vp.products = 1 .. k /\ Len(vp.products) = k
         /\ \A i \in 1 .. k : vp.products[i] \in Product(m)
         /\ [i \in 1 .. k |-> TotalOf(vp.products[i], m)] \in List(Int, k)
         /\ VirtualTotal(vp, k, m) \in Fp /\ VirtualTotal(vp, k, m) \in Int
<1> DEFINE S == Product(m)  s == [i \in 1 .. k |-> TotalOf(vp.products[i], m)]
<1>1. vp.products \in List(S, k)
  BY DEF IsVirtual
<1> HIDE DEF S
<1>2. Len(vp.products) = k
  BY <1>1, ListIsSeq
<1>3. DOMAIN vp.products = 1 .. k /\ \A i \in 1 .. k : vp.products[i] \in S
  BY <1>1 DEF List
<1>4. s \in List(Int, k)
  <2>1. \A i \in 1 .. k : TotalOf(vp.products[i], m) \in Int
    BY <1>3, TotalIs DEF S
  <2> QED BY <2>1 DEF List
<1> HIDE DEF s
<1>5. SumSeq(s) \in Fp /\ SumSeq(s) \in Int
  BY <1>4, SumInFp
<1> QED
  BY <1>2, <1>3, <1>4, <1>5 DEF VirtualTotal, S, s

\* w is the polynomial vp with each product's first variable fixed.
IsFixed(w, vp, r, k) ==
  /\ w.num_variables = vp.num_variables
  /\ \A i \in 1 .. k : w.products[i] = FixProduct(vp.products[i], r)

LEMMA VpFixIs ==
  ASSUME NEW n \in Nat, NEW k \in Nat, NEW vp, IsVirtual(vp, k, 2 * n), NEW r \in Fp
  PROVE  /\ IsVirtual(VpFix(vp, r), k, n)
         /\ IsFixed(VpFix(vp, r), vp, r, k)
<1> DEFINE m == 2 * n  f == [i \in 1 .. k |-> FixProduct(vp.products[i], r)]
<1>1. m \in Nat /\ IsVirtual(vp, k, m)
  OBVIOUS
<1>2. DOMAIN vp.products = 1 .. k /\ \A i \in 1 .. k : vp.products[i] \in Product(m)
  <2> HIDE DEF m
  <2> QED BY <1>1, VirtualParts
<1>3. \A i \in 1 .. k : FixProduct(vp.products[i], r) \in Product(n)
  BY <1>2, FixProductIs
<1>4. f \in List(Product(n), k)
  BY <1>3, Zenon DEF List
<1>5. VpFix(vp, r) = [vp EXCEPT !.products = f]
  <2>1. [i \in DOMAIN vp.products |-> FixProduct(vp.products[i], r)] = f
    BY <1>2
  <2>2. VpFix(vp, r) = [vp EXCEPT !.products = [i \in DOMAIN @ |-> FixProduct(@[i], r)]]
    BY DEF VpFix
  <2>3. [vp EXCEPT !.products = [i \in DOMAIN @ |-> FixProduct(@[i], r)]]
         = [vp EXCEPT !.products = [i \in DOMAIN vp.products |-> FixProduct(vp.products[i], r)]]
    BY Zenon
  <2> QED BY <2>1, <2>2, <2>3, Zenon
<1>6. vp \in [num_variables : Nat, max_degree : {3}, products : List(Product(m), k)]
  BY <1>1 DEF IsVirtual
<1> DEFINE A == List(Product(m), k)  B == List(Product(n), k)
<1>7. vp \in [num_variables : Nat, max_degree : {3}, products : A] /\ f \in B
  BY <1>4, <1>6
<1> HIDE DEF A, B, f
<1> DEFINE w == [vp EXCEPT !.products = f]
<1>9. /\ w \in [num_variables : Nat, max_degree : {3}, products : B]
      /\ w.num_variables = vp.num_variables /\ w.products = f
  BY <1>7
<1>10. IsFixed(w, vp, r, k)
  <2>1. \A i \in 1 .. k : f[i] = FixProduct(vp.products[i], r)
    BY DEF f
  <2> HIDE DEF w
  <2> QED BY <1>9, <2>1 DEF IsFixed
<1> QED
  BY <1>5, <1>9, <1>10 DEF IsVirtual, B

\* A round keeps the sum: its message sums to what was left to sum, and at the
\* challenge it is what is left.
LEMMA RoundKeepsSum ==
  ASSUME NEW n \in Nat, NEW k \in Nat, NEW vp, IsVirtual(vp, k, 2 * n)
  PROVE  /\ RoundMessage(vp) \in Seq(Fp)
         /\ SumOverBit(RoundMessage(vp)) = VirtualTotal(vp, k, 2 * n)
         /\ \A r \in Fp : PolyEval(RoundMessage(vp), r) = VirtualTotal(VpFix(vp, r), k, n)
<1> DEFINE m == 2 * n  c == RoundMessage(vp)  z == 0  o == 1
           s(y) == [i \in 1 .. k |-> SumAt(vp.products[i], n, y)]
           t == [i \in 1 .. k |-> TotalOf(vp.products[i], m)]
<1>1. m \in Nat /\ IsVirtual(vp, k, m)
  OBVIOUS
<1>2. /\ \A i \in 1 .. k : vp.products[i] \in Product(m)
      /\ t \in List(Int, k) /\ SumSeq(t) = VirtualTotal(vp, k, m)
      /\ SumSeq(t) \in Fp /\ SumSeq(t) \in Int
  <2> HIDE DEF m
  <2> QED BY <1>1, VirtualParts DEF VirtualTotal
<1>3. /\ c \in Seq(Fp)
      /\ \A y \in Int : s(y) \in List(Int, k) /\ Cong(PolyEval(c, y), SumSeq(s(y)))
  BY RoundMessageIs
<1> HIDE DEF c
<1>4. \A y \in Int : PolyEval(c, y) \in Int /\ PolyEval(c, y) \in Fp
  <2>1. Len(c) \in Nat /\ c \in List(Int, Len(c))
    BY <1>3, SeqIsList, ListInt
  <2> QED BY <2>1, PolyInFp
<1>5. \A y \in Int : SumSeq(s(y)) \in Int /\ SumSeq(s(y)) \in Fp
  <2> HIDE DEF s
  <2> QED BY <1>3, SumInFp
<1>6. SumOverBit(c) = SumSeq(t)
  <2>1. z \in Int /\ o \in Int
    OBVIOUS
  <2>2. \A i \in 1 .. k : Cong(SumAt(vp.products[i], n, z) + SumAt(vp.products[i], n, o), TotalOf(vp.products[i], m))
    BY <1>2, SumAtBits
  <2> HIDE DEF z, o
  <2>3. \A i \in 1 .. k : /\ s(z)[i] = SumAt(vp.products[i], n, z)
                          /\ s(o)[i] = SumAt(vp.products[i], n, o)
                          /\ t[i] = TotalOf(vp.products[i], m)
    OBVIOUS
  <2>4. /\ s(z) \in List(Int, k) /\ s(o) \in List(Int, k)
        /\ \A i \in 1 .. k : s(z)[i] \in Int /\ s(o)[i] \in Int /\ t[i] \in Int
    <3> HIDE DEF s, t
    <3>1. s(z) \in List(Int, k) /\ s(o) \in List(Int, k)
      BY <1>3, <2>1
    <3> QED BY <1>2, <3>1 DEF List
  <2> HIDE DEF s, t
  <2>5. \A i \in 1 .. k : Cong(t[i], s(z)[i] + o * s(o)[i])
    <3> TAKE i \in 1 .. k
    <3>1. Cong(s(z)[i] + s(o)[i], t[i]) /\ s(z)[i] + s(o)[i] \in Int
      BY <2>2, <2>3, <2>4
    <3>2. o * s(o)[i] = s(o)[i]
      BY <2>4 DEF o
    <3> QED BY <2>4, <3>1, <3>2, CongSym
  <2>6. Cong(SumSeq(t), SumSeq(s(z)) + o * SumSeq(s(o)))
    BY <1>2, <2>1, <2>4, <2>5, SumLinear
  <2> DEFINE T == SumSeq(t)  A == SumSeq(s(z))  B == SumSeq(s(o))
             A1 == PolyEval(c, z)  B1 == PolyEval(c, o)
  <2>7. T \in Int /\ A \in Int /\ B \in Int /\ A1 \in Int /\ B1 \in Int
    BY <1>2, <1>4, <1>5, <2>1
  <2>8. Cong(T, A + B) /\ Cong(A1, A) /\ Cong(B1, B)
    <3>1. o * B = B
      BY <2>7 DEF o
    <3> QED BY <1>3, <2>1, <2>6, <3>1
  <2>9. SumOverBit(c) = (A1 + B1) % P
    BY DEF SumOverBit, z, o
  <2>10. T \in Fp
    BY <1>2
  <2> HIDE DEF T, A, B, A1, B1
  <2>11. A1 + B1 \in Int /\ A + B \in Int /\ Cong(A1 + B1, A + B)
    BY <2>7, <2>8, CongAdd
  <2>12. Cong(A1 + B1, T)
    BY <2>7, <2>8, <2>11, CongSym, CongTrans
  <2>13. (A1 + B1) % P = T % P
    BY <2>7, <2>11, <2>12, ModOfCong
  <2>14. T % P = T
    BY <2>10, ModOfFp
  <2> QED BY <2>9, <2>13, <2>14 DEF T
<1>7. ASSUME NEW r \in Fp PROVE PolyEval(c, r) = VirtualTotal(VpFix(vp, r), k, n)
  <2>1. r \in Int
    BY FpIsInt
  <2>2. VirtualTotal(VpFix(vp, r), k, n) = SumSeq(s(r))
    <3>0. IsFixed(VpFix(vp, r), vp, r, k)
      BY VpFixIs
    <3>1. \A i \in 1 .. k : TotalOf(VpFix(vp, r).products[i], n) = SumAt(vp.products[i], n, r)
      <4> TAKE i \in 1 .. k
      <4>1. VpFix(vp, r).products[i] = FixProduct(vp.products[i], r)
        BY <3>0 DEF IsFixed
      <4>2. vp.products[i] \in Product(2 * n)
        BY <1>2
      <4>3. TotalOf(FixProduct(vp.products[i], r), n) = SumAt(vp.products[i], n, r)
        BY <4>2, FixProductIs
      <4> QED BY <4>1, <4>3
    <3>2. [i \in 1 .. k |-> TotalOf(VpFix(vp, r).products[i], n)] = s(r)
      BY <3>1, Zenon
    <3> QED BY <3>2 DEF VirtualTotal
  <2>3. Cong(PolyEval(c, r), SumSeq(s(r)))
    BY <1>3, <2>1
  <2>4. PolyEval(c, r) \in Fp /\ SumSeq(s(r)) \in Fp
    BY <1>4, <1>5, <2>1
  <2>5. PolyEval(c, r) = SumSeq(s(r))
    BY <2>3, <2>4, EqOfCong
  <2> QED BY <2>2, <2>5
<1> QED
  BY <1>2, <1>3, <1>6, <1>7 DEF c, m

----------------------------------------------------------------------------
\* One more variable of the table of eq.
EqStep(y, q) ==
  Collect(2 * Len(y), LAMBDA i : (y[(i + 1) \div 2] * (IF i % 2 = 1 THEN 1 - q ELSE q)) % P)

LEMMA EqStepIs ==
  ASSUME NEW m \in Nat, NEW y \in List(Fp, m), NEW q \in Fp
  PROVE  /\ EqStep(y, q) \in List(Fp, 2 * m)
         /\ \A b \in 1 .. m : /\ Cong(EqStep(y, q)[2 * b - 1], y[b] * (1 - q))
                              /\ Cong(EqStep(y, q)[2 * b], y[b] * q)
<1> DEFINE f == [i \in 1 .. 2 * m |-> (y[(i + 1) \div 2] * (IF i % 2 = 1 THEN 1 - q ELSE q)) % P]
<1>1. 2 * m \in Nat /\ Len(y) = m /\ q \in Int /\ 1 - q \in Int
  <2>1. q \in Int
    BY FpIsInt
  <2> QED BY <2>1, ListIsSeq
<1>2. \A i \in 1 .. 2 * m : (i + 1) \div 2 \in 1 .. m
  OBVIOUS
<1>3. \A b \in 1 .. m : y[b] \in Int /\ y[b] * q \in Int /\ y[b] * (1 - q) \in Int
  <2> TAKE b \in 1 .. m
  <2>1. y[b] \in Int
    BY FpIsInt DEF List
  <2> QED BY <1>1, <2>1
<1>4. \A i \in 1 .. 2 * m : (y[(i + 1) \div 2] * (IF i % 2 = 1 THEN 1 - q ELSE q)) % P \in Fp
  <2> TAKE i \in 1 .. 2 * m
  <2>1. (y[(i + 1) \div 2] * (IF i % 2 = 1 THEN 1 - q ELSE q)) \in Int
    <3> DEFINE b == (i + 1) \div 2
    <3>1. b \in 1 .. m
      BY <1>2
    <3> HIDE DEF b
    <3>2. CASE i % 2 = 1
      BY <1>3, <3>1, <3>2 DEF b
    <3>3. CASE i % 2 # 1
      BY <1>3, <3>1, <3>3 DEF b
    <3> QED BY <3>2, <3>3
  <2> QED BY <2>1, ModInFp
<1>5. f \in [1 .. 2 * m -> Fp]
  BY <1>4, Zenon
<1>6. EqStep(y, q) = <<>> \o f
  BY <1>1 DEF EqStep, Collect
<1>7. ASSUME NEW b \in 1 .. m
      PROVE  Cong(f[2 * b - 1], y[b] * (1 - q)) /\ Cong(f[2 * b], y[b] * q)
  <2>1. /\ 2 * b - 1 \in 1 .. 2 * m /\ 2 * b \in 1 .. 2 * m
        /\ ((2 * b - 1) + 1) \div 2 = b /\ (2 * b + 1) \div 2 = b
        /\ (2 * b - 1) % 2 = 1 /\ (2 * b) % 2 # 1
    OBVIOUS
  <2>2. f[2 * b - 1] = (y[b] * (1 - q)) % P /\ f[2 * b] = (y[b] * q) % P
    BY <2>1
  <2> HIDE DEF f
  <2> QED BY <1>3, <2>2, CongOfMod
<1> HIDE DEF f
<1>8. EqStep(y, q) = f
  BY <1>1, <1>5, <1>6, CollectIs
<1> QED
  BY <1>5, <1>7, <1>8 DEF List

\* The tables of eq, from the last variable on.
EqRunOf(f, r, n) ==
  /\ f[n + 1] = <<1>> /\ BuildEqVec(r) = f[1]
  /\ \A j \in 1 .. n : f[j] = EqStep(f[j + 1], r[j])

LEMMA EqRun ==
  ASSUME NEW n \in Nat, NEW r \in List(Fp, n)
  PROVE  \E f : EqRunOf(f, r, n)
<1> DEFINE g == [j \in 1 .. n |-> [y \in Table |-> EqStep(y, r[n + 1 - j])]]
           one == <<1>>
<1>1. g \in [1 .. n -> [Table -> Table]]
  <2>1. \A j \in 1 .. n : r[n + 1 - j] \in Fp
    BY DEF List
  <2>2. \A y \in Table, q \in Fp : EqStep(y, q) \in Table
    <3> TAKE y \in Table, q \in Fp
    <3>1. Len(y) \in Nat /\ y \in List(Fp, Len(y))
      BY SeqIsList DEF Table
    <3>2. EqStep(y, q) \in List(Fp, 2 * Len(y)) /\ 2 * Len(y) \in Nat
      BY <3>1, EqStepIs
    <3> QED BY <3>2, ListIsSeq DEF Table
  <2> QED BY <2>1, <2>2
<1>2. \A y \in Table, j \in 1 .. n : g[j][y] = EqStep(y, r[n + 1 - j])
  OBVIOUS
<1>3. one \in Table
  BY ZeroOneInFp DEF Table
<1> HIDE DEF g, one
<1>4. PICK h \in [0 .. n -> Table] : h[0] = one /\ \A j \in 1 .. n : h[j] = g[j][h[j - 1]]
  <2>1. \E h \in [0 .. n -> Table] : h[0] = one /\ \A j \in 1 .. n : h[j] = g[j][h[j - 1]]
    BY <1>1, <1>3, Recursion
  <2> QED BY <2>1
<1>5. \A j \in 1 .. n : h[j] = EqStep(h[j - 1], r[n + 1 - j])
  <2>1. \A j \in 1 .. n : h[j - 1] \in Table
    OBVIOUS
  <2> QED BY <1>2, <1>4, <2>1
<1> DEFINE e == [j \in 1 .. n + 1 |-> h[n + 1 - j]]
           Rec(f) == f = [j \in 1 .. n + 1 |->
             IF j > n THEN <<1>>
             ELSE Collect(2 * Len(f[j + 1]), LAMBDA i :
               (f[j + 1][(i + 1) \div 2] * (IF i % 2 = 1 THEN 1 - r[j] ELSE r[j])) % P)]
           c == CHOOSE f : Rec(f)
<1>6. Rec(e)
  <2>1. ASSUME NEW j \in 1 .. n + 1
        PROVE  e[j] = IF j > n THEN <<1>>
                      ELSE Collect(2 * Len(e[j + 1]), LAMBDA i :
                        (e[j + 1][(i + 1) \div 2] * (IF i % 2 = 1 THEN 1 - r[j] ELSE r[j])) % P)
    <3>1. CASE j > n
      <4>1. n + 1 - j = 0 /\ e[j] = h[n + 1 - j]
        BY <3>1
      <4>2. e[j] = one
        BY <1>4, <4>1
      <4> HIDE DEF e
      <4> QED BY <3>1, <4>2 DEF one
    <3>2. CASE ~(j > n)
      <4>1. n + 1 - j \in 1 .. n /\ (n + 1 - j) - 1 = n + 1 - (j + 1) /\ n + 1 - (n + 1 - j) = j
            /\ j + 1 \in 1 .. n + 1
        BY <3>2
      <4>2. e[j] = h[n + 1 - j] /\ e[j + 1] = h[(n + 1 - j) - 1]
        BY <4>1
      <4>3. e[j] = EqStep(e[j + 1], r[j])
        BY <1>5, <4>1, <4>2
      <4> HIDE DEF e
      <4> QED BY <3>2, <4>3 DEF EqStep
    <3> QED BY <3>1, <3>2
  <2> QED BY <2>1
<1>7. BuildEqVec(r) = c[1]
  <2>1. Len(r) = n
    BY ListIsSeq
  <2> QED BY <2>1 DEF BuildEqVec
<1>8. Rec(c)
  <2> HIDE DEF Rec
  <2> QED BY <1>6
<1> HIDE DEF c
<1>9. c[n + 1] = <<1>>
  <2>1. n + 1 \in 1 .. n + 1 /\ n + 1 > n
    OBVIOUS
  <2> QED BY <1>8, <2>1
<1>10. ASSUME NEW j \in 1 .. n PROVE c[j] = EqStep(c[j + 1], r[j])
  <2>1. j \in 1 .. n + 1 /\ ~(j > n)
    OBVIOUS
  <2>2. c[j] = Collect(2 * Len(c[j + 1]), LAMBDA i :
               (c[j + 1][(i + 1) \div 2] * (IF i % 2 = 1 THEN 1 - r[j] ELSE r[j])) % P)
    BY <1>8, <2>1
  <2> QED BY <2>2 DEF EqStep
<1>11. EqRunOf(c, r, n)
  BY <1>7, <1>9, <1>10 DEF EqRunOf
<1> QED
  BY <1>11

\* Their sizes.
LEMMA EqRunTables ==
  ASSUME NEW n \in 0 .. 3, NEW r \in List(Fp, n), NEW f, EqRunOf(f, r, n)
  PROVE  \A j \in 0 .. n : f[n + 1 - j] \in List(Fp, Corners(j))
<1> DEFINE S == {j \in Nat : j <= n => f[n + 1 - j] \in List(Fp, Corners(j))}
<1>1. 0 \in S
  <2>1. f[n + 1 - 0] = <<1>>
    BY DEF EqRunOf
  <2>2. <<1>> \in List(Fp, 1) /\ Corners(0) = 1
    BY ZeroOneInFp, PowersOfTwo DEF List, Corners
  <2> QED BY <2>1, <2>2
<1>2. ASSUME NEW j \in Nat, j \in S PROVE j + 1 \in S
  <2> SUFFICES ASSUME j + 1 <= n PROVE f[n + 1 - (j + 1)] \in List(Fp, Corners(j + 1))
    OBVIOUS
  <2> DEFINE k == n + 1 - (j + 1)  m == Corners(j)
  <2>1. k \in 1 .. n /\ k + 1 = n + 1 - j /\ j + 1 \in 1 .. 3 /\ (j + 1) - 1 = j /\ j \in 0 .. 3
    OBVIOUS
  <2>2. m \in Nat /\ Corners(j + 1) = 2 * m
    BY <2>1, PowersOfTwo DEF Corners
  <2>3. f[k + 1] \in List(Fp, m)
    BY <1>2, <2>1
  <2>4. r[k] \in Fp
    BY <2>1 DEF List
  <2>5. f[k] = EqStep(f[k + 1], r[k])
    BY <2>1 DEF EqRunOf
  <2> HIDE DEF k, m
  <2>6. f[k] \in List(Fp, 2 * m)
    BY <2>2, <2>3, <2>4, <2>5, EqStepIs
  <2> QED BY <2>2, <2>6 DEF k
<1> HIDE DEF S
<1>3. \A j \in Nat : j \in S
  BY <1>1, <1>2, SetInduction
<1> QED
  BY <1>3 DEF S

\* Fixing a variable of a table, entry by entry.
LEMMA FixedTable ==
  ASSUME NEW m \in Nat, NEW t \in List(Fp, 2 * m), NEW q \in Fp
  PROVE  /\ FixVariable(t, q) \in List(Fp, m)
         /\ \A b \in 1 .. m :
              /\ t[2 * b - 1] \in Fp /\ t[2 * b] \in Fp /\ FixVariable(t, q)[b] \in Int
              /\ FixVariable(t, q)[b] = Rlc(t[2 * b - 1], q, t[2 * b] - t[2 * b - 1])
              /\ Cong(FixVariable(t, q)[b], t[2 * b - 1] + q * (t[2 * b] - t[2 * b - 1]))
<1>1. t \in Seq(Fp) /\ Len(t) = 2 * m
  <2>1. 2 * m \in Nat
    OBVIOUS
  <2> QED BY <2>1, ListIsSeq
<1>2. Len(t) \div 2 = m
  BY <1>1
<1>3. /\ FixVariable(t, q) \in Seq(Fp) /\ Len(FixVariable(t, q)) = m
      /\ \A b \in 1 .. m : FixVariable(t, q)[b] = Rlc(t[2 * b - 1], q, t[2 * b] - t[2 * b - 1])
  BY <1>1, <1>2, FixVariableIs, Zenon
<1>4. FixVariable(t, q) \in List(Fp, m)
  BY <1>3, SeqIsList, Zenon
<1>5. ASSUME NEW b \in 1 .. m
      PROVE  /\ t[2 * b - 1] \in Fp /\ t[2 * b] \in Fp /\ FixVariable(t, q)[b] \in Int
             /\ Cong(FixVariable(t, q)[b], t[2 * b - 1] + q * (t[2 * b] - t[2 * b - 1]))
  <2>1. 2 * b - 1 \in 1 .. 2 * m /\ 2 * b \in 1 .. 2 * m
    OBVIOUS
  <2>2. t[2 * b - 1] \in Fp /\ t[2 * b] \in Fp
    BY <2>1 DEF List
  <2> DEFINE u == t[2 * b - 1]  v == t[2 * b]
  <2>3. u \in Int /\ v \in Int /\ q \in Int
    BY <2>2, FpIsInt
  <2> HIDE DEF u, v
  <2>4. v - u \in Int
    BY <2>3
  <2>5. Rlc(u, q, v - u) \in Int /\ Cong(Rlc(u, q, v - u), u + q * (v - u))
    BY <2>3, <2>4, RlcInt
  <2> QED BY <1>3, <2>2, <2>5 DEF u, v
<1> QED
  BY <1>3, <1>4, <1>5

\* A variable of a table summed against eq: it takes the value that eq is for.
LEMMA EqSumStep ==
  ASSUME NEW m \in Nat, NEW x \in List(Fp, 2 * m), NEW y \in List(Fp, m), NEW q \in Fp
  PROVE  /\ [i \in 1 .. 2 * m |-> x[i] * EqStep(y, q)[i]] \in List(Int, 2 * m)
         /\ [i \in 1 .. m |-> FixVariable(x, q)[i] * y[i]] \in List(Int, m)
         /\ Cong(SumSeq([i \in 1 .. 2 * m |-> x[i] * EqStep(y, q)[i]]),
                 SumSeq([i \in 1 .. m |-> FixVariable(x, q)[i] * y[i]]))
<1> DEFINE e == EqStep(y, q)  w == FixVariable(x, q)
           a == [i \in 1 .. 2 * m |-> x[i] * e[i]]  b == [i \in 1 .. m |-> w[i] * y[i]]
<1>1. e \in List(Fp, 2 * m)
      /\ \A k \in 1 .. m : Cong(e[2 * k - 1], y[k] * (1 - q)) /\ Cong(e[2 * k], y[k] * q)
  BY EqStepIs
<1>2. w \in List(Fp, m)
      /\ \A k \in 1 .. m : w[k] \in Int /\ Cong(w[k], x[2 * k - 1] + q * (x[2 * k] - x[2 * k - 1]))
  BY FixedTable
<1> HIDE DEF e, w
<1>3. \A i \in 1 .. 2 * m : x[i] \in Int /\ e[i] \in Int
  BY <1>1, FpIsInt DEF List
<1>4. \A i \in 1 .. m : w[i] \in Int /\ y[i] \in Int
  BY <1>2, FpIsInt DEF List
<1>5. a \in List(Int, 2 * m)
  <2>1. \A i \in 1 .. 2 * m : x[i] * e[i] \in Int
    BY <1>3
  <2> QED BY <2>1, Zenon DEF List
<1>6. b \in List(Int, m)
  <2>1. \A i \in 1 .. m : w[i] * y[i] \in Int
    BY <1>4
  <2> QED BY <2>1, Zenon DEF List
<1>7. ASSUME NEW k \in 1 .. m PROVE Cong(b[k], a[2 * k - 1] + a[2 * k])
  <2>1. 2 * k - 1 \in 1 .. 2 * m /\ 2 * k \in 1 .. 2 * m
    OBVIOUS
  <2> DEFINE u == x[2 * k - 1]  v == x[2 * k]  f == e[2 * k - 1]  g == e[2 * k]
             z == w[k]  p == y[k]
  <2>2. /\ u \in Int /\ v \in Int /\ f \in Int /\ g \in Int /\ z \in Int /\ p \in Int /\ q \in Int
    BY <1>3, <1>4, <2>1, FpIsInt
  <2>3. a[2 * k - 1] = u * f /\ a[2 * k] = v * g /\ b[k] = z * p
    BY <2>1
  <2>4. Cong(f, p * (1 - q)) /\ Cong(g, p * q) /\ Cong(z, u + q * (v - u))
    BY <1>1, <1>2
  <2> HIDE DEF u, v, f, g, z, p
  <2>5. PICK i \in Int : f = p * (1 - q) + i * P
    BY <2>4 DEF Cong
  <2>6. PICK j \in Int : g = p * q + j * P
    BY <2>4 DEF Cong
  <2>7. PICK l \in Int : z = u + q * (v - u) + l * P
    BY <2>4 DEF Cong
  <2>8. z * p = u * f + v * g + (l * p - u * i - v * j) * P
    <3>1. u * f = u * p - u * p * q + u * i * P
      BY <2>2, <2>5, PAssumption
    <3>2. v * g = v * p * q + v * j * P
      BY <2>2, <2>6, PAssumption
    <3>3. z * p = u * p + q * v * p - q * u * p + l * p * P
      BY <2>2, <2>7, PAssumption
    <3> QED BY <2>2, <3>1, <3>2, <3>3, PAssumption
  <2>9. l * p - u * i - v * j \in Int
    BY <2>2
  <2> QED BY <2>3, <2>8, <2>9 DEF Cong
<1> HIDE DEF a, b
<1>8. Cong(SumSeq(a), SumSeq(b))
  BY <1>5, <1>6, <1>7, SumPairs
<1> QED
  BY <1>5, <1>6, <1>8 DEF a, b, e, w

\* Fixing a variable of a multiple of eq.
LEMMA EqFixStep ==
  ASSUME NEW m \in Nat, NEW y \in List(Fp, m), NEW q \in Fp, NEW x \in Fp, NEW c \in Int,
         NEW z \in List(Fp, 2 * m), \A i \in 1 .. 2 * m : Cong(z[i], c * EqStep(y, q)[i])
  PROVE  \A i \in 1 .. m :
           Cong(FixVariable(z, x)[i], (c * (2 * q * x - q - x + 1)) * y[i])
<1> DEFINE e == EqStep(y, q)  w == FixVariable(z, x)
<1>1. e \in List(Fp, 2 * m)
      /\ \A k \in 1 .. m : Cong(e[2 * k - 1], y[k] * (1 - q)) /\ Cong(e[2 * k], y[k] * q)
  BY EqStepIs
<1>2. \A k \in 1 .. m : /\ z[2 * k - 1] \in Fp /\ z[2 * k] \in Fp /\ w[k] \in Int
                        /\ Cong(w[k], z[2 * k - 1] + x * (z[2 * k] - z[2 * k - 1]))
  BY FixedTable
<1>3. \A i \in 1 .. 2 * m : e[i] \in Int /\ Cong(z[i], c * e[i])
  BY <1>1, FpIsInt DEF List
<1> HIDE DEF e, w
<1> TAKE k \in 1 .. m
<1>4. 2 * k - 1 \in 1 .. 2 * m /\ 2 * k \in 1 .. 2 * m
  OBVIOUS
<1> DEFINE u == z[2 * k - 1]  v == z[2 * k]  f == e[2 * k - 1]  g == e[2 * k]
           t == w[k]  p == y[k]
<1>5. /\ u \in Int /\ v \in Int /\ f \in Int /\ g \in Int /\ t \in Int /\ q \in Int /\ x \in Int
  BY <1>2, <1>3, <1>4, FpIsInt
<1>6. p \in Int
  BY FpIsInt DEF List
<1>7. /\ Cong(f, p * (1 - q)) /\ Cong(g, p * q) /\ Cong(t, u + x * (v - u))
      /\ Cong(u, c * f) /\ Cong(v, c * g)
  BY <1>1, <1>2, <1>3, <1>4
<1> HIDE DEF u, v, f, g, t, p
<1>8. Cong(u, c * (p * (1 - q)))
  <2>1. c * f \in Int /\ p * (1 - q) \in Int /\ c * (p * (1 - q)) \in Int
    BY <1>5, <1>6
  <2>2. Cong(c * f, c * (p * (1 - q)))
    BY <1>5, <1>7, <2>1, CongRefl, CongMul
  <2> QED BY <1>5, <1>7, <2>1, <2>2, CongTrans
<1>9. Cong(v, c * (p * q))
  <2>1. c * g \in Int /\ p * q \in Int /\ c * (p * q) \in Int
    BY <1>5, <1>6
  <2>2. Cong(c * g, c * (p * q))
    BY <1>5, <1>7, <2>1, CongRefl, CongMul
  <2> QED BY <1>5, <1>7, <2>1, <2>2, CongTrans
<1>10. PICK i \in Int : u = c * (p * (1 - q)) + i * P
  BY <1>8 DEF Cong
<1>11. PICK j \in Int : v = c * (p * q) + j * P
  BY <1>9 DEF Cong
<1>12. PICK l \in Int : t = u + x * (v - u) + l * P
  BY <1>7 DEF Cong
<1>13. t = (c * (2 * q * x - q - x + 1)) * p + (i + x * (j - i) + l) * P
  <2> DEFINE d == c * p
  <2>1. d \in Int
    BY <1>6
  <2>2. (c * (2 * q * x - q - x + 1)) * p = d * (2 * q * x - q - x + 1)
    BY <1>5, <1>6
  <2>3. u = d * (1 - q) + i * P
    BY <1>5, <1>6, <1>10
  <2>4. v = d * q + j * P
    BY <1>5, <1>6, <1>11
  <2> HIDE DEF d
  <2>5. u = d - d * q + i * P
    BY <1>5, <2>1, <2>3, PAssumption
  <2>6. x * (v - u) = 2 * (x * d * q) - x * d + x * (j - i) * P
    BY <1>5, <2>1, <2>4, <2>5, PAssumption
  <2>7. d * (2 * q * x - q - x + 1) = 2 * (x * d * q) - d * q - x * d + d
    BY <1>5, <2>1
  <2> QED BY <1>5, <1>12, <2>1, <2>2, <2>5, <2>6, <2>7, PAssumption
<1> QED
  BY <1>5, <1>13 DEF Cong, t, p, w

LEMMA CornersIs ==
  /\ Corners(0) = 1 /\ \A n \in 0 .. 3 : Corners(n) \in Nat
  /\ \A n \in 1 .. 3 : Corners(n) = 2 * Corners(n - 1)
BY PowersOfTwo DEF Corners

\* The tables of an evaluation.
MleRunOf(f, t, n, point) ==
  /\ f[0] = t /\ (\A j \in 1 .. n : f[j] = FixVariable(f[j - 1], point[j]))
  /\ MleEvaluate(t, point) = f[n][1]

LEMMA MleRunTables ==
  ASSUME NEW n \in 0 .. 3, NEW k \in 0 .. 3, n <= k, NEW t \in List(Fp, Corners(k)),
         NEW point \in List(Fp, n), NEW f, MleRunOf(f, t, n, point)
  PROVE  \A j \in 0 .. n : f[j] \in List(Fp, Corners(k - j))
<1> DEFINE S == {j \in Nat : j <= n => f[j] \in List(Fp, Corners(k - j))}
<1>1. 0 \in S
  <2>1. f[0] = t /\ k - 0 = k
    BY DEF MleRunOf
  <2> QED BY <2>1
<1>2. ASSUME NEW j \in Nat, j \in S PROVE j + 1 \in S
  <2> SUFFICES ASSUME j + 1 <= n PROVE f[j + 1] \in List(Fp, Corners(k - (j + 1)))
    OBVIOUS
  <2> DEFINE m == Corners(k - (j + 1))
  <2>1. /\ j + 1 \in 1 .. n /\ (j + 1) - 1 = j /\ j <= n /\ k - j \in 1 .. 3
        /\ k - (j + 1) \in 0 .. 3 /\ (k - j) - 1 = k - (j + 1)
    OBVIOUS
  <2>2. m \in Nat /\ Corners(k - j) = 2 * m
    BY <2>1, PowersOfTwo DEF Corners
  <2>3. f[j] \in List(Fp, 2 * m)
    BY <1>2, <2>1, <2>2
  <2>4. point[j + 1] \in Fp
    BY <2>1 DEF List
  <2>5. f[j + 1] = FixVariable(f[j], point[j + 1])
    BY <2>1 DEF MleRunOf
  <2> HIDE DEF m
  <2>6. f[j + 1] \in List(Fp, m)
    BY <2>2, <2>3, <2>4, <2>5, FixedTable
  <2> QED BY <2>6 DEF m
<1> HIDE DEF S
<1>3. \A j \in Nat : j \in S
  BY <1>1, <1>2, SetInduction
<1> QED
  BY <1>3 DEF S

LEMMA MleRunExists ==
  ASSUME NEW n \in Nat, NEW m \in Nat, NEW t \in List(Fp, m), NEW point \in List(Fp, n)
  PROVE  \E f : MleRunOf(f, t, n, point)
<1>1. t \in Table
  BY ListIsSeq DEF Table
<1>2. \E f \in [0 .. n -> Table] :
        /\ f[0] = t /\ (\A j \in 1 .. n : f[j] = FixVariable(f[j - 1], point[j]))
        /\ MleEvaluate(t, point) = f[n][1]
  BY <1>1, MleRun
<1>3. PICK f : /\ f[0] = t /\ (\A j \in 1 .. n : f[j] = FixVariable(f[j - 1], point[j]))
               /\ MleEvaluate(t, point) = f[n][1]
  BY <1>2, Zenon
<1>4. MleRunOf(f, t, n, point)
  BY <1>3 DEF MleRunOf
<1> QED
  BY <1>4

LEMMA MleInFp ==
  ASSUME NEW n \in 0 .. 3, NEW t \in List(Fp, Corners(n)), NEW point \in List(Fp, n)
  PROVE  MleEvaluate(t, point) \in Fp /\ MleEvaluate(t, point) \in Int
<1>1. Corners(n) \in Nat /\ Corners(0) = 1 /\ n - n = 0 /\ n \in Nat /\ n <= n /\ n \in 0 .. n
  BY CornersIs
<1>2. PICK f : MleRunOf(f, t, n, point)
  BY <1>1, MleRunExists
<1>3. f[n] \in List(Fp, 1)
  <2>1. f[n] \in List(Fp, Corners(n - n))
    BY <1>1, <1>2, MleRunTables
  <2> QED BY <1>1, <2>1
<1>4. f[n][1] \in Fp
  BY <1>3 DEF List
<1> QED
  BY <1>2, <1>4, FpIsInt DEF MleRunOf

\* A table summed against eq is its value there.
LEMMA EqSum ==
  ASSUME NEW n \in 0 .. 3, NEW r \in List(Fp, n), NEW t \in List(Fp, Corners(n))
  PROVE  /\ BuildEqVec(r) \in List(Fp, Corners(n))
         /\ [i \in 1 .. Corners(n) |-> t[i] * BuildEqVec(r)[i]] \in List(Int, Corners(n))
         /\ Cong(SumSeq([i \in 1 .. Corners(n) |-> t[i] * BuildEqVec(r)[i]]), MleEvaluate(t, r))
<1>0. Corners(n) \in Nat /\ Corners(0) = 1 /\ n - n = 0 /\ n - 0 = n /\ n \in Nat /\ n <= n
      /\ n + 1 - n = 1
  BY CornersIs
<1>1. PICK h : MleRunOf(h, t, n, r)
  BY <1>0, MleRunExists
<1>2. PICK f : EqRunOf(f, r, n)
  BY <1>0, EqRun
<1>3. \A j \in 0 .. n : h[j] \in List(Fp, Corners(n - j)) /\ f[j + 1] \in List(Fp, Corners(n - j))
  <2> TAKE j \in 0 .. n
  <2>1. n - j \in 0 .. n /\ n + 1 - (n - j) = j + 1
    OBVIOUS
  <2>2. f[n + 1 - (n - j)] \in List(Fp, Corners(n - j))
    BY <1>2, <2>1, EqRunTables
  <2>3. h[j] \in List(Fp, Corners(n - j))
    BY <1>0, <1>1, MleRunTables
  <2> QED BY <2>1, <2>2, <2>3
<1> DEFINE s(j) == [i \in 1 .. Corners(n - j) |-> h[j][i] * f[j + 1][i]]
<1>4. s(0) = [i \in 1 .. Corners(n) |-> t[i] * BuildEqVec(r)[i]] /\ BuildEqVec(r) = f[0 + 1]
  <2>1. h[0] = t /\ f[1] = BuildEqVec(r) /\ 0 + 1 = 1
    BY <1>1, <1>2 DEF MleRunOf, EqRunOf
  <2> QED BY <1>0, <2>1
<1>5. \A j \in 0 .. n : s(j) \in List(Int, Corners(n - j)) /\ SumSeq(s(j)) \in Int
  <2> TAKE j \in 0 .. n
  <2>1. \A i \in 1 .. Corners(n - j) : h[j][i] * f[j + 1][i] \in Int
    <3> TAKE i \in 1 .. Corners(n - j)
    <3>1. h[j][i] \in Fp /\ f[j + 1][i] \in Fp
      BY <1>3 DEF List
    <3> DEFINE u == h[j][i]  v == f[j + 1][i]
    <3>2. u \in Int /\ v \in Int
      BY <3>1, FpIsInt
    <3> HIDE DEF u, v
    <3>3. u * v \in Int
      BY <3>2
    <3> QED BY <3>3 DEF u, v
  <2>2. s(j) \in List(Int, Corners(n - j))
    BY <2>1, Zenon DEF List
  <2>3. Corners(n - j) \in Nat
    <3>1. n - j \in 0 .. 3
      OBVIOUS
    <3> QED BY <3>1, CornersIs
  <2> HIDE DEF s
  <2> QED BY <2>2, <2>3, SumInFp
<1>6. ASSUME NEW j \in 1 .. n PROVE Cong(SumSeq(s(j - 1)), SumSeq(s(j)))
  <2> DEFINE m == Corners(n - j)  x == h[j - 1]  y == f[j + 1]  q == r[j]
  <2>1. /\ j - 1 \in 0 .. n /\ j \in 0 .. n /\ n - (j - 1) \in 1 .. 3 /\ n - j \in 0 .. 3
        /\ (n - (j - 1)) - 1 = n - j /\ (j - 1) + 1 = j
    OBVIOUS
  <2>2. m \in Nat /\ Corners(n - (j - 1)) = 2 * m
    BY <2>1, PowersOfTwo DEF Corners
  <2>3. x \in List(Fp, 2 * m) /\ y \in List(Fp, m)
    BY <1>3, <2>1, <2>2
  <2>4. q \in Fp
    BY DEF List
  <2>5. h[j] = FixVariable(x, q) /\ f[j] = EqStep(y, q)
    BY <1>1, <1>2 DEF MleRunOf, EqRunOf
  <2>6. /\ s(j - 1) = [i \in 1 .. 2 * m |-> x[i] * EqStep(y, q)[i]]
        /\ s(j) = [i \in 1 .. m |-> FixVariable(x, q)[i] * y[i]]
    BY <2>1, <2>2, <2>5
  <2> HIDE DEF m, x, y, q, s
  <2> QED BY <2>2, <2>3, <2>4, <2>6, EqSumStep
<1>7. \A j \in 0 .. n : Cong(SumSeq(s(0)), SumSeq(s(j)))
  <2> DEFINE S == {j \in Nat : j <= n => Cong(SumSeq(s(0)), SumSeq(s(j)))}
  <2> HIDE DEF s
  <2>1. 0 \in S
    BY <1>5, CongRefl
  <2>2. ASSUME NEW j \in Nat, j \in S PROVE j + 1 \in S
    <3> SUFFICES ASSUME j + 1 <= n PROVE Cong(SumSeq(s(0)), SumSeq(s(j + 1)))
      OBVIOUS
    <3>1. j + 1 \in 1 .. n /\ (j + 1) - 1 = j /\ j \in 0 .. n /\ j + 1 \in 0 .. n /\ 0 \in 0 .. n
      OBVIOUS
    <3>2. Cong(SumSeq(s(j)), SumSeq(s(j + 1)))
      BY <1>6, <3>1
    <3>3. Cong(SumSeq(s(0)), SumSeq(s(j)))
      BY <2>2, <3>1
    <3> QED BY <1>5, <3>1, <3>2, <3>3, CongTrans
  <2> HIDE DEF S
  <2>3. \A j \in Nat : j \in S
    BY <2>1, <2>2, SetInduction
  <2> QED BY <2>3 DEF S
<1>8. Cong(SumSeq(s(n)), MleEvaluate(t, r)) /\ MleEvaluate(t, r) \in Int
  <2>1. f[n + 1] = <<1>> /\ MleEvaluate(t, r) = h[n][1]
    BY <1>1, <1>2 DEF MleRunOf, EqRunOf
  <2>2. n \in 0 .. n
    OBVIOUS
  <2>3. s(n) \in List(Int, 1)
    BY <1>0, <1>5, <2>2
  <2>4. MleEvaluate(t, r) \in Int
    BY MleInFp
  <2>5. s(n)[1] = MleEvaluate(t, r)
    <3>1. s(n)[1] = h[n][1] * f[n + 1][1]
      BY <1>0
    <3>2. f[n + 1][1] = 1
      BY <2>1
    <3> DEFINE v == MleEvaluate(t, r)
    <3>3. s(n)[1] = v * 1
      BY <2>1, <3>1, <3>2
    <3> HIDE DEF v, s
    <3> QED BY <2>4, <3>3 DEF v
  <2> HIDE DEF s
  <2> QED BY <2>3, <2>4, <2>5, SumOfOne
<1>9. BuildEqVec(r) \in List(Fp, Corners(n))
  <2>1. 0 \in 0 .. n
    OBVIOUS
  <2> QED BY <1>0, <1>3, <1>4, <2>1
<1> HIDE DEF s
<1>10. 0 \in 0 .. n /\ n \in 0 .. n
  OBVIOUS
<1>11. Cong(SumSeq(s(0)), MleEvaluate(t, r)) /\ s(0) \in List(Int, Corners(n))
  BY <1>0, <1>5, <1>7, <1>8, <1>10, CongTrans
<1> QED
  BY <1>4, <1>9, <1>11

\* The table of eq is eq.
LEMMA EqAt ==
  ASSUME NEW n \in 0 .. 3, NEW r \in List(Fp, n), NEW x \in List(Fp, n)
  PROVE  /\ EqEval(r, x) \in Fp /\ EqEval(r, x) \in Int
         /\ MleEvaluate(BuildEqVec(r), x) = EqEval(r, x)
<1>0. Corners(n) \in Nat /\ Corners(0) = 1 /\ n - n = 0 /\ n - 0 = n /\ n \in Nat /\ n <= n
      /\ n + 1 - n = 1
  BY CornersIs
<1>1. PICK f : EqRunOf(f, r, n)
  BY <1>0, EqRun
<1>2. \A j \in 0 .. n : f[j + 1] \in List(Fp, Corners(n - j))
  <2> TAKE j \in 0 .. n
  <2>1. n - j \in 0 .. n /\ n + 1 - (n - j) = j + 1
    OBVIOUS
  <2>2. f[n + 1 - (n - j)] \in List(Fp, Corners(n - j))
    BY <1>1, <2>1, EqRunTables
  <2> QED BY <2>1, <2>2
<1>3. BuildEqVec(r) = f[0 + 1] /\ BuildEqVec(r) \in List(Fp, Corners(n))
  <2>1. f[1] = BuildEqVec(r) /\ 0 + 1 = 1 /\ 0 \in 0 .. n
    BY <1>1 DEF EqRunOf
  <2> QED BY <1>0, <1>2, <2>1
<1>4. PICK h : MleRunOf(h, BuildEqVec(r), n, x)
  BY <1>0, <1>3, MleRunExists
<1>5. \A j \in 0 .. n : h[j] \in List(Fp, Corners(n - j))
  BY <1>0, <1>3, <1>4, MleRunTables
<1> DEFINE s == [j \in 1 .. n |-> (2 * r[j] * x[j] - r[j] - x[j] + 1) % P]
<1>6. \A j \in 1 .. n : r[j] \in Fp /\ x[j] \in Fp /\ r[j] \in Int /\ x[j] \in Int
  BY FpIsInt DEF List
<1>7. \A j \in 1 .. n : (2 * r[j] * x[j] - r[j] - x[j] + 1) \in Int
  <2> TAKE j \in 1 .. n
  <2> DEFINE u == r[j]  v == x[j]
  <2>1. u \in Int /\ v \in Int
    BY <1>6
  <2> HIDE DEF u, v
  <2>2. 2 * u * v - u - v + 1 \in Int
    BY <2>1
  <2> QED BY <2>2 DEF u, v
<1>8. \A j \in 1 .. n : (2 * r[j] * x[j] - r[j] - x[j] + 1) % P \in Fp
  BY <1>7, ModInFp
<1>9. s \in [1 .. n -> Fp]
  BY <1>8, Zenon
<1>10. s \in List(Int, n) /\ EqEval(r, x) = ProdSeq(s)
  <2>1. EqEval(r, x) = ProdSeq(<<>> \o s)
    <3>1. Len(r) = n
      BY ListIsSeq
    <3> QED BY <3>1 DEF EqEval, Collect
  <2>2. s \in List(Fp, n)
    BY <1>9, Zenon DEF List
  <2> HIDE DEF s
  <2> QED BY <1>0, <1>9, <2>1, <2>2, ListInt, CollectIs
<1>11. \A j \in 1 .. n : s[j] = (2 * r[j] * x[j] - r[j] - x[j] + 1) % P
  OBVIOUS
<1> HIDE DEF s
<1>12. PICK p \in [0 .. n -> Fp] :
         p[0] = 1 /\ (\A j \in 1 .. n : p[j] = (p[j - 1] * s[j]) % P) /\ ProdSeq(s) = p[n]
  BY <1>0, <1>10, ProdSeqRun
<1> DEFINE S == {j \in Nat : j <= n =>
                   \A i \in 1 .. Corners(n - j) : Cong(h[j][i], p[j] * f[j + 1][i])}
<1>13. 0 \in S
  <2>1. h[0] = f[0 + 1] /\ p[0] = 1 /\ 0 \in 0 .. n
    BY <1>3, <1>4, <1>12 DEF MleRunOf
  <2>2. \A i \in 1 .. Corners(n - 0) : Cong(h[0][i], p[0] * f[0 + 1][i])
    <3> TAKE i \in 1 .. Corners(n - 0)
    <3> DEFINE v == f[0 + 1][i]
    <3>1. v \in Fp
      BY <1>2, <2>1 DEF List
    <3>2. v \in Int /\ h[0][i] = v /\ p[0] = 1
      BY <2>1, <3>1, FpIsInt
    <3> HIDE DEF v
    <3>3. Cong(h[0][i], p[0] * v)
      BY <3>2, CongRefl
    <3> QED BY <3>3 DEF v
  <2> QED BY <2>2
<1>14. ASSUME NEW j \in Nat, j \in S PROVE j + 1 \in S
  <2> SUFFICES ASSUME j + 1 <= n
               PROVE  \A i \in 1 .. Corners(n - (j + 1)) :
                        Cong(h[j + 1][i], p[j + 1] * f[(j + 1) + 1][i])
    OBVIOUS
  <2> DEFINE k == j + 1  m == Corners(n - k)  y == f[k + 1]  q == r[k]  v == x[k]
             e == 2 * q * v - q - v + 1
  <2>1. /\ k \in 1 .. n /\ k \in 0 .. n /\ k - 1 = j /\ j \in 0 .. n /\ n - j \in 1 .. 3
        /\ n - k \in 0 .. 3 /\ (n - j) - 1 = n - k
    OBVIOUS
  <2>2. m \in Nat /\ Corners(n - j) = 2 * m
    BY <2>1, CornersIs
  <2>3. y \in List(Fp, m) /\ h[j] \in List(Fp, 2 * m) /\ h[k] \in List(Fp, m)
    BY <1>2, <1>5, <2>1, <2>2
  <2>4. q \in Fp /\ v \in Fp
    BY <1>6, <2>1
  <2>5. p[j] \in Int /\ p[k] \in Int
    BY <1>12, <2>1, FpIsInt
  <2>6. f[k] = EqStep(y, q) /\ h[k] = FixVariable(h[j], v)
    BY <1>1, <1>4, <2>1 DEF EqRunOf, MleRunOf
  <2>7. \A i \in 1 .. 2 * m : Cong(h[j][i], p[j] * EqStep(y, q)[i])
    BY <1>14, <2>1, <2>2, <2>6
  <2>8. e \in Int /\ p[k] = (p[j] * s[k]) % P /\ s[k] = e % P
    BY <1>7, <1>11, <1>12, <2>1
  <2> HIDE DEF k, m, y, q, v, S
  <2>9. \A i \in 1 .. m : Cong(FixVariable(h[j], v)[i], (p[j] * (2 * q * v - q - v + 1)) * y[i])
    BY <2>2, <2>3, <2>4, <2>5, <2>7, EqFixStep
  <2> HIDE DEF e
  <2>10. Cong(p[k], p[j] * e)
    <3>1. s[k] \in Int /\ Cong(s[k], e) /\ p[j] * e \in Int
      BY <2>5, <2>8, CongOfMod, ModInFp, FpIsInt
    <3>2. p[j] * s[k] \in Int /\ Cong(p[j] * s[k], p[j] * e)
      <4> DEFINE a == p[j]  b == s[k]
      <4>1. a \in Int /\ b \in Int /\ e \in Int /\ Cong(b, e)
        BY <2>5, <2>8, <3>1
      <4> HIDE DEF a, b
      <4>2. Cong(a, a)
        BY <4>1, CongRefl
      <4>3. a * b \in Int /\ Cong(a * b, a * e)
        BY <4>1, <4>2, CongMul
      <4> QED BY <4>3 DEF a, b
    <3>3. Cong(p[k], p[j] * s[k])
      BY <2>8, <3>2, CongOfMod
    <3> QED BY <2>5, <3>1, <3>2, <3>3, CongTrans
  <2>11. ASSUME NEW i \in 1 .. m PROVE Cong(h[k][i], p[k] * y[i])
    <3> DEFINE w == y[i]  z == h[k][i]
    <3>1. w \in Int /\ z \in Int
      BY <2>3, FpIsInt DEF List
    <3>2. Cong(z, (p[j] * e) * w)
      BY <2>6, <2>9 DEF e
    <3> HIDE DEF w, z
    <3>3. p[j] * e \in Int /\ (p[j] * e) * w \in Int /\ p[k] * w \in Int
      BY <2>5, <2>8, <3>1
    <3>4. Cong((p[j] * e) * w, p[k] * w)
      BY <2>5, <2>10, <3>1, <3>3, CongMul, CongRefl, CongSym
    <3>5. Cong(z, p[k] * w)
      BY <3>1, <3>2, <3>3, <3>4, CongTrans
    <3> QED BY <3>5 DEF w, z
  <2> QED BY <2>11 DEF k, m, y
<1> HIDE DEF S
<1>15. \A j \in Nat : j \in S
  BY <1>13, <1>14, SetInduction
<1>16. Cong(h[n][1], p[n] * f[n + 1][1])
  <2>1. \A i \in 1 .. Corners(n - n) : Cong(h[n][i], p[n] * f[n + 1][i])
    BY <1>0, <1>15 DEF S
  <2> QED BY <1>0, <2>1
<1>17. MleEvaluate(BuildEqVec(r), x) \in Fp /\ MleEvaluate(BuildEqVec(r), x) = h[n][1]
  BY <1>3, <1>4, MleInFp DEF MleRunOf
<1>18. p[n] \in Fp /\ p[n] \in Int /\ EqEval(r, x) = p[n]
  BY <1>0, <1>10, <1>12, FpIsInt
<1>19. f[n + 1][1] = 1
  BY <1>1 DEF EqRunOf
<1>20. p[n] * f[n + 1][1] = p[n]
  BY <1>18, <1>19
<1>21. Cong(h[n][1], p[n]) /\ h[n][1] \in Fp
  BY <1>16, <1>17, <1>20
<1> QED
  BY <1>17, <1>18, <1>21, EqOfCong

----------------------------------------------------------------------------
\* The products of compute_g.

LEMMA PowInFp ==
  ASSUME NEW a \in Fp, NEW n \in 0 .. 7
  PROVE  Pow(a, n) \in Fp /\ Pow(a, n) \in Int
<1> DEFINE e == Powers(a)
<1>1. /\ e[0] = 1 /\ e[1] = (e[0] * a) % P /\ e[2] = Sq(e[1]) /\ e[3] = (e[2] * a) % P
      /\ e[4] = Sq(e[2]) /\ e[5] = (e[4] * a) % P /\ e[6] = Sq(e[3]) /\ e[7] = (e[6] * a) % P
  BY PowersSteps
<1>2. Pow(a, n) = e[n]
  BY PowIs
<1> HIDE DEF e
<1>3. \A x \in Fp : (x * a) % P \in Fp /\ Sq(x) \in Fp
  <2> TAKE x \in Fp
  <2>1. x \in Int /\ a \in Int
    BY FpIsInt
  <2>2. x * a \in Int /\ x * x \in Int
    BY <2>1
  <2> QED BY <2>2, ModInFp DEF Sq
<1>4. e[0] \in Fp /\ e[1] \in Fp /\ e[2] \in Fp /\ e[3] \in Fp
  BY <1>1, <1>3, ZeroOneInFp
<1>5. e[4] \in Fp /\ e[5] \in Fp /\ e[6] \in Fp /\ e[7] \in Fp
  BY <1>1, <1>3, <1>4
<1>6. n = 0 \/ n = 1 \/ n = 2 \/ n = 3 \/ n = 4 \/ n = 5 \/ n = 6 \/ n = 7
  OBVIOUS
<1>7. e[n] \in Fp
  BY <1>4, <1>5, <1>6
<1> QED
  BY <1>2, <1>7, FpIsInt

\* A virtual polynomial of the first n of the products L.
Built(s, d, L, n) == [num_variables |-> s, max_degree |-> d, products |-> Prefix(L, n)]

LEMMA AddProduct ==
  ASSUME NEW S, NEW K \in Nat, NEW L \in List(S, K), NEW n \in Nat, n + 1 <= K,
         NEW s, NEW d, NEW c, NEW mles, L[n + 1] = [c |-> c, mles |-> mles]
  PROVE  AddMleList(Built(s, d, L, n), mles, c)
           = Built(s, IF Len(mles) > d THEN Len(mles) ELSE d, L, n + 1)
<1> DEFINE p == L[n + 1]  q == Prefix(L, n)  e == IF Len(mles) > d THEN Len(mles) ELSE d
<1>1. q \in List(S, n)
  BY PrefixIs
<1>2. p \in S
  BY DEF List
<1>3. q \in Seq(S) /\ Len(q) = n
  BY <1>1, ListIsSeq
<1>4. Append(q, p) = Prefix(L, n + 1)
  <2> DEFINE a == Append(q, p)
  <2>1. /\ a \in Seq(S) /\ Len(a) = n + 1
        /\ \A i \in 1 .. n : a[i] = q[i]
        /\ a[n + 1] = p
    BY <1>2, <1>3, AppendProperties
  <2> HIDE DEF a
  <2>2. a = [i \in 1 .. n + 1 |-> a[i]]
    BY <2>1, LenProperties
  <2>3. \A i \in 1 .. n + 1 : a[i] = L[i]
    BY <2>1 DEF Prefix
  <2> QED BY <2>2, <2>3 DEF a, Prefix
<1>5. AddMleList(Built(s, d, L, n), mles, c)
        = [num_variables |-> s, max_degree |-> e, products |-> Append(q, p)]
  <2> DEFINE vp == Built(s, d, L, n)
  <2>1. vp = [num_variables |-> s, max_degree |-> d, products |-> q]
    BY DEF Built
  <2>2. vp.max_degree = d /\ vp.products = q
    BY <2>1
  <2>3. p = [c |-> c, mles |-> mles]
    OBVIOUS
  <2> HIDE DEF vp, p, q
  <2>4. AddMleList(vp, mles, c) = [vp EXCEPT !.products = Append(q, p), !.max_degree = e]
    BY <2>2, <2>3 DEF AddMleList
  <2> HIDE DEF e
  <2>5. [vp EXCEPT !.products = Append(q, p), !.max_degree = e]
          = [num_variables |-> s, max_degree |-> e, products |-> Append(q, p)]
    <3> DEFINE z == Append(q, p)  w == [vp EXCEPT !.products = z, !.max_degree = e]
               W == [num_variables |-> s, max_degree |-> e, products |-> z]
    <3>1. vp \in [num_variables : {s}, max_degree : {d}, products : {q}]
      BY <2>1
    <3> HIDE DEF z
    <3>2. w \in [num_variables : {s}, max_degree : {e}, products : {z}]
      BY <3>1
    <3>3. W \in [num_variables : {s}, max_degree : {e}, products : {z}]
      OBVIOUS
    <3> HIDE DEF w, W
    <3>4. w = W
      BY <3>2, <3>3
    <3> QED BY <3>4 DEF w, W, z
  <2> QED BY <2>4, <2>5 DEF vp, p, q, e
<1> QED
  BY <1>4, <1>5 DEF Built

\* The products of compute_g for m running pairs and an incoming one.
LProduct(R, Us, zLs, gamma, n) ==
  [c |-> Pow(gamma, n - 1),
   mles |-> <<MzMle(R, MatrixOf(n), zLs[InstanceOf(n)]), BuildEqVec(Us[InstanceOf(n)].r_x)>>]
QProduct(R, z, gamma, beta, e, j) ==
  [c |-> (Terms[j].c * Pow(gamma, e)) % P,
   mles |-> [i \in DOMAIN Terms[j].S |-> MzMle(R, Terms[j].S[i], z)] \o <<BuildEqVec(beta)>>]
GProducts(R, Us, zLs, z, gamma, beta, m) ==
  [n \in 1 .. 3 * m + 2 |-> IF n <= 3 * m THEN LProduct(R, Us, zLs, gamma, n)
                            ELSE QProduct(R, z, gamma, beta, 3 * m, n - 3 * m)]

LEMMA InstanceMatrix ==
  ASSUME NEW i \in Nat, i > 0, NEW j \in 1 .. 3
  PROVE  InstanceOf(3 * (i - 1) + j) = i /\ MatrixOf(3 * (i - 1) + j) = j
BY DEF InstanceOf, MatrixOf

LEMMA InstanceMatrixIn ==
  ASSUME NEW m \in Nat, NEW n \in 1 .. 3 * m
  PROVE  InstanceOf(n) \in 1 .. m /\ MatrixOf(n) \in 1 .. 3
BY DEF InstanceOf, MatrixOf

\* The terms of a product of A and B minus C.
LEMMA QProductIs ==
  ASSUME NEW R, NEW z, NEW gamma, NEW beta, NEW e
  PROVE  /\ QProduct(R, z, gamma, beta, e, 1).mles
              = <<MzMle(R, 1, z), MzMle(R, 2, z), BuildEqVec(beta)>>
         /\ QProduct(R, z, gamma, beta, e, 2).mles = <<MzMle(R, 3, z), BuildEqVec(beta)>>
         /\ QProduct(R, z, gamma, beta, e, 1).c = (1 * Pow(gamma, e)) % P
         /\ QProduct(R, z, gamma, beta, e, 2).c = ((P - 1) * Pow(gamma, e)) % P
<1> DEFINE a == MzMle(R, 1, z)  b == MzMle(R, 2, z)  c == MzMle(R, 3, z)  q == BuildEqVec(beta)
<1>1. /\ DOMAIN Terms[1].S = 1 .. 2 /\ Terms[1].S[1] = 1 /\ Terms[1].S[2] = 2 /\ Terms[1].c = 1
      /\ DOMAIN Terms[2].S = 1 .. 1 /\ Terms[2].S[1] = 3 /\ Terms[2].c = P - 1
  BY DEF Terms
<1>2. [i \in DOMAIN Terms[1].S |-> MzMle(R, Terms[1].S[i], z)] = <<a, b>>
  <2>1. [i \in 1 .. 2 |-> MzMle(R, Terms[1].S[i], z)] = [i \in 1 .. 2 |-> IF i = 1 THEN a ELSE b]
    BY <1>1
  <2>2. [i \in 1 .. 2 |-> IF i = 1 THEN a ELSE b] = <<a, b>>
    <3> HIDE DEF a, b
    <3> QED OBVIOUS
  <2> QED BY <1>1, <2>1, <2>2
<1>3. [i \in DOMAIN Terms[2].S |-> MzMle(R, Terms[2].S[i], z)] = <<c>>
  <2>1. [i \in 1 .. 1 |-> MzMle(R, Terms[2].S[i], z)] = [i \in 1 .. 1 |-> c]
    BY <1>1
  <2>2. [i \in 1 .. 1 |-> c] = <<c>>
    <3> HIDE DEF c
    <3> QED OBVIOUS
  <2> QED BY <1>1, <2>1, <2>2
<1>4. <<a, b>> \o <<q>> = <<a, b, q>> /\ <<c>> \o <<q>> = <<c, q>>
  <2> HIDE DEF a, b, c, q
  <2>1. <<a, b>> \o <<q>> = <<a, b, q>>
    <3> DEFINE S == {a, b, q}  x == <<a, b>>  y == <<q>>  v == <<a, b, q>>  w == x \o y
    <3>1. x \in Seq(S) /\ y \in Seq(S) /\ v \in Seq(S)
      OBVIOUS
    <3>2. Len(x) = 2 /\ Len(y) = 1 /\ Len(v) = 3 /\ x[1] = a /\ x[2] = b /\ y[1] = q
          /\ v[1] = a /\ v[2] = b /\ v[3] = q
      OBVIOUS
    <3> HIDE DEF S, x, y, v
    <3>3. w \in Seq(S) /\ Len(w) = 3 /\ w[1] = a /\ w[2] = b /\ w[3] = q
      BY <3>1, <3>2, ConcatProperties, SMTT(30)
    <3> HIDE DEF w
    <3>4. \A i \in 1 .. Len(w) : w[i] = v[i]
      BY <3>2, <3>3
    <3>5. w = v
      BY <3>1, <3>2, <3>3, <3>4, SeqEqual
    <3> QED BY <3>5 DEF w, x, y, v
  <2>2. <<c>> \o <<q>> = <<c, q>>
    <3> DEFINE S == {c, q}  x == <<c>>  y == <<q>>  v == <<c, q>>  w == x \o y
    <3>1. x \in Seq(S) /\ y \in Seq(S) /\ v \in Seq(S)
      OBVIOUS
    <3>2. Len(x) = 1 /\ Len(y) = 1 /\ Len(v) = 2 /\ x[1] = c /\ y[1] = q /\ v[1] = c /\ v[2] = q
      OBVIOUS
    <3> HIDE DEF S, x, y, v
    <3>3. w \in Seq(S) /\ Len(w) = 2 /\ w[1] = c /\ w[2] = q
      <4>1. /\ w \in Seq(S) /\ Len(w) = 1 + 1
            /\ \A i \in 1 .. 1 + 1 : w[i] = IF i <= 1 THEN x[i] ELSE y[i - 1]
        BY <3>1, <3>2, ConcatProperties
      <4>2. 1 \in 1 .. 1 + 1 /\ 2 \in 1 .. 1 + 1 /\ 1 + 1 = 2 /\ ~(2 <= 1) /\ 2 - 1 = 1 /\ 1 <= 1
        OBVIOUS
      <4> HIDE DEF w
      <4>3. w[1] = x[1] /\ w[2] = y[1]
        BY <4>1, <4>2
      <4> QED BY <3>2, <4>1, <4>2, <4>3
    <3> HIDE DEF w
    <3>4. \A i \in 1 .. Len(w) : w[i] = v[i]
      BY <3>2, <3>3
    <3>5. w = v
      BY <3>1, <3>2, <3>3, <3>4, SeqEqual
    <3> QED BY <3>5 DEF w, x, y, v
  <2> QED BY <2>1, <2>2
<1> QED
  BY <1>1, <1>2, <1>3, <1>4 DEF QProduct

\* What compute_g is given: m running instances and an incoming one, and challenges.
ToWeigh(R, Us, zLs, zCs, gamma, beta, m) ==
  /\ CcsOk(R) /\ m \in {1, 2} /\ Len(Us) = m
  /\ zLs \in List(Vec, m) /\ zCs \in List(Vec, 1) /\ zCs[1][0] = 1
  /\ gamma \in Fp /\ beta \in List(Fp, R.s)
  /\ \A i \in 1 .. m : Us[i].r_x \in List(Fp, R.s) /\ Us[i].v \in List(Fp, 3)

LEMMA MzMleList ==
  ASSUME NEW R, CcsOk(R), NEW j \in 1 .. 3, NEW z \in Vec
  PROVE  MzMle(R, j, z) \in List(Fp, Corners(R.s))
<1>1. MzMle(R, j, z) \in Seq(Fp) /\ Len(MzMle(R, j, z)) = Corners(R.s)
  BY MzMleIs DEF Table
<1> QED
  BY <1>1, SeqIsList, Zenon

LEMMA BuildEqList ==
  ASSUME NEW n \in 0 .. 3, NEW r \in List(Fp, n)
  PROVE  BuildEqVec(r) \in List(Fp, Corners(n))
<1> DEFINE t == [i \in 1 .. Corners(n) |-> 0]
<1>1. t \in List(Fp, Corners(n))
  BY ZeroOneInFp DEF List
<1> HIDE DEF t
<1> QED
  BY <1>1, EqSum

LEMMA GProductsIn ==
  ASSUME NEW R, NEW Us, NEW zLs, NEW zCs, NEW gamma, NEW beta, NEW m,
         ToWeigh(R, Us, zLs, zCs, gamma, beta, m)
  PROVE  /\ GProducts(R, Us, zLs, zCs[1], gamma, beta, m) \in List(Product(Corners(R.s)), 3 * m + 2)
         /\ \A n \in 1 .. 3 * m : GProducts(R, Us, zLs, zCs[1], gamma, beta, m)[n]
                                    = LProduct(R, Us, zLs, gamma, n)
         /\ \A j \in 1 .. 2 : GProducts(R, Us, zLs, zCs[1], gamma, beta, m)[3 * m + j]
                                = QProduct(R, zCs[1], gamma, beta, 3 * m, j)
<1> DEFINE M == Corners(R.s)  K == 3 * m + 2  z == zCs[1]
           L == GProducts(R, Us, zLs, z, gamma, beta, m)
<1>1. /\ CcsOk(R) /\ m \in {1, 2} /\ zLs \in List(Vec, m) /\ z \in Vec /\ gamma \in Fp
      /\ beta \in List(Fp, R.s) /\ R.s \in 0 .. 3
      /\ \A i \in 1 .. m : Us[i].r_x \in List(Fp, R.s)
  BY DEF ToWeigh, List, CcsOk
<1>2. ASSUME NEW n \in 1 .. 3 * m PROVE LProduct(R, Us, zLs, gamma, n) \in Product(M)
  <2> DEFINE i == InstanceOf(n)  j == MatrixOf(n)
  <2>1. i \in 1 .. m /\ j \in 1 .. 3
    BY <1>1, InstanceMatrixIn
  <2> HIDE DEF i, j
  <2> DEFINE a == MzMle(R, j, zLs[i])  b == BuildEqVec(Us[i].r_x)  c == Pow(gamma, n - 1)
  <2>2. zLs[i] \in Vec
    BY <1>1, <2>1 DEF List
  <2>3. a \in List(Fp, M) /\ b \in List(Fp, M)
    BY <1>1, <2>1, <2>2, MzMleList, BuildEqList
  <2>4. c \in Int
    <3>1. n - 1 \in 0 .. 7
      BY <1>1
    <3> QED BY <1>1, <3>1, PowInFp
  <2>5. LProduct(R, Us, zLs, gamma, n) = [c |-> c, mles |-> <<a, b>>]
    BY DEF LProduct, i, j
  <2> HIDE DEF a, b, c, M
  <2>6. <<a, b>> \in List(List(Fp, M), 2)
    BY <2>3 DEF List
  <2> QED BY <2>4, <2>5, <2>6 DEF Product
<1>3. ASSUME NEW j \in 1 .. 2 PROVE QProduct(R, z, gamma, beta, 3 * m, j) \in Product(M)
  <2> DEFINE q == QProduct(R, z, gamma, beta, 3 * m, j)
             a == MzMle(R, 1, z)  b == MzMle(R, 2, z)  c == MzMle(R, 3, z)  e == BuildEqVec(beta)
  <2>1. a \in List(Fp, M) /\ b \in List(Fp, M) /\ c \in List(Fp, M) /\ e \in List(Fp, M)
    BY <1>1, MzMleList, BuildEqList
  <2>2. Pow(gamma, 3 * m) \in Int
    <3>1. 3 * m \in 0 .. 7
      BY <1>1
    <3> QED BY <1>1, <3>1, PowInFp
  <2>3. q = [c |-> (Terms[j].c * Pow(gamma, 3 * m)) % P, mles |-> q.mles]
        /\ q.c = (Terms[j].c * Pow(gamma, 3 * m)) % P
    BY DEF QProduct
  <2>4. q.mles \in List(List(Fp, M), 2) \cup List(List(Fp, M), 3)
    <3>1. CASE j = 1
      <4>1. q.mles = <<a, b, e>>
        BY <3>1, QProductIs
      <4> HIDE DEF a, b, c, e, q, M
      <4> QED BY <2>1, <4>1 DEF List
    <3>2. CASE j = 2
      <4>1. q.mles = <<c, e>>
        BY <3>2, QProductIs
      <4> HIDE DEF a, b, c, e, q, M
      <4> QED BY <2>1, <4>1 DEF List
    <3> QED BY <3>1, <3>2
  <2>5. q.c \in Int
    <3> DEFINE p == Pow(gamma, 3 * m)
    <3>1. (1 * p) \in Int /\ ((P - 1) * p) \in Int
      <4> HIDE DEF p
      <4> QED BY <2>2, PAssumption DEF p
    <3>2. Terms[j].c \in {1, P - 1}
      BY DEF Terms
    <3> HIDE DEF p
    <3>3. (Terms[j].c * p) \in Int
      BY <3>1, <3>2
    <3>4. (Terms[j].c * p) % P \in Int
      BY <3>3, ModInFp, FpIsInt
    <3> QED BY <2>3, <3>4 DEF p
  <2> HIDE DEF q
  <2>6. q = [c |-> q.c, mles |-> q.mles]
    BY <2>3
  <2>7. q \in Product(M)
    BY <2>4, <2>5, <2>6 DEF Product
  <2> QED BY <2>7 DEF q
<1>4. L = [n \in 1 .. K |-> IF n <= 3 * m THEN LProduct(R, Us, zLs, gamma, n)
                            ELSE QProduct(R, z, gamma, beta, 3 * m, n - 3 * m)]
  BY DEF GProducts
<1> HIDE DEF L, z, M
<1>5. \A n \in 1 .. 3 * m : L[n] = LProduct(R, Us, zLs, gamma, n)
  <2> TAKE n \in 1 .. 3 * m
  <2>1. n \in 1 .. K /\ n <= 3 * m
    BY <1>1
  <2> QED BY <1>4, <2>1
<1>6. \A j \in 1 .. 2 : L[3 * m + j] = QProduct(R, z, gamma, beta, 3 * m, j)
  <2> TAKE j \in 1 .. 2
  <2> DEFINE n == 3 * m + j
  <2>1. n \in 1 .. K /\ ~(n <= 3 * m) /\ n - 3 * m = j
    BY <1>1
  <2> HIDE DEF n
  <2>2. L[n] = QProduct(R, z, gamma, beta, 3 * m, n - 3 * m)
    BY <1>4, <2>1
  <2> QED BY <2>1, <2>2 DEF n
<1>7. \A n \in 1 .. K : L[n] \in Product(M)
  <2> TAKE n \in 1 .. K
  <2>1. CASE n <= 3 * m
    <3>1. n \in 1 .. 3 * m
      BY <1>1, <2>1
    <3> QED BY <1>2, <1>5, <3>1
  <2>2. CASE ~(n <= 3 * m)
    <3>1. n - 3 * m \in 1 .. 2 /\ 3 * m + (n - 3 * m) = n
      BY <1>1, <2>2
    <3>2. L[3 * m + (n - 3 * m)] = QProduct(R, z, gamma, beta, 3 * m, n - 3 * m)
      BY <1>6, <3>1
    <3> QED BY <1>3, <3>1, <3>2
  <2> QED BY <2>1, <2>2
<1>8. L \in List(Product(M), K)
  BY <1>4, <1>7 DEF List
<1> QED
  BY <1>5, <1>6, <1>8 DEF L, M, z

LEMMA WithLIs ==
  ASSUME NEW R, NEW Us, NEW zLs, NEW zCs, NEW gamma, NEW beta, NEW m,
         ToWeigh(R, Us, zLs, zCs, gamma, beta, m), NEW i \in 1 .. m, NEW d \in {0, 2}, NEW L,
         L = GProducts(R, Us, zLs, zCs[1], gamma, beta, m)
  PROVE  WithL(R, Built(R.s, d, L, 3 * (i - 1)), Us[i], zLs[i], gamma, 3 * (i - 1))
           = Built(R.s, 2, L, 3 * i)
<1> DEFINE first == 3 * (i - 1)  g == Built(R.s, d, L, first)
           mles(j) == <<MzMle(R, j, zLs[i]), BuildEqVec(Us[i].r_x)>>
           c(j) == Pow(gamma, first + j - 1)
           Rec(h) == h = [j \in 0 .. 3 |-> IF j = 0 THEN g ELSE AddMleList(h[j - 1], mles(j), c(j))]
           e == [j \in 0 .. 3 |-> Built(R.s, IF j = 0 THEN d ELSE 2, L, first + j)]
           f == CHOOSE h : Rec(h)
           K == 3 * m + 2
<1>1. m \in Nat /\ first \in Nat /\ first + 3 <= K /\ first + 3 = 3 * i /\ first + 0 = first /\ K \in Nat
  BY DEF ToWeigh
<1>2. /\ L \in List(Product(Corners(R.s)), K)
      /\ \A n \in 1 .. 3 * m : L[n] = LProduct(R, Us, zLs, gamma, n)
  BY GProductsIn
<1>3. ASSUME NEW j \in 1 .. 3 PROVE L[first + j] = [c |-> c(j), mles |-> mles(j)]
  <2> DEFINE n == first + j
  <2>1. n \in 1 .. 3 * m
    BY <1>1
  <2>2. InstanceOf(n) = i /\ MatrixOf(n) = j
    <3>1. i \in Nat /\ i > 0
      BY <1>1
    <3> QED BY <3>1, InstanceMatrix
  <2>3. n - 1 = first + j - 1
    BY <1>1
  <2> HIDE DEF n
  <2>4. L[n] = LProduct(R, Us, zLs, gamma, n)
    BY <1>2, <2>1
  <2>5. L[n] = [c |-> c(j), mles |-> mles(j)]
    BY <2>2, <2>3, <2>4 DEF LProduct
  <2> QED BY <2>5 DEF n
<1>4. \A j \in 1 .. 3 : Len(mles(j)) = 2
  OBVIOUS
<1>5. WithL(R, g, Us[i], zLs[i], gamma, first) = f[3]
  BY DEF WithL
<1> HIDE DEF c, mles
<1>6. ASSUME NEW j \in 1 .. 3 PROVE e[j] = AddMleList(e[j - 1], mles(j), c(j))
  <2> DEFINE n == first + (j - 1)  q == IF j - 1 = 0 THEN d ELSE 2
  <2>1. n \in Nat /\ n + 1 <= K /\ n + 1 = first + j
    BY <1>1
  <2>2. e[j - 1] = Built(R.s, q, L, n)
    <3>1. j - 1 \in 0 .. 3
      OBVIOUS
    <3> QED BY <3>1
  <2>3. e[j] = Built(R.s, 2, L, n + 1)
    BY <2>1
  <2>4. (IF Len(mles(j)) > q THEN Len(mles(j)) ELSE q) = 2
    <3>1. q \in {0, 2}
      OBVIOUS
    <3>2. Len(mles(j)) = 2
      BY <1>4
    <3> HIDE DEF q
    <3> QED BY <3>1, <3>2
  <2>5. L[n + 1] = [c |-> c(j), mles |-> mles(j)]
    BY <1>3, <2>1
  <2> DEFINE a == c(j)  b == mles(j)
  <2> HIDE DEF n, q, e, K, a, b
  <2>6. L[n + 1] = [c |-> a, mles |-> b]
    BY <2>5 DEF a, b
  <2>7. AddMleList(Built(R.s, q, L, n), b, a)
          = Built(R.s, IF Len(b) > q THEN Len(b) ELSE q, L, n + 1)
    BY <1>1, <1>2, <2>1, <2>6, AddProduct
  <2>8. AddMleList(Built(R.s, q, L, n), b, a) = Built(R.s, 2, L, n + 1)
    BY <2>4, <2>7 DEF b
  <2> QED BY <2>2, <2>3, <2>8 DEF a, b
<1>7. Rec(e)
  <2>1. e[0] = g
    BY <1>1
  <2>2. \A j \in 0 .. 3 : e[j] = IF j = 0 THEN g ELSE AddMleList(e[j - 1], mles(j), c(j))
    <3> HIDE DEF e, g
    <3> TAKE j \in 0 .. 3
    <3>1. CASE j = 0
      BY <2>1, <3>1
    <3>2. CASE j # 0
      <4>1. j \in 1 .. 3
        BY <3>2
      <4> QED BY <1>6, <3>2, <4>1
    <3> QED BY <3>1, <3>2
  <2>3. e = [j \in 0 .. 3 |-> e[j]]
    OBVIOUS
  <2> HIDE DEF e, g
  <2> QED BY <2>2, <2>3
<1>8. Rec(f)
  <2> HIDE DEF Rec
  <2> QED BY <1>7
<1> HIDE DEF f, g, e
<1>9. f[0] = e[0] /\ \A j \in 1 .. 3 : f[j - 1] = e[j - 1] => f[j] = e[j]
  <2>1. f[0] = g
    BY <1>8
  <2>2. ASSUME NEW j \in 1 .. 3 PROVE f[j] = AddMleList(f[j - 1], mles(j), c(j))
    BY <1>8
  <2>3. e[0] = g
    BY <1>7
  <2> HIDE DEF Rec
  <2> QED BY <1>6, <2>1, <2>2, <2>3
<1> HIDE DEF Rec
<1>10. f[3] = e[3]
  <2>1. 3 \in Nat /\ 3 \in 0 .. 3
    OBVIOUS
  <2> DEFINE n == 3
  <2>2. n \in Nat /\ n \in 0 .. n /\ \A j \in 1 .. n : f[j - 1] = e[j - 1] => f[j] = e[j]
    BY <1>9
  <2> HIDE DEF n
  <2>3. \A j \in 0 .. n : f[j] = e[j]
    BY <1>9, <2>2, SameRun
  <2> QED BY <2>2, <2>3 DEF n
<1>11. e[3] = Built(R.s, 2, L, first + 3)
  BY DEF e
<1> QED
  BY <1>1, <1>5, <1>10, <1>11 DEF g

LEMMA WithQIs ==
  ASSUME NEW R, NEW Us, NEW zLs, NEW zCs, NEW gamma, NEW beta, NEW m,
         ToWeigh(R, Us, zLs, zCs, gamma, beta, m), NEW L,
         L = GProducts(R, Us, zLs, zCs[1], gamma, beta, m)
  PROVE  WithQ(R, Built(R.s, 2, L, 3 * m), zCs[1], gamma, 3 * m, beta)
           = Built(R.s, 3, L, 3 * m + 2)
<1> DEFINE z == zCs[1]  first == 3 * m  g == Built(R.s, 2, L, first)
           mles(j) == [i \in DOMAIN Terms[j].S |-> MzMle(R, Terms[j].S[i], z)] \o <<BuildEqVec(beta)>>
           c(j) == (Terms[j].c * Pow(gamma, first)) % P
           Rec(h) == h = [j \in 0 .. 2 |-> IF j = 0 THEN g ELSE AddMleList(h[j - 1], mles(j), c(j))]
           e == [j \in 0 .. 2 |-> Built(R.s, IF j = 0 THEN 2 ELSE 3, L, first + j)]
           f == CHOOSE h : Rec(h)
           K == 3 * m + 2
<1>1. m \in Nat /\ first \in Nat /\ first + 2 = K /\ first + 0 = first /\ K \in Nat
  BY DEF ToWeigh
<1>2. /\ L \in List(Product(Corners(R.s)), K)
      /\ \A j \in 1 .. 2 : L[first + j] = QProduct(R, z, gamma, beta, first, j)
  BY GProductsIn
<1>3. \A j \in 1 .. 2 : L[first + j] = [c |-> c(j), mles |-> mles(j)]
  BY <1>2 DEF QProduct
<1>4. Len(mles(1)) = 3 /\ Len(mles(2)) = 2
  <2>1. /\ mles(1) = <<MzMle(R, 1, z), MzMle(R, 2, z), BuildEqVec(beta)>>
        /\ mles(2) = <<MzMle(R, 3, z), BuildEqVec(beta)>>
    <3>1. /\ QProduct(R, z, gamma, beta, first, 1).mles = mles(1)
          /\ QProduct(R, z, gamma, beta, first, 2).mles = mles(2)
      BY DEF QProduct
    <3> HIDE DEF mles, first, z
    <3> DEFINE q1 == QProduct(R, z, gamma, beta, first, 1)  q2 == QProduct(R, z, gamma, beta, first, 2)
    <3>2. /\ q1.mles = <<MzMle(R, 1, z), MzMle(R, 2, z), BuildEqVec(beta)>>
          /\ q2.mles = <<MzMle(R, 3, z), BuildEqVec(beta)>>
      BY QProductIs
    <3>3. q1.mles = mles(1) /\ q2.mles = mles(2)
      BY <3>1
    <3> HIDE DEF q1, q2
    <3> QED BY <3>2, <3>3
  <2> HIDE DEF mles
  <2> QED BY <2>1
<1>5. WithQ(R, g, z, gamma, first, beta) = f[2]
  BY DEF WithQ
<1> HIDE DEF c, mles, z
<1>6. ASSUME NEW j \in 1 .. 2 PROVE e[j] = AddMleList(e[j - 1], mles(j), c(j))
  <2> DEFINE n == first + (j - 1)  q == IF j - 1 = 0 THEN 2 ELSE 3
  <2>1. n \in Nat /\ n + 1 <= K /\ n + 1 = first + j
    BY <1>1
  <2>2. e[j - 1] = Built(R.s, q, L, n)
    <3>1. j - 1 \in 0 .. 2
      OBVIOUS
    <3> QED BY <3>1
  <2>3. e[j] = Built(R.s, 3, L, n + 1)
    BY <2>1
  <2>4. (IF Len(mles(j)) > q THEN Len(mles(j)) ELSE q) = 3
    <3>1. (j = 1 /\ q = 2) \/ (j = 2 /\ q = 3)
      OBVIOUS
    <3>2. (j = 1 => Len(mles(j)) = 3) /\ (j = 2 => Len(mles(j)) = 2)
      BY <1>4
    <3> HIDE DEF q
    <3> QED BY <3>1, <3>2
  <2>5. L[n + 1] = [c |-> c(j), mles |-> mles(j)]
    BY <1>3, <2>1
  <2> DEFINE a == c(j)  b == mles(j)
  <2> HIDE DEF n, q, e, K, a, b
  <2>6. L[n + 1] = [c |-> a, mles |-> b]
    BY <2>5 DEF a, b
  <2>7. AddMleList(Built(R.s, q, L, n), b, a)
          = Built(R.s, IF Len(b) > q THEN Len(b) ELSE q, L, n + 1)
    BY <1>1, <1>2, <2>1, <2>6, AddProduct
  <2>8. AddMleList(Built(R.s, q, L, n), b, a) = Built(R.s, 3, L, n + 1)
    BY <2>4, <2>7 DEF b
  <2> QED BY <2>2, <2>3, <2>8 DEF a, b
<1>7. Rec(e)
  <2>1. e[0] = g
    BY <1>1
  <2>2. \A j \in 0 .. 2 : e[j] = IF j = 0 THEN g ELSE AddMleList(e[j - 1], mles(j), c(j))
    <3> HIDE DEF e, g
    <3> TAKE j \in 0 .. 2
    <3>1. CASE j = 0
      BY <2>1, <3>1
    <3>2. CASE j # 0
      <4>1. j \in 1 .. 2
        BY <3>2
      <4> QED BY <1>6, <3>2, <4>1
    <3> QED BY <3>1, <3>2
  <2>3. e = [j \in 0 .. 2 |-> e[j]]
    OBVIOUS
  <2> HIDE DEF e, g
  <2> QED BY <2>2, <2>3
<1>8. Rec(f)
  <2> HIDE DEF Rec
  <2> QED BY <1>7
<1> HIDE DEF f, g, e
<1>9. f[0] = e[0] /\ \A j \in 1 .. 2 : f[j - 1] = e[j - 1] => f[j] = e[j]
  <2>1. f[0] = g
    BY <1>8
  <2>2. ASSUME NEW j \in 1 .. 2 PROVE f[j] = AddMleList(f[j - 1], mles(j), c(j))
    BY <1>8
  <2>3. e[0] = g
    BY <1>7
  <2> HIDE DEF Rec
  <2> QED BY <1>6, <2>1, <2>2, <2>3
<1> HIDE DEF Rec
<1>10. f[2] = e[2]
  <2> DEFINE n == 2
  <2>2. n \in Nat /\ n \in 0 .. n /\ \A j \in 1 .. n : f[j - 1] = e[j - 1] => f[j] = e[j]
    BY <1>9
  <2> HIDE DEF n
  <2>3. \A j \in 0 .. n : f[j] = e[j]
    BY <1>9, <2>2, SameRun
  <2> QED BY <2>2, <2>3 DEF n
<1>11. e[2] = Built(R.s, 3, L, first + 2)
  BY DEF e
<1> QED
  BY <1>1, <1>5, <1>10, <1>11 DEF g, z

\* compute_g is the polynomial of these products.
LEMMA ComputeGIs ==
  ASSUME NEW R, NEW Us, NEW zLs, NEW zCs, NEW gamma, NEW beta, NEW m,
         ToWeigh(R, Us, zLs, zCs, gamma, beta, m)
  PROVE  /\ IsVirtual(ComputeG(R, Us, zLs, zCs, gamma, beta), 3 * m + 2, Corners(R.s))
         /\ ComputeG(R, Us, zLs, zCs, gamma, beta).products
              = GProducts(R, Us, zLs, zCs[1], gamma, beta, m)
<1> DEFINE s == R.s  L == GProducts(R, Us, zLs, zCs[1], gamma, beta, m)
           RecL(h) == h = [i \in 0 .. m |-> IF i = 0 THEN NewVirtualPolynomial(s)
                             ELSE WithL(R, h[i - 1], Us[i], zLs[i], gamma, 3 * (i - 1))]
           l == CHOOSE h : RecL(h)
           a == [i \in 0 .. m |-> Built(s, IF i = 0 THEN 0 ELSE 2, L, 3 * i)]
           o == 1
           RecQ(h) == h = [k \in 0 .. o |-> IF k = 0 THEN l[m]
                             ELSE WithQ(R, h[k - 1], zCs[k], gamma, 3 * m + k - 1, beta)]
           q == CHOOSE h : RecQ(h)
           g == ComputeG(R, Us, zLs, zCs, gamma, beta)
           K == 3 * m + 2
<1>1. m \in {1, 2} /\ Len(Us) = m /\ Len(zCs) = 1 /\ s \in 0 .. 3 /\ m \in Nat
  <2>1. zCs \in List(Vec, 1)
    BY DEF ToWeigh
  <2>2. Len(zCs) = 1
    BY <2>1, ListIsSeq
  <2> QED BY <2>2 DEF ToWeigh, CcsOk
<1>2. L \in List(Product(Corners(s)), K)
  BY GProductsIn
<1>3. g = q[o]
  BY <1>1 DEF ComputeG
<1>4. \A i \in 1 .. m : a[i] = WithL(R, a[i - 1], Us[i], zLs[i], gamma, 3 * (i - 1))
  <2> TAKE i \in 1 .. m
  <2> DEFINE d == IF i - 1 = 0 THEN 0 ELSE 2
  <2>1. a[i - 1] = Built(s, d, L, 3 * (i - 1)) /\ a[i] = Built(s, 2, L, 3 * i) /\ d \in {0, 2}
    <3>1. i - 1 \in 0 .. m /\ i \in 0 .. m /\ i # 0
      BY <1>1
    <3> QED BY <3>1
  <2> HIDE DEF d, a, L
  <2>2. L = GProducts(R, Us, zLs, zCs[1], gamma, beta, m)
    BY DEF L
  <2>3. WithL(R, Built(s, d, L, 3 * (i - 1)), Us[i], zLs[i], gamma, 3 * (i - 1)) = Built(s, 2, L, 3 * i)
    BY <2>1, <2>2, WithLIs
  <2> QED BY <2>1, <2>3
<1>5. a[0] = NewVirtualPolynomial(s)
  <2>1. Prefix(L, 0) = <<>>
    BY DEF Prefix
  <2>2. a[0] = Built(s, 0, L, 0)
    <3>1. 0 \in 0 .. m /\ 3 * 0 = 0
      BY <1>1
    <3> QED BY <3>1
  <2> HIDE DEF L
  <2> QED BY <2>1, <2>2 DEF Built, NewVirtualPolynomial
<1> HIDE DEF g, L
<1>6. RecL(a)
  <2>1. \A i \in 0 .. m : a[i] = IF i = 0 THEN NewVirtualPolynomial(s)
                             ELSE WithL(R, a[i - 1], Us[i], zLs[i], gamma, 3 * (i - 1))
    <3> HIDE DEF a
    <3> TAKE i \in 0 .. m
    <3>1. CASE i = 0
      BY <1>5, <3>1
    <3>2. CASE i # 0
      <4>1. i \in 1 .. m
        BY <3>2
      <4> QED BY <1>4, <3>2, <4>1
    <3> QED BY <3>1, <3>2
  <2>2. a = [i \in 0 .. m |-> a[i]]
    OBVIOUS
  <2> HIDE DEF a
  <2> QED BY <2>1, <2>2
<1>7. RecL(l)
  <2> HIDE DEF RecL
  <2> QED BY <1>6
<1> HIDE DEF l
<1>8. l[m] = Built(s, 2, L, 3 * m)
  <2>0. \A i \in 0 .. m : l[i] = IF i = 0 THEN NewVirtualPolynomial(s)
                             ELSE WithL(R, l[i - 1], Us[i], zLs[i], gamma, 3 * (i - 1))
    BY <1>7
  <2>1. l[0] = NewVirtualPolynomial(s)
    BY <1>1, <2>0
  <2>2. ASSUME NEW i \in 1 .. m
        PROVE  l[i] = WithL(R, l[i - 1], Us[i], zLs[i], gamma, 3 * (i - 1))
    <3>1. i \in 0 .. m /\ i # 0
      BY <1>1
    <3> QED BY <2>0, <3>1
  <2>3. a[m] = Built(s, 2, L, 3 * m) /\ m \in 0 .. m
    BY <1>1
  <2> HIDE DEF a, RecL
  <2>4. l[0] = a[0] /\ \A i \in 1 .. m : l[i - 1] = a[i - 1] => l[i] = a[i]
    BY <1>4, <1>5, <2>1, <2>2
  <2>5. \A i \in 0 .. m : l[i] = a[i]
    BY <1>1, <2>4, SameRun
  <2> QED BY <2>3, <2>5
<1> HIDE DEF RecL, a
<1> DEFINE e == [k \in 0 .. o |-> IF k = 0 THEN l[m]
                             ELSE WithQ(R, l[m], zCs[1], gamma, 3 * m, beta)]
<1>9. RecQ(e)
  <2>1. \A k \in 0 .. o : e[k] = IF k = 0 THEN l[m]
                             ELSE WithQ(R, e[k - 1], zCs[k], gamma, 3 * m + k - 1, beta)
    <3> TAKE k \in 0 .. o
    <3>1. CASE k = 0
      BY <3>1
    <3>2. CASE k # 0
      <4>1. k = 1 /\ k - 1 = 0 /\ 3 * m + k - 1 = 3 * m /\ 0 \in 0 .. o
        BY <1>1, <3>2
      <4>2. e[k] = WithQ(R, l[m], zCs[1], gamma, 3 * m, beta) /\ e[k - 1] = l[m]
        BY <3>2, <4>1
      <4> HIDE DEF e
      <4> QED BY <3>2, <4>1, <4>2
    <3> QED BY <3>1, <3>2
  <2>2. e = [k \in 0 .. o |-> e[k]]
    OBVIOUS
  <2> HIDE DEF e
  <2> QED BY <2>1, <2>2
<1>10. RecQ(q)
  <2> HIDE DEF RecQ
  <2> QED BY <1>9
<1> HIDE DEF q, e
<1>11. q[o] = WithQ(R, l[m], zCs[1], gamma, 3 * m, beta)
  <2>1. \A k \in 0 .. o : q[k] = IF k = 0 THEN l[m]
                             ELSE WithQ(R, q[k - 1], zCs[k], gamma, 3 * m + k - 1, beta)
    BY <1>10
  <2> HIDE DEF RecQ
  <2>2. 0 \in 0 .. o /\ o \in 0 .. o /\ o # 0 /\ o - 1 = 0 /\ o = 1
    OBVIOUS
  <2>3. q[0] = l[m]
    BY <2>1, <2>2
  <2>4. q[o] = WithQ(R, q[o - 1], zCs[o], gamma, 3 * m + o - 1, beta)
    BY <2>1, <2>2
  <2>5. 3 * m + o - 1 = 3 * m
    BY <1>1
  <2> QED BY <2>2, <2>3, <2>4, <2>5
<1>12. g = Built(s, 3, L, K)
  <2>1. WithQ(R, Built(s, 2, L, 3 * m), zCs[1], gamma, 3 * m, beta) = Built(s, 3, L, K)
    BY WithQIs DEF L
  <2> QED BY <1>3, <1>8, <1>11, <2>1
<1>13. Prefix(L, K) = L
  BY <1>1, <1>2, PrefixIs
<1>14. g = [num_variables |-> s, max_degree |-> 3, products |-> L]
  BY <1>12, <1>13 DEF Built
<1>15. IsVirtual(g, K, Corners(s)) /\ g.products = L
  <2> HIDE DEF s
  <2>1. s \in Nat
    BY <1>1
  <2> QED BY <1>2, <1>14, <2>1 DEF IsVirtual
<1> QED
  BY <1>15 DEF g, L

----------------------------------------------------------------------------
\* The sum of the polynomial of a fold.

LEMMA SumOfTwo ==
  ASSUME NEW a \in List(Int, 2) PROVE SumSeq(a) \in Int /\ Cong(SumSeq(a), a[1] + a[2])
<1> DEFINE n == 2  p == Prefix(a, 1)
<1>1. n \in Nat /\ 1 + 1 = n /\ 1 + 1 <= n /\ 1 \in 0 .. n /\ 1 \in Nat
  OBVIOUS
<1>2. a \in List(Int, n)
  OBVIOUS
<1> HIDE DEF n
<1>3. p \in List(Int, 1) /\ Prefix(a, n) = a
  BY <1>1, <1>2, PrefixIs
<1>4. p[1] = a[1]
  BY DEF Prefix
<1> HIDE DEF p
<1>5. SumSeq(p) \in Int /\ Cong(SumSeq(p), a[1])
  BY <1>3, <1>4, SumOfOne
<1>6. Cong(SumSeq(a), SumSeq(p) + a[1 + 1])
  <2>1. Cong(SumSeq(Prefix(a, 1 + 1)), SumSeq(Prefix(a, 1)) + a[1 + 1])
    BY <1>1, <1>2, SumSnoc
  <2> QED BY <1>1, <1>3, <2>1 DEF p
<1>7. SumSeq(a) \in Int
  BY <1>1, <1>2, SumInFp
<1>8. a[1] \in Int /\ a[2] \in Int /\ 1 + 1 = 2
  BY DEF List
<1>9. Cong(SumSeq(p) + a[2], a[1] + a[2])
  BY <1>5, <1>8, CongAdd, CongRefl
<1>10. SumSeq(p) + a[2] \in Int /\ a[1] + a[2] \in Int
  BY <1>5, <1>8
<1> QED
  BY <1>6, <1>7, <1>8, <1>9, <1>10, CongTrans

\* An entry of a product of two or three tables.
LEMMA EntryOf ==
  ASSUME NEW m \in Nat, NEW p \in Product(m), NEW i \in 1 .. m
  PROVE  /\ Len(p.mles) = 2 => Cong(Entry(p, i), p.c * (p.mles[1][i] * p.mles[2][i]))
         /\ Len(p.mles) = 3 => Cong(Entry(p, i), p.c * (p.mles[1][i] * (p.mles[2][i] * p.mles[3][i])))
<1> DEFINE n == Len(p.mles)  f == [j \in 1 .. n |-> p.mles[j][i]]  c == p.c
<1>1. /\ c \in Int /\ n \in {2, 3} /\ n \in Nat
      /\ \A j \in 1 .. n : p.mles[j][i] \in Fp /\ p.mles[j][i] \in Int
  BY ProductParts
<1> HIDE DEF n
<1>2. f \in [1 .. n -> Int] /\ f \in List(Int, n)
  BY <1>1, Zenon DEF List
<1>3. Entry(p, i) = (c * ProdSeq(<<>> \o f)) % P
  BY DEF Entry, Collect, n
<1>4. \A j \in 1 .. n : f[j] = p.mles[j][i]
  OBVIOUS
<1> HIDE DEF f
<1>5. <<>> \o f = f
  BY <1>1, <1>2, CollectIs
<1> HIDE DEF c
<1>6. ASSUME NEW q \in Int, Cong(ProdSeq(f), q), ProdSeq(f) \in Int
      PROVE  Cong(Entry(p, i), c * q)
  <2> DEFINE e == ProdSeq(f)
  <2>1. Cong(e, q) /\ e \in Int
    BY <1>6
  <2> HIDE DEF e
  <2>2. c * e \in Int /\ c * q \in Int
    BY <1>1, <2>1
  <2>3. Cong(c * e, c * q)
    BY <1>1, <2>1, CongRefl, CongMul
  <2>4. Cong((c * e) % P, c * e) /\ (c * e) % P \in Int
    BY <2>2, CongOfMod, ModInFp, FpIsInt
  <2>5. Cong((c * e) % P, c * q)
    BY <2>2, <2>3, <2>4, CongTrans
  <2> QED BY <1>3, <1>5, <2>5 DEF e
<1>7. CASE n = 2
  <2> DEFINE q == f[1] * f[2]
  <2>1. f \in List(Int, 2)
    BY <1>2, <1>7
  <2>2. f[1] \in Int /\ f[2] \in Int
    BY <2>1 DEF List
  <2>3. q \in Int /\ Cong(ProdSeq(f), q) /\ ProdSeq(f) \in Int
    BY <2>1, <2>2, ProdOfTwo
  <2>4. f[1] = p.mles[1][i] /\ f[2] = p.mles[2][i]
    BY <1>4, <1>7
  <2> HIDE DEF q
  <2>5. Cong(Entry(p, i), c * q)
    BY <1>6, <2>3
  <2> QED BY <1>7, <2>4, <2>5 DEF q, c, n
<1>8. CASE n = 3
  <2> DEFINE q == f[1] * (f[2] * f[3])
  <2>1. f \in List(Int, 3)
    BY <1>2, <1>8
  <2>2. f[1] \in Int /\ f[2] \in Int /\ f[3] \in Int
    BY <2>1 DEF List
  <2>3. q \in Int /\ Cong(ProdSeq(f), q) /\ ProdSeq(f) \in Int
    BY <2>1, <2>2, ProdOfThree
  <2>4. f[1] = p.mles[1][i] /\ f[2] = p.mles[2][i] /\ f[3] = p.mles[3][i]
    BY <1>4, <1>8
  <2> HIDE DEF q
  <2>5. Cong(Entry(p, i), c * q)
    BY <1>6, <2>3
  <2> QED BY <1>8, <2>4, <2>5 DEF q, c, n
<1> QED
  BY <1>1, <1>7, <1>8 DEF n

\* A table times eq, summed: the value of the table.
LEMMA TotalAgainstEq ==
  ASSUME NEW n \in 0 .. 3, NEW r \in List(Fp, n), NEW a \in List(Fp, Corners(n)), NEW c \in Int,
         NEW p \in Product(Corners(n)), p = [c |-> c, mles |-> <<a, BuildEqVec(r)>>]
  PROVE  Cong(TotalOf(p, Corners(n)), c * MleEvaluate(a, r))
<1> DEFINE m == Corners(n)  b == BuildEqVec(r)  x == [i \in 1 .. m |-> Entry(p, i)]
           y == [i \in 1 .. m |-> a[i] * b[i]]  e == MleEvaluate(a, r)
<1>1. m \in Nat
  BY CornersIs
<1>2. y \in List(Int, m) /\ Cong(SumSeq(y), e)
  BY EqSum
<1>3. e \in Int
  BY MleInFp
<1>4. Len(p.mles) = 2 /\ p.mles[1] = a /\ p.mles[2] = b /\ p.c = c
  <2> HIDE DEF b
  <2> QED BY DEF b
<1> HIDE DEF m
<1>5. x \in List(Int, m) /\ TotalOf(p, m) = SumSeq(x) /\ TotalOf(p, m) \in Int
  BY <1>1, TotalIs DEF m
<1>6. \A i \in 1 .. m : Cong(x[i], c * y[i])
  <2> TAKE i \in 1 .. m
  <2>1. Cong(Entry(p, i), p.c * (p.mles[1][i] * p.mles[2][i]))
    BY <1>1, <1>4, EntryOf DEF m
  <2> QED BY <1>4, <2>1
<1> HIDE DEF x, y, e
<1>7. SumSeq(y) \in Int
  BY <1>1, <1>2, SumInFp
<1>8. Cong(SumSeq(x), c * SumSeq(y))
  BY <1>1, <1>2, <1>5, <1>6, SumScaled
<1> DEFINE t == SumSeq(y)  u == SumSeq(x)
<1>9. t \in Int /\ u \in Int /\ Cong(u, c * t) /\ Cong(t, e)
  BY <1>2, <1>5, <1>7, <1>8
<1> HIDE DEF t, u
<1>10. c * t \in Int /\ c * e \in Int /\ Cong(c * t, c * e)
  BY <1>3, <1>9, CongRefl, CongMul
<1>11. Cong(u, c * e)
  BY <1>9, <1>10, CongTrans
<1> QED
  BY <1>5, <1>11 DEF u, e, m

\* The two products of an incoming instance: its error against eq.
LEMMA QTotals ==
  ASSUME NEW n \in 0 .. 3, NEW r \in List(Fp, n),
         NEW a \in List(Fp, Corners(n)), NEW b \in List(Fp, Corners(n)),
         NEW c \in List(Fp, Corners(n)), NEW E \in List(Fp, Corners(n)),
         NEW w \in Int, NEW w1 \in Int, NEW w2 \in Int, Cong(w1, w), Cong(w2, -w),
         NEW p1 \in Product(Corners(n)), p1 = [c |-> w1, mles |-> <<a, b, BuildEqVec(r)>>],
         NEW p2 \in Product(Corners(n)), p2 = [c |-> w2, mles |-> <<c, BuildEqVec(r)>>],
         \A i \in 1 .. Corners(n) : Cong(E[i], a[i] * b[i] - c[i])
  PROVE  Cong(TotalOf(p1, Corners(n)) + TotalOf(p2, Corners(n)), w * MleEvaluate(E, r))
<1> DEFINE m == Corners(n)  e == BuildEqVec(r)
           x1 == [i \in 1 .. m |-> Entry(p1, i)]  x2 == [i \in 1 .. m |-> Entry(p2, i)]
           y == [i \in 1 .. m |-> E[i] * e[i]]  z == [i \in 1 .. m |-> x1[i] + x2[i]]
           v == MleEvaluate(E, r)
<1>1. m \in Nat
  BY CornersIs
<1>2. y \in List(Int, m) /\ Cong(SumSeq(y), v) /\ e \in List(Fp, m)
  BY EqSum
<1>3. v \in Int
  BY MleInFp
<1>4. /\ Len(p1.mles) = 3 /\ p1.mles[1] = a /\ p1.mles[2] = b /\ p1.mles[3] = e /\ p1.c = w1
      /\ Len(p2.mles) = 2 /\ p2.mles[1] = c /\ p2.mles[2] = e /\ p2.c = w2
  <2> HIDE DEF e
  <2> QED BY DEF e
<1> HIDE DEF m
<1>5. /\ x1 \in List(Int, m) /\ TotalOf(p1, m) = SumSeq(x1) /\ TotalOf(p1, m) \in Int
      /\ x2 \in List(Int, m) /\ TotalOf(p2, m) = SumSeq(x2) /\ TotalOf(p2, m) \in Int
  BY <1>1, TotalIs DEF m
<1>6. \A i \in 1 .. m : /\ Cong(x1[i], w1 * (a[i] * (b[i] * e[i])))
                        /\ Cong(x2[i], w2 * (c[i] * e[i]))
  <2> TAKE i \in 1 .. m
  <2>1. /\ Cong(Entry(p1, i), p1.c * (p1.mles[1][i] * (p1.mles[2][i] * p1.mles[3][i])))
        /\ Cong(Entry(p2, i), p2.c * (p2.mles[1][i] * p2.mles[2][i]))
    BY <1>1, <1>4, EntryOf DEF m
  <2> QED BY <1>4, <2>1
<1>7. \A i \in 1 .. m : y[i] = E[i] * e[i] /\ z[i] = x1[i] + x2[i]
  OBVIOUS
<1> HIDE DEF x1, x2, v, e
<1>8. \A i \in 1 .. m : /\ x1[i] \in Int /\ x2[i] \in Int /\ a[i] \in Int /\ b[i] \in Int
                        /\ c[i] \in Int /\ e[i] \in Int /\ E[i] \in Int
                        /\ Cong(E[i], a[i] * b[i] - c[i])
  BY <1>2, <1>5, FpIsInt DEF List, m
<1>9. z \in List(Int, m)
  <2>1. \A i \in 1 .. m : x1[i] + x2[i] \in Int
    BY <1>8
  <2> QED BY <2>1, Zenon DEF List
<1> HIDE DEF y, z
<1>10. ASSUME NEW i \in 1 .. m PROVE Cong(z[i], w * y[i])
  <2> DEFINE s == x1[i]  t == x2[i]  f == a[i]  g == b[i]  h == c[i]  q == e[i]  u == E[i]
  <2>1. /\ s \in Int /\ t \in Int /\ f \in Int /\ g \in Int /\ h \in Int /\ q \in Int /\ u \in Int
        /\ Cong(s, w1 * (f * (g * q))) /\ Cong(t, w2 * (h * q)) /\ Cong(u, f * g - h)
        /\ z[i] = s + t /\ y[i] = u * q
    BY <1>6, <1>7, <1>8
  <2> HIDE DEF s, t, f, g, h, q, u
  <2>2. PICK k1 \in Int : s = w1 * (f * (g * q)) + k1 * P
    BY <2>1 DEF Cong
  <2>3. PICK k2 \in Int : t = w2 * (h * q) + k2 * P
    BY <2>1 DEF Cong
  <2>4. PICK k3 \in Int : u = f * g - h + k3 * P
    BY <2>1 DEF Cong
  <2>5. PICK k4 \in Int : w1 = w + k4 * P
    BY DEF Cong
  <2>6. PICK k5 \in Int : w2 = -w + k5 * P
    BY DEF Cong
  <2> DEFINE A == f * (g * q)  B == h * q
  <2>7. A \in Int /\ B \in Int
    BY <2>1
  <2>8. u * q = A - B + k3 * q * P
    BY <2>1, <2>4, PAssumption
  <2> HIDE DEF A, B
  <2>9. s = w * A + (k4 * A + k1) * P
    BY <2>2, <2>5, <2>7, PAssumption DEF A
  <2>10. t = -(w * B) + (k5 * B + k2) * P
    BY <2>3, <2>6, <2>7, PAssumption DEF B
  <2>11. w * (u * q) = w * A - w * B + (w * (k3 * q)) * P
    <3> DEFINE l == k3 * q
    <3>1. l \in Int
      BY <2>1
    <3>2. u * q = A - B + l * P
      BY <2>8
    <3> HIDE DEF l
    <3>3. w * (u * q) = w * (A - B + l * P)
      BY <3>2
    <3>4. w * (A - B + l * P) = w * A - w * B + (w * l) * P
      BY <2>7, <3>1, PAssumption
    <3> QED BY <3>3, <3>4 DEF l
  <2> DEFINE j == k4 * A + k1 + (k5 * B + k2) - w * (k3 * q)
  <2>12. j \in Int
    BY <2>1, <2>7
  <2>13. s + t = w * (u * q) + j * P
    <3> DEFINE x == w * A  X == w * B  j1 == k4 * A + k1  j2 == k5 * B + k2  j3 == w * (k3 * q)
    <3>1. x \in Int /\ X \in Int /\ j1 \in Int /\ j2 \in Int /\ j3 \in Int
      BY <2>1, <2>7
    <3>2. s = x + j1 * P /\ t = -X + j2 * P /\ w * (u * q) = x - X + j3 * P
      BY <2>9, <2>10, <2>11
    <3>3. j = j1 + j2 - j3
      OBVIOUS
    <3> HIDE DEF x, X, j1, j2, j3, j
    <3> QED BY <3>1, <3>2, <3>3, PAssumption
  <2> HIDE DEF j
  <2> QED BY <2>1, <2>12, <2>13 DEF Cong
<1> DEFINE o == 1
<1>11. Cong(SumSeq(z), SumSeq(x1) + o * SumSeq(x2))
  <2>1. \A i \in 1 .. m : Cong(z[i], x1[i] + o * x2[i])
    <3> TAKE i \in 1 .. m
    <3>1. z[i] = x1[i] + o * x2[i] /\ z[i] \in Int
      BY <1>7, <1>8
    <3> QED BY <3>1, CongRefl
  <2>2. o \in Int
    OBVIOUS
  <2> HIDE DEF o
  <2> QED BY <1>1, <1>5, <1>9, <2>1, <2>2, SumLinear
<1>12. Cong(SumSeq(z), w * SumSeq(y))
  BY <1>1, <1>2, <1>9, <1>10, SumScaled
<1> DEFINE Z == SumSeq(z)  Y == SumSeq(y)  X == SumSeq(x1)  T == SumSeq(x2)
<1>13. Z \in Int /\ Y \in Int /\ X \in Int /\ T \in Int /\ Cong(Y, v)
  BY <1>1, <1>2, <1>5, <1>9, SumInFp
<1>14. Cong(Z, X + T) /\ Cong(Z, w * Y)
  <2>1. o * T = T
    BY <1>13
  <2> QED BY <1>11, <1>12, <2>1
<1> HIDE DEF Z, Y, X, T
<1>15. w * Y \in Int /\ w * v \in Int /\ Cong(w * Y, w * v) /\ X + T \in Int
  BY <1>3, <1>13, CongRefl, CongMul
<1>16. Cong(X + T, w * v)
  BY <1>13, <1>14, <1>15, CongSym, CongTrans
<1> QED
  BY <1>5, <1>16 DEF X, T, v, m

LEMMA MzAtIs ==
  ASSUME NEW R, CcsOk(R), NEW z \in Vec, NEW point \in List(Fp, R.s), NEW j \in 1 .. 3
  PROVE  /\ MzAt(R, z, point)[j] = MleEvaluate(MzMle(R, j, z), point)
         /\ MzAt(R, z, point)[j] \in Fp /\ MzAt(R, z, point)[j] \in Int
<1> DEFINE f == [k \in 1 .. 3 |-> MleEvaluate(MzMle(R, k, z), point)]
<1>1. \A k \in 1 .. 3 : MleEvaluate(MzMle(R, k, z), point) \in Fp
  BY MzMleList, MleInFp DEF CcsOk
<1>2. f \in [1 .. 3 -> Fp] /\ 3 \in Nat
  BY <1>1
<1>3. MzAt(R, z, point) = <<>> \o f
  BY DEF MzAt, Collect
<1>4. f[j] = MleEvaluate(MzMle(R, j, z), point)
  OBVIOUS
<1> HIDE DEF f
<1>5. <<>> \o f = f
  BY <1>2, CollectIs
<1> QED
  BY <1>1, <1>3, <1>4, <1>5, FpIsInt

\* The error of an assignment, row by row.
ErrorTable(R, z) == Collect(2^R.s, LAMBDA row : EvalAtZ(R, z)[row - 1])

LEMMA ErrorTableIs ==
  ASSUME NEW R, CcsOk(R), NEW z \in Vec, z[0] = 1
  PROVE  /\ ErrorTable(R, z) \in List(Fp, Corners(R.s))
         /\ \A i \in 1 .. Corners(R.s) :
              Cong(ErrorTable(R, z)[i],
                   MzMle(R, 1, z)[i] * MzMle(R, 2, z)[i] - MzMle(R, 3, z)[i])
<1> DEFINE n == Corners(R.s)  f == [row \in 1 .. n |-> EvalAtZ(R, z)[row - 1]]
           a == MzMle(R, 1, z)  b == MzMle(R, 2, z)  c == MzMle(R, 3, z)
<1>1. n \in Nat /\ n <= 8
  BY PowersOfTwo DEF CcsOk, Corners
<1>2. /\ a \in List(Fp, n) /\ b \in List(Fp, n) /\ c \in List(Fp, n)
  BY MzMleList
<1>3. \A i \in 1 .. n : /\ a[i] = Dot(R.A[i - 1], z) /\ b[i] = Dot(R.B[i - 1], z)
                        /\ c[i] = Dot(R.C[i - 1], z)
  BY MzMleIs DEF Matrices
<1> HIDE DEF a, b, c
<1>4. ASSUME NEW i \in 1 .. n
      PROVE  /\ EvalAtZ(R, z)[i - 1] \in Fp
             /\ Cong(EvalAtZ(R, z)[i - 1], a[i] * b[i] - c[i])
  <2> DEFINE k == i - 1  x == a[i]  y == b[i]  w == c[i]  E == EvalAtZ(R, z)[k]
  <2>1. k \in Slot
    BY <1>1 DEF Slot
  <2>2. EvalAtZ(R, z) \in Vec
        /\ Cong(E, Dot(R.A[k], z) * Dot(R.B[k], z) - z[0] * Dot(R.C[k], z))
    BY <2>1, EvalRow DEF CcsOk
  <2>3. E \in Fp
    BY <2>1, <2>2 DEF Vec
  <2>4. x = Dot(R.A[k], z) /\ y = Dot(R.B[k], z) /\ w = Dot(R.C[k], z) /\ w \in Int
    BY <1>2, <1>3, FpIsInt DEF List
  <2>5. E = EvalAtZ(R, z)[i - 1]
    OBVIOUS
  <2> HIDE DEF k, x, y, w, E
  <2>6. z[0] * w = w
    BY <2>4
  <2>7. Cong(E, x * y - w)
    BY <2>2, <2>4, <2>6
  <2> QED BY <2>3, <2>5, <2>7 DEF x, y, w
<1>5. f \in [1 .. n -> Fp]
  BY <1>4
<1>6. ErrorTable(R, z) = <<>> \o f
  BY DEF ErrorTable, Collect, Corners
<1>7. \A i \in 1 .. n : f[i] = EvalAtZ(R, z)[i - 1]
  OBVIOUS
<1> HIDE DEF f, n
<1>8. <<>> \o f = f
  BY <1>1, <1>5, CollectIs
<1> QED
  BY <1>4, <1>5, <1>6, <1>7, <1>8 DEF List, n, a, b, c

\* By how much the pairs of a fold miss their relations.
MzFor(R, Us, zLs, n) == MzAt(R, zLs[InstanceOf(n)], Us[InstanceOf(n)].r_x)[MatrixOf(n)]
VFor(Us, n) == Us[InstanceOf(n)].v[MatrixOf(n)]
RunningMiss(R, Us, zLs, gamma) ==
  SumSeq(Collect(3 * Len(Us), LAMBDA n :
    (Pow(gamma, n - 1) * ((MzFor(R, Us, zLs, n) - VFor(Us, n)) % P)) % P))
IncomingMiss(R, Us, us, zCs, gamma, beta) ==
  SumSeq(Collect(Len(us), LAMBDA k :
    (Pow(gamma, 3 * Len(Us) + k - 1) * MleEvaluate(ErrorTable(R, zCs[k]), beta)) % P))
Missed(R, Us, us, zLs, zCs, gamma, beta) ==
  (RunningMiss(R, Us, zLs, gamma) + IncomingMiss(R, Us, us, zCs, gamma, beta)) % P

\* The sum of the first products is what is expected and what the running pairs miss.
LEMMA RunningTotal ==
  ASSUME NEW R, NEW Us, NEW zLs, NEW zCs, NEW gamma, NEW beta, NEW m,
         ToWeigh(R, Us, zLs, zCs, gamma, beta, m), NEW L,
         L = GProducts(R, Us, zLs, zCs[1], gamma, beta, m)
  PROVE  /\ ExpectedSum(Us, gamma) \in Fp /\ RunningMiss(R, Us, zLs, gamma) \in Fp
         /\ [n \in 1 .. 3 * m |-> TotalOf(L[n], Corners(R.s))] \in List(Int, 3 * m)
         /\ Cong(SumSeq([n \in 1 .. 3 * m |-> TotalOf(L[n], Corners(R.s))]),
                 ExpectedSum(Us, gamma) + RunningMiss(R, Us, zLs, gamma))
<1> DEFINE k == 3 * m  c(n) == Pow(gamma, n - 1)  z(n) == MzFor(R, Us, zLs, n)  v(n) == VFor(Us, n)
           t == [n \in 1 .. k |-> TotalOf(L[n], Corners(R.s))]
           a == [n \in 1 .. k |-> (v(n) * c(n)) % P]
           b == [n \in 1 .. k |-> (c(n) * ((z(n) - v(n)) % P)) % P]
           o == 1
<1>1. /\ CcsOk(R) /\ m \in {1, 2} /\ m \in Nat /\ Len(Us) = m /\ zLs \in List(Vec, m)
      /\ \A i \in 1 .. m : Us[i].r_x \in List(Fp, R.s) /\ Us[i].v \in List(Fp, 3)
      /\ gamma \in Fp /\ R.s \in 0 .. 3 /\ Corners(R.s) \in Nat
  <2>1. R.s \in 0 .. 3 /\ CcsOk(R)
    BY DEF ToWeigh, CcsOk
  <2>2. Corners(R.s) \in Nat
    BY <2>1, CornersIs
  <2> QED BY <2>1, <2>2 DEF ToWeigh
<1>2. L \in List(Product(Corners(R.s)), 3 * m + 2)
      /\ \A n \in 1 .. 3 * m : L[n] = LProduct(R, Us, zLs, gamma, n)
  BY GProductsIn
<1>3. k \in Nat
  BY <1>1
<1>4. ASSUME NEW n \in 1 .. k
      PROVE  /\ c(n) \in Int /\ z(n) \in Int /\ v(n) \in Int
             /\ t[n] \in Int /\ Cong(t[n], c(n) * z(n))
  <2> DEFINE i == InstanceOf(n)  j == MatrixOf(n)
  <2>1. i \in 1 .. m /\ j \in 1 .. 3
    BY <1>1, InstanceMatrixIn
  <2>2. c(n) \in Int
    <3>1. n - 1 \in 0 .. 7
      BY <1>1
    <3> QED BY <1>1, <3>1, PowInFp
  <2>3. v(n) \in Int
    <3>1. Us[i].v[j] \in Fp
      BY <1>1, <2>1 DEF List
    <3> QED BY <3>1, FpIsInt DEF VFor
  <2> DEFINE T == MzMle(R, j, zLs[i])  r == Us[i].r_x  p == L[n]
  <2>4. zLs[i] \in Vec /\ r \in List(Fp, R.s)
    BY <1>1, <2>1 DEF List
  <2>5. p \in Product(Corners(R.s)) /\ t[n] = TotalOf(p, Corners(R.s))
    <3>1. n \in 1 .. 3 * m + 2
      BY <1>1
    <3>2. L[n] \in Product(Corners(R.s))
      BY <1>2, <3>1 DEF List
    <3> QED BY <3>2
  <2>6. p = [c |-> c(n), mles |-> <<T, BuildEqVec(r)>>]
    BY <1>2 DEF LProduct
  <2>7. z(n) = MzAt(R, zLs[i], r)[j]
    BY DEF MzFor
  <2> HIDE DEF i, j, t, z, v, r, p
  <2>8. z(n) \in Int /\ z(n) = MleEvaluate(T, r) /\ T \in List(Fp, Corners(R.s))
    BY <1>1, <2>1, <2>4, <2>7, MzAtIs, MzMleList
  <2> HIDE DEF T, c
  <2>9. Cong(t[n], c(n) * MleEvaluate(T, r))
    <3> DEFINE q == c(n)  s == R.s
    <3>1. /\ q \in Int /\ s \in 0 .. 3 /\ r \in List(Fp, s) /\ T \in List(Fp, Corners(s))
          /\ p \in Product(Corners(s)) /\ p = [c |-> q, mles |-> <<T, BuildEqVec(r)>>]
      BY <1>1, <2>2, <2>4, <2>5, <2>6, <2>8
    <3> HIDE DEF q, s
    <3>2. Cong(TotalOf(p, Corners(s)), q * MleEvaluate(T, r))
      BY <3>1, TotalAgainstEq
    <3> QED BY <2>5, <3>2 DEF q, s
  <2>10. t[n] \in Int
    BY <1>1, <2>5, TotalIs
  <2> QED BY <2>2, <2>3, <2>8, <2>9, <2>10
<1>5. t \in List(Int, k)
  <2>1. \A n \in 1 .. k : TotalOf(L[n], Corners(R.s)) \in Int
    <3> TAKE n \in 1 .. k
    <3>1. t[n] = TotalOf(L[n], Corners(R.s))
      OBVIOUS
    <3> HIDE DEF t
    <3> QED BY <1>4, <3>1
  <2> QED BY <2>1, Zenon DEF List
<1>6. \A n \in 1 .. k : a[n] = (v(n) * c(n)) % P /\ b[n] = (c(n) * ((z(n) - v(n)) % P)) % P
  OBVIOUS
<1>7. ExpectedSum(Us, gamma) = SumSeq(<<>> \o a)
  BY <1>1 DEF ExpectedSum, Collect, VFor
<1>8. RunningMiss(R, Us, zLs, gamma) = SumSeq(<<>> \o b)
  BY <1>1 DEF RunningMiss, Collect
<1> HIDE DEF k, c, z, v, t
<1>9. ASSUME NEW n \in 1 .. k
      PROVE  /\ (v(n) * c(n)) % P \in Int /\ (c(n) * ((z(n) - v(n)) % P)) % P \in Int
             /\ (v(n) * c(n)) % P \in Fp /\ (c(n) * ((z(n) - v(n)) % P)) % P \in Fp
             /\ Cong(t[n], ((v(n) * c(n)) % P) + o * ((c(n) * ((z(n) - v(n)) % P)) % P))
  <2> DEFINE C == c(n)  Z == z(n)  V == v(n)  d == (Z - V) % P  x == (V * C) % P  y == (C * d) % P
             T == t[n]
  <2>1. C \in Int /\ Z \in Int /\ V \in Int /\ T \in Int /\ Cong(T, C * Z)
    BY <1>4
  <2> HIDE DEF C, Z, V, T
  <2>2. Z - V \in Int /\ V * C \in Int
    BY <2>1
  <2>3. d \in Int /\ Cong(d, Z - V)
    BY <2>2, CongOfMod, ModInFp, FpIsInt
  <2> HIDE DEF d
  <2>4. C * d \in Int
    BY <2>1, <2>3
  <2>5. x \in Fp /\ x \in Int /\ Cong(x, V * C) /\ y \in Fp /\ y \in Int /\ Cong(y, C * d)
    BY <2>2, <2>4, CongOfMod, ModInFp, FpIsInt
  <2> HIDE DEF x, y
  <2>6. Cong(T, x + o * y)
    <3>1. PICK i \in Int : T = C * Z + i * P
      BY <2>1 DEF Cong
    <3>2. PICK j \in Int : d = Z - V + j * P
      BY <2>3 DEF Cong
    <3>3. PICK l \in Int : x = V * C + l * P
      BY <2>5 DEF Cong
    <3>4. PICK h \in Int : y = C * d + h * P
      BY <2>5 DEF Cong
    <3>5. C * d = C * Z - V * C + (C * j) * P
      BY <2>1, <3>2, PAssumption
    <3>6. T = (x + o * y) + (i - l - h - C * j) * P
      BY <2>1, <2>5, <3>1, <3>3, <3>4, <3>5, PAssumption
    <3>7. i - l - h - C * j \in Int
      BY <2>1
    <3> QED BY <3>6, <3>7 DEF Cong
  <2> QED BY <2>5, <2>6 DEF x, y, d, C, Z, V, T
<1>10. a \in List(Int, k) /\ b \in List(Int, k) /\ a \in [1 .. k -> Fp] /\ b \in [1 .. k -> Fp]
  BY <1>9, Zenon DEF List
<1>11. \A n \in 1 .. k : Cong(t[n], a[n] + o * b[n])
  <2> TAKE n \in 1 .. k
  <2>1. a[n] = (v(n) * c(n)) % P /\ b[n] = (c(n) * ((z(n) - v(n)) % P)) % P
    BY <1>6
  <2> HIDE DEF a, b, o
  <2> QED BY <1>9, <2>1
<1> HIDE DEF a, b
<1>12. <<>> \o a = a /\ <<>> \o b = b
  BY <1>3, <1>10, CollectIs
<1>13. SumSeq(a) \in Fp /\ SumSeq(b) \in Fp /\ SumSeq(a) \in Int /\ SumSeq(b) \in Int
  BY <1>3, <1>10, SumInFp
<1>14. Cong(SumSeq(t), SumSeq(a) + o * SumSeq(b))
  <2>1. o \in Int
    OBVIOUS
  <2> HIDE DEF o
  <2> QED BY <1>3, <1>5, <1>10, <1>11, <2>1, SumLinear
<1>15. o * SumSeq(b) = SumSeq(b)
  BY <1>13
<1> QED
  BY <1>5, <1>7, <1>8, <1>12, <1>13, <1>14, <1>15 DEF t, k

\* That of the others is what the incoming pair misses.
LEMMA IncomingTotal ==
  ASSUME NEW R, NEW Us, NEW us, NEW zLs, NEW zCs, NEW gamma, NEW beta, NEW m,
         ToWeigh(R, Us, zLs, zCs, gamma, beta, m), Len(us) = 1, NEW L,
         L = GProducts(R, Us, zLs, zCs[1], gamma, beta, m)
  PROVE  /\ IncomingMiss(R, Us, us, zCs, gamma, beta) \in Fp
         /\ TotalOf(L[3 * m + 1], Corners(R.s)) \in Int /\ TotalOf(L[3 * m + 2], Corners(R.s)) \in Int
         /\ Cong(TotalOf(L[3 * m + 1], Corners(R.s)) + TotalOf(L[3 * m + 2], Corners(R.s)),
                 IncomingMiss(R, Us, us, zCs, gamma, beta))
<1> DEFINE k == 3 * m  w == Pow(gamma, k)  z == zCs[1]  s == R.s
           a == MzMle(R, 1, z)  b == MzMle(R, 2, z)  c == MzMle(R, 3, z)  E == ErrorTable(R, z)
           w1 == (1 * w) % P  w2 == ((P - 1) * w) % P
           p1 == L[k + 1]  p2 == L[k + 2]  e == MleEvaluate(E, beta)
           t1 == TotalOf(p1, Corners(s))  t2 == TotalOf(p2, Corners(s))
           I == IncomingMiss(R, Us, us, zCs, gamma, beta)
<1>1. /\ CcsOk(R) /\ m \in {1, 2} /\ Len(Us) = m /\ z \in Vec /\ z[0] = 1
      /\ gamma \in Fp /\ beta \in List(Fp, s)
  BY DEF ToWeigh, List
<1>2. s \in 0 .. 3 /\ Corners(s) \in Nat
  <2>1. s \in 0 .. 3
    BY <1>1 DEF CcsOk
  <2> HIDE DEF s
  <2> QED BY <2>1, CornersIs
<1>3. /\ a \in List(Fp, Corners(s)) /\ b \in List(Fp, Corners(s)) /\ c \in List(Fp, Corners(s))
      /\ E \in List(Fp, Corners(s))
      /\ \A i \in 1 .. Corners(s) : Cong(E[i], a[i] * b[i] - c[i])
  BY <1>1, MzMleList, ErrorTableIs
<1>4. w \in Int
  <2>1. k \in 0 .. 7
    BY <1>1
  <2> HIDE DEF k
  <2> QED BY <1>1, <2>1, PowInFp
<1>5. /\ p1 = [c |-> w1, mles |-> <<a, b, BuildEqVec(beta)>>]
      /\ p2 = [c |-> w2, mles |-> <<c, BuildEqVec(beta)>>]
      /\ p1 \in Product(Corners(s)) /\ p2 \in Product(Corners(s))
  <2> DEFINE q1 == QProduct(R, z, gamma, beta, k, 1)  q2 == QProduct(R, z, gamma, beta, k, 2)
  <2>1. /\ L \in List(Product(Corners(R.s)), 3 * m + 2)
        /\ \A j \in 1 .. 2 : L[3 * m + j] = QProduct(R, z, gamma, beta, 3 * m, j)
    BY GProductsIn
  <2>2. p1 = q1 /\ p2 = q2
    BY <2>1
  <2>3. p1 \in Product(Corners(s)) /\ p2 \in Product(Corners(s))
    <3>1. k + 1 \in 1 .. 3 * m + 2 /\ k + 2 \in 1 .. 3 * m + 2
      BY <1>1
    <3> QED BY <2>1, <3>1 DEF List
  <2>4. q1 = [c |-> q1.c, mles |-> q1.mles] /\ q2 = [c |-> q2.c, mles |-> q2.mles]
    BY DEF QProduct
  <2> HIDE DEF q1, q2, p1, p2
  <2>5. /\ q1.mles = <<a, b, BuildEqVec(beta)>> /\ q2.mles = <<c, BuildEqVec(beta)>>
        /\ q1.c = w1 /\ q2.c = w2
    <3> HIDE DEF z, k
    <3> QED BY QProductIs DEF q1, q2
  <2> HIDE DEF a, b, c, w1, w2
  <2> QED BY <2>2, <2>3, <2>4, <2>5
<1>6. e \in Int
  BY <1>1, <1>2, <1>3, MleInFp
<1>7. I = SumSeq(<<>> \o [i \in 1 .. 1 |-> (w * e) % P])
  <2>1. IncomingMiss(R, Us, us, zCs, gamma, beta)
          = SumSeq(<<>> \o [i \in 1 .. 1 |->
              (Pow(gamma, 3 * m + i - 1) * MleEvaluate(ErrorTable(R, zCs[i]), beta)) % P])
    BY <1>1 DEF IncomingMiss, Collect
  <2>2. \A i \in 1 .. 1 : (Pow(gamma, 3 * m + i - 1) * MleEvaluate(ErrorTable(R, zCs[i]), beta)) % P
                            = (w * e) % P
    <3> TAKE i \in 1 .. 1
    <3>1. i = 1 /\ 3 * m + i - 1 = k
      BY <1>1
    <3> QED BY <3>1
  <2>3. [i \in 1 .. 1 |->
              (Pow(gamma, 3 * m + i - 1) * MleEvaluate(ErrorTable(R, zCs[i]), beta)) % P]
         = [i \in 1 .. 1 |-> (w * e) % P]
    BY <2>2, Zenon
  <2> QED BY <2>1, <2>3
<1> HIDE DEF w, e, a, b, c, E, p1, p2, s, t1, t2, I
<1>8. w1 \in Int /\ w2 \in Int /\ Cong(w1, w) /\ Cong(w2, -w)
  <2>1. 1 * w \in Int /\ (P - 1) * w \in Int /\ 1 * w = w /\ -w \in Int
    BY <1>4, PAssumption
  <2>2. w1 \in Int /\ w2 \in Int /\ Cong(w1, w) /\ Cong(w2, (P - 1) * w)
    BY <2>1, CongOfMod, ModInFp, FpIsInt
  <2>3. Cong((P - 1) * w, -w)
    <3>1. (P - 1) * w = -w + w * P
      BY <1>4, PAssumption
    <3> QED BY <1>4, <3>1 DEF Cong
  <2> HIDE DEF w1, w2
  <2> QED BY <2>1, <2>2, <2>3, CongTrans
<1> HIDE DEF w1, w2
<1>9. Cong(t1 + t2, w * e)
  <2>1. Cong(TotalOf(p1, Corners(s)) + TotalOf(p2, Corners(s)), w * MleEvaluate(E, beta))
    BY <1>1, <1>2, <1>3, <1>4, <1>5, <1>8, QTotals DEF s
  <2> QED BY <2>1 DEF t1, t2, e
<1>10. t1 \in Int /\ t2 \in Int
  BY <1>2, <1>5, TotalIs DEF t1, t2
<1> DEFINE x == (w * e) % P  f == [i \in 1 .. 1 |-> x]
<1>11. w * e \in Int
  BY <1>4, <1>6
<1>12. x \in Fp /\ x \in Int /\ Cong(x, w * e)
  BY <1>11, CongOfMod, ModInFp, FpIsInt
<1>13. f \in [1 .. 1 -> Int] /\ f[1] = x /\ 1 \in Nat
  BY <1>12
<1>14. I = SumSeq(<<>> \o f)
  BY <1>7
<1> HIDE DEF x, f
<1>15. f \in List(Int, 1) /\ <<>> \o f = f
  BY <1>13, CollectIs DEF List
<1>16. SumSeq(f) \in Fp /\ SumSeq(f) \in Int /\ Cong(SumSeq(f), x)
  BY <1>13, <1>15, SumOfOne, SumInFp
<1>17. I \in Fp /\ I \in Int /\ Cong(I, x)
  BY <1>14, <1>15, <1>16
<1>18. t1 + t2 \in Int
  BY <1>10
<1>19. Cong(I, w * e)
  BY <1>11, <1>12, <1>17, CongTrans
<1>20. Cong(t1 + t2, I)
  BY <1>9, <1>11, <1>17, <1>18, <1>19, CongSym, CongTrans
<1> QED
  BY <1>10, <1>17, <1>20 DEF t1, t2, p1, p2, s, I

\* The polynomial of a fold sums to what the verifier expects exactly if nothing is
\* missed.
LEMMA WeighedTotal ==
  ASSUME NEW R, NEW Us, NEW us, NEW zLs, NEW zCs, NEW gamma, NEW beta, NEW m,
         ToWeigh(R, Us, zLs, zCs, gamma, beta, m), Len(us) = 1, NEW g,
         g = ComputeG(R, Us, zLs, zCs, gamma, beta)
  PROVE  /\ ExpectedSum(Us, gamma) \in Fp
         /\ (VirtualTotal(g, 3 * m + 2, Corners(R.s)) = ExpectedSum(Us, gamma))
              <=> (Missed(R, Us, us, zLs, zCs, gamma, beta) = 0)
<1> DEFINE L == g.products  k == 3 * m  K == k + 2  M == Corners(R.s)  V == VirtualTotal(g, K, M)
           t == [n \in 1 .. K |-> TotalOf(L[n], M)]
           A == ExpectedSum(Us, gamma)  B == RunningMiss(R, Us, zLs, gamma)
           C == IncomingMiss(R, Us, us, zCs, gamma, beta)
           r == [n \in 1 .. k |-> t[n]]  q == [i \in 1 .. 2 |-> t[k + i]]
<1>1. IsVirtual(g, K, M) /\ L = GProducts(R, Us, zLs, zCs[1], gamma, beta, m)
  BY ComputeGIs
<1>2. m \in Nat /\ k \in Nat /\ K \in Nat /\ M \in Nat
  <2>1. R.s \in 0 .. 3 /\ m \in Nat
    BY DEF ToWeigh, CcsOk
  <2> QED BY <2>1, CornersIs
<1>3. t \in List(Int, K) /\ V = SumSeq(t) /\ V \in Fp /\ V \in Int
  <2>1. V = SumSeq(t)
    BY Zenon DEF VirtualTotal
  <2> HIDE DEF M, K
  <2>2. V \in Fp /\ V \in Int /\ [i \in 1 .. K |-> TotalOf(g.products[i], M)] \in List(Int, K)
    BY <1>1, <1>2, VirtualParts
  <2>3. t \in List(Int, K)
    BY <2>2, Zenon
  <2> QED BY <2>1, <2>2, <2>3
<1>4. /\ A \in Fp /\ B \in Fp
      /\ [n \in 1 .. k |-> TotalOf(L[n], M)] \in List(Int, k)
      /\ Cong(SumSeq([n \in 1 .. k |-> TotalOf(L[n], M)]), A + B)
  BY <1>1, RunningTotal
<1>5. /\ C \in Fp /\ TotalOf(L[k + 1], M) \in Int /\ TotalOf(L[k + 2], M) \in Int
      /\ Cong(TotalOf(L[k + 1], M) + TotalOf(L[k + 2], M), C)
  BY <1>1, IncomingTotal
<1>6. r = [n \in 1 .. k |-> TotalOf(L[n], M)]
  <2>1. \A n \in 1 .. k : t[n] = TotalOf(L[n], M)
    BY <1>2
  <2> HIDE DEF t
  <2> QED BY <2>1, Zenon
<1>7. q[1] = TotalOf(L[k + 1], M) /\ q[2] = TotalOf(L[k + 2], M)
  BY <1>2
<1> HIDE DEF A, B, C, L, V, t, M
<1>8. /\ Prefix(t, k) = r /\ q \in List(Int, 2)
      /\ Cong(SumSeq(t), SumSeq(Prefix(t, k)) + SumSeq(q))
  <2> DEFINE two == 2
  <2>1. two \in Nat /\ K = k + two
    OBVIOUS
  <2>2. q = [i \in 1 .. two |-> t[k + i]]
    OBVIOUS
  <2> HIDE DEF two, q
  <2>3. q \in List(Int, two) /\ Cong(SumSeq(t), SumSeq(Prefix(t, k)) + SumSeq(q))
    BY <1>2, <1>3, <2>1, <2>2, SumSplit
  <2> QED BY <2>3 DEF Prefix, two
<1> HIDE DEF r, q, k
<1>9. SumSeq(q) \in Int /\ Cong(SumSeq(q), q[1] + q[2])
  BY <1>8, SumOfTwo
<1>10. SumSeq(r) \in Int /\ Cong(SumSeq(r), A + B)
  BY <1>2, <1>4, <1>6, SumInFp
<1> DEFINE x == SumSeq(r)  y == SumSeq(q)
<1>11. A \in Int /\ B \in Int /\ C \in Int
  BY <1>4, <1>5, FpIsInt
<1>12. x \in Int /\ y \in Int /\ Cong(x, A + B) /\ Cong(y, C) /\ Cong(V, x + y)
  <2>1. q[1] + q[2] \in Int /\ Cong(q[1] + q[2], C)
    BY <1>5, <1>7
  <2>2. Cong(y, C)
    BY <1>9, <1>11, <2>1, CongTrans
  <2> QED BY <1>3, <1>8, <1>9, <1>10, <2>2
<1> HIDE DEF x, y
<1> DEFINE D == (B + C) % P
<1>13. D \in Fp /\ D \in Int /\ Cong(D, B + C) /\ D = Missed(R, Us, us, zLs, zCs, gamma, beta)
  <2>1. B + C \in Int
    BY <1>11
  <2> QED BY <2>1, ModInFp, FpIsInt, CongOfMod DEF Missed, B, C
<1> HIDE DEF D
<1>14. Cong(V, A + D)
  <2>1. PICK i \in Int : V = x + y + i * P
    BY <1>12 DEF Cong
  <2>2. PICK j \in Int : x = A + B + j * P
    BY <1>12 DEF Cong
  <2>3. PICK l \in Int : y = C + l * P
    BY <1>12 DEF Cong
  <2>4. PICK h \in Int : D = B + C + h * P
    BY <1>13 DEF Cong
  <2>5. V = (A + D) + (i + j + l - h) * P
    BY <1>11, <1>13, <2>1, <2>2, <2>3, <2>4, PAssumption
  <2>6. i + j + l - h \in Int
    OBVIOUS
  <2> QED BY <2>5, <2>6 DEF Cong
<1>15. V = A => D = 0
  <2> HAVE V = A
  <2>1. PICK i \in Int : A = A + D + i * P
    BY <1>14 DEF Cong
  <2>2. 0 = D + i * P
    BY <1>11, <1>13, <2>1, PAssumption
  <2>3. 0 \in Fp /\ Cong(0, D)
    BY <2>2, ZeroOneInFp DEF Cong
  <2> QED BY <1>13, <2>3, EqOfCong
<1>16. D = 0 => V = A
  <2> HAVE D = 0
  <2>1. A + D = A
    BY <1>11
  <2> QED BY <1>3, <1>4, <1>14, <2>1, EqOfCong
<1> QED
  BY <1>4, <1>13, <1>15, <1>16 DEF A, V, M, k
----------------------------------------------------------------------------
\* The polynomials a prover goes through, one challenge after another, and its messages.
FixRun(h, g, point, proofs, n) ==
  /\ h[0] = g
  /\ \A i \in 1 .. n : h[i] = VpFix(h[i - 1], point[i]) /\ proofs[i] = RoundMessage(h[i - 1])

Rounds(g, point, proofs, n, poly) == \E h : FixRun(h, g, point, proofs, n) /\ h[n] = poly

LEMMA RoundsNone ==
  ASSUME NEW g, NEW point, NEW proofs
  PROVE  Rounds(g, point, proofs, 0, g)
<1> DEFINE h == [i \in 0 .. 0 |-> g]
<1>1. FixRun(h, g, point, proofs, 0) /\ h[0] = g
  BY DEF FixRun
<1> QED
  BY <1>1 DEF Rounds

\* One more round.
LEMMA RoundsNext ==
  ASSUME NEW n \in Nat, NEW g, NEW poly, NEW r,
         NEW point, NEW proofs, NEW point1, NEW proofs1, Rounds(g, point, proofs, n, poly),
         \A i \in 1 .. n : point1[i] = point[i] /\ proofs1[i] = proofs[i],
         point1[n + 1] = r, proofs1[n + 1] = RoundMessage(poly)
  PROVE  Rounds(g, point1, proofs1, n + 1, VpFix(poly, r))
<1>1. PICK h : FixRun(h, g, point, proofs, n) /\ h[n] = poly
  BY DEF Rounds
<1> DEFINE k == [i \in 0 .. n + 1 |-> IF i <= n THEN h[i] ELSE VpFix(poly, r)]
<1>2. k[n + 1] = VpFix(poly, r) /\ (\A i \in 0 .. n : k[i] = h[i])
  OBVIOUS
<1> HIDE DEF k
<1>3. k[0] = g
  BY <1>1, <1>2 DEF FixRun
<1>4. ASSUME NEW i \in 1 .. n + 1
      PROVE  k[i] = VpFix(k[i - 1], point1[i]) /\ proofs1[i] = RoundMessage(k[i - 1])
  <2>1. CASE i \in 1 .. n
    <3>1. i \in 0 .. n /\ i - 1 \in 0 .. n
      BY <2>1
    <3>2. h[i] = VpFix(h[i - 1], point[i]) /\ proofs[i] = RoundMessage(h[i - 1])
      BY <1>1, <2>1 DEF FixRun
    <3> QED BY <1>2, <2>1, <3>1, <3>2
  <2>2. CASE i = n + 1
    <3>1. i - 1 = n /\ n \in 0 .. n
      BY <2>2
    <3>2. k[i - 1] = poly
      BY <1>1, <1>2, <3>1
    <3> QED BY <1>2, <2>2, <3>2
  <2> QED BY <2>1, <2>2
<1>5. FixRun(k, g, point1, proofs1, n + 1)
  BY <1>3, <1>4 DEF FixRun
<1> QED
  BY <1>2, <1>5 DEF Rounds

LEMMA RunVirtual ==
  ASSUME NEW s \in 0 .. 3, NEW n \in 0 .. s, NEW K \in Nat, NEW g, IsVirtual(g, K, Corners(s)),
         NEW point \in List(Fp, n), NEW proofs, NEW h, FixRun(h, g, point, proofs, n)
  PROVE  \A i \in 0 .. n : IsVirtual(h[i], K, Corners(s - i))
<1> DEFINE S == {i \in Nat : i <= n => IsVirtual(h[i], K, Corners(s - i))}
<1>1. 0 \in S
  <2>1. h[0] = g /\ s - 0 = s
    BY DEF FixRun
  <2> QED BY <2>1
<1>2. ASSUME NEW i \in Nat, i \in S PROVE i + 1 \in S
  <2> SUFFICES ASSUME i + 1 <= n PROVE IsVirtual(h[i + 1], K, Corners(s - (i + 1)))
    OBVIOUS
  <2> DEFINE a == s - i  m == Corners(a - 1)
  <2>1. /\ i + 1 \in 1 .. n /\ (i + 1) - 1 = i /\ i <= n
        /\ a \in 1 .. 3 /\ a - 1 \in 0 .. 3 /\ s - (i + 1) = a - 1
    OBVIOUS
  <2>2. IsVirtual(h[i], K, Corners(a))
    BY <1>2, <2>1
  <2> HIDE DEF a, S
  <2>3. m \in Nat /\ Corners(a) = 2 * m
    BY <2>1, CornersIs
  <2> HIDE DEF m
  <2>4. h[i + 1] = VpFix(h[i], point[i + 1])
    BY <2>1 DEF FixRun
  <2>5. point[i + 1] \in Fp
    BY <2>1 DEF List
  <2>6. IsVirtual(VpFix(h[i], point[i + 1]), K, m)
    BY <2>2, <2>3, <2>5, VpFixIs
  <2> QED BY <2>1, <2>4, <2>6 DEF m
<1>3. \A i \in Nat : i \in S
  <2> HIDE DEF S
  <2> QED BY <1>1, <1>2, SetInduction
<1> QED
  BY <1>3

\* Each message sums to the total of what it is about, and evaluates to the next total.
LEMMA RunSums ==
  ASSUME NEW s \in 0 .. 3, NEW n \in 0 .. s, NEW K \in Nat, NEW g, IsVirtual(g, K, Corners(s)),
         NEW point \in List(Fp, n), NEW proofs, NEW h, FixRun(h, g, point, proofs, n),
         NEW i \in 1 .. n
  PROVE  /\ SumOverBit(proofs[i]) = VirtualTotal(h[i - 1], K, Corners(s - (i - 1)))
         /\ PolyEval(proofs[i], point[i]) = VirtualTotal(h[i], K, Corners(s - i))
<1> DEFINE a == s - (i - 1)  m == Corners(a - 1)  v == h[i - 1]
<1>1. i - 1 \in 0 .. n /\ a \in 1 .. 3 /\ a - 1 = s - i
  OBVIOUS
<1>2. IsVirtual(v, K, Corners(a))
  BY <1>1, RunVirtual
<1>3. h[i] = VpFix(v, point[i]) /\ proofs[i] = RoundMessage(v)
  BY DEF FixRun
<1>4. point[i] \in Fp
  BY DEF List
<1> HIDE DEF v, a
<1>5. m \in Nat /\ Corners(a) = 2 * m
  BY <1>1, CornersIs
<1> HIDE DEF m
<1>6. /\ SumOverBit(RoundMessage(v)) = VirtualTotal(v, K, 2 * m)
      /\ PolyEval(RoundMessage(v), point[i]) = VirtualTotal(VpFix(v, point[i]), K, m)
  BY <1>2, <1>4, <1>5, RoundKeepsSum
<1> QED
  BY <1>1, <1>3, <1>5, <1>6 DEF v, a, m

\* What the verifier says of the messages of all rounds and the total at the point.
AcceptsTotal(A, proofs, point, c, total) ==
  (VerdictOf(CheckAndGenerateSubclaim(A, proofs, point), c) = "Ok") <=> (total = A)

LEMMA RunAccepted ==
  ASSUME NEW s \in 0 .. 3, NEW K \in Nat, NEW g, IsVirtual(g, K, Corners(s)),
         NEW point \in List(Fp, s), NEW proofs, Len(proofs) = s,
         NEW h, FixRun(h, g, point, proofs, s), NEW A \in Fp
  PROVE  AcceptsTotal(A, proofs, point, VirtualTotal(h[s], K, 1), VirtualTotal(g, K, Corners(s)))
<1> DEFINE f == [j \in 1 .. s |-> PolyEval(proofs[j], point[j])]
           V(i) == VirtualTotal(h[i], K, Corners(s - i))
           e == Expected(A, proofs, point)
<1>1. \A i \in 1 .. s : SumOverBit(proofs[i]) = V(i - 1) /\ f[i] = V(i)
  BY RunSums
<1>2. V(0) = VirtualTotal(g, K, Corners(s)) /\ V(s) = VirtualTotal(h[s], K, 1)
  <2>1. h[0] = g /\ s - 0 = s /\ s - s = 0
    BY DEF FixRun
  <2> QED BY <2>1, CornersIs
<1>3. \A i \in 1 .. s : V(i) \in Fp
  <2> TAKE i \in 1 .. s
  <2>1. i \in 0 .. s /\ s \in 0 .. s /\ s - i \in 0 .. 3
    OBVIOUS
  <2>2. IsVirtual(h[i], K, Corners(s - i))
    BY <2>1, RunVirtual
  <2>3. Corners(s - i) \in Nat
    BY <2>1, CornersIs
  <2> QED BY <2>2, <2>3, VirtualParts
<1>4. e = <<A>> \o (<<>> \o f)
  BY DEF Expected, Collect
<1> HIDE DEF V, e
<1>5. f \in [1 .. s -> Fp]
  BY <1>1, <1>3
<1> HIDE DEF f
<1>6. e[1] = A /\ \A i \in 1 .. s : e[i + 1] = V(i)
  <2>1. <<>> \o f = f /\ f \in Seq(Fp) /\ Len(f) = s
    BY <1>5, CollectIs
  <2>2. <<A>> \in Seq(Fp) /\ Len(<<A>>) = 1 /\ <<A>>[1] = A
    OBVIOUS
  <2>3. e = <<A>> \o f
    BY <1>4, <2>1
  <2>4. \A i \in 1 .. s : e[i + 1] = f[i]
    BY <2>1, <2>2, <2>3
  <2>5. e[1] = A
    BY <2>1, <2>2, <2>3
  <2> QED BY <1>1, <2>4, <2>5
<1> DEFINE ok == \A j \in 1 .. Len(proofs) : SumOverBit(proofs[j]) = e[j]
           c == VirtualTotal(h[s], K, 1)  last == e[Len(proofs) + 1]
           v == VerdictOf(CheckAndGenerateSubclaim(A, proofs, point), c)
<1>7. (v = "Ok") <=> (ok /\ c = last)
  BY DEF VerdictOf, CheckAndGenerateSubclaim, e
<1>8. ok <=> \A j \in 1 .. s : V(j - 1) = e[j]
  BY <1>1
<1>9. last = e[s + 1] /\ c = V(s)
  BY <1>2
<1> HIDE DEF ok, last, c, v
<1>10. CASE s = 0
  BY <1>2, <1>6, <1>7, <1>8, <1>9, <1>10 DEF v, c, AcceptsTotal
<1>11. CASE s \in 1 .. 3
  <2>1. c = last
    BY <1>6, <1>9, <1>11
  <2>2. \A j \in 2 .. s : V(j - 1) = e[j]
    <3> TAKE j \in 2 .. s
    <3>1. j - 1 \in 1 .. s /\ (j - 1) + 1 = j
      OBVIOUS
    <3> QED BY <1>6, <3>1
  <2>3. ok <=> V(0) = A
    <3>1. ok => V(1 - 1) = e[1]
      BY <1>8, <1>11
    <3>2. 1 - 1 = 0 /\ \A j \in 1 .. s : j = 1 \/ j \in 2 .. s
      OBVIOUS
    <3> QED BY <1>6, <1>8, <2>2, <3>1, <3>2
  <2> QED BY <1>2, <1>7, <2>1, <2>3 DEF v, c, AcceptsTotal
<1> QED
  BY <1>10, <1>11

Fixes(p, q, r) ==
  /\ q.c = p.c /\ Len(q.mles) = Len(p.mles)
  /\ \A j \in 1 .. Len(p.mles) : q.mles[j] = FixVariable(p.mles[j], r)

\* A round changes the tables of a product, one value fixed in each.
LEMMA RunStep ==
  ASSUME NEW s \in 0 .. 3, NEW n \in 0 .. s, NEW K \in Nat, NEW g, IsVirtual(g, K, Corners(s)),
         NEW point \in List(Fp, n), NEW proofs, NEW h, FixRun(h, g, point, proofs, n),
         NEW i \in 1 .. n, NEW k \in 1 .. K
  PROVE  Fixes(h[i - 1].products[k], h[i].products[k], point[i])
<1> DEFINE a == s - (i - 1)  m == Corners(a - 1)  v == h[i - 1]  r == point[i]
<1>1. i - 1 \in 0 .. n /\ a \in 1 .. 3
  OBVIOUS
<1>2. IsVirtual(v, K, Corners(a))
  BY <1>1, RunVirtual
<1>3. h[i] = VpFix(v, r)
  BY DEF FixRun
<1>4. r \in Fp
  BY DEF List
<1> HIDE DEF v, a, r
<1>5. m \in Nat /\ Corners(a) = 2 * m
  BY <1>1, CornersIs
<1> HIDE DEF m
<1>6. IsFixed(VpFix(v, r), v, r, K)
  BY <1>2, <1>4, <1>5, VpFixIs
<1>7. h[i].products[k] = FixProduct(v.products[k], r)
  BY <1>3, <1>6 DEF IsFixed
<1> DEFINE b == 2 * m
<1>8. b \in Nat /\ IsVirtual(v, K, b)
  BY <1>2, <1>5
<1>9. v.products[k] \in Product(2 * m)
  <2> HIDE DEF b
  <2>1. v.products[k] \in Product(b)
    BY <1>8, VirtualParts
  <2> QED BY <2>1 DEF b
<1> DEFINE p == v.products[k]
<1> HIDE DEF p
<1>10. /\ Len(FixProduct(p, r).mles) = Len(p.mles) /\ FixProduct(p, r).c = p.c
       /\ \A j \in 1 .. Len(p.mles) : FixProduct(p, r).mles[j] = FixVariable(p.mles[j], r)
  BY <1>4, <1>5, <1>9, FixProductIs DEF p
<1> QED
  BY <1>7, <1>10 DEF p, v, r, Fixes

LeftOf(p, p0, s, n, q) ==
  /\ p.c = p0.c /\ Len(p.mles) = Len(p0.mles)
  /\ \A f : \A j \in 1 .. Len(p0.mles) : MleRunOf(f, p0.mles[j], s, q) => p.mles[j] = f[n]

\* After n rounds the tables are those of an evaluation at a point that starts with
\* the challenges.
LEMMA RunFactors ==
  ASSUME NEW s \in 0 .. 3, NEW n \in 0 .. s, NEW K \in Nat, NEW g, IsVirtual(g, K, Corners(s)),
         NEW point \in List(Fp, n), NEW proofs, NEW h, FixRun(h, g, point, proofs, n),
         NEW k \in 1 .. K, NEW q, \A i \in 1 .. n : q[i] = point[i]
  PROVE  LeftOf(h[n].products[k], g.products[k], s, n, q)
<1> DEFINE p(i) == h[i].products[k]  l == Len(g.products[k].mles)
           S == {i \in Nat : i <= n => p(i).c = g.products[k].c /\ Len(p(i).mles) = l}
<1>1. h[0] = g
  BY DEF FixRun
<1>2. 0 \in S
  BY <1>1
<1>3. \A i \in 1 .. n :
        /\ p(i).c = p(i - 1).c /\ Len(p(i).mles) = Len(p(i - 1).mles)
        /\ \A j \in 1 .. Len(p(i - 1).mles) :
             p(i).mles[j] = FixVariable(p(i - 1).mles[j], point[i])
  <2> TAKE i \in 1 .. n
  <2>1. Fixes(h[i - 1].products[k], h[i].products[k], point[i])
    <3> HIDE DEF p, S, l
    <3> QED BY RunStep
  <2> QED BY <2>1 DEF Fixes
<1> HIDE DEF p
<1>4. ASSUME NEW i \in Nat, i \in S PROVE i + 1 \in S
  <2> SUFFICES ASSUME i + 1 <= n PROVE p(i + 1).c = g.products[k].c /\ Len(p(i + 1).mles) = l
    OBVIOUS
  <2>1. i + 1 \in 1 .. n /\ (i + 1) - 1 = i /\ i <= n
    OBVIOUS
  <2>2. p(i).c = g.products[k].c /\ Len(p(i).mles) = l
    BY <1>4, <2>1
  <2> QED BY <1>3, <2>1, <2>2
<1>5. \A i \in 0 .. n : p(i).c = g.products[k].c /\ Len(p(i).mles) = l
  <2>1. \A i \in Nat : i \in S
    <3> HIDE DEF S
    <3> QED BY <1>2, <1>4, SetInduction
  <2> QED BY <2>1
<1>6. ASSUME NEW j \in 1 .. l, NEW f, MleRunOf(f, g.products[k].mles[j], s, q)
      PROVE  p(n).mles[j] = f[n]
  <2> DEFINE t == [i \in 0 .. n |-> p(i).mles[j]]
  <2>1. \A i \in 0 .. n : t[i] = p(i).mles[j]
    OBVIOUS
  <2> HIDE DEF t
  <2>2. f[0] = t[0]
    <3>1. f[0] = g.products[k].mles[j]
      BY <1>6 DEF MleRunOf
    <3>2. 0 \in 0 .. n
      OBVIOUS
    <3> QED BY <1>1, <2>1, <3>1, <3>2 DEF p
  <2>3. ASSUME NEW i \in 1 .. n, f[i - 1] = t[i - 1] PROVE f[i] = t[i]
    <3>1. i \in 1 .. s /\ i - 1 \in 0 .. n /\ i \in 0 .. n
      OBVIOUS
    <3>2. f[i] = FixVariable(f[i - 1], q[i])
      BY <1>6, <3>1 DEF MleRunOf
    <3>3. p(i).mles[j] = FixVariable(p(i - 1).mles[j], point[i])
      BY <1>3, <1>5, <3>1
    <3> QED BY <2>1, <2>3, <3>1, <3>2, <3>3
  <2>4. \A i \in 0 .. n : f[i] = t[i]
    <3>1. n \in Nat
      OBVIOUS
    <3> HIDE DEF l
    <3> QED BY <2>2, <2>3, <3>1, SameRun
  <2> QED BY <2>1, <2>4
<1>7. n \in 0 .. n
  OBVIOUS
<1> QED
  BY <1>5, <1>6, <1>7 DEF p, LeftOf

\* A product at a point.
TermAt(p, q) ==
  (p.c * ProdSeq(Collect(Len(p.mles), LAMBDA j : MleEvaluate(p.mles[j], q)))) % P

\* The last s - n coordinates of q pick position b of what the others leave.
Picks(s, n, q, b) ==
  \A f : \A t \in List(Fp, Corners(s)) : MleRunOf(f, t, s, q) => f[s][1] = f[n][b]

\* An entry of what n rounds leave of a product is the product at a point.
LEMMA RunEntry ==
  ASSUME NEW s \in 0 .. 3, NEW n \in 0 .. s, NEW K \in Nat, NEW g, IsVirtual(g, K, Corners(s)),
         NEW point \in List(Fp, n), NEW proofs, NEW h, FixRun(h, g, point, proofs, n),
         NEW k \in 1 .. K, NEW q \in List(Fp, s), \A i \in 1 .. n : q[i] = point[i],
         NEW b, Picks(s, n, q, b)
  PROVE  Entry(h[n].products[k], b) = TermAt(g.products[k], q)
<1> DEFINE p == h[n].products[k]  p0 == g.products[k]
<1>1. /\ p.c = p0.c /\ Len(p.mles) = Len(p0.mles)
      /\ \A f : \A j \in 1 .. Len(p0.mles) : MleRunOf(f, p0.mles[j], s, q) => p.mles[j] = f[n]
  <2>1. LeftOf(p, p0, s, n, q)
    BY RunFactors
  <2> QED BY <2>1 DEF LeftOf
<1>2. Corners(s) \in Nat
  BY CornersIs
<1>3. p0 \in Product(Corners(s))
  BY <1>2, VirtualParts
<1> HIDE DEF p, p0
<1> DEFINE l == Len(p0.mles)  x == [j \in 1 .. l |-> p.mles[j][b]]
           y == [j \in 1 .. l |-> MleEvaluate(p0.mles[j], q)]
<1>4. ASSUME NEW j \in 1 .. l PROVE p.mles[j][b] = MleEvaluate(p0.mles[j], q)
  <2>1. p0.mles[j] \in List(Fp, Corners(s))
    <3>1. p0.mles \in List(List(Fp, Corners(s)), l)
      BY <1>2, <1>3, ProductParts
    <3> QED BY <3>1, Zenon DEF List
  <2>2. PICK f : MleRunOf(f, p0.mles[j], s, q)
    BY <1>2, <2>1, MleRunExists
  <2>3. p.mles[j] = f[n]
    BY <1>1, <2>2
  <2>4. f[s][1] = f[n][b]
    BY <2>1, <2>2 DEF Picks
  <2> QED BY <2>2, <2>3, <2>4 DEF MleRunOf
<1>5. x = y
  BY <1>4
<1>6. Entry(p, b) = (p.c * ProdSeq(<<>> \o x)) % P /\ TermAt(p0, q) = (p0.c * ProdSeq(<<>> \o y)) % P
  BY <1>1 DEF Entry, TermAt, Collect
<1> HIDE DEF x, y
<1> QED
  BY <1>1, <1>5, <1>6 DEF p, p0

\* What is left after all rounds is the polynomial at the point.
LEMMA RunTotal ==
  ASSUME NEW s \in 0 .. 3, NEW K \in Nat, NEW g, IsVirtual(g, K, Corners(s)),
         NEW point \in List(Fp, s), NEW proofs, NEW h, FixRun(h, g, point, proofs, s)
  PROVE  /\ \A k \in 1 .. K : TermAt(g.products[k], point) \in Fp
         /\ VirtualTotal(h[s], K, 1) = SumSeq([k \in 1 .. K |-> TermAt(g.products[k], point)])
<1>1. Picks(s, s, point, 1)
  BY DEF Picks
<1>2. IsVirtual(h[s], K, 1)
  <2>1. s \in 0 .. s /\ s - s = 0
    OBVIOUS
  <2>2. IsVirtual(h[s], K, Corners(s - s))
    BY <2>1, RunVirtual
  <2> QED BY <2>1, <2>2, CornersIs
<1>3. ASSUME NEW k \in 1 .. K
      PROVE  /\ TotalOf(h[s].products[k], 1) = TermAt(g.products[k], point)
             /\ TermAt(g.products[k], point) \in Fp
  <2> DEFINE p == h[s].products[k]
  <2>1. p \in Product(1)
    BY <1>2, VirtualParts
  <2>2. Entry(p, 1) = TermAt(g.products[k], point)
    BY <1>1, RunEntry
  <2> HIDE DEF p
  <2> DEFINE f == [i \in 1 .. 1 |-> Entry(p, i)]
  <2>3. TotalOf(p, 1) = SumSeq(f) /\ f \in List(Int, 1) /\ TotalOf(p, 1) \in Fp
    BY <2>1, TotalIs
  <2>4. Entry(p, 1) \in Fp /\ f[1] = Entry(p, 1)
    BY <2>1, EntryIs
  <2> HIDE DEF f
  <2>5. Cong(SumSeq(f), f[1])
    BY <2>3, SumOfOne
  <2>6. SumSeq(f) = Entry(p, 1)
    BY <2>3, <2>4, <2>5, EqOfCong
  <2> QED BY <2>2, <2>3, <2>4, <2>6 DEF p
<1>4. [k \in 1 .. K |-> TotalOf(h[s].products[k], 1)] = [k \in 1 .. K |-> TermAt(g.products[k], point)]
  BY <1>3, Zenon
<1> QED
  BY <1>3, <1>4 DEF VirtualTotal

\* The value at a point of a product of two tables, and of one of three.
LEMMA TermOfTwo ==
  ASSUME NEW n \in 0 .. 3, NEW q \in List(Fp, n), NEW c \in Int,
         NEW a \in List(Fp, Corners(n)), NEW b \in List(Fp, Corners(n)),
         NEW p, p = [c |-> c, mles |-> <<a, b>>]
  PROVE  /\ TermAt(p, q) \in Fp /\ TermAt(p, q) \in Int
         /\ Cong(TermAt(p, q), c * (MleEvaluate(a, q) * MleEvaluate(b, q)))
<1> DEFINE f == [j \in 1 .. 2 |-> MleEvaluate(p.mles[j], q)]  x == MleEvaluate(a, q)
           y == MleEvaluate(b, q)  e == ProdSeq(f)
<1>1. x \in Int /\ y \in Int
  BY MleInFp
<1>2. Len(p.mles) = 2 /\ f[1] = x /\ f[2] = y /\ p.c = c
  OBVIOUS
<1>3. TermAt(p, q) = (c * ProdSeq(<<>> \o f)) % P
  BY <1>2 DEF TermAt, Collect
<1>4. f \in [1 .. 2 -> Int] /\ 2 \in Nat /\ f \in List(Int, 2)
  <2>1. \A j \in 1 .. 2 : MleEvaluate(p.mles[j], q) \in Int
    BY <1>1
  <2> QED BY <2>1, Zenon DEF List
<1> HIDE DEF f, x, y
<1>5. <<>> \o f = f
  BY <1>4, CollectIs
<1>6. e \in Int /\ Cong(e, x * y)
  BY <1>1, <1>2, <1>4, ProdOfTwo
<1> DEFINE t == TermAt(p, q)  xy == x * y
<1>7. t = (c * e) % P /\ xy \in Int /\ Cong(e, xy)
  BY <1>1, <1>3, <1>5, <1>6
<1> HIDE DEF e, t, xy
<1>8. c * e \in Int /\ c * xy \in Int /\ Cong(c * e, c * xy)
  BY <1>6, <1>7, CongRefl, CongMul
<1>9. t \in Fp /\ t \in Int /\ Cong(t, c * e)
  BY <1>7, <1>8, CongOfMod, ModInFp, FpIsInt
<1>10. Cong(t, c * xy)
  BY <1>8, <1>9, CongTrans
<1> QED
  BY <1>9, <1>10 DEF t, xy, x, y

LEMMA TermOfThree ==
  ASSUME NEW n \in 0 .. 3, NEW q \in List(Fp, n), NEW c \in Int,
         NEW a \in List(Fp, Corners(n)), NEW b \in List(Fp, Corners(n)),
         NEW d \in List(Fp, Corners(n)), NEW p, p = [c |-> c, mles |-> <<a, b, d>>]
  PROVE  /\ TermAt(p, q) \in Fp /\ TermAt(p, q) \in Int
         /\ Cong(TermAt(p, q), c * (MleEvaluate(a, q) * (MleEvaluate(b, q) * MleEvaluate(d, q))))
<1> DEFINE f == [j \in 1 .. 3 |-> MleEvaluate(p.mles[j], q)]  x == MleEvaluate(a, q)
           y == MleEvaluate(b, q)  z == MleEvaluate(d, q)  e == ProdSeq(f)
<1>1. x \in Int /\ y \in Int /\ z \in Int
  BY MleInFp
<1>2. Len(p.mles) = 3 /\ f[1] = x /\ f[2] = y /\ f[3] = z /\ p.c = c
  OBVIOUS
<1>3. TermAt(p, q) = (c * ProdSeq(<<>> \o f)) % P
  BY <1>2 DEF TermAt, Collect
<1>4. f \in [1 .. 3 -> Int] /\ 3 \in Nat /\ f \in List(Int, 3)
  <2>1. \A j \in 1 .. 3 : MleEvaluate(p.mles[j], q) \in Int
    BY <1>1
  <2> QED BY <2>1, Zenon DEF List
<1> HIDE DEF f, x, y, z
<1>5. <<>> \o f = f
  BY <1>4, CollectIs
<1>6. e \in Int /\ Cong(e, x * (y * z))
  BY <1>1, <1>2, <1>4, ProdOfThree
<1> DEFINE t == TermAt(p, q)  xy == x * (y * z)
<1>7. t = (c * e) % P /\ xy \in Int /\ Cong(e, xy)
  BY <1>1, <1>3, <1>5, <1>6
<1> HIDE DEF e, t, xy
<1>8. c * e \in Int /\ c * xy \in Int /\ Cong(c * e, c * xy)
  BY <1>6, <1>7, CongRefl, CongMul
<1>9. t \in Fp /\ t \in Int /\ Cong(t, c * e)
  BY <1>7, <1>8, CongOfMod, ModInFp, FpIsInt
<1>10. Cong(t, c * xy)
  BY <1>8, <1>9, CongTrans
<1> QED
  BY <1>9, <1>10 DEF t, xy, x, y, z

SigmasAre(st, R, zLs, zCs, point, m) ==
  /\ Len(st.sigmas) = m /\ Len(st.thetas) = 1 /\ st.thetas[1] = MzAt(R, zCs[1], point)
  /\ \A i \in 1 .. m : st.sigmas[i] = MzAt(R, zLs[i], point)

LEMMA SigmasAreThose ==
  ASSUME NEW R, CcsOk(R), NEW m \in Nat, NEW point \in List(Fp, R.s),
         NEW zLs \in List(Vec, m), NEW zCs \in List(Vec, 1)
  PROVE  SigmasAre(SigmasThetas(R, zLs, zCs, point), R, zLs, zCs, point, m)
<1> DEFINE t == SigmasThetas(R, zLs, zCs, point)  o == 1
<1>1. o \in Nat /\ zCs \in List(Vec, o)
  OBVIOUS
<1> HIDE DEF o
<1>2. /\ t.sigmas = [i \in 1 .. m |-> MzAt(R, zLs[i], point)]
      /\ t.thetas = [i \in 1 .. o |-> MzAt(R, zCs[i], point)]
      /\ t.sigmas \in List([1 .. 3 -> Fp], m) /\ t.thetas \in List([1 .. 3 -> Fp], o)
  BY <1>1, SigmasThetasAre
<1> HIDE DEF t
<1>3. Len(t.sigmas) = m /\ Len(t.thetas) = o
  BY <1>1, <1>2, ListIsSeq
<1>4. \A i \in 1 .. m : t.sigmas[i] = MzAt(R, zLs[i], point)
  BY <1>2
<1>5. t.thetas[1] = MzAt(R, zCs[1], point)
  BY <1>2 DEF o
<1>6. SigmasAre(t, R, zLs, zCs, point, m)
  BY <1>3, <1>4, <1>5 DEF SigmasAre, o
<1> QED
  BY <1>6 DEF t

\* The running part of the polynomial at a point, from the evaluations alone.
LEMMA RunningTerms ==
  ASSUME NEW R, NEW Us, NEW zLs, NEW zCs, NEW gamma, NEW beta, NEW m,
         ToWeigh(R, Us, zLs, zCs, gamma, beta, m), NEW point \in List(Fp, R.s), NEW L,
         L = GProducts(R, Us, zLs, zCs[1], gamma, beta, m),
         NEW st, SigmasAre(st, R, zLs, zCs, point, m), NEW r_xs, \A i \in 1 .. m : r_xs[i] = Us[i].r_x
  PROVE  /\ [n \in 1 .. 3 * m |-> TermAt(L[n], point)] \in List(Int, 3 * m)
         /\ SumSeq([n \in 1 .. 3 * m |-> TermAt(L[n], point)]) = WeighedSigmas(st, gamma, r_xs, point)
<1> DEFINE k == 3 * m  s == R.s
           X(n) == ((Pow(gamma, n - 1) * EqEval(r_xs[InstanceOf(n)], point)) % P)
                     * st.sigmas[InstanceOf(n)][MatrixOf(n)]
           t == [n \in 1 .. k |-> TermAt(L[n], point)]  x == [n \in 1 .. k |-> X(n) % P]
<1>1. /\ CcsOk(R) /\ m \in {1, 2} /\ m \in Nat /\ zLs \in List(Vec, m)
      /\ \A i \in 1 .. m : Us[i].r_x \in List(Fp, s)
      /\ gamma \in Fp /\ s \in 0 .. 3
  BY DEF ToWeigh, CcsOk
<1>2. \A n \in 1 .. 3 * m : L[n] = LProduct(R, Us, zLs, gamma, n)
  BY GProductsIn
<1>3. k \in Nat /\ Len(st.sigmas) = m
  BY <1>1 DEF SigmasAre
<1>4. ASSUME NEW n \in 1 .. k PROVE TermAt(L[n], point) \in Int /\ TermAt(L[n], point) = X(n) % P
  <2> DEFINE i == InstanceOf(n)  j == MatrixOf(n)  c == Pow(gamma, n - 1)  p == L[n]
             a == MzMle(R, j, zLs[i])  r == Us[i].r_x  b == BuildEqVec(r)
             u == MleEvaluate(a, point)  v == EqEval(r, point)  T == TermAt(p, point)
  <2>1. i \in 1 .. m /\ j \in 1 .. 3
    BY <1>1, InstanceMatrixIn
  <2>2. c \in Int
    <3>1. n - 1 \in 0 .. 7
      BY <1>1
    <3> QED BY <1>1, <3>1, PowInFp
  <2>3. zLs[i] \in Vec /\ r \in List(Fp, s)
    BY <1>1, <2>1 DEF List
  <2>4. p = [c |-> c, mles |-> <<a, b>>]
    BY <1>2 DEF LProduct
  <2>5. X(n) = ((c * v) % P) * u
    <3>1. st.sigmas[i] = MzAt(R, zLs[i], point) /\ r_xs[i] = r
      BY <2>1 DEF SigmasAre
    <3>2. MzAt(R, zLs[i], point)[j] = u
      <4> HIDE DEF i, j
      <4> QED BY <1>1, <2>1, <2>3, MzAtIs
    <3> QED BY <3>1, <3>2
  <2> HIDE DEF i, j, r, p, c, X
  <2>6. a \in List(Fp, Corners(s)) /\ b \in List(Fp, Corners(s)) /\ u \in Int /\ v \in Int
        /\ MleEvaluate(b, point) = v
    BY <1>1, <2>1, <2>3, MzMleList, BuildEqList, EqAt, MleInFp
  <2> HIDE DEF a, b
  <2>7. T \in Fp /\ T \in Int /\ Cong(T, c * (u * v))
    BY <1>1, <2>2, <2>4, <2>6, TermOfTwo
  <2> HIDE DEF u, v
  <2> DEFINE d == c * v  e == d % P  y == e * u
  <2>8. d \in Int
    BY <2>2, <2>6
  <2>9. e \in Int /\ Cong(e, d)
    BY <2>8, CongOfMod, ModInFp, FpIsInt
  <2> HIDE DEF e
  <2>10. y \in Int
    BY <2>6, <2>9
  <2>11. y % P \in Fp /\ y % P \in Int /\ Cong(y % P, y)
    BY <2>10, CongOfMod, ModInFp, FpIsInt
  <2>12. Cong(y, d * u)
    BY <2>6, <2>8, <2>9, CongRefl, CongMul
  <2>13. d * u = c * (u * v)
    BY <2>2, <2>6
  <2>14. c * (u * v) \in Int
    BY <2>2, <2>6
  <2> HIDE DEF T
  <2>15. Cong(T, y % P)
    <3> DEFINE z == c * (u * v)  w == y % P
    <3>1. z \in Int /\ w \in Int /\ y \in Int /\ Cong(T, z) /\ Cong(y, z) /\ Cong(w, y)
      BY <2>7, <2>10, <2>11, <2>12, <2>13, <2>14
    <3> HIDE DEF z, w, y
    <3>2. Cong(w, z)
      BY <3>1, CongTrans
    <3> QED BY <2>7, <3>1, <3>2, CongSym, CongTrans DEF w
  <2>16. T = y % P
    BY <2>7, <2>11, <2>15, EqOfCong
  <2> QED BY <2>5, <2>7, <2>16 DEF T, p, e
<1>5. t \in List(Int, k)
  BY <1>4, Zenon DEF List
<1>6. t = x
  BY <1>4, Zenon
<1>7. WeighedSigmas(st, gamma, r_xs, point) = SumSeq(<<>> \o x)
  BY <1>3 DEF WeighedSigmas, Collect
<1> HIDE DEF t, x
<1>8. x \in [1 .. k -> Int]
  BY <1>5, <1>6 DEF List
<1> HIDE DEF k
<1>9. <<>> \o x = x
  BY <1>3, <1>8, CollectIs
<1> QED
  BY <1>5, <1>6, <1>7, <1>9 DEF t, k

LEMMA ProdOfOne ==
  ASSUME NEW s \in List(Int, 1)
  PROVE  ProdSeq(s) \in Fp /\ ProdSeq(s) \in Int /\ Cong(ProdSeq(s), s[1])
<1> DEFINE n == 1
<1>1. n \in Nat /\ n = 1 /\ s \in List(Int, n) /\ s[1] \in Int
  BY DEF List
<1> HIDE DEF n
<1>2. PICK f \in [0 .. n -> Fp] :
        f[0] = 1 /\ (\A j \in 1 .. n : f[j] = (f[j - 1] * s[j]) % P) /\ ProdSeq(s) = f[n]
  BY <1>1, ProdSeqRun
<1>3. f[1] \in Fp /\ f[1] \in Int /\ f[0] = 1 /\ ProdSeq(s) = f[1]
  BY <1>1, <1>2, FpIsInt
<1>4. f[1] = (f[0] * s[1]) % P
  <2>1. 1 \in 1 .. n /\ 1 - 1 = 0
    BY <1>1
  <2> QED BY <1>2, <2>1
<1>5. f[0] * s[1] = s[1]
  BY <1>1, <1>3
<1> QED
  BY <1>1, <1>3, <1>4, <1>5, CongOfMod

\* A B - C of the evaluations.
LEMMA TermsAtIs ==
  ASSUME NEW th, th[1] \in Int, th[2] \in Int, th[3] \in Int
  PROVE  TermsAt(th) \in Int /\ Cong(TermsAt(th), th[1] * th[2] - th[3])
<1> DEFINE a == th[1]  b == th[2]  c == th[3]
           f == [i \in 1 .. 2 |-> th[Terms[1].S[i]]]  g == [i \in 1 .. 1 |-> th[Terms[2].S[i]]]
           X(j) == (Terms[j].c * ProdSeq([i \in DOMAIN Terms[j].S |-> th[Terms[j].S[i]]])) % P
           x == [j \in 1 .. 2 |-> X(j)]
           F == ProdSeq(f)  G == ProdSeq(g)
<1>1. /\ DOMAIN Terms[1].S = 1 .. 2 /\ Terms[1].S[1] = 1 /\ Terms[1].S[2] = 2 /\ Terms[1].c = 1
      /\ DOMAIN Terms[2].S = 1 .. 1 /\ Terms[2].S[1] = 3 /\ Terms[2].c = P - 1
      /\ Len(Terms) = 2
  BY DEF Terms
<1>2. f \in List(Int, 2) /\ f[1] = a /\ f[2] = b
  <2>1. \A i \in 1 .. 2 : th[Terms[1].S[i]] \in Int
    BY <1>1
  <2>2. f \in List(Int, 2)
    BY <2>1, Zenon DEF List
  <2> QED BY <1>1, <2>2
<1>3. g \in List(Int, 1) /\ g[1] = c
  <2>1. \A i \in 1 .. 1 : th[Terms[2].S[i]] \in Int
    BY <1>1
  <2>2. g \in List(Int, 1)
    BY <2>1, Zenon DEF List
  <2> QED BY <1>1, <2>2
<1>4. X(1) = (1 * F) % P /\ X(2) = ((P - 1) * G) % P
  BY <1>1
<1> HIDE DEF f, g, X
<1>5. F \in Int /\ G \in Int /\ Cong(F, a * b) /\ Cong(G, c)
  BY <1>2, <1>3, ProdOfTwo, ProdOfOne
<1>6. TermsAt(th) = SumSeq(<<>> \o x)
  BY <1>1 DEF TermsAt, Collect, X
<1> HIDE DEF F, G
<1> DEFINE u == 1 * F  v == (P - 1) * G
<1>7. u \in Int /\ v \in Int
  BY <1>5, PAssumption
<1>8. X(1) \in Int /\ Cong(X(1), u) /\ X(2) \in Int /\ Cong(X(2), v)
  BY <1>4, <1>7, CongOfMod, ModInFp, FpIsInt
<1>9. x \in List(Int, 2) /\ x[1] = X(1) /\ x[2] = X(2)
  <2>1. \A j \in 1 .. 2 : X(j) \in Int
    BY <1>8
  <2>2. x \in List(Int, 2)
    BY <2>1, Zenon DEF List
  <2> QED BY <2>2
<1> HIDE DEF x
<1>10. <<>> \o x = x
  <2>1. x \in [1 .. 2 -> Int] /\ 2 \in Nat
    BY <1>9 DEF List
  <2> QED BY <2>1, CollectIs
<1>11. SumSeq(x) \in Int /\ Cong(SumSeq(x), X(1) + X(2))
  BY <1>9, SumOfTwo
<1> DEFINE S == SumSeq(x)  A == X(1)  B == X(2)  ab == a * b
<1>12. S \in Int /\ Cong(S, A + B) /\ A \in Int /\ B \in Int /\ Cong(A, u) /\ Cong(B, v)
       /\ ab \in Int /\ Cong(F, ab) /\ c \in Int
  BY <1>5, <1>8, <1>11
<1> HIDE DEF S, A, B, a, b, c, ab
<1>13. Cong(S, ab - c)
  <2>1. PICK i \in Int : S = A + B + i * P
    BY <1>12 DEF Cong
  <2>2. PICK j \in Int : A = u + j * P
    BY <1>12 DEF Cong
  <2>3. PICK k \in Int : B = v + k * P
    BY <1>12 DEF Cong
  <2>4. PICK l \in Int : F = ab + l * P
    BY <1>12 DEF Cong
  <2>5. PICK m \in Int : G = c + m * P
    BY <1>5 DEF Cong
  <2>6. S = (ab - c) + (i + j + k + l + G - m) * P
    BY <1>5, <1>12, <2>1, <2>2, <2>3, <2>4, <2>5, PAssumption
  <2>7. i + j + k + l + G - m \in Int
    BY <1>5
  <2> QED BY <2>6, <2>7 DEF Cong
<1> QED
  BY <1>6, <1>10, <1>12, <1>13 DEF S, ab, a, b, c

\* The incoming part of the polynomial at a point, from the evaluations alone.
LEMMA IncomingTerms ==
  ASSUME NEW R, NEW Us, NEW zLs, NEW zCs, NEW gamma, NEW beta, NEW m,
         ToWeigh(R, Us, zLs, zCs, gamma, beta, m), NEW point \in List(Fp, R.s), NEW L,
         L = GProducts(R, Us, zLs, zCs[1], gamma, beta, m),
         NEW st, SigmasAre(st, R, zLs, zCs, point, m)
  PROVE  /\ WeighedThetas(st, gamma, beta, point) \in Fp
         /\ TermAt(L[3 * m + 1], point) \in Int /\ TermAt(L[3 * m + 2], point) \in Int
         /\ Cong(TermAt(L[3 * m + 1], point) + TermAt(L[3 * m + 2], point),
                 WeighedThetas(st, gamma, beta, point))
<1> DEFINE k == 3 * m  w == Pow(gamma, k)  z == zCs[1]  s == R.s
           a == MzMle(R, 1, z)  b == MzMle(R, 2, z)  c == MzMle(R, 3, z)  e == BuildEqVec(beta)
           w1 == (1 * w) % P  w2 == ((P - 1) * w) % P
           p1 == L[k + 1]  p2 == L[k + 2]
           A == MleEvaluate(a, point)  B == MleEvaluate(b, point)  C == MleEvaluate(c, point)
           E == EqEval(beta, point)  th == st.thetas[1]
           t1 == TermAt(p1, point)  t2 == TermAt(p2, point)
           T == TermsAt(th)  I == WeighedThetas(st, gamma, beta, point)
<1>1. /\ CcsOk(R) /\ m \in {1, 2} /\ Len(Us) = m /\ z \in Vec /\ z[0] = 1
      /\ gamma \in Fp /\ beta \in List(Fp, s)
  BY DEF ToWeigh, List
<1>2. s \in 0 .. 3 /\ Corners(s) \in Nat
  <2>1. s \in 0 .. 3
    BY <1>1 DEF CcsOk
  <2> HIDE DEF s
  <2> QED BY <2>1, CornersIs
<1>3. /\ a \in List(Fp, Corners(s)) /\ b \in List(Fp, Corners(s)) /\ c \in List(Fp, Corners(s))
      /\ e \in List(Fp, Corners(s)) /\ MleEvaluate(e, point) = E /\ E \in Int
  BY <1>1, <1>2, MzMleList, BuildEqList, EqAt
<1>4. w \in Int
  <2>1. k \in 0 .. 7
    BY <1>1
  <2> HIDE DEF k
  <2> QED BY <1>1, <2>1, PowInFp
<1>5. /\ p1 = [c |-> w1, mles |-> <<a, b, e>>]
      /\ p2 = [c |-> w2, mles |-> <<c, e>>]
  <2> DEFINE q1 == QProduct(R, z, gamma, beta, k, 1)  q2 == QProduct(R, z, gamma, beta, k, 2)
  <2>1. \A j \in 1 .. 2 : L[3 * m + j] = QProduct(R, zCs[1], gamma, beta, 3 * m, j)
    BY GProductsIn
  <2>2. p1 = q1 /\ p2 = q2
    BY <2>1
  <2>4. q1 = [c |-> q1.c, mles |-> q1.mles] /\ q2 = [c |-> q2.c, mles |-> q2.mles]
    BY DEF QProduct
  <2> HIDE DEF q1, q2, p1, p2
  <2>5. q1.mles = <<a, b, e>> /\ q2.mles = <<c, e>> /\ q1.c = w1 /\ q2.c = w2
    <3> HIDE DEF z, k
    <3> QED BY QProductIs DEF q1, q2
  <2> HIDE DEF a, b, c, e, w1, w2
  <2> QED BY <2>2, <2>4, <2>5
<1>6. /\ A \in Int /\ B \in Int /\ C \in Int /\ th[1] = A /\ th[2] = B /\ th[3] = C
  <2>1. th = MzAt(R, z, point)
    BY DEF SigmasAre
  <2> HIDE DEF th
  <2> QED BY <1>1, <2>1, MzAtIs
<1>7. I = (E * SumSeq(<<>> \o [i \in 1 .. 1 |-> (w * T) % P])) % P
  <2>1. Len(st.thetas) = 1 /\ Len(st.sigmas) = m
    BY DEF SigmasAre
  <2>2. I = (E * SumSeq(<<>> \o [i \in 1 .. 1 |->
              (Pow(gamma, 3 * m + i - 1) * TermsAt(st.thetas[i])) % P])) % P
    BY <2>1 DEF WeighedThetas, Collect
  <2>3. \A i \in 1 .. 1 : (Pow(gamma, 3 * m + i - 1) * TermsAt(st.thetas[i])) % P = (w * T) % P
    <3> TAKE i \in 1 .. 1
    <3>1. i = 1 /\ 3 * m + i - 1 = k
      BY <1>1
    <3> QED BY <3>1
  <2>4. [i \in 1 .. 1 |-> (Pow(gamma, 3 * m + i - 1) * TermsAt(st.thetas[i])) % P]
         = [i \in 1 .. 1 |-> (w * T) % P]
    BY <2>3, Zenon
  <2> QED BY <2>2, <2>4
<1> HIDE DEF w, a, b, c, e, p1, p2, th, I, s, k
<1>8. w1 \in Int /\ w2 \in Int /\ Cong(w1, w) /\ Cong(w2, -w)
  <2>1. 1 * w \in Int /\ (P - 1) * w \in Int /\ 1 * w = w /\ -w \in Int
    BY <1>4, PAssumption
  <2>2. w1 \in Int /\ w2 \in Int /\ Cong(w1, w) /\ Cong(w2, (P - 1) * w)
    BY <2>1, CongOfMod, ModInFp, FpIsInt
  <2>3. Cong((P - 1) * w, -w)
    <3>1. (P - 1) * w = -w + w * P
      BY <1>4, PAssumption
    <3> QED BY <1>4, <3>1 DEF Cong
  <2> HIDE DEF w1, w2
  <2> QED BY <2>1, <2>2, <2>3, CongTrans
<1> HIDE DEF w1, w2
<1>9. t1 \in Int /\ t2 \in Int /\ Cong(t1, w1 * (A * (B * E))) /\ Cong(t2, w2 * (C * E))
  <2>1. point \in List(Fp, s)
    BY DEF s
  <2> QED BY <1>2, <1>3, <1>5, <1>8, <2>1, TermOfTwo, TermOfThree
<1> HIDE DEF A, B, C, E, t1, t2
<1>10. T \in Int /\ Cong(T, A * B - C)
  <2>1. T \in Int /\ Cong(T, th[1] * th[2] - th[3])
    BY <1>6, TermsAtIs
  <2> QED BY <1>6, <2>1
<1> HIDE DEF T
<1> DEFINE x == (w * T) % P  f == [i \in 1 .. 1 |-> x]
<1>11. w * T \in Int
  BY <1>4, <1>10
<1>12. x \in Fp /\ x \in Int /\ Cong(x, w * T)
  BY <1>11, CongOfMod, ModInFp, FpIsInt
<1>13. f \in [1 .. 1 -> Int] /\ f[1] = x /\ 1 \in Nat
  BY <1>12
<1>14. I = (E * SumSeq(<<>> \o f)) % P
  BY <1>7
<1> HIDE DEF x, f
<1>15. f \in List(Int, 1) /\ <<>> \o f = f
  BY <1>13, CollectIs DEF List
<1> DEFINE y == SumSeq(f)  V == E * y
<1>16. y \in Int /\ Cong(y, x) /\ I = V % P
  BY <1>13, <1>14, <1>15, SumOfOne
<1> HIDE DEF y
<1>17. V \in Int
  BY <1>3, <1>16
<1>18. I \in Fp /\ I \in Int /\ Cong(I, V)
  BY <1>16, <1>17, CongOfMod, ModInFp, FpIsInt
<1>19. Cong(t1 + t2, V)
  <2> DEFINE M == A * (B * E)  N == C * E
  <2>1. M \in Int /\ N \in Int
    BY <1>3, <1>6
  <2>2. PICK i1 \in Int : t1 = w1 * M + i1 * P
    BY <1>9 DEF Cong
  <2>3. PICK i2 \in Int : t2 = w2 * N + i2 * P
    BY <1>9 DEF Cong
  <2>4. PICK i3 \in Int : w1 = w + i3 * P
    BY <1>8 DEF Cong
  <2>5. PICK i4 \in Int : w2 = -w + i4 * P
    BY <1>8 DEF Cong
  <2>6. PICK i5 \in Int : T = A * B - C + i5 * P
    BY <1>10 DEF Cong
  <2>7. PICK i6 \in Int : x = w * T + i6 * P
    BY <1>12 DEF Cong
  <2>8. PICK i7 \in Int : y = x + i7 * P
    BY <1>16 DEF Cong
  <2>9. E * T = M - N + (E * i5) * P
    <3> DEFINE ab == A * B  l == E * i5
    <3>1. ab \in Int /\ l \in Int /\ M = E * ab
      BY <1>3, <1>6
    <3>2. T = ab - C + i5 * P
      BY <2>6
    <3> HIDE DEF ab, M
    <3>3. E * T = E * (ab - C + i5 * P)
      BY <3>2
    <3>4. E * (ab - C + i5 * P) = E * ab - E * C + (E * i5) * P
      BY <1>3, <1>6, <3>1, PAssumption
    <3>5. E * C = N
      BY <1>3, <1>6
    <3> QED BY <3>1, <3>3, <3>4, <3>5
  <2> HIDE DEF M, N
  <2> DEFINE l == E * i5  O == E * T
  <2>10. l \in Int /\ O \in Int /\ O = M - N + l * P
    BY <1>3, <1>10, <2>9
  <2>11. V = w * O + (E * i6 + E * i7) * P
    <3>1. y = w * T + (i6 + i7) * P
      BY <1>4, <1>10, <2>7, <2>8, PAssumption
    <3>2. V = E * (w * T + (i6 + i7) * P)
      BY <3>1
    <3>3. E * (w * T + (i6 + i7) * P) = E * (w * T) + (E * i6 + E * i7) * P
      BY <1>3, <1>4, <1>10, PAssumption
    <3>4. E * (w * T) = w * (E * T)
      BY <1>3, <1>4, <1>10
    <3> QED BY <3>2, <3>3, <3>4
  <2> HIDE DEF l, O, V
  <2>12. w * O = w * M - w * N + (w * l) * P
    <3>1. w * O = w * (M - N + l * P)
      BY <2>10
    <3>2. w * (M - N + l * P) = w * M - w * N + (w * l) * P
      BY <1>4, <2>1, <2>10, PAssumption
    <3> QED BY <3>1, <3>2
  <2>13. t1 = w * M + (i3 * M + i1) * P /\ t2 = -(w * N) + (i4 * N + i2) * P
    BY <1>4, <2>1, <2>2, <2>3, <2>4, <2>5, PAssumption
  <2> DEFINE X == w * M  Y == w * N  j1 == i3 * M + i1  j2 == i4 * N + i2  j3 == w * l
             j4 == E * i6 + E * i7  j == j1 + j2 - j3 - j4
  <2>14. X \in Int /\ Y \in Int /\ j1 \in Int /\ j2 \in Int /\ j3 \in Int /\ j4 \in Int
    BY <1>3, <1>4, <2>1, <2>10
  <2>15. t1 = X + j1 * P /\ t2 = -Y + j2 * P /\ V = X - Y + j3 * P + j4 * P
    BY <2>11, <2>12, <2>13
  <2> HIDE DEF X, Y, j1, j2, j3, j4
  <2>16. t1 + t2 = V + j * P /\ j \in Int
    BY <2>14, <2>15, PAssumption
  <2> HIDE DEF j
  <2> QED BY <2>16 DEF Cong
<1>20. t1 + t2 \in Int
  BY <1>9
<1>21. Cong(t1 + t2, I)
  BY <1>17, <1>18, <1>19, <1>20, CongSym, CongTrans
<1> QED
  BY <1>9, <1>18, <1>21 DEF t1, t2, p1, p2, k, I

ComputesC(K, L, st, gamma, beta, r_xs, point) ==
  SumSeq([n \in 1 .. K |-> TermAt(L[n], point)]) = ComputeC(st, gamma, beta, r_xs, point)

\* The polynomial of a fold at a point is what the verifier computes from the
\* evaluations.
LEMMA ComputeCIs ==
  ASSUME NEW R, NEW Us, NEW zLs, NEW zCs, NEW gamma, NEW beta, NEW m,
         ToWeigh(R, Us, zLs, zCs, gamma, beta, m), NEW point \in List(Fp, R.s), NEW L,
         L = GProducts(R, Us, zLs, zCs[1], gamma, beta, m),
         NEW st, SigmasAre(st, R, zLs, zCs, point, m), NEW r_xs, \A i \in 1 .. m : r_xs[i] = Us[i].r_x
  PROVE  ComputesC(3 * m + 2, L, st, gamma, beta, r_xs, point)
<1> DEFINE k == 3 * m  K == k + 2  t == [n \in 1 .. K |-> TermAt(L[n], point)]
           r == [n \in 1 .. k |-> t[n]]  q == [i \in 1 .. 2 |-> t[k + i]]
           A == WeighedSigmas(st, gamma, r_xs, point)  B == WeighedThetas(st, gamma, beta, point)
           x == SumSeq(r)  y == SumSeq(q)  V == SumSeq(t)
<1>1. m \in Nat /\ k \in Nat /\ K \in Nat
  <2>1. m \in Nat
    BY DEF ToWeigh
  <2> QED BY <2>1
<1>2. r = [n \in 1 .. k |-> TermAt(L[n], point)]
  <2>1. \A n \in 1 .. k : t[n] = TermAt(L[n], point)
    BY <1>1
  <2> HIDE DEF t
  <2> QED BY <2>1, Zenon
<1>3. r \in List(Int, k) /\ x = A
  <2>1. /\ [n \in 1 .. 3 * m |-> TermAt(L[n], point)] \in List(Int, 3 * m)
        /\ SumSeq([n \in 1 .. 3 * m |-> TermAt(L[n], point)]) = A
    BY RunningTerms
  <2> HIDE DEF r, A
  <2> QED BY <1>2, <2>1
<1>4. /\ B \in Fp /\ TermAt(L[k + 1], point) \in Int /\ TermAt(L[k + 2], point) \in Int
      /\ Cong(TermAt(L[k + 1], point) + TermAt(L[k + 2], point), B)
  BY IncomingTerms
<1>5. q[1] = TermAt(L[k + 1], point) /\ q[2] = TermAt(L[k + 2], point)
  BY <1>1
<1>6. t \in List(Int, K)
  <2>1. ASSUME NEW n \in 1 .. K PROVE TermAt(L[n], point) \in Int
    <3>1. CASE n \in 1 .. k
      <4>1. r[n] \in Int
        BY <1>3, <3>1 DEF List
      <4>2. r[n] = TermAt(L[n], point)
        BY <1>2, <3>1
      <4> QED BY <4>1, <4>2
    <3>2. n \in 1 .. k \/ n = k + 1 \/ n = k + 2
      BY <1>1
    <3> QED BY <1>4, <3>1, <3>2
  <2> QED BY <2>1, Zenon DEF List
<1> HIDE DEF A, B, t
<1>7. /\ Prefix(t, k) = r /\ q \in List(Int, 2)
      /\ Cong(SumSeq(t), SumSeq(Prefix(t, k)) + SumSeq(q))
  <2> DEFINE two == 2
  <2>1. two \in Nat /\ K = k + two
    OBVIOUS
  <2>2. q = [i \in 1 .. two |-> t[k + i]]
    OBVIOUS
  <2> HIDE DEF two, q
  <2>3. q \in List(Int, two) /\ Cong(SumSeq(t), SumSeq(Prefix(t, k)) + SumSeq(q))
    BY <1>1, <1>6, <2>1, <2>2, SumSplit
  <2> QED BY <2>3 DEF Prefix, two
<1>8. V \in Fp /\ V \in Int
  <2> HIDE DEF K
  <2> QED BY <1>1, <1>6, SumInFp
<1> HIDE DEF r, q, k
<1>9. y \in Int /\ Cong(y, q[1] + q[2])
  BY <1>7, SumOfTwo
<1>10. A \in Int /\ B \in Int
  <2>1. x \in Int
    BY <1>1, <1>3, SumInFp
  <2> QED BY <1>3, <1>4, <2>1, FpIsInt
<1>11. Cong(V, x + y) /\ x = A /\ Cong(y, B)
  <2>1. q[1] + q[2] \in Int /\ Cong(q[1] + q[2], B)
    BY <1>4, <1>5
  <2> QED BY <1>3, <1>7, <1>9, <1>10, <2>1, CongTrans
<1> HIDE DEF x, y, V
<1> DEFINE D == (A + B) % P
<1>12. A + B \in Int
  BY <1>10
<1>13. D \in Fp /\ D \in Int /\ Cong(D, A + B)
  BY <1>12, ModInFp, FpIsInt, CongOfMod
<1>14. Cong(V, A + B)
  <2>1. PICK i \in Int : V = x + y + i * P
    BY <1>11 DEF Cong
  <2>2. PICK j \in Int : y = B + j * P
    BY <1>11 DEF Cong
  <2>3. V = A + B + (i + j) * P /\ i + j \in Int
    BY <1>10, <1>11, <2>1, <2>2, PAssumption
  <2> QED BY <2>3 DEF Cong
<1> HIDE DEF D
<1>15. V = D
  BY <1>8, <1>12, <1>13, <1>14, CongSym, CongTrans, EqOfCong
<1> QED
  BY <1>15 DEF V, D, A, B, ComputeC, ComputesC, t, K, k

\* A fold of pairs, as far as its polynomial and the verifier's answer go: it is
\* accepted exactly if the pairs miss nothing.
Answers(Us, st, proofs, gamma, beta, point) ==
  VerdictOf(CheckAndGenerateSubclaim(ExpectedSum(Us, gamma), proofs, point),
            ComputeC(st, gamma, beta, [i \in DOMAIN Us |-> Us[i].r_x], point))

THEOREM SumCheckAccepts ==
  ASSUME NEW R, NEW Us, NEW us, NEW zLs, NEW zCs, NEW gamma, NEW beta, NEW m,
         ToWeigh(R, Us, zLs, zCs, gamma, beta, m), DOMAIN Us = 1 .. m, Len(us) = 1, NEW g,
         g = ComputeG(R, Us, zLs, zCs, gamma, beta),
         NEW point \in List(Fp, R.s), NEW proofs, Len(proofs) = R.s, NEW poly,
         Rounds(g, point, proofs, R.s, poly)
  PROVE  (Answers(Us, SigmasThetas(R, zLs, zCs, point), proofs, gamma, beta, point) = "Ok")
           <=> (Missed(R, Us, us, zLs, zCs, gamma, beta) = 0)
<1> DEFINE s == R.s  K == 3 * m + 2  L == g.products  A == ExpectedSum(Us, gamma)
           st == SigmasThetas(R, zLs, zCs, point)  r_xs == [i \in DOMAIN Us |-> Us[i].r_x]
           M == Missed(R, Us, us, zLs, zCs, gamma, beta)
           c == ComputeC(st, gamma, beta, r_xs, point)
<1>1. CcsOk(R) /\ m \in Nat /\ zLs \in List(Vec, m) /\ zCs \in List(Vec, 1) /\ s \in 0 .. 3
  BY DEF ToWeigh, CcsOk
<1>2. /\ IsVirtual(g, K, Corners(s)) /\ K \in Nat
      /\ L = GProducts(R, Us, zLs, zCs[1], gamma, beta, m)
  BY <1>1, ComputeGIs
<1>3. A \in Fp /\ ((VirtualTotal(g, K, Corners(s)) = A) <=> (M = 0))
  BY WeighedTotal
<1>4. PICK h : FixRun(h, g, point, proofs, s)
  BY DEF Rounds
<1>5. SigmasAre(st, R, zLs, zCs, point, m)
  BY <1>1, SigmasAreThose
<1>6. \A i \in 1 .. m : r_xs[i] = Us[i].r_x
  OBVIOUS
<1> HIDE DEF st, r_xs, M, A
<1>7. c = SumSeq([n \in 1 .. K |-> TermAt(L[n], point)])
  <2> HIDE DEF L, s
  <2>1. ComputesC(3 * m + 2, L, st, gamma, beta, r_xs, point)
    BY <1>2, <1>5, <1>6, ComputeCIs
  <2> QED BY <2>1 DEF ComputesC
<1> HIDE DEF c, K
<1>8. VirtualTotal(h[s], K, 1) = SumSeq([n \in 1 .. K |-> TermAt(L[n], point)])
  BY <1>1, <1>2, <1>4, RunTotal
<1>9. AcceptsTotal(A, proofs, point, VirtualTotal(h[s], K, 1), VirtualTotal(g, K, Corners(s)))
  <2>1. point \in List(Fp, s) /\ Len(proofs) = s
    OBVIOUS
  <2> HIDE DEF s, L
  <2> QED BY <1>1, <1>2, <1>3, <1>4, <2>1, RunAccepted
<1> QED
  BY <1>3, <1>7, <1>8, <1>9 DEF Answers, AcceptsTotal, c, A, st, r_xs, M

\* The verifier in the circuit takes the claim from the proof: it has nothing to say
\* against messages of a prover's own, right or wrong the pairs.
GadgetAnswers(Us, st, proofs, gamma, beta, point) ==
  VerdictOf(SumCheckGadget(proofs, point),
            ComputeC(st, gamma, beta, [i \in DOMAIN Us |-> Us[i].r_x], point))

THEOREM GadgetAccepts ==
  ASSUME NEW R, NEW Us, NEW zLs, NEW zCs, NEW gamma, NEW beta, NEW m,
         ToWeigh(R, Us, zLs, zCs, gamma, beta, m), DOMAIN Us = 1 .. m, R.s > 0, NEW g,
         g = ComputeG(R, Us, zLs, zCs, gamma, beta),
         NEW point \in List(Fp, R.s), NEW proofs, Len(proofs) = R.s, NEW poly,
         Rounds(g, point, proofs, R.s, poly)
  PROVE  GadgetAnswers(Us, SigmasThetas(R, zLs, zCs, point), proofs, gamma, beta, point) = "Ok"
<1> DEFINE s == R.s  K == 3 * m + 2  L == g.products  A == SumOverBit(proofs[1])
           st == SigmasThetas(R, zLs, zCs, point)  r_xs == [i \in DOMAIN Us |-> Us[i].r_x]
           c == ComputeC(st, gamma, beta, r_xs, point)  V == VirtualTotal(g, K, Corners(s))
<1>1. CcsOk(R) /\ m \in Nat /\ zLs \in List(Vec, m) /\ zCs \in List(Vec, 1) /\ s \in 1 .. 3
      /\ s \in 0 .. 3
  BY DEF ToWeigh, CcsOk
<1>2. /\ IsVirtual(g, K, Corners(s)) /\ K \in Nat
      /\ L = GProducts(R, Us, zLs, zCs[1], gamma, beta, m)
  BY <1>1, ComputeGIs
<1>3. PICK h : FixRun(h, g, point, proofs, s)
  BY DEF Rounds
<1>4. SigmasAre(st, R, zLs, zCs, point, m)
  BY <1>1, SigmasAreThose
<1>5. \A i \in 1 .. m : r_xs[i] = Us[i].r_x
  OBVIOUS
<1> HIDE DEF st, r_xs
<1>6. c = SumSeq([n \in 1 .. K |-> TermAt(L[n], point)])
  <2> HIDE DEF L, s
  <2>1. ComputesC(3 * m + 2, L, st, gamma, beta, r_xs, point)
    BY <1>2, <1>4, <1>5, ComputeCIs
  <2> QED BY <2>1 DEF ComputesC
<1> HIDE DEF c, K, A, V
<1>7. VirtualTotal(h[s], K, 1) = SumSeq([n \in 1 .. K |-> TermAt(L[n], point)])
  BY <1>1, <1>2, <1>3, RunTotal
<1>8. A = V
  <2>1. point \in List(Fp, s) /\ 1 \in 1 .. s /\ s \in 0 .. s
    BY <1>1
  <2> HIDE DEF s, L
  <2> DEFINE i == 1
  <2>2. i \in 1 .. s /\ i - 1 = 0 /\ s - (i - 1) = s
    BY <1>1, <2>1
  <2> HIDE DEF i
  <2>3. SumOverBit(proofs[i]) = VirtualTotal(h[i - 1], K, Corners(s - (i - 1)))
    BY <1>1, <1>2, <1>3, <2>1, <2>2, RunSums
  <2>4. h[0] = g
    BY <1>3 DEF FixRun
  <2> QED BY <2>2, <2>3, <2>4 DEF A, V, i
<1>9. V \in Fp
  <2>1. Corners(s) \in Nat
    BY <1>1, CornersIs
  <2> QED BY <1>2, <2>1, VirtualParts DEF V
<1>10. AcceptsTotal(A, proofs, point, VirtualTotal(h[s], K, 1), V)
  <2>1. point \in List(Fp, s) /\ Len(proofs) = s
    OBVIOUS
  <2> HIDE DEF s, L
  <2> QED BY <1>1, <1>2, <1>3, <1>8, <1>9, <2>1, RunAccepted DEF V
<1> QED
  BY <1>6, <1>7, <1>8, <1>10 DEF GadgetAnswers, SumCheckGadget, AcceptsTotal, c, A, st, r_xs

\* Fixing the first variable to a bit keeps the positions with that bit.
LEMMA FixBit ==
  ASSUME NEW m \in Nat, NEW t \in List(Fp, 2 * m), NEW q \in {0, 1}, NEW i \in 1 .. m
  PROVE  FixVariable(t, q)[i] = t[2 * i - 1 + q]
<1> DEFINE x == t[2 * i - 1]  y == t[2 * i]  v == FixVariable(t, q)[i]  w == t[2 * i - 1 + q]
<1>1. q \in Fp /\ q \in Int
  BY ZeroOneInFp, FpIsInt
<1>2. x \in Fp /\ y \in Fp /\ v \in Int /\ v = Rlc(x, q, y - x) /\ Cong(v, x + q * (y - x))
  BY <1>1, FixedTable
<1>3. x \in Int /\ y \in Int
  BY <1>2, FpIsInt
<1>4. w = IF q = 0 THEN x ELSE y
  <2>1. i \in Int
    OBVIOUS
  <2>2. CASE q = 0
    <3>1. 2 * i - 1 + q = 2 * i - 1
      BY <2>1, <2>2
    <3> QED BY <2>2, <3>1
  <2>3. CASE q = 1
    <3>1. 2 * i - 1 + q = 2 * i
      BY <2>1, <2>3
    <3> QED BY <2>3, <3>1
  <2> QED BY <2>2, <2>3
<1>5. v \in Fp
  <2>1. FixVariable(t, q) \in List(Fp, m)
    BY <1>1, FixedTable
  <2> QED BY <2>1 DEF List
<1> HIDE DEF x, y, v, w
<1>6. x + q * (y - x) = IF q = 0 THEN x ELSE y
  BY <1>3
<1>7. Cong(v, w) /\ w \in Fp
  BY <1>2, <1>4, <1>6
<1> QED
  BY <1>5, <1>7, EqOfCong DEF v, w

Bit(b, j) == ((b - 1) \div 2^(j - 1)) % 2

\* A position, as a point, picks itself from a table.
LEMMA CornerPicks ==
  ASSUME NEW s \in 1 .. 3, NEW n \in 1 .. s, NEW q \in List(Fp, s), NEW b \in 1 .. Corners(s - n),
         \A j \in 1 .. s - n : q[n + j] = Bit(b, j)
  PROVE  Picks(s, n, q, b)
<1> SUFFICES ASSUME NEW t \in List(Fp, Corners(s)), NEW f, MleRunOf(f, t, s, q)
             PROVE  f[s][1] = f[n][b]
  BY DEF Picks
<1>1. \A j \in 0 .. s : f[j] \in List(Fp, Corners(s - j))
  <2>1. s \in 0 .. 3 /\ s <= s
    OBVIOUS
  <2> QED BY <2>1, MleRunTables
<1>2. Corners(0) = 1 /\ Corners(1) = 2 /\ Corners(2) = 4
  <2>1. Corners(0) = 1 /\ Corners(1) = 2 * Corners(0) /\ Corners(2) = 2 * Corners(1)
    <3>1. 1 - 1 = 0 /\ 2 - 1 = 1
      OBVIOUS
    <3> QED BY <3>1, CornersIs
  <2> QED BY <2>1
<1>3. \A j \in 1 .. s : f[j] = FixVariable(f[j - 1], q[j])
  BY DEF MleRunOf
<1>4. CASE s - n = 0
  <2>1. b = 1 /\ s = n
    BY <1>2, <1>4
  <2> QED BY <2>1
<1>5. CASE s - n = 1
  <2> DEFINE x == f[n]  c == q[s]  m == 1
  <2>1. /\ b \in 1 .. 2 /\ n \in 0 .. s /\ s - 1 = n /\ n + 1 = s
    BY <1>2, <1>5
  <2>2. x \in List(Fp, 2 * m)
    <3>1. x \in List(Fp, Corners(1))
      BY <1>1, <1>5, <2>1
    <3> QED BY <1>2, <3>1
  <2>3. f[s] = FixVariable(x, c)
    BY <1>3, <2>1
  <2>4. c = (b - 1) % 2
    <3>1. c = Bit(b, 1)
      BY <1>5, <2>1
    <3>2. 2^(1 - 1) = 1
      BY PowersOfTwo
    <3> QED BY <2>1, <3>1, <3>2 DEF Bit
  <2>5. m \in Nat /\ 1 \in 1 .. m /\ c \in {0, 1}
    BY <2>1, <2>4
  <2> HIDE DEF x, c
  <2>6. FixVariable(x, c)[1] = x[2 * 1 - 1 + c]
    <3> HIDE DEF m
    <3> QED BY <2>2, <2>5, FixBit
  <2>7. 2 * 1 - 1 + c = b
    BY <2>1, <2>4
  <2> QED BY <2>3, <2>6, <2>7 DEF x
<1>6. CASE s - n = 2
  <2> DEFINE x == f[n]  y == f[n + 1]  c == q[n + 1]  d == q[s]  m == 2  o == 1
  <2>1. b \in 1 .. 4 /\ n \in 0 .. s /\ n + 1 \in 0 .. s /\ n + 1 \in 1 .. s /\ s - 1 = n + 1
        /\ n + 2 = s /\ (n + 1) - 1 = n /\ s - (n + 1) = 1
    BY <1>2, <1>6
  <2>2. x \in List(Fp, 2 * m) /\ y \in List(Fp, 2 * o)
    <3>1. x \in List(Fp, Corners(2)) /\ y \in List(Fp, Corners(1))
      BY <1>1, <1>6, <2>1
    <3> QED BY <1>2, <3>1
  <2>3. y = FixVariable(x, c) /\ f[s] = FixVariable(y, d)
    BY <1>3, <2>1
  <2>4. c = (b - 1) % 2 /\ d = ((b - 1) \div 2) % 2
    <3>1. c = Bit(b, 1) /\ d = Bit(b, 2)
      BY <1>6, <2>1
    <3>2. 2^(1 - 1) = 1 /\ 2^(2 - 1) = 2
      <4>1. 1 - 1 = 0 /\ 2 - 1 = 1
        OBVIOUS
      <4> QED BY <4>1, PowersOfTwo
    <3>3. (b - 1) \div 1 = b - 1
      BY <2>1
    <3> QED BY <3>1, <3>2, <3>3 DEF Bit
  <2>5. m \in Nat /\ o \in Nat /\ 1 \in 1 .. o /\ c \in {0, 1} /\ d \in {0, 1} /\ 1 + d \in 1 .. m
    BY <2>1, <2>4
  <2> HIDE DEF x, y, c, d
  <2>6. FixVariable(x, c)[1 + d] = x[2 * (1 + d) - 1 + c]
    <3> HIDE DEF m
    <3> QED BY <2>2, <2>5, FixBit
  <2>7. FixVariable(y, d)[1] = y[2 * 1 - 1 + d]
    <3> HIDE DEF o
    <3> QED BY <2>2, <2>5, FixBit
  <2>8. 2 * (1 + d) - 1 + c = b /\ 2 * 1 - 1 + d = 1 + d
    BY <2>1, <2>4
  <2> QED BY <2>3, <2>6, <2>7, <2>8 DEF x
<1> QED
  <2>1. s - n \in 0 .. 2
    OBVIOUS
  <2> QED BY <2>1, <1>4, <1>5, <1>6

\* The points that start with the challenges and end in a corner.
Continues(Q, s, n, point) ==
  \A b \in 1 .. Corners(s - n) :
    /\ Q[b] \in List(Fp, s)
    /\ \A i \in 1 .. n : Q[b][i] = point[i]
    /\ \A j \in 1 .. s - n : Q[b][n + j] = Bit(b, j)

\* The polynomial at such a point is the sum of the entries of a position.
LEMMA EvaluateIs ==
  ASSUME NEW s \in 1 .. 3, NEW n \in 1 .. s, NEW K \in Nat, NEW g, IsVirtual(g, K, Corners(s)),
         NEW point \in List(Fp, n), NEW proofs, NEW h, FixRun(h, g, point, proofs, n),
         NEW Q, Continues(Q, s, n, point), NEW b \in 1 .. Corners(s - n)
  PROVE  VpEvaluate(g, Q[b]) = SumSeq([k \in 1 .. K |-> Entry(h[n].products[k], b)])
<1> DEFINE q == Q[b]  M == Corners(s - n)
           x == [k \in 1 .. K |-> TermAt(g.products[k], q)]
           y == [k \in 1 .. K |-> Entry(h[n].products[k], b)]
<1>1. /\ q \in List(Fp, s) /\ (\A i \in 1 .. n : q[i] = point[i])
      /\ (\A j \in 1 .. s - n : q[n + j] = Bit(b, j))
  BY DEF Continues
<1>2. s \in 0 .. 3 /\ n \in 0 .. s /\ s - n \in 0 .. 3
  OBVIOUS
<1>3. Corners(s) \in Nat /\ M \in Nat
  BY <1>2, CornersIs
<1> HIDE DEF q
<1>4. Picks(s, n, q, b)
  BY <1>1, CornerPicks
<1>5. ASSUME NEW k \in 1 .. K
      PROVE  Entry(h[n].products[k], b) = TermAt(g.products[k], q)
  BY <1>1, <1>2, <1>4, RunEntry
<1>6. x = y
  BY <1>5, Zenon
<1>7. Len(g.products) = K
  BY <1>3, VirtualParts
<1>8. VpEvaluate(g, q) = SumSeq(<<>> \o x)
  BY <1>7 DEF VpEvaluate, Collect, TermAt
<1>9. y \in [1 .. K -> Int]
  <2>1. IsVirtual(h[n], K, M)
    BY <1>2, RunVirtual
  <2> HIDE DEF M
  <2>2. ASSUME NEW k \in 1 .. K PROVE Entry(h[n].products[k], b) \in Int
    <3>1. h[n].products[k] \in Product(M)
      BY <1>3, <2>1, VirtualParts
    <3>2. b \in 1 .. M
      BY DEF M
    <3> QED BY <1>3, <3>1, <3>2, EntryIs
  <2> QED BY <2>2
<1> HIDE DEF x, y
<1>10. <<>> \o x = x
  BY <1>6, <1>9, CollectIs
<1> QED
  BY <1>6, <1>8, <1>10 DEF y, q

\* After each round, the polynomial at the challenges and summed over its other
\* variables is the last message at the last challenge.
THEOREM MessagesKeepSum ==
  ASSUME NEW s \in 1 .. 3, NEW n \in 1 .. s, NEW K \in Nat, NEW g, IsVirtual(g, K, Corners(s)),
         NEW point \in List(Fp, n), NEW proofs, NEW poly, Rounds(g, point, proofs, n, poly),
         NEW Q, Continues(Q, s, n, point)
  PROVE  SumSeq(Collect(Corners(s - n), LAMBDA b : VpEvaluate(g, Q[b])))
           = PolyEval(proofs[n], point[n])
<1>1. PICK h : FixRun(h, g, point, proofs, n)
  BY DEF Rounds
<1> DEFINE M == Corners(s - n)  v == h[n]
           e == [k \in 1 .. K |-> [b \in 1 .. M |-> Entry(v.products[k], b)]]
           r == [k \in 1 .. K |-> SumSeq(e[k])]
           c == [b \in 1 .. M |-> SumSeq([k \in 1 .. K |-> e[k][b]])]
           x == [b \in 1 .. M |-> VpEvaluate(g, Q[b])]
<1>2. s \in 0 .. 3 /\ n \in 0 .. s /\ n \in 1 .. n /\ s - n \in 0 .. 3
  OBVIOUS
<1>3. IsVirtual(v, K, M) /\ M \in Nat
  BY <1>1, <1>2, CornersIs, RunVirtual
<1>4. PolyEval(proofs[n], point[n]) = VirtualTotal(v, K, M)
  BY <1>1, <1>2, RunSums
<1>5. \A b \in 1 .. M : x[b] = SumSeq([k \in 1 .. K |-> Entry(v.products[k], b)])
  <2>1. \A b \in 1 .. M : VpEvaluate(g, Q[b]) = SumSeq([k \in 1 .. K |-> Entry(v.products[k], b)])
    BY <1>1, EvaluateIs
  <2> HIDE DEF M, v
  <2> QED BY <2>1
<1> HIDE DEF M, v
<1>6. \A k \in 1 .. K : v.products[k] \in Product(M)
  BY <1>3, VirtualParts
<1>7. ASSUME NEW k \in 1 .. K
      PROVE  e[k] \in List(Int, M) /\ SumSeq(e[k]) = TotalOf(v.products[k], M) /\ SumSeq(e[k]) \in Int
  <2>1. e[k] = [b \in 1 .. M |-> Entry(v.products[k], b)]
    OBVIOUS
  <2> HIDE DEF e
  <2> QED BY <1>3, <1>6, <2>1, TotalIs
<1>8. e \in List(List(Int, M), K)
  <2>1. \A k \in 1 .. K : [b \in 1 .. M |-> Entry(v.products[k], b)] \in List(Int, M)
    <3> TAKE k \in 1 .. K
    <3> QED BY <1>3, <1>6, TotalIs
  <2> DEFINE S == List(Int, M)
  <2>2. \A k \in 1 .. K : [b \in 1 .. M |-> Entry(v.products[k], b)] \in S
    BY <2>1
  <2> HIDE DEF S
  <2>3. e \in List(S, K)
    BY <2>2, Zenon DEF List
  <2> QED BY <2>3 DEF S
<1>9. \A k \in 1 .. K, b \in 1 .. M : e[k][b] = Entry(v.products[k], b)
  OBVIOUS
<1>10. x = c
  <2>1. ASSUME NEW b \in 1 .. M PROVE x[b] = SumSeq([k \in 1 .. K |-> e[k][b]])
    <3>1. [k \in 1 .. K |-> e[k][b]] = [k \in 1 .. K |-> Entry(v.products[k], b)]
      BY <1>9
    <3> HIDE DEF e, x
    <3> QED BY <1>5, <3>1
  <2>2. \A b \in 1 .. M : VpEvaluate(g, Q[b]) = SumSeq([k \in 1 .. K |-> e[k][b]])
    <3> HIDE DEF e
    <3> QED BY <2>1
  <2> HIDE DEF e
  <2> QED BY <2>2, Zenon
<1>11. SumSeq(r) = VirtualTotal(v, K, M)
  <2>1. \A k \in 1 .. K : SumSeq(e[k]) = TotalOf(v.products[k], M)
    BY <1>7
  <2> HIDE DEF e
  <2>2. r = [k \in 1 .. K |-> TotalOf(v.products[k], M)]
    BY <2>1, Zenon
  <2> QED BY <2>2 DEF VirtualTotal
<1>12. SumSeq(r) = SumSeq(c) /\ c \in [1 .. M -> Int]
  <2> HIDE DEF e
  <2>1. SumSeq(r) = SumSeq(c)
    BY <1>3, <1>8, SumSwap
  <2>2. \A b \in 1 .. M : SumSeq([k \in 1 .. K |-> e[k][b]]) \in Int
    <3> TAKE b \in 1 .. M
    <3>1. \A k \in 1 .. K : e[k][b] \in Int
      BY <1>7 DEF List
    <3>2. [k \in 1 .. K |-> e[k][b]] \in List(Int, K)
      BY <3>1, Zenon DEF List
    <3> QED BY <3>2, SumInFp
  <2>3. c \in [1 .. M -> Int]
    BY <2>2, Zenon
  <2> QED BY <2>1, <2>3
<1> HIDE DEF r, c
<1>13. SumSeq(Collect(M, LAMBDA b : VpEvaluate(g, Q[b]))) = SumSeq(<<>> \o x)
  BY DEF Collect
<1> HIDE DEF x
<1>14. <<>> \o x = x
  BY <1>3, <1>10, <1>12, CollectIs
<1> QED
  BY <1>4, <1>10, <1>11, <1>12, <1>13, <1>14 DEF M
=============================================================================

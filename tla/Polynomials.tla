------------------------------ MODULE Polynomials ------------------------------
(***************************************************************************)
(* Univariate polynomials modulo P, as the sequence of their coefficients, *)
(* constant term first, and the evaluation domains of ProtoGalaxy: the     *)
(* powers of a root of unity whose order is a power of two.                *)
(***************************************************************************)
EXTENDS Field, Sequences

\* The vector f(1), .., f(n).
Collect(n, f(_)) == <<>> \o [j \in 1 .. n |-> f(j)]

SumSeq(s) ==
  LET f[j \in 0 .. Len(s)] == IF j = 0 THEN 0 ELSE (f[j - 1] + s[j]) % P
  IN  f[Len(s)]

Inner(a, b) ==
  LET f[j \in 0 .. Len(a)] == IF j = 0 THEN 0 ELSE (f[j - 1] + a[j] * b[j]) % P
  IN  f[Len(a)]

Sq(a) == (a * a) % P

Pow(a, n) ==
  LET f[j \in 0 .. n] == IF j = 0 THEN 1
                         ELSE IF j % 2 = 0 THEN Sq(f[j \div 2])
                         ELSE (f[j - 1] * a) % P
  IN  f[n]

PolyEval(c, x) ==
  LET f[j \in 1 .. Len(c) + 1] == IF j > Len(c) THEN 0 ELSE (c[j] + x * f[j + 1]) % P
  IN  f[1]

Resize(c, n) == Collect(n, LAMBDA j : IF j <= Len(c) THEN c[j] ELSE 0)

PolyAdd(a, b) ==
  Collect(IF Len(a) < Len(b) THEN Len(b) ELSE Len(a),
          LAMBDA j : ((IF j <= Len(a) THEN a[j] ELSE 0) + (IF j <= Len(b) THEN b[j] ELSE 0)) % P)

PolyScale(a, c) == Collect(Len(a), LAMBDA j : (c * a[j]) % P)

----------------------------------------------------------------------------
\* The orders of the domains modulo P, and the roots that generate them, which are
\* powers of one of the largest order.
Orders == {n \in {2, 4, 8, 16} : (P - 1) % n = 0}
LargestOrder == CHOOSE n \in Orders : \A m \in Orders : m <= n

IsRoot(w) == Pow(w, LargestOrder \div 2) = P - 1

Root ==
  LET w == CHOOSE w \in Fp : IsRoot(w) IN [n \in Orders |-> Pow(w, LargestOrder \div n)]

\* To fold k instances, k + 1 being a power of two: H has k + 1 elements, the domain
\* of G the least power of two above d k, d = 2 being the degree of an R1CS.
Degree   == 2
GSize(k) == CHOOSE n \in {4, 8, 16} : Degree * k < n /\ n <= 2 * Degree * k
Foldable == {k \in {1, 3, 7} : GSize(k) \in Orders}

\* The polynomial with the given values on the powers 1, w, w^2, .. of the root w,
\* whose number n divides P - 1, so that n (P - (P - 1) / n) = 1.
Interpolate(evals, w) ==
  LET n == Len(evals)
  IN  PolyScale(Collect(n, LAMBDA j :
                  Inner(evals, Collect(n, LAMBDA h : Pow(w, ((n - h + 1) * (j - 1)) % n)))),
                P - (P - 1) \div n)

\* lagrange_polys of H.
LagrangePolys ==
  [k \in Foldable |-> Collect(k + 1, LAMBDA i :
    Interpolate(Collect(k + 1, LAMBDA h : IF h = i THEN 1 ELSE 0), Root[k + 1]))]

LagrangeEvals(k, x) == Collect(k + 1, LAMBDA i : PolyEval(LagrangePolys[k][i], x))

\* The vanishing polynomial X^n - 1 of a domain of n elements, and the division by it.
Vanishing(n, x) == (Pow(x, n) - 1) % P

Quotient(c, n) ==
  LET q[j \in 1 .. Len(c)] == IF j + n > Len(c) THEN 0 ELSE (c[j + n] + q[j + n]) % P
  IN  Collect(Len(c) - n, LAMBDA j : q[j])

Remainder(c, n) == SubSeq(PolyAdd(c, Quotient(c, n)), 1, n)
=============================================================================

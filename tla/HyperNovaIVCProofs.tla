--------------------------- MODULE HyperNovaIVCProofs ---------------------------
(***************************************************************************)
(* HyperNova's IVC, for every field, oracle, generators, number of         *)
(* parties, steps and published proofs.                                    *)
(***************************************************************************)
EXTENDS HyperNovaIVC, HyperNovaNIMFSProofs

----------------------------------------------------------------------------
\* The constraints of the augmented circuit.

LEMMA FirstRowsMatrix ==
  ASSUME NEW n \in 0 .. 7, NEW rows \in [1 .. n -> Vec]
  PROVE  FirstRows(rows) \in Matrix
BY ZeroVecInVec DEF FirstRows, Matrix, Slot

LEMMA AugCcs == CcsOk(AugCCS) /\ StepRows(AugCCS) /\ AugCCS.l = 2 /\ AugCCS.s = 2
<1>1. (P - 1) \in Fp /\ ((P - 5) % P) \in Fp
  BY PAssumption, ModInFp DEF Fp
<1>2. \A k \in Slot : E1(k) \in Vec
  BY E1InVec
<1>3. [E1(5) EXCEPT ![4] = P - 1, ![0] = (P - 5) % P] \in Vec
  BY <1>1, <1>2 DEF Vec, Slot
<1> DEFINE c1 == [E1(5) EXCEPT ![4] = P - 1, ![0] = (P - 5) % P]
<1> HIDE DEF c1
<1>4. E1(3) \in Vec /\ E1(6) \in Vec /\ E1(7) \in Vec /\ E1(0) \in Vec /\ E1(1) \in Vec
      /\ E1(2) \in Vec /\ c1 \in Vec
  BY <1>2, <1>3 DEF Slot, c1
<1>5. /\ <<E1(6), E1(3), E1(7)>> \in [1 .. 3 -> Vec]
      /\ <<E1(0), E1(3), E1(0)>> \in [1 .. 3 -> Vec]
      /\ <<E1(1), c1, E1(2)>> \in [1 .. 3 -> Vec]
  BY <1>4
<1>6. /\ AugCCS.A = FirstRows(<<E1(6), E1(3), E1(7)>>)
      /\ AugCCS.B = FirstRows(<<E1(0), E1(3), E1(0)>>)
      /\ AugCCS.C = FirstRows(<<E1(1), c1, E1(2)>>)
      /\ AugCCS.l = 2 /\ AugCCS.s = 2
  BY DEF AugCCS, c1
<1>7. CcsOk(AugCCS)
  BY <1>5, <1>6, FirstRowsMatrix DEF CcsOk, MatricesOk
<1>8. ASSUME NEW a, NEW b, NEW c
      PROVE  FirstRows(<<a, b, c>>) = [k \in Slot |-> IF k = 0 THEN a ELSE IF k = 1 THEN b
                                                      ELSE IF k = 2 THEN c ELSE ZeroVec]
  BY DEF FirstRows, Slot
<1>9. StepRows(AugCCS)
  BY <1>6, <1>7, <1>8 DEF StepRows, CcsOk, c1
<1> QED
  BY <1>6, <1>7, <1>9

----------------------------------------------------------------------------
\* The polynomial of the sum-check: its variables and its degree.

VpShape(vp, n, d) ==
  /\ DOMAIN vp = {"num_variables", "max_degree", "products"}
  /\ vp.num_variables = n /\ vp.max_degree = d

LEMMA AddedShape ==
  ASSUME NEW vp, NEW n, NEW d \in Nat, VpShape(vp, n, d), NEW mles, NEW c
  PROVE  VpShape(AddMleList(vp, mles, c), n, IF Len(mles) > d THEN Len(mles) ELSE d)
<1> DEFINE half == [vp EXCEPT !.products = Append(@, [c |-> c, mles |-> mles])]
<1>1. /\ DOMAIN half = {"num_variables", "max_degree", "products"}
      /\ half.num_variables = n /\ half.max_degree = d
  BY DEF VpShape
<1>2. AddMleList(vp, mles, c)
        = [half EXCEPT !.max_degree = IF Len(mles) > d THEN Len(mles) ELSE d]
  BY DEF AddMleList, VpShape
<1> HIDE DEF half
<1> QED
  BY <1>1, <1>2 DEF VpShape

LEMMA WithLShape ==
  ASSUME NEW R, NEW g, NEW n, VpShape(g, n, 0), NEW U, NEW z, NEW gamma, NEW first
  PROVE  VpShape(WithL(R, g, U, z, gamma, first), n, 2)
<1> DEFINE mles(j) == <<MzMle(R, j, z), BuildEqVec(U.r_x)>>
           w(j) == Pow(gamma, first + j - 1)
           x1 == AddMleList(g, mles(1), w(1))
           x2 == AddMleList(x1, mles(2), w(2))
           x3 == AddMleList(x2, mles(3), w(3))
           Rec(h) == h = [j \in 0 .. 3 |-> IF j = 0 THEN g
                            ELSE AddMleList(h[j - 1], mles(j), w(j))]
           c == CHOOSE h : Rec(h)
           a == [j \in 0 .. 3 |-> IF j = 0 THEN g ELSE IF j = 1 THEN x1
                                  ELSE IF j = 2 THEN x2 ELSE x3]
<1>1. WithL(R, g, U, z, gamma, first) = c[3]
  BY DEF WithL
<1>2. \A j : Len(mles(j)) = 2
  OBVIOUS
<1> HIDE DEF mles, w
<1>3. Rec(a)
  BY DEF mles, w
<1>4. Rec(c)
  <2> HIDE DEF Rec
  <2> QED BY <1>3
<1> HIDE DEF c
<1>5. c[0] = g /\ c[1] = AddMleList(c[0], mles(1), w(1))
      /\ c[2] = AddMleList(c[1], mles(2), w(2)) /\ c[3] = AddMleList(c[2], mles(3), w(3))
  BY <1>4
<1>6. VpShape(c[1], n, 2)
  <2>1. VpShape(c[1], n, IF Len(mles(1)) > 0 THEN Len(mles(1)) ELSE 0)
    BY <1>5, AddedShape
  <2>2. (IF Len(mles(1)) > 0 THEN Len(mles(1)) ELSE 0) = 2
    BY <1>2
  <2> QED BY <2>1, <2>2, Zenon
<1>7. VpShape(c[2], n, 2)
  <2>1. VpShape(c[2], n, IF Len(mles(2)) > 2 THEN Len(mles(2)) ELSE 2)
    BY <1>5, <1>6, AddedShape
  <2> QED BY <1>2, <2>1
<1>8. VpShape(c[3], n, 2)
  <2>1. VpShape(c[3], n, IF Len(mles(3)) > 2 THEN Len(mles(3)) ELSE 2)
    BY <1>5, <1>7, AddedShape
  <2> QED BY <1>2, <2>1
<1> QED
  BY <1>1, <1>8

LEMMA ConcatLen ==
  ASSUME NEW S, NEW a \in Seq(S), NEW b \in Seq(S)
  PROVE  Len(a \o b) = Len(a) + Len(b)
BY ConcatProperties

LEMMA WithQShape ==
  ASSUME NEW R, NEW g, NEW n, VpShape(g, n, 2), NEW z, NEW gamma, NEW k, NEW beta
  PROVE  VpShape(WithQ(R, g, z, gamma, k, beta), n, 3)
<1> DEFINE mles(j) == [i \in DOMAIN Terms[j].S |-> MzMle(R, Terms[j].S[i], z)]
                        \o <<BuildEqVec(beta)>>
           w(j) == (Terms[j].c * Pow(gamma, k)) % P
           x1 == AddMleList(g, mles(1), w(1))
           x2 == AddMleList(x1, mles(2), w(2))
           Rec(h) == h = [j \in 0 .. 2 |-> IF j = 0 THEN g
                            ELSE AddMleList(h[j - 1], mles(j), w(j))]
           c == CHOOSE h : Rec(h)
           a == [j \in 0 .. 2 |-> IF j = 0 THEN g ELSE IF j = 1 THEN x1 ELSE x2]
<1>1. WithQ(R, g, z, gamma, k, beta) = c[2]
  BY DEF WithQ
<1>2. Len(mles(1)) = 3 /\ Len(mles(2)) = 2
  <2>1. DOMAIN Terms[1].S = 1 .. 2 /\ DOMAIN Terms[2].S = 1 .. 1
    BY DEF Terms
  <2> DEFINE one == [i \in DOMAIN Terms[1].S |-> MzMle(R, Terms[1].S[i], z)]
             two == [i \in DOMAIN Terms[2].S |-> MzMle(R, Terms[2].S[i], z)]
             e   == BuildEqVec(beta)
             S   == {one[1], one[2], two[1], e}
  <2>2. DOMAIN one = 1 .. 2 /\ DOMAIN two = 1 .. 1 /\ one = [i \in 1 .. 2 |-> one[i]]
        /\ two = [i \in 1 .. 1 |-> two[i]]
    BY <2>1
  <2>3. mles(1) = one \o <<e>> /\ mles(2) = two \o <<e>>
    OBVIOUS
  <2> HIDE DEF one, two, e
  <2>4. one \in Seq(S) /\ Len(one) = 2
    <3>1. one \in [1 .. 2 -> S]
      BY <2>2
    <3> HIDE DEF S
    <3> QED BY <3>1, CollectIs
  <2>5. two \in Seq(S) /\ Len(two) = 1
    <3>1. two \in [1 .. 1 -> S]
      BY <2>2
    <3> HIDE DEF S
    <3> QED BY <3>1, CollectIs
  <2> DEFINE last == <<e>>
  <2>6. last \in Seq(S) /\ Len(last) = 1
    OBVIOUS
  <2> HIDE DEF S, last
  <2>7. Len(one \o last) = Len(one) + Len(last) /\ Len(two \o last) = Len(two) + Len(last)
    BY <2>4, <2>5, <2>6, ConcatLen, Zenon
  <2>8. Len(one \o last) = 3 /\ Len(two \o last) = 2
    BY <2>4, <2>5, <2>6, <2>7
  <2> QED BY <2>3, <2>8 DEF last
<1> HIDE DEF mles, w
<1>3. Rec(a)
  BY DEF mles, w
<1>4. Rec(c)
  <2> HIDE DEF Rec
  <2> QED BY <1>3
<1> HIDE DEF c
<1>5. c[0] = g /\ c[1] = AddMleList(c[0], mles(1), w(1))
      /\ c[2] = AddMleList(c[1], mles(2), w(2))
  BY <1>4
<1>6. VpShape(c[1], n, 3)
  <2>1. VpShape(c[1], n, IF Len(mles(1)) > 2 THEN Len(mles(1)) ELSE 2)
    BY <1>5, AddedShape
  <2>2. (IF Len(mles(1)) > 2 THEN Len(mles(1)) ELSE 2) = 3
    BY <1>2, SMTT(30)
  <2> QED BY <2>1, <2>2, Zenon
<1>7. VpShape(c[2], n, 3)
  <2>1. VpShape(c[2], n, IF Len(mles(2)) > 3 THEN Len(mles(2)) ELSE 3)
    BY <1>5, <1>6, AddedShape
  <2> DEFINE m == Len(mles(2))
  <2>2. (IF m > 3 THEN m ELSE 3) = 3
    <3>1. m = 2
      BY <1>2
    <3> HIDE DEF m
    <3> QED BY <3>1
  <2> QED BY <2>1, <2>2, Zenon
<1> QED
  BY <1>1, <1>7

\* With one running and one incoming pair: as many variables as the rows need, and
\* degree 3, the degree the verifiers absorb.
LEMMA GShape ==
  ASSUME NEW R, NEW U, NEW zL, NEW zC, NEW gamma, NEW beta
  PROVE  VpShape(ComputeG(R, <<U>>, <<zL>>, <<zC>>, gamma, beta), R.s, Degree + 1)
<1> DEFINE Us == <<U>>  zLs == <<zL>>  zCs == <<zC>>
           n0 == NewVirtualPolynomial(R.s)
           RecL(h) == h = [i \in 0 .. Len(Us) |-> IF i = 0 THEN n0
                             ELSE WithL(R, h[i - 1], Us[i], zLs[i], gamma, 3 * (i - 1))]
           ls == CHOOSE h : RecL(h)
           RecQ(h) == h = [k \in 0 .. Len(zCs) |-> IF k = 0 THEN ls[Len(Us)]
                             ELSE WithQ(R, h[k - 1], zCs[k], gamma, 3 * Len(Us) + k - 1, beta)]
           qs == CHOOSE h : RecQ(h)
           n1 == WithL(R, n0, U, zL, gamma, 0)
           n2 == WithQ(R, n1, zC, gamma, 3, beta)
           a == [i \in 0 .. 1 |-> IF i = 0 THEN n0 ELSE n1]
           b == [i \in 0 .. 1 |-> IF i = 0 THEN n1 ELSE n2]
<1>1. ComputeG(R, Us, zLs, zCs, gamma, beta) = qs[Len(zCs)]
  BY DEF ComputeG
<1>2. Len(Us) = 1 /\ Len(zCs) = 1 /\ Us[1] = U /\ zLs[1] = zL /\ zCs[1] = zC
  OBVIOUS
<1>3. VpShape(n0, R.s, 0) /\ VpShape(n1, R.s, 2) /\ VpShape(n2, R.s, 3)
  <2>1. VpShape(n0, R.s, 0)
    BY DEF NewVirtualPolynomial, VpShape
  <2> QED BY <2>1, WithLShape, WithQShape
<1> HIDE DEF Us, zLs, zCs, n2
<1>4. ls[1] = n1
  <2> HIDE DEF n0
  <2>1. 3 * (1 - 1) = 0
    OBVIOUS
  <2>2. RecL(a)
    <3>1. a[1] = WithL(R, a[1 - 1], Us[1], zLs[1], gamma, 3 * (1 - 1))
      BY <1>2, <2>1
    <3>2. ASSUME NEW i \in 0 .. Len(Us)
          PROVE  a[i] = IF i = 0 THEN n0
                        ELSE WithL(R, a[i - 1], Us[i], zLs[i], gamma, 3 * (i - 1))
      <4>1. i = 0 \/ i = 1
        BY <1>2
      <4>2. CASE i = 0
        BY <4>2
      <4>3. CASE i = 1
        <5> HIDE DEF a
        <5> QED BY <3>1, <4>3
      <4> QED BY <4>1, <4>2, <4>3
    <3>3. a = [i \in 0 .. Len(Us) |-> a[i]]
      BY <1>2
    <3> HIDE DEF a
    <3> QED BY <3>2, <3>3
  <2> HIDE DEF n1
  <2>3. RecL(ls)
    <3> HIDE DEF RecL
    <3> QED BY <2>2
  <2> HIDE DEF ls
  <2>4. ls[0] = n0 /\ ls[1] = WithL(R, ls[0], Us[1], zLs[1], gamma, 3 * (1 - 1))
    <3>1. 0 \in 0 .. Len(Us) /\ 1 \in 0 .. Len(Us) /\ 1 # 0 /\ 1 - 1 = 0
      BY <1>2
    <3>2. ls[0] = n0
      BY <2>3, <3>1
    <3> QED BY <2>3, <3>1, <3>2
  <2> QED BY <1>2, <2>1, <2>4 DEF n1
<1> HIDE DEF ls, n1
<1>5. qs[1] = n2
  <2>1. 3 * 1 + 1 - 1 = 3
    OBVIOUS
  <2>2. n2 = WithQ(R, n1, zC, gamma, 3, beta)
    BY DEF n2
  <2>3. RecQ(b)
    <3>1. b[1] = WithQ(R, b[1 - 1], zCs[1], gamma, 3 * Len(Us) + 1 - 1, beta)
      BY <1>2, <2>1, <2>2
    <3>2. ASSUME NEW k \in 0 .. Len(zCs)
          PROVE  b[k] = IF k = 0 THEN ls[Len(Us)]
                        ELSE WithQ(R, b[k - 1], zCs[k], gamma, 3 * Len(Us) + k - 1, beta)
      <4>1. k = 0 \/ k = 1
        BY <1>2
      <4>2. CASE k = 0
        BY <1>2, <1>4, <4>2
      <4>3. CASE k = 1
        <5> HIDE DEF b
        <5> QED BY <3>1, <4>3
      <4> QED BY <4>1, <4>2, <4>3
    <3>3. b = [k \in 0 .. Len(zCs) |-> b[k]]
      BY <1>2
    <3> HIDE DEF b
    <3> QED BY <3>2, <3>3
  <2>4. RecQ(qs)
    <3> HIDE DEF RecQ
    <3> QED BY <2>3
  <2> HIDE DEF qs
  <2>5. qs[0] = n1 /\ qs[1] = WithQ(R, qs[0], zCs[1], gamma, 3 * 1 + 1 - 1, beta)
    <3>1. 0 \in 0 .. Len(zCs) /\ 1 \in 0 .. Len(zCs) /\ 1 # 0 /\ 1 - 1 = 0
      BY <1>2
    <3>2. qs[0] = ls[Len(Us)]
      BY <2>4, <3>1
    <3>3. qs[1] = WithQ(R, qs[0], zCs[1], gamma, 3 * Len(Us) + 1 - 1, beta)
      BY <2>4, <3>1
    <3> QED BY <1>2, <1>4, <3>2, <3>3
  <2> QED BY <1>2, <2>1, <2>2, <2>5
<1>6. ComputeG(R, Us, zLs, zCs, gamma, beta) = n2
  BY <1>1, <1>2, <1>5
<1> QED
  BY <1>3, <1>6 DEF Degree, Us, zLs, zCs

----------------------------------------------------------------------------
\* The challenges of the two rounds.

LEMMA AppendTwo ==
  ASSUME NEW a, NEW b
  PROVE  Append(<<>>, a) = <<a>> /\ Append(<<a>>, b) = <<a, b>> /\ <<a>> \o <<b>> = <<a, b>>
<1> DEFINE S == {a, b}  t == <<a, b>>  c == Append(<<a>>, b)
<1>1. Append(<<>>, a) = <<a>>
  OBVIOUS
<1>2. <<a>> \in Seq(S) /\ b \in S /\ t \in Seq(S) /\ Len(t) = 2 /\ t[1] = a /\ t[2] = b
  OBVIOUS
<1> HIDE DEF S, t
<1>3. c \in Seq(S) /\ Len(c) = 2 /\ c[1] = a /\ c[2] = b
  BY <1>2
<1> HIDE DEF c
<1>4. c = t
  BY <1>2, <1>3, SeqEqual
<1>5. Append(<<a>>, b) = <<a>> \o <<b>>
  BY <1>2, AppendIsConcat
<1> QED BY <1>1, <1>4, <1>5 DEF c, t

LEMMA ChallengeInFp == \A tr : GetChallenge(tr).r \in Fp
BY SqueezeInFp DEF GetChallenge

\* The prover's messages and challenges.
LEMMA ProverRounds ==
  ASSUME NEW vp, VpShape(vp, 2, Degree + 1), NEW tr
  PROVE  \E m1, m2 :
           LET g1 == GetChallenge(Absorb(Absorb(tr, <<2, Degree + 1>>), m1))
               g2 == GetChallenge(Absorb(g1.tr, m2))
           IN  /\ SumCheckProve(vp, tr)
                    = [point |-> <<g1.r, g2.r>>, proofs |-> <<m1, m2>>, tr |-> g2.tr]
               /\ m1 = RoundMessage(vp) /\ m2 = RoundMessage(VpFix(vp, g1.r))
<1> DEFINE h0 == [ps |-> ProverInit(vp), challenge |-> <<>>, proofs |-> <<>>,
                  tr |-> Absorb(tr, <<vp.num_variables, vp.max_degree>>)]
           h1 == ProverRound(h0)
           h2 == ProverRound(h1)
           m1 == RoundMessage(ProveRound(h0.ps, h0.challenge).poly)
           m2 == RoundMessage(ProveRound(h1.ps, h1.challenge).poly)
           g1 == GetChallenge(Absorb(Absorb(tr, <<2, Degree + 1>>), m1))
           g2 == GetChallenge(Absorb(g1.tr, m2))
           Rec(h) == h = [j \in 0 .. 2 |-> IF j = 0 THEN h0 ELSE ProverRound(h[j - 1])]
           c == CHOOSE h : Rec(h)
           a == [j \in 0 .. 2 |-> IF j = 0 THEN h0 ELSE IF j = 1 THEN h1 ELSE h2]
           Proof(e) == [point |-> e.ps.challenges \o e.challenge, proofs |-> e.proofs, tr |-> e.tr]
<1>1. vp.num_variables = 2 /\ vp.max_degree = Degree + 1
  BY DEF VpShape
<1>2. SumCheckProve(vp, tr) = Proof(c[2])
  BY <1>1 DEF SumCheckProve
<1>3. c[2] = h2
  <2> HIDE DEF h0
  <2>1. Rec(a)
    OBVIOUS
  <2>2. Rec(c)
    <3> HIDE DEF Rec
    <3> QED BY <2>1
  <2> HIDE DEF c
  <2>3. c[0] = h0 /\ c[1] = ProverRound(c[0]) /\ c[2] = ProverRound(c[1])
    BY <2>2
  <2> QED BY <2>3
<1>4. h1 = [ps |-> h0.ps, challenge |-> <<g1.r>>, proofs |-> <<m1>>, tr |-> g1.tr]
  <2>1. /\ h0.challenge = <<>> /\ h0.proofs = <<>>
        /\ h0.tr = Absorb(tr, <<2, Degree + 1>>)
    BY <1>1
  <2> HIDE DEF h0
  <2>2. ProveRound(h0.ps, h0.challenge) = h0.ps
    BY <2>1 DEF ProveRound
  <2>3. h1 = AfterRound(h0, h0.ps, h0.tr, m1)
    BY <2>2 DEF ProverRound
  <2> HIDE DEF h1, m1
  <2> QED BY <2>1, <2>3, AppendTwo DEF AfterRound
<1>5. h0.ps.challenges = <<>> /\ h0.ps.poly = vp
  BY DEF ProverInit
<1>5a. m1 = RoundMessage(vp)
  BY DEF ProverInit, ProveRound
<1> HIDE DEF h0, m1
<1>6. h2.ps.challenges = <<g1.r>> /\ h2.challenge = <<g2.r>> /\ h2.proofs = <<m1, m2>>
      /\ h2.tr = g2.tr /\ m2 = RoundMessage(VpFix(vp, g1.r))
  <2> DEFINE ps == ProveRound(h1.ps, h1.challenge)
  <2>1. /\ h1.ps = h0.ps /\ h1.challenge = <<g1.r>> /\ h1.proofs = <<m1>> /\ h1.tr = g1.tr
    BY <1>4
  <2>2. h2 = AfterRound(h1, ps, h1.tr, m2)
    BY DEF ProverRound
  <2>2a. m2 = RoundMessage(ps.poly)
    OBVIOUS
  <2> HIDE DEF h1, g1, m2
  <2>3. ps.challenges = <<g1.r>> /\ ps.poly = VpFix(vp, g1.r)
    <3>1. <<g1.r>> # <<>>
      OBVIOUS
    <3> DEFINE e == <<g1.r>>
    <3>2. e[1] = g1.r
      OBVIOUS
    <3> HIDE DEF e
    <3>3. ps = [poly |-> VpFix(h1.ps.poly, e[1]), challenges |-> Append(h1.ps.challenges, e[1])]
      BY <2>1, <3>1 DEF ProveRound, e
    <3>4. ps.challenges = Append(<<>>, g1.r) /\ ps.poly = VpFix(vp, g1.r)
      BY <1>5, <2>1, <3>2, <3>3
    <3> QED BY <3>4, AppendTwo
  <2> HIDE DEF ps, h2
  <2> QED BY <2>1, <2>2, <2>2a, <2>3, AppendTwo DEF AfterRound
<1> HIDE DEF h2, c, m2, g1, g2
<1>7. SumCheckProve(vp, tr) = [point |-> <<g1.r, g2.r>>, proofs |-> <<m1, m2>>, tr |-> g2.tr]
  BY <1>2, <1>3, <1>6, AppendTwo
<1> QED
  BY <1>5a, <1>6, <1>7 DEF g1, g2

\* They are the rounds of the protocol.
LEMMA ProverRun ==
  ASSUME NEW vp, VpShape(vp, 2, Degree + 1), NEW tr
  PROVE  LET sc == SumCheckProve(vp, tr)
         IN  Len(sc.proofs) = 2 /\ \E poly : Rounds(vp, sc.point, sc.proofs, 2, poly)
<1> DEFINE sc == SumCheckProve(vp, tr)  t0 == Absorb(tr, <<2, Degree + 1>>)
<1>1. PICK m1, m2 :
        LET g1 == GetChallenge(Absorb(t0, m1))
            g2 == GetChallenge(Absorb(g1.tr, m2))
        IN  /\ sc = [point |-> <<g1.r, g2.r>>, proofs |-> <<m1, m2>>, tr |-> g2.tr]
            /\ m1 = RoundMessage(vp) /\ m2 = RoundMessage(VpFix(vp, g1.r))
  BY ProverRounds
<1> DEFINE r1 == GetChallenge(Absorb(t0, m1)).r
           r2 == GetChallenge(Absorb(GetChallenge(Absorb(t0, m1)).tr, m2)).r
           q1 == VpFix(vp, r1)  q2 == VpFix(q1, r2)
           h == [i \in 0 .. 2 |-> IF i = 0 THEN vp ELSE IF i = 1 THEN q1 ELSE q2]
<1>2. sc.point = <<r1, r2>> /\ sc.proofs = <<m1, m2>> /\ m1 = RoundMessage(vp) /\ m2 = RoundMessage(q1)
  BY <1>1
<1> HIDE DEF sc, r1, r2
<1>3. FixRun(h, vp, sc.point, sc.proofs, 2)
  <2>1. q1 = VpFix(vp, r1) /\ q2 = VpFix(q1, r2)
    OBVIOUS
  <2> HIDE DEF q1, q2
  <2>2. h[0] = vp /\ h[1] = q1 /\ h[2] = q2
    OBVIOUS
  <2> HIDE DEF h
  <2>3. ASSUME NEW i \in 1 .. 2
        PROVE  h[i] = VpFix(h[i - 1], sc.point[i]) /\ sc.proofs[i] = RoundMessage(h[i - 1])
    <3>1. i = 1 \/ i = 2
      OBVIOUS
    <3>2. 1 - 1 = 0 /\ 2 - 1 = 1
      OBVIOUS
    <3> QED BY <1>2, <2>1, <2>2, <3>1, <3>2
  <2> QED BY <2>2, <2>3 DEF FixRun
<1>4. Rounds(vp, sc.point, sc.proofs, 2, h[2])
  <2> HIDE DEF h
  <2> QED BY <1>3 DEF Rounds
<1>5. Len(sc.proofs) = 2
  BY <1>2
<1> QED
  BY <1>4, <1>5 DEF sc

\* The verifier, native or in-circuit, draws the challenges the prover drew.
LEMMA ChallengesAgree ==
  ASSUME NEW vp, VpShape(vp, 2, Degree + 1), NEW tr
  PROVE  LET sc == SumCheckProve(vp, tr)
             v  == VerifierChallenges(sc.proofs, 2, Degree + 1, tr)
         IN  v.rs = sc.point /\ v.tr = sc.tr /\ sc.point \in List(Fp, 2)
<1> DEFINE sc == SumCheckProve(vp, tr)
           v  == VerifierChallenges(sc.proofs, 2, Degree + 1, tr)
           t0 == Absorb(tr, <<2, Degree + 1>>)
<1>1. PICK m1, m2 :
        LET g1 == GetChallenge(Absorb(t0, m1))
            g2 == GetChallenge(Absorb(g1.tr, m2))
        IN  sc = [point |-> <<g1.r, g2.r>>, proofs |-> <<m1, m2>>, tr |-> g2.tr]
  BY ProverRounds
<1> DEFINE g1 == GetChallenge(Absorb(t0, m1))
           g2 == GetChallenge(Absorb(g1.tr, m2))
           next(h, m) == LET g == GetChallenge(Absorb(h.tr, m))
                         IN  [rs |-> Append(h.rs, g.r), tr |-> g.tr]
           k0 == [rs |-> <<>>, tr |-> t0]
           k1 == next(k0, m1)
           k2 == next(k1, m2)
           Rec(h) == h = [j \in 0 .. 2 |-> IF j = 0 THEN k0 ELSE next(h[j - 1], sc.proofs[j])]
           c == CHOOSE h : Rec(h)
           a == [j \in 0 .. 2 |-> IF j = 0 THEN k0 ELSE IF j = 1 THEN k1 ELSE k2]
<1>2. /\ sc.point = <<g1.r, g2.r>> /\ sc.proofs[1] = m1 /\ sc.proofs[2] = m2 /\ sc.tr = g2.tr
  BY <1>1
<1>3. v = c[2]
  <2> HIDE DEF sc
  <2> QED BY DEF VerifierChallenges
<1> HIDE DEF sc
<1>4. c[2] = k2
  <2> HIDE DEF next
  <2>1. Rec(a)
    <3>1. a[1] = next(a[0], sc.proofs[1]) /\ a[2] = next(a[1], sc.proofs[2]) /\ a[0] = k0
      BY <1>2
    <3>2. a = [j \in 0 .. 2 |-> a[j]]
      OBVIOUS
    <3> HIDE DEF a
    <3> QED BY <3>1, <3>2
  <2>2. Rec(c)
    <3> HIDE DEF Rec
    <3> QED BY <2>1
  <2> HIDE DEF c
  <2>3. c[0] = k0 /\ c[1] = next(c[0], sc.proofs[1]) /\ c[2] = next(c[1], sc.proofs[2])
    BY <2>2
  <2> QED BY <1>2, <2>3
<1>5. k1.rs = <<g1.r>> /\ k1.tr = g1.tr
  BY AppendTwo
<1>6. k2.rs = <<g1.r, g2.r>> /\ k2.tr = g2.tr
  <2> HIDE DEF k1, g1
  <2> QED BY <1>5, AppendTwo
<1>7. <<g1.r, g2.r>> \in List(Fp, 2)
  <2>1. g1.r \in Fp /\ g2.r \in Fp
    BY ChallengeInFp
  <2> HIDE DEF g1, g2
  <2> QED BY <2>1 DEF List
<1> HIDE DEF k2, c, g1, g2, v
<1> QED
  BY <1>2, <1>3, <1>4, <1>6, <1>7 DEF sc, v

LEMMA VerifierPoint ==
  ASSUME NEW proofs, NEW d, NEW tr
  PROVE  VerifierChallenges(proofs, 2, d, tr).rs \in List(Fp, 2)
<1> DEFINE next(h, m) == LET g == GetChallenge(Absorb(h.tr, m))
                         IN  [rs |-> Append(h.rs, g.r), tr |-> g.tr]
           k0 == [rs |-> <<>>, tr |-> Absorb(tr, <<2, d>>)]
           k1 == next(k0, proofs[1])
           k2 == next(k1, proofs[2])
           g1 == GetChallenge(Absorb(k0.tr, proofs[1]))
           g2 == GetChallenge(Absorb(k1.tr, proofs[2]))
           Rec(h) == h = [j \in 0 .. 2 |-> IF j = 0 THEN k0 ELSE next(h[j - 1], proofs[j])]
           c == CHOOSE h : Rec(h)
           a == [j \in 0 .. 2 |-> IF j = 0 THEN k0 ELSE IF j = 1 THEN k1 ELSE k2]
<1>1. VerifierChallenges(proofs, 2, d, tr) = c[2]
  BY DEF VerifierChallenges
<1>2. c[2] = k2
  <2> HIDE DEF next, k0
  <2>1. Rec(a)
    <3>1. a[1] = next(a[0], proofs[1]) /\ a[2] = next(a[1], proofs[2]) /\ a[0] = k0
      OBVIOUS
    <3>2. a = [j \in 0 .. 2 |-> a[j]]
      OBVIOUS
    <3> HIDE DEF a
    <3> QED BY <3>1, <3>2
  <2>2. Rec(c)
    <3> HIDE DEF Rec
    <3> QED BY <2>1
  <2> HIDE DEF c
  <2>3. c[0] = k0 /\ c[1] = next(c[0], proofs[1]) /\ c[2] = next(c[1], proofs[2])
    BY <2>2
  <2> QED BY <2>3
<1>3. k1.rs = <<g1.r>> /\ k2.rs = Append(k1.rs, g2.r)
  BY AppendTwo
<1>4. g1.r \in Fp /\ g2.r \in Fp
  BY ChallengeInFp
<1> HIDE DEF c, k1, k2, g1, g2
<1>5. k2.rs = <<g1.r, g2.r>>
  BY <1>3, AppendTwo
<1> QED
  BY <1>1, <1>2, <1>4, <1>5 DEF List

----------------------------------------------------------------------------
\* What a struct holds.

Fields == {"i", "z_0", "z_i", "w_i", "u_i", "W_i", "U_i", "cf_W_i", "cf_U_i"}

\* The commitment of a running instance is to the witness with the caller's blinder
\* taken out of its own.
OpensBut(W, U) == U.C = Commit(G, W.w, W.r_w - CallerBlinders.W)

\* The first public input of the fresh instance is the hash of the claim with some
\* running instance.
HashOfClaim(h, i, z_0, z_i) == \E U \in Lcccs(2, 2) : h = Hash(U, i, z_0, z_i)

WellFormed(s) ==
  /\ DOMAIN s = Fields /\ s = [k \in Fields |-> s[k]]
  /\ s.i \in Nat /\ s.z_0 \in State /\ s.z_i \in State
  /\ s.U_i \in Lcccs(2, 2) /\ s.W_i \in HnWitness(2)
  /\ CheckLcccs(AugCCS, s.W_i, s.U_i) /\ OpensBut(s.W_i, s.U_i)
  /\ s.u_i \in Cccs(2) /\ s.w_i \in HnWitness(2)
  /\ HashOfClaim(s.u_i.x[1], s.i, s.z_0, s.z_i)
  /\ Sound(CfR1CS, CfG, s.cf_W_i, s.cf_U_i)
  /\ s.i = 0 => s = FreshProver(s.z_0)
  /\ s.i > 0 => /\ Len(s.z_0) = 1 /\ Len(s.z_i) = 1
                /\ HnOpens(G, s.w_i, s.u_i)

\* As long as no step failed the hashes are of its own running instances, and the fresh
\* pair satisfies the circuit.
Consistent(s) == s.i > 0 => HashesMatch(s) /\ CheckCccs(AugCCS, s.w_i, s.u_i)

LEMMA FIsState ==
  ASSUME NEW z \in State, NEW e \in Ext
  PROVE  z[1] \in Fp /\ e \in Fp /\ F(z, e) \in State /\ Len(F(z, e)) = 1 /\ F(z, e)[1] \in Fp
<1>1. z[1] \in Fp /\ e \in Fp
  BY ExtAssumption DEF State
<1>2. (z[1] * z[1] + e + 5) % P \in Fp
  <2>1. z[1] * z[1] + e + 5 \in Int
    BY <1>1, FpIsInt
  <2> QED BY <2>1, ModInFp
<1> QED
  BY <1>1, <1>2 DEF F, State

LEMMA HashInFp ==
  /\ \A U, i, z_0, z_i : Hash(U, i, z_0, z_i) \in Fp
  /\ \A U : HashCycleFold(U) \in Fp
BY SqueezeInFp DEF Hash, HashCycleFold

\* The dummy pair, whatever its blinder.
LEMMA DummyPair ==
  ASSUME NEW r \in Fp
  PROVE  LET W == [DummyHnWitness EXCEPT !.r_w = r]
         IN  /\ W \in HnWitness(2) /\ DummyLcccs(AugCCS) \in Lcccs(2, 2)
             /\ CheckLcccs(AugCCS, W, DummyLcccs(AugCCS))
             /\ W.w = ZeroVec /\ W.r_w = r
<1> DEFINE W == [DummyHnWitness EXCEPT !.r_w = r]  U == DummyLcccs(AugCCS)  a == 0
           z == LcccsZ(U, W)
<1>1. W = [w |-> ZeroVec, r_w |-> r]
  BY DEF DummyHnWitness
<1>2. ZeroVec \in WitnessVec(2)
  BY ZeroVecInVec DEF WitnessVec, ZeroVec, Slot
<1>3. W \in HnWitness(2)
  BY <1>1, <1>2 DEF HnWitness
<1>4. U = [C |-> a, u |-> a, x |-> [k \in 1 .. 2 |-> a], r_x |-> [k \in 1 .. 2 |-> a],
           v |-> [k \in 1 .. 3 |-> a]]
  BY AugCcs DEF DummyLcccs
<1>5. U \in Lcccs(2, 2)
  <2>1. a \in Fp
    BY ZeroOneInFp
  <2> HIDE DEF a, U
  <2> QED BY <1>4, <2>1 DEF Lcccs
<1>6. z = ZeroVec
  <2>1. z = Assignment(0, [k \in 1 .. 2 |-> 0], ZeroVec)
    BY <1>1, <1>4 DEF LcccsZ
  <2> HIDE DEF z
  <2> QED BY <2>1 DEF Assignment, ZeroVec, Slot
<1>7. U.r_x \in List(Fp, AugCCS.s)
  BY <1>5, AugCcs DEF Lcccs, List
<1> HIDE DEF W, U, z
<1>8. MzAt(AugCCS, ZeroVec, U.r_x) = [k \in 1 .. 3 |-> 0]
  <2> DEFINE m == MzAt(AugCCS, ZeroVec, U.r_x)
  <2>1. m \in [1 .. 3 -> Fp]
    BY <1>7, AugCcs, MzAtLinear, ZeroVecInVec, ZeroOneInFp
  <2>2. \A j \in 1 .. 3 : m[j] = 0
    BY <1>7, AugCcs, MzAtZero
  <2> HIDE DEF m
  <2>3. m = [k \in 1 .. 3 |-> 0]
    BY <2>1, <2>2
  <2> QED BY <2>3 DEF m
<1>9. CheckLcccs(AugCCS, W, U)
  BY <1>4, <1>6, <1>8 DEF CheckLcccs, z
<1> QED
  BY <1>1, <1>3, <1>5, <1>9 DEF W, U

----------------------------------------------------------------------------
\* The primary fold of a step.

\* Its challenges, its sum-check, its sigmas and thetas and its last challenge.
ZL(s) == LcccsZ(s.U_i, s.W_i)
ZC(s) == CccsZ(s.u_i, s.w_i)
StepChallenges(s) == FirstChallenges(<<PpHash>>, <<s.U_i>>, <<s.u_i>>, 2)
StepG(s) ==
  ComputeG(AugCCS, <<s.U_i>>, <<ZL(s)>>, <<ZC(s)>>, StepChallenges(s).gamma, StepChallenges(s).beta)
StepSumCheck(s) == SumCheckProve(StepG(s), StepChallenges(s).tr)
StepSt(s) == SigmasThetas(AugCCS, <<ZL(s)>>, <<ZC(s)>>, StepSumCheck(s).point)
StepRho(s) == RhoAfter(StepSumCheck(s).tr)

LEMMA PrimaryFoldIs ==
  ASSUME NEW s
  PROVE  PrimaryFold(s)
           = [proof |-> [proofs |-> StepSumCheck(s).proofs, st |-> StepSt(s)],
              rho |-> StepRho(s).r, tr |-> StepRho(s).tr,
              U |-> Fold(<<s.U_i>>, <<s.u_i>>, StepSt(s), StepSumCheck(s).point, StepRho(s).r),
              W |-> FoldHnWitness(<<s.W_i>> \o <<s.w_i>>, StepRho(s).r)]
<1> DEFINE zLs == [i \in DOMAIN <<s.U_i>> |-> LcccsZ(<<s.U_i>>[i], <<s.W_i>>[i])]
           zCs == [k \in DOMAIN <<s.u_i>> |-> CccsZ(<<s.u_i>>[k], <<s.w_i>>[k])]
<1>1. zLs = <<ZL(s)>> /\ zCs = <<ZC(s)>>
  BY DEF ZL, ZC
<1>2. PrimaryFold(s) = WithChallenges(AugCCS, <<s.U_i>>, <<s.u_i>>, <<s.W_i>> \o <<s.w_i>>,
                                      zLs, zCs, StepChallenges(s))
  BY AugCcs DEF PrimaryFold, NimfsProve, StepChallenges
<1> HIDE DEF zLs, zCs
<1>3. PrimaryFold(s) = AfterSumCheck(AugCCS, <<s.U_i>>, <<s.u_i>>, <<s.W_i>> \o <<s.w_i>>,
                                     <<ZL(s)>>, <<ZC(s)>>, StepSumCheck(s))
  BY <1>1, <1>2 DEF WithChallenges, StepSumCheck, StepG
<1> QED
  BY <1>3 DEF AfterSumCheck, ProverFold, StepSt, StepRho

LEMMA OnePair ==
  ASSUME NEW U \in Lcccs(2, 2), NEW u \in Cccs(2), NEW W \in HnWitness(2), NEW w \in HnWitness(2)
  PROVE  PairsToFold(2, 2, 1, 1, <<U>>, <<u>>, <<W>>, <<w>>, <<LcccsZ(U, W)>>, <<CccsZ(u, w)>>)
<1> DEFINE z == LcccsZ(U, W)  y == CccsZ(u, w)
<1>1. <<z>> = [i \in 1 .. 1 |-> LcccsZ(<<U>>[i], <<W>>[i])]
      /\ <<y>> = [i \in 1 .. 1 |-> CccsZ(<<u>>[i], <<w>>[i])]
  OBVIOUS
<1> HIDE DEF z, y
<1>2. <<U>> \in List(Lcccs(2, 2), 1) /\ <<u>> \in List(Cccs(2), 1)
      /\ <<W>> \in List(HnWitness(2), 1) /\ <<w>> \in List(HnWitness(2), 1)
  BY DEF List
<1>3. PairsToFold(2, 2, 1, 1, <<U>>, <<u>>, <<W>>, <<w>>, <<z>>, <<y>>)
  BY <1>1, <1>2 DEF PairsToFold
<1> QED
  BY <1>3 DEF z, y

\* The prover's point and the transcript after it are those of whoever draws the
\* challenges for its messages.
LEMMA StepPoint ==
  ASSUME NEW s
  PROVE  /\ StepSumCheck(s).point \in List(Fp, 2) /\ StepRho(s).r \in Fp
         /\ LET v == VerifierChallenges(StepSumCheck(s).proofs, 2, Degree + 1, StepChallenges(s).tr)
            IN  v.rs = StepSumCheck(s).point /\ v.tr = StepSumCheck(s).tr
<1>1. VpShape(StepG(s), 2, Degree + 1)
  <2>1. VpShape(StepG(s), AugCCS.s, Degree + 1)
    BY GShape DEF StepG
  <2> QED BY <2>1, AugCcs
<1>2. StepRho(s).r \in Fp
  BY ChallengeInFp DEF StepRho, RhoAfter
<1> QED
  BY <1>1, <1>2, ChallengesAgree DEF StepSumCheck

LEMMA StepWeighs ==
  ASSUME NEW s, WellFormed(s)
  PROVE  ToWeigh(AugCCS, <<s.U_i>>, <<ZL(s)>>, <<ZC(s)>>, StepChallenges(s).gamma,
                 StepChallenges(s).beta, 1)
<1> DEFINE Us == <<s.U_i>>  us == <<s.u_i>>  Ws == <<s.W_i>>  ws == <<s.w_i>>
           zLs == <<ZL(s)>>  zCs == <<ZC(s)>>
           gamma == StepChallenges(s).gamma  beta == StepChallenges(s).beta  o == 1  n == 2
<1>1. CcsOk(AugCCS) /\ AugCCS.l = n /\ AugCCS.s = n
  BY AugCcs
<1>2. PairsToFold(2, 2, 1, 1, Us, us, Ws, ws, zLs, zCs)
  BY OnePair DEF WellFormed, ZL, ZC
<1>3. s.U_i.r_x \in List(Fp, 2) /\ s.U_i.v \in List(Fp, 3)
  BY DEF WellFormed, Lcccs, List
<1>4. gamma \in Fp /\ beta \in List(Fp, 2)
  <2>1. gamma \in Fp
    BY ChallengeInFp DEF StepChallenges, FirstChallenges, BetaAfter
  <2>2. ASSUME NEW tr PROVE GetChallenges(tr, 2).rs \in List(Fp, 2)
    BY SqueezeInFp DEF GetChallenges, List, RoElement, Squeeze
  <2>3. beta \in List(Fp, 2)
    BY <2>2 DEF StepChallenges, FirstChallenges, BetaAfter
  <2> QED BY <2>1, <2>3
<1>5. PairsToFold(n, n, o, o, Us, us, Ws, ws, zLs, zCs)
  BY <1>2
<1>6. Len(Us) = 1 /\ Us[1] = s.U_i /\ zCs[1] = ZC(s) /\ o = 1
  OBVIOUS
<1> HIDE DEF o, n, Us, us, Ws, ws, zLs, zCs, gamma, beta
<1>7. ZParts(n, o, o, Us, us, Ws, ws, zLs, zCs)
  BY <1>5, PairsToFoldZ
<1>8. zLs \in List(Vec, 1) /\ zCs \in List(Vec, 1) /\ zCs[1][0] = 1
  <2>1. 1 \in 1 .. o
    BY <1>6
  <2> QED BY <1>6, <1>7, <2>1 DEF ZParts
<1>9. beta \in List(Fp, AugCCS.s) /\ s.U_i.r_x \in List(Fp, AugCCS.s)
  BY <1>1, <1>3, <1>4 DEF n
<1>10. \A i \in 1 .. 1 : Us[i].r_x \in List(Fp, AugCCS.s) /\ Us[i].v \in List(Fp, 3)
  <2>1. \A i \in 1 .. 1 : i = 1
    OBVIOUS
  <2> QED BY <1>3, <1>6, <1>9, <2>1
<1>11. ToWeigh(AugCCS, Us, zLs, zCs, gamma, beta, 1)
  BY <1>1, <1>4, <1>6, <1>8, <1>9, <1>10 DEF ToWeigh
<1> QED
  BY <1>11 DEF Us, zLs, zCs, gamma, beta

\* The circuit has nothing to say against the sum-check of its own prover.
LEMMA StepHolds ==
  ASSUME NEW s, WellFormed(s)
  PROVE  GadgetAnswers(<<s.U_i>>, StepSt(s), StepSumCheck(s).proofs, StepChallenges(s).gamma,
                       StepChallenges(s).beta, StepSumCheck(s).point) = "Ok"
<1> DEFINE Us == <<s.U_i>>  zLs == <<ZL(s)>>  zCs == <<ZC(s)>>  sc == StepSumCheck(s)
           gamma == StepChallenges(s).gamma  beta == StepChallenges(s).beta  g == StepG(s)  n == 2
           proofs == sc.proofs  point == sc.point  R == AugCCS
<1>1. ToWeigh(R, Us, zLs, zCs, gamma, beta, 1) /\ DOMAIN Us = 1 .. 1
  BY StepWeighs
<1>2. g = ComputeG(R, Us, zLs, zCs, gamma, beta) /\ StepSt(s) = SigmasThetas(R, zLs, zCs, point)
  BY DEF StepG, StepSt
<1>3. VpShape(g, 2, Degree + 1)
  <2>1. VpShape(StepG(s), AugCCS.s, Degree + 1)
    BY GShape DEF StepG
  <2> QED BY <2>1, AugCcs
<1>4. Len(proofs) = 2 /\ point \in List(Fp, 2)
  BY <1>3, ProverRun, StepPoint DEF StepSumCheck
<1>5. PICK poly : Rounds(g, point, proofs, 2, poly)
  BY <1>3, ProverRun DEF StepSumCheck
<1>6. R.s = 2 /\ R.s > 0
  BY AugCcs
<1> HIDE DEF Us, zLs, zCs, sc, gamma, beta, g, proofs, point, R
<1>7. point \in List(Fp, R.s) /\ Len(proofs) = R.s /\ Rounds(g, point, proofs, R.s, poly)
  BY <1>4, <1>5, <1>6
<1>8. GadgetAnswers(Us, SigmasThetas(R, zLs, zCs, point), proofs, gamma, beta, point) = "Ok"
  BY <1>1, <1>2, <1>6, <1>7, GadgetAccepts
<1> QED
  BY <1>2, <1>8 DEF Us, gamma, beta, proofs, point, sc

\* The folded pair satisfies its relation, whatever the challenge.
LEMMA StepFoldSatisfied ==
  ASSUME NEW s, WellFormed(s), NEW rho \in Fp
  PROVE  LET U == Fold(<<s.U_i>>, <<s.u_i>>, StepSt(s), StepSumCheck(s).point, rho)
             W == FoldHnWitness(<<s.W_i>> \o <<s.w_i>>, rho)
         IN  U \in Lcccs(2, 2) /\ W \in HnWitness(2) /\ CheckLcccs(AugCCS, W, U)
<1> DEFINE R == AugCCS  Us == <<s.U_i>>  us == <<s.u_i>>  Ws == <<s.W_i>>  ws == <<s.w_i>>
           zLs == <<ZL(s)>>  zCs == <<ZC(s)>>  point == StepSumCheck(s).point
           U == Fold(Us, us, SigmasThetas(R, zLs, zCs, point), point, rho)
           W == FoldHnWitness(Ws \o ws, rho)
<1>1. CcsOk(R) /\ R.l = 2 /\ R.s = 2
  BY AugCcs
<1>2. PairsToFold(2, 2, 1, 1, Us, us, Ws, ws, zLs, zCs)
  BY OnePair DEF WellFormed, ZL, ZC
<1>3. point \in List(Fp, 2)
  BY StepPoint
<1> HIDE DEF R, Us, us, Ws, ws, zLs, zCs, point
<1> DEFINE one == 1  two == 2
<1>4. PairsToFold(R.l, R.s, one, one, Us, us, Ws, ws, zLs, zCs) /\ point \in List(Fp, R.s)
  BY <1>1, <1>2, <1>3
<1> HIDE DEF one
<1>5. U \in Lcccs(R.l, R.s) /\ W \in HnWitness(R.l) /\ CheckLcccs(R, W, U)
  BY <1>1, <1>4, MultifoldSatisfies
<1> HIDE DEF U, W
<1>6. U \in Lcccs(2, 2) /\ W \in HnWitness(2) /\ CheckLcccs(R, W, U)
  BY <1>1, <1>5
<1> QED
  BY <1>6 DEF StepSt, R, Us, us, Ws, ws, zLs, zCs, point, U, W

----------------------------------------------------------------------------
\* Its openings.

LEMMA PairEval ==
  ASSUME NEW a \in Fp, NEW b \in Fp, NEW x \in Fp
  PROVE  PolyEval(<<a, b>>, x) = Rlc(a, x, b)
<1> DEFINE c == <<a, b>>  y == Rlc(a, x, b)
           h == [j \in 0 .. 2 |-> IF j = 0 THEN 0 ELSE IF j = 1 THEN b ELSE y]
<1>1. c[1] = a /\ c[2] = b /\ c \in List(Int, 2) /\ x \in Int
  BY FpIsInt DEF List
<1>2. Rlc(b, x, 0) = b
  BY RlcZero
<1> HIDE DEF c, y
<1>3. h[0] = 0 /\ h[1] = b /\ h[2] = y
  OBVIOUS
<1>4. HornerRun(h, c, x, 2)
  <2> HIDE DEF h
  <2>1. h[1] = Rlc(c[2 + 1 - 1], x, h[1 - 1])
    BY <1>1, <1>2, <1>3
  <2>2. h[2] = Rlc(c[2 + 1 - 2], x, h[2 - 1])
    BY <1>1, <1>3 DEF y
  <2>3. ASSUME NEW j \in 1 .. 2 PROVE h[j] = Rlc(c[2 + 1 - j], x, h[j - 1])
    <3>1. j = 1 \/ j = 2
      OBVIOUS
    <3> QED BY <2>1, <2>2, <3>1
  <2> QED BY <1>3, <2>3 DEF HornerRun
<1> HIDE DEF h
<1> DEFINE two == 2
<1>5. two \in Nat /\ c \in List(Int, two) /\ HornerRun(h, c, x, two) /\ h[two] = y
  BY <1>1, <1>3, <1>4
<1> HIDE DEF two
<1>6. PolyEval(c, x) = y
  BY <1>1, <1>5, PolyValue
<1> QED
  BY <1>6 DEF c, y

\* One running and one incoming pair are folded like two Nova witnesses.
LEMMA PairFold ==
  ASSUME NEW W \in HnWitness(2), NEW w \in HnWitness(2), NEW U \in Lcccs(2, 2), NEW u \in Cccs(2),
         NEW rho \in Fp, NEW s, NEW point
  PROVE  /\ FoldHnWitness(<<W>> \o <<w>>, rho)
              = [w |-> VecRlc(W.w, rho, w.w), r_w |-> Rlc(W.r_w, rho, w.r_w)]
         /\ Fold(<<U>>, <<u>>, s, point, rho).C = Rlc(U.C, rho, u.C)
<1> DEFINE V == <<W, w>>
<1>1. /\ W.w \in Vec /\ w.w \in Vec /\ W.r_w \in Fp /\ w.r_w \in Fp /\ U.C \in Fp /\ u.C \in Fp
  BY DEF HnWitness, WitnessVec, Lcccs, Cccs
<1>2. <<W>> \o <<w>> = V /\ DOMAIN V = 1 .. 2 /\ V[1] = W /\ V[2] = w
  BY AppendTwo
<1> HIDE DEF V
<1>3. Horner([i \in DOMAIN V |-> V[i].r_w], rho) = Rlc(W.r_w, rho, w.r_w)
  <2>1. [i \in DOMAIN V |-> V[i].r_w] = <<W.r_w, w.r_w>>
    BY <1>2
  <2> QED BY <1>1, <2>1, PairEval DEF Horner
<1>4. ASSUME NEW k \in Slot
      PROVE  Horner([i \in DOMAIN V |-> V[i].w[k]], rho) = Rlc(W.w[k], rho, w.w[k])
  <2>1. [i \in DOMAIN V |-> V[i].w[k]] = <<W.w[k], w.w[k]>>
    BY <1>2
  <2>2. W.w[k] \in Fp /\ w.w[k] \in Fp
    BY <1>1 DEF Vec
  <2> QED BY <2>1, <2>2, PairEval DEF Horner
<1>5. FoldHnWitness(V, rho) = [w |-> VecRlc(W.w, rho, w.w), r_w |-> Rlc(W.r_w, rho, w.r_w)]
  BY <1>3, <1>4 DEF FoldHnWitness, VecRlc
<1>6. Fold(<<U>>, <<u>>, s, point, rho).C = Rlc(U.C, rho, u.C)
  <2>1. /\ [i \in DOMAIN <<U>> |-> <<U>>[i].C] = <<U.C>>
        /\ [k \in DOMAIN <<u>> |-> <<u>>[k].C] = <<u.C>>
    OBVIOUS
  <2>2. Fold(<<U>>, <<u>>, s, point, rho).C = Horner(<<U.C>> \o <<u.C>>, rho)
    BY <2>1 DEF Fold
  <2> DEFINE p == U.C  q == u.C
  <2>3. p \in Fp /\ q \in Fp
    BY <1>1
  <2>4. Fold(<<U>>, <<u>>, s, point, rho).C = Horner(<<p>> \o <<q>>, rho)
    BY <2>2
  <2> HIDE DEF p, q
  <2>5. Horner(<<p>> \o <<q>>, rho) = PolyEval(<<p, q>>, rho)
    BY AppendTwo DEF Horner
  <2>6. PolyEval(<<p, q>>, rho) = Rlc(p, rho, q)
    BY <2>3, PairEval
  <2> QED BY <2>4, <2>5, <2>6 DEF p, q
<1> QED
  BY <1>2, <1>5, <1>6

LEMMA CommitModulo ==
  ASSUME NEW g \in Vec, NEW v \in Vec, NEW a \in Int, NEW b \in Int, Cong(a, b)
  PROVE  Commit(g, v, a) = Commit(g, v, b)
<1>1. g[0] \in Int /\ Dot(g, v) \in Int
  <2>1. g[0] \in Int
    BY FpIsInt DEF Vec, Slot
  <2>2. Dot(g, v) \in Int
    BY DotIsSum, FpIsInt
  <2> QED BY <2>1, <2>2
<1>2. CASE Hiding
  <2>1. g[0] * a \in Int /\ g[0] * b \in Int
    BY <1>1
  <2>2. Cong(g[0] * a, g[0] * b)
    BY <1>1, CongMul, CongRefl
  <2> DEFINE x == g[0] * a  y == g[0] * b  d == Dot(g, v)
  <2>3. Commit(g, v, a) = (d + x) % P /\ Commit(g, v, b) = (d + y) % P
    BY <1>2 DEF Commit
  <2>4. x \in Int /\ y \in Int /\ d \in Int /\ Cong(x, y)
    BY <1>1, <2>1, <2>2
  <2> HIDE DEF x, y, d
  <2>5. d + x \in Int /\ d + y \in Int /\ Cong(d + x, d + y)
    <3>1. Cong(d, d)
      BY <2>4, CongRefl
    <3>2. Cong(d + x, d + y)
      BY <2>4, <3>1, CongAdd
    <3> QED BY <2>4, <3>2
  <2>6. (d + x) % P = (d + y) % P
    BY <2>5, ModOfCong
  <2> QED BY <2>3, <2>6
<1>3. CASE ~Hiding
  BY <1>3 DEF Commit
<1> QED
  BY <1>2, <1>3

\* The caller's blinder stays in the witness, once: neither a fold nor its challenge
\* adds to the difference.
LEMMA StepFoldOpens ==
  ASSUME NEW s, WellFormed(s), s.i > 0, NEW rho \in Fp, NEW e, NEW point
  PROVE  OpensBut(FoldHnWitness(<<s.W_i>> \o <<s.w_i>>, rho),
                  Fold(<<s.U_i>>, <<s.u_i>>, e, point, rho))
<1> DEFINE W == s.W_i  w == s.w_i  cb == CallerBlinders.W
           a == W.r_w  b == w.r_w  r == (a - cb) % P
           V == VecRlc(W.w, rho, w.w)
<1>1. /\ W \in HnWitness(2) /\ w \in HnWitness(2) /\ s.U_i \in Lcccs(2, 2) /\ s.u_i \in Cccs(2)
      /\ OpensBut(W, s.U_i) /\ HnOpens(G, w, s.u_i)
  BY DEF WellFormed
<1>2. /\ W.w \in Vec /\ w.w \in Vec /\ a \in Fp /\ b \in Fp /\ cb \in Fp
      /\ a \in Int /\ b \in Int /\ cb \in Int /\ rho \in Int
  BY <1>1, CallerAssumption, FpIsInt DEF HnWitness, WitnessVec
<1>3. /\ FoldHnWitness(<<W>> \o <<w>>, rho) = [w |-> V, r_w |-> Rlc(a, rho, b)]
      /\ Fold(<<s.U_i>>, <<s.u_i>>, e, point, rho).C = Rlc(s.U_i.C, rho, s.u_i.C)
  BY <1>1, PairFold
<1>4. s.U_i.C = Commit(G, W.w, a - cb) /\ s.u_i.C = Commit(G, w.w, b)
  BY <1>1 DEF OpensBut, HnOpens
<1> HIDE DEF W, w, cb, a, b
<1>5. a - cb \in Int /\ r \in Fp /\ r \in Int /\ Cong(r, a - cb)
  <2>1. a - cb \in Int
    BY <1>2
  <2>2. r \in Fp /\ Cong(r, a - cb)
    BY <2>1, ModInFp, CongOfMod
  <2> QED BY <2>1, <2>2, FpIsInt
<1>6. s.U_i.C = Commit(G, W.w, r)
  BY <1>2, <1>4, <1>5, CommitModulo, GAssumption
<1>7. Rlc(s.U_i.C, rho, s.u_i.C) = Commit(G, V, Rlc(r, rho, b))
  BY <1>2, <1>4, <1>5, <1>6, CommitLinear, GAssumption
<1>8. /\ Cong(Rlc(r, rho, b), Rlc(a, rho, b) - cb)
      /\ Rlc(r, rho, b) \in Int /\ Rlc(a, rho, b) - cb \in Int
  <2> DEFINE t == Rlc(r, rho, b)  u == Rlc(a, rho, b)
  <2>1. t \in Int /\ u \in Int /\ Cong(t, r + rho * b) /\ Cong(u, a + rho * b)
    BY <1>2, <1>5, RlcInt
  <2> HIDE DEF t, u, r
  <2>2. PICK k \in Int : t = r + rho * b + k * P
    BY <2>1 DEF Cong
  <2>3. PICK l \in Int : u = a + rho * b + l * P
    BY <2>1 DEF Cong
  <2>4. PICK m \in Int : r = a - cb + m * P
    BY <1>5 DEF Cong
  <2> DEFINE q == rho * b
  <2>5. q \in Int
    BY <1>2
  <2> HIDE DEF q
  <2>6. t = u - cb + (k - l + m) * P
    BY <1>2, <2>1, <2>2, <2>3, <2>4, <2>5, PAssumption DEF q
  <2>7. k - l + m \in Int
    BY <2>2, <2>3, <2>4
  <2>8. Cong(t, u - cb)
    BY <2>6, <2>7 DEF Cong
  <2> QED BY <1>2, <2>1, <2>8 DEF t, u
<1>9. V \in Vec
  BY <1>2, VecRlcInVec
<1> HIDE DEF V, r
<1>10. Commit(G, V, Rlc(r, rho, b)) = Commit(G, V, Rlc(a, rho, b) - cb)
  BY <1>8, <1>9, CommitModulo, GAssumption
<1>11. Fold(<<s.U_i>>, <<s.u_i>>, e, point, rho).C = Commit(G, V, Rlc(a, rho, b) - cb)
  BY <1>3, <1>7, <1>10
<1> QED
  BY <1>3, <1>11 DEF OpensBut, W, w, cb

----------------------------------------------------------------------------
\* The circuit.

\* Its outputs for the step of s: the new state and two hashes, the first of the claim.
RunsOn(c, s, ext) ==
  \E a, o : \E h1, h2 \in Fp :
    /\ c = CircuitOutputs(a, F(s.z_i, ext), o) /\ a.z_i = s.z_i /\ a.ext = ext
    /\ o.x = <<h1, h2>> /\ HashOfClaim(h1, s.i + 1, s.z_0, F(s.z_i, ext))

\* The hashes are those of the instances the prover keeps.
Hashes(c, s, ext, U, cfU) ==
  c.x = <<Hash(U, s.i + 1, s.z_0, F(s.z_i, ext)), HashCycleFold(cfU)>>

\* No constraint of the gadgets failed.
Held(c) == c.W[6] = c.x[1]

LEMMA OutputsHeld ==
  ASSUME NEW a, NEW y, NEW o, o.holds PROVE Held(CircuitOutputs(a, y, o))
<1> DEFINE W == CircuitOutputs(a, y, o).W
<1>1. W = [k \in Slot |-> CASE k <= 2 -> 0 [] k = 3 -> a.z_i[1] [] k = 4 -> a.ext
                           [] k = 5 -> y[1]
                           [] k = 6 -> IF o.holds THEN o.x[1] ELSE (o.x[1] + 1) % P
                           [] k = 7 -> o.x[2]]
  BY DEF CircuitOutputs
<1>2. CircuitOutputs(a, y, o).x = o.x
  BY DEF CircuitOutputs
<1> HIDE DEF W
<1>3. 6 \in Slot
  BY DEF Slot
<1>4. W[6] = o.x[1]
  BY <1>1, <1>3
<1> QED
  BY <1>2, <1>4 DEF Held, W

LEMMA BaseCircuit ==
  ASSUME NEW s, WellFormed(s), s.i = 0, NEW ext \in Ext
  PROVE  LET c == AugmentedCircuit(BaseInputs(s, ext))
         IN  /\ RunsOn(c, s, ext) /\ Hashes(c, s, ext, DummyLcccs(AugCCS), s.cf_U_i)
             /\ Held(c)
<1> DEFINE a == BaseInputs(s, ext)  y == F(s.z_i, ext)
           h1 == Hash(DummyLcccs(AugCCS), 1, s.z_0, y)  h2 == HashCycleFold(DummyInstance(4))
           o == [holds |-> TRUE, x |-> <<h1, h2>>]
           c == AugmentedCircuit(a)
<1>1. a.i = 0 /\ a.z_0 = s.z_0 /\ a.z_i = s.z_i /\ a.ext = ext
  BY DEF BaseInputs
<1>2. s.cf_U_i = DummyInstance(4)
  <2> DEFINE z == s.z_0
  <2> HIDE DEF z
  <2>1. s = FreshProver(z)
    BY DEF WellFormed, z
  <2> QED BY <2>1 DEF FreshProver
<1>3. h1 \in Fp /\ h2 \in Fp
  BY HashInFp
<1>4. HashOfClaim(h1, s.i + 1, s.z_0, y)
  <2>1. DummyLcccs(AugCCS) \in Lcccs(2, 2)
    BY DummyPair, ZeroOneInFp
  <2>2. s.i + 1 = 1
    OBVIOUS
  <2> QED BY <2>1, <2>2 DEF HashOfClaim
<1>5. c = CircuitOutputs(a, y, o)
  <2> HIDE DEF a, y
  <2>1. c = CircuitOutputs(a, y, Outputs(a, y))
    BY <1>1 DEF AugmentedCircuit, y
  <2>2. Outputs(a, y) = o
    BY <1>1 DEF Outputs
  <2> QED BY <2>1, <2>2
<1>6. o.x = <<h1, h2>> /\ o.holds = TRUE
  OBVIOUS
<1> HIDE DEF c, a, o
<1>7. c.x = o.x
  BY <1>5 DEF CircuitOutputs
<1>8. RunsOn(c, s, ext)
  BY <1>1, <1>3, <1>4, <1>5, <1>6 DEF RunsOn
<1>9. Hashes(c, s, ext, DummyLcccs(AugCCS), s.cf_U_i)
  <2>1. s.i + 1 = 1
    OBVIOUS
  <2> QED BY <1>2, <1>6, <1>7, <2>1 DEF Hashes
<1>10. Held(c)
  <2> HIDE DEF y, h1, h2
  <2> QED BY <1>5, <1>6, OutputsHeld
<1> QED
  BY <1>8, <1>9, <1>10 DEF c, a

\* The instance the circuit folds, and the challenge and transcript it ends with: from
\* a struct whose hashes match, those of the prover.
LEMMA StepGadget ==
  ASSUME NEW s, WellFormed(s), NEW u \in Cccs(2)
  PROVE  LET f == PrimaryFold(s)
             v == NimfsGadget(<<PpHash>>, AugCCS, <<s.U_i>>, <<u>>, f.proof)
             U == [v.U EXCEPT !.C = f.U.C]
         IN  /\ U \in Lcccs(2, 2) /\ U.C = f.U.C
             /\ u = s.u_i => U = f.U /\ v.rho = f.rho /\ v.tr = f.tr /\ v.holds
<1> DEFINE f  == PrimaryFold(s)
           c  == FirstChallenges(<<PpHash>>, <<s.U_i>>, <<u>>, 2)
           vc == VerifierChallenges(f.proof.proofs, 2, Degree + 1, c.tr)
           ro == RhoAfter(vc.tr)
           v  == NimfsGadget(<<PpHash>>, AugCCS, <<s.U_i>>, <<u>>, f.proof)
           U  == [v.U EXCEPT !.C = f.U.C]
           Uf == Fold(<<s.U_i>>, <<s.u_i>>, StepSt(s), StepSumCheck(s).point, ro.r)
<1>1. /\ f.proof.st = StepSt(s) /\ f.proof.proofs = StepSumCheck(s).proofs
      /\ f.rho = StepRho(s).r /\ f.tr = StepRho(s).tr
      /\ f.U = Fold(<<s.U_i>>, <<s.u_i>>, StepSt(s), StepSumCheck(s).point, StepRho(s).r)
  BY PrimaryFoldIs
<1> HIDE DEF f
<1>2. v = GadgetFold(<<s.U_i>>, <<u>>, f.proof, c, vc, ro)
  BY AugCcs DEF NimfsGadget, GadgetWith, GadgetAfter
<1>3. /\ v.U = FoldInCircuit(<<s.U_i>>, <<u>>, StepSt(s), vc.rs, ro.r)
      /\ v.rho = ro.r /\ v.tr = ro.tr
  BY <1>1, <1>2 DEF GadgetFold
<1>4. ro.r \in Fp /\ vc.rs \in List(Fp, 2)
  BY ChallengeInFp, VerifierPoint DEF RhoAfter
<1>5. u = s.u_i => vc.rs = StepSumCheck(s).point /\ ro = StepRho(s)
  <2> SUFFICES ASSUME u = s.u_i PROVE vc.rs = StepSumCheck(s).point /\ ro = StepRho(s)
    OBVIOUS
  <2>1. c = StepChallenges(s)
    BY DEF StepChallenges
  <2> HIDE DEF c
  <2>2. vc.rs = StepSumCheck(s).point /\ vc.tr = StepSumCheck(s).tr
    BY <1>1, <2>1, StepPoint
  <2> HIDE DEF vc
  <2> QED BY <2>2 DEF StepRho
<1>5a. u = s.u_i => v.holds
  <2> SUFFICES ASSUME u = s.u_i PROVE v.holds
    OBVIOUS
  <2>1. c = StepChallenges(s)
    BY DEF StepChallenges
  <2>2. v.holds = (GadgetVerdict(<<s.U_i>>, f.proof, c.gamma, c.beta, vc.rs) = "Ok")
    <3> HIDE DEF v, c, vc, ro
    <3> QED BY <1>2 DEF GadgetFold
  <2> HIDE DEF v, c, vc, ro
  <2>3. GadgetVerdict(<<s.U_i>>, f.proof, c.gamma, c.beta, vc.rs)
          = GadgetAnswers(<<s.U_i>>, StepSt(s), StepSumCheck(s).proofs, StepChallenges(s).gamma,
                          StepChallenges(s).beta, StepSumCheck(s).point)
    BY <1>1, <1>5, <2>1 DEF GadgetVerdict, GadgetAnswers
  <2> QED BY <2>2, <2>3, StepHolds
<1> HIDE DEF v, c, vc, ro
<1> DEFINE u1 == FoldU(<<s.U_i>>, <<u>>, ro.r)  x1 == FoldX(<<s.U_i>>, <<u>>, ro.r)
           v1 == FoldV(StepSt(s), ro.r)
<1>6. u1 \in Fp /\ x1 \in [1 .. 2 -> Fp]
  <2> DEFINE one == 1  two == 2
  <2>1. PairsToFold(two, two, one, one, <<s.U_i>>, <<u>>, <<s.W_i>>, <<s.w_i>>,
                    <<LcccsZ(s.U_i, s.W_i)>>, <<CccsZ(u, s.w_i)>>)
    BY OnePair DEF WellFormed
  <2> HIDE DEF one, two
  <2>2. u1 \in Fp /\ x1 \in [1 .. two -> Fp]
    BY <1>4, <2>1, MultifoldZ
  <2> HIDE DEF u1, x1
  <2> QED BY <2>2 DEF two
<1>7. v1 \in [1 .. 3 -> Fp]
  <2>1. Uf \in Lcccs(2, 2)
    BY <1>4, StepFoldSatisfied
  <2>2. Uf.v = v1
    BY DEF Fold
  <2> HIDE DEF Uf, v1
  <2> QED BY <2>1, <2>2 DEF Lcccs
<1>8. f.U.C \in Fp
  <2>1. f.U \in Lcccs(2, 2)
    BY <1>1, StepPoint, StepFoldSatisfied
  <2> QED BY <2>1 DEF Lcccs
<1>9. v.U = [C |-> s.U_i.C, u |-> u1, x |-> x1, r_x |-> vc.rs, v |-> v1]
  BY <1>3 DEF FoldInCircuit
<1> HIDE DEF u1, x1, v1
<1>10. U = [C |-> f.U.C, u |-> u1, x |-> x1, r_x |-> vc.rs, v |-> v1]
  BY <1>9
<1> HIDE DEF U
<1>11. U \in Lcccs(2, 2) /\ U.C = f.U.C
  BY <1>4, <1>6, <1>7, <1>8, <1>10 DEF Lcccs, List
<1>12. u = s.u_i => U = f.U /\ v.rho = f.rho /\ v.tr = f.tr
  <2> SUFFICES ASSUME u = s.u_i PROVE U = f.U /\ v.rho = f.rho /\ v.tr = f.tr
    OBVIOUS
  <2>1. v.rho = f.rho /\ v.tr = f.tr /\ ro.r = StepRho(s).r
    BY <1>1, <1>3, <1>5
  <2>2. f.U = [C |-> f.U.C, u |-> u1, x |-> x1, r_x |-> vc.rs, v |-> v1]
    BY <1>1, <1>5, <2>1 DEF Fold, u1, x1, v1
  <2> QED BY <1>10, <2>1, <2>2
<1> QED
  BY <1>5a, <1>11, <1>12 DEF U, v, f

\* The folds of a step, and the CycleFold pair after them.
LEMMA StepFolds ==
  ASSUME NEW s, WellFormed(s), s.i > 0, NEW d \in Draws
  PROVE  LET f  == PrimaryFold(s)
             cf == CfFold(s, f, d)
         IN  /\ f.U \in Lcccs(2, 2) /\ f.W \in HnWitness(2) /\ CheckLcccs(AugCCS, f.W, f.U)
             /\ OpensBut(f.W, f.U) /\ f.rho \in Fp
             /\ f.U.C = Rlc(s.U_i.C, f.rho, s.u_i.C)
             /\ Sound(CfR1CS, CfG, cf.W, cf.U)
             /\ s.U_i.C \in Fp /\ s.u_i.C \in Fp
             /\ \A b \in Blinder : d[b] \in Fp
<1> DEFINE f == PrimaryFold(s)  cf == CfFold(s, f, d)
<1>1. /\ f.rho = StepRho(s).r /\ f.W = FoldHnWitness(<<s.W_i>> \o <<s.w_i>>, StepRho(s).r)
      /\ f.U = Fold(<<s.U_i>>, <<s.u_i>>, StepSt(s), StepSumCheck(s).point, StepRho(s).r)
  BY PrimaryFoldIs
<1>2. StepRho(s).r \in Fp
  BY StepPoint
<1> HIDE DEF f
<1>3. f.U \in Lcccs(2, 2) /\ f.W \in HnWitness(2) /\ CheckLcccs(AugCCS, f.W, f.U)
  BY <1>1, <1>2, StepFoldSatisfied
<1>4. OpensBut(f.W, f.U)
  BY <1>1, <1>2, StepFoldOpens
<1>5. s.U_i.C \in Fp /\ s.u_i.C \in Fp
  BY DEF WellFormed, Lcccs, Cccs
<1>6. f.U.C = Rlc(s.U_i.C, f.rho, s.u_i.C)
  <2> DEFINE e == StepSt(s)  point == StepSumCheck(s).point  rho == StepRho(s).r
             U == s.U_i  u == s.u_i
  <2>1. U \in Lcccs(2, 2) /\ s.W_i \in HnWitness(2) /\ u \in Cccs(2) /\ s.w_i \in HnWitness(2)
    BY DEF WellFormed
  <2>2. rho \in Fp /\ f.U = Fold(<<U>>, <<u>>, e, point, rho) /\ f.rho = rho
    BY <1>1, <1>2
  <2> HIDE DEF e, point, rho, U, u
  <2>3. /\ FoldHnWitness(<<s.W_i>> \o <<s.w_i>>, rho)
              = [w |-> VecRlc(s.W_i.w, rho, s.w_i.w), r_w |-> Rlc(s.W_i.r_w, rho, s.w_i.r_w)]
        /\ Fold(<<U>>, <<u>>, e, point, rho).C = Rlc(U.C, rho, u.C)
    BY <2>1, <2>2, PairFold
  <2> QED BY <2>2, <2>3 DEF U, u
<1>7. \A b \in Blinder : d[b] \in Fp
  BY DrawsAssumption
<1>8. d["cf.rW"] \in Fp /\ d["cf.rE"] \in Fp
  BY <1>7 DEF Blinder
<1>9. Sound(CfR1CS, CfG, cf.W, cf.U)
  BY <1>1, <1>2, <1>5, <1>8, CfFoldSound DEF WellFormed, CfFold
<1> QED
  BY <1>1, <1>2, <1>3, <1>4, <1>5, <1>6, <1>7, <1>9 DEF f, cf

LEMMA StepCircuit ==
  ASSUME NEW s, WellFormed(s), s.i > 0, NEW ext \in Ext, NEW d \in Draws
  PROVE  LET f  == PrimaryFold(s)
             cf == CfFold(s, f, d)
             c  == AugmentedCircuit(CircuitInputs(s, ext, f, cf))
         IN  /\ RunsOn(c, s, ext)
             /\ HashesMatch(s) => Hashes(c, s, ext, f.U, cf.U) /\ Held(c)
<1> DEFINE f  == PrimaryFold(s)
           cf == CfFold(s, f, d)
           a  == CircuitInputs(s, ext, f, cf)
           y  == F(s.z_i, ext)
           u  == RebuiltIncoming(a)
           v  == NimfsGadget(<<PpHash>>, AugCCS, <<s.U_i>>, <<u>>, f.proof)
           U  == [v.U EXCEPT !.C = f.U.C]
           o  == AfterGadget(a, y, v, U)
           h1 == Hash(U, s.i + 1, s.z_0, y)
           h2 == HashCycleFold(CycleFoldInCircuit(a, v, U))
           c  == AugmentedCircuit(a)
<1>1. /\ a.i = s.i /\ a.z_0 = s.z_0 /\ a.z_i = s.z_i /\ a.ext = ext /\ a.U_i = s.U_i
      /\ a.u_i_C = s.u_i.C /\ a.U_i1_C = f.U.C /\ a.nimfs_proof = f.proof
      /\ a.cf_U_i = s.cf_U_i /\ a.cf_u_i_cmW = cf.u.cmW /\ a.cf_cmT = cf.cmT
  BY DEF CircuitInputs
<1>2. /\ f.rho \in Fp /\ f.U.C = Rlc(s.U_i.C, f.rho, s.u_i.C)
      /\ s.U_i.C \in Fp /\ s.u_i.C \in Fp /\ d["cf.rW"] \in Fp /\ d["cf.rE"] \in Fp
  BY StepFolds DEF Blinder
<1>3. u \in Cccs(2)
  <2> HIDE DEF a
  <2> QED BY <1>1, <1>2, HashInFp DEF RebuiltIncoming, Cccs
<1>4. /\ U \in Lcccs(2, 2) /\ U.C = f.U.C
      /\ u = s.u_i => U = f.U /\ v.rho = f.rho /\ v.tr = f.tr /\ v.holds
  BY <1>3, StepGadget
<1>5. HashesMatch(s) => u = s.u_i
  <2> SUFFICES ASSUME HashesMatch(s) PROVE u = s.u_i
    OBVIOUS
  <2>1. s.u_i \in Cccs(2)
    BY DEF WellFormed
  <2> HIDE DEF a
  <2>2. u = [C |-> s.u_i.C, x |-> <<s.u_i.x[1], s.u_i.x[2]>>]
    BY <1>1 DEF RebuiltIncoming, HashesMatch
  <2>3. s.u_i = [C |-> s.u_i.C, x |-> s.u_i.x] /\ s.u_i.x = <<s.u_i.x[1], s.u_i.x[2]>>
    BY <2>1 DEF Cccs
  <2> QED BY <2>2, <2>3
<1> HIDE DEF f, cf, a
<1>6. c = CircuitOutputs(a, y, o)
  <2>1. c = CircuitOutputs(a, y, Outputs(a, y))
    BY <1>1 DEF AugmentedCircuit
  <2> HIDE DEF y, u
  <2>2. a.i # 0
    BY <1>1
  <2>3. Outputs(a, y) = WithGadget(a, y, NimfsGadget(<<PpHash>>, AugCCS, <<a.U_i>>,
                                                     <<RebuiltIncoming(a)>>, a.nimfs_proof))
    BY <2>2 DEF Outputs
  <2>4. Outputs(a, y) = WithGadget(a, y, v)
    BY <1>1, <2>3 DEF u
  <2> QED BY <1>1, <2>1, <2>4 DEF WithGadget
<1> HIDE DEF c, u, v, U
<1>7. o.x = <<h1, h2>>
  BY <1>1 DEF AfterGadget
<1>8. h1 \in Fp /\ h2 \in Fp
  BY HashInFp
<1>9. HashOfClaim(h1, s.i + 1, s.z_0, y)
  BY <1>4 DEF HashOfClaim
<1>10. RunsOn(c, s, ext)
  <2> HIDE DEF o, h1, h2
  <2> QED BY <1>1, <1>6, <1>7, <1>8, <1>9 DEF RunsOn
<1>11. c.x = <<h1, h2>>
  <2>1. c.x = o.x
    <3> HIDE DEF o
    <3> QED BY <1>6 DEF CircuitOutputs
  <2> QED BY <1>7, <2>1
<1>12. HashesMatch(s) => Hashes(c, s, ext, f.U, cf.U)
  <2> SUFFICES ASSUME HashesMatch(s) PROVE Hashes(c, s, ext, f.U, cf.U)
    OBVIOUS
  <2>1. U = f.U /\ v.rho = f.rho /\ v.tr = f.tr
    BY <1>4, <1>5
  <2> DEFINE g == CycleFoldGadget(f.tr, s.cf_U_i, cf.u.cmW,
                    <<f.rho, s.U_i.C, s.u_i.C, Rlc(s.U_i.C, f.rho, s.u_i.C)>>, cf.cmT)
  <2>2. CycleFoldInCircuit(a, v, U) = g.U
    BY <1>1, <1>2, <2>1 DEF CycleFoldInCircuit
  <2>3. g.U = cf.U
    <3>1. cf = FoldCycleFoldCircuit(f.tr, s.cf_W_i, s.cf_U_i, f.rho, s.U_i.C, s.u_i.C,
                                    d["cf.rW"], d["cf.rE"])
      BY DEF CfFold, cf
    <3>2. Sound(CfR1CS, CfG, s.cf_W_i, s.cf_U_i)
      BY DEF WellFormed
    <3> HIDE DEF g
    <3> QED BY <1>2, <3>1, <3>2, CfGadgetAgrees DEF g
  <2> HIDE DEF g
  <2> QED BY <1>11, <2>1, <2>2, <2>3 DEF Hashes
<1>13. HashesMatch(s) => Held(c)
  <2> SUFFICES ASSUME HashesMatch(s) PROVE Held(c)
    OBVIOUS
  <2>1. v.holds
    BY <1>4, <1>5
  <2>2. o.holds
    BY <2>1 DEF AfterGadget
  <2> HIDE DEF o
  <2> QED BY <1>6, <2>2, OutputsHeld
<1> QED
  BY <1>10, <1>12, <1>13 DEF c, a, cf, f

----------------------------------------------------------------------------
\* One step.

\* The fresh pair opens its commitment and its public inputs are the circuit's outputs;
\* it satisfies the circuit if no gadget failed.
LEMMA FreshPair ==
  ASSUME NEW s, s.z_i \in State, NEW ext \in Ext, NEW c, RunsOn(c, s, ext), NEW r \in Fp
  PROVE  LET z == Assignment(1, c.x, c.W)
             u == ToCccs(G, AugCCS, z, r)
             w == ToWitness(AugCCS, z, r)
         IN  /\ c.z_i1 = F(s.z_i, ext)
             /\ u \in Cccs(2) /\ w \in HnWitness(2) /\ HnOpens(G, w, u)
             /\ u.x = c.x /\ HashOfClaim(u.x[1], s.i + 1, s.z_0, F(s.z_i, ext))
             /\ Held(c) => CheckCccs(AugCCS, w, u)
<1> DEFINE y == F(s.z_i, ext)  z == Assignment(1, c.x, c.W)
           rr == IF Hiding THEN r ELSE 0
           u == ToCccs(G, AugCCS, z, r)  w == ToWitness(AugCCS, z, r)
<1>1. PICK a, o : \E h1, h2 \in Fp :
        /\ c = CircuitOutputs(a, y, o) /\ a.z_i = s.z_i /\ a.ext = ext
        /\ o.x = <<h1, h2>> /\ HashOfClaim(h1, s.i + 1, s.z_0, y)
  BY DEF RunsOn
<1>2. PICK h1 \in Fp, h2 \in Fp :
        /\ c = CircuitOutputs(a, y, o) /\ a.z_i = s.z_i /\ a.ext = ext
        /\ o.x = <<h1, h2>> /\ HashOfClaim(h1, s.i + 1, s.z_0, y)
  BY <1>1
<1>3. y[1] \in Fp /\ s.z_i[1] \in Fp /\ ext \in Fp
  BY FIsState
<1> HIDE DEF y
<1> DEFINE off == (h1 + 1) % P
           W == [k \in Slot |-> CASE k <= 2 -> 0 [] k = 3 -> s.z_i[1] [] k = 4 -> ext
                                  [] k = 5 -> y[1] [] k = 6 -> IF o.holds THEN h1 ELSE off
                                  [] k = 7 -> h2]
<1>4. c.z_i1 = y /\ c.x = <<h1, h2>> /\ c.W = W
  <2>1. o.x[1] = h1 /\ o.x[2] = h2
    BY <1>2
  <2>2. CircuitOutputs(a, y, o).z_i1 = y /\ CircuitOutputs(a, y, o).x = o.x
    BY DEF CircuitOutputs
  <2>3. CircuitOutputs(a, y, o).W = W
    <3>1. a.z_i[1] = s.z_i[1] /\ a.ext = ext /\ (o.x[1] + 1) % P = off
      BY <1>2, <2>1
    <3> DEFINE X(x3, x4, x5, x6, x7) ==
                 [k \in Slot |-> CASE k <= 2 -> 0 [] k = 3 -> x3 [] k = 4 -> x4 [] k = 5 -> x5
                                   [] k = 6 -> IF o.holds THEN o.x[1] ELSE x6 [] k = 7 -> x7]
    <3>2. CircuitOutputs(a, y, o).W = X(a.z_i[1], a.ext, y[1], (o.x[1] + 1) % P, o.x[2])
      BY DEF CircuitOutputs
    <3>3. X(a.z_i[1], a.ext, y[1], (o.x[1] + 1) % P, o.x[2]) = X(s.z_i[1], ext, y[1], off, h2)
      <4> HIDE DEF X, off
      <4> QED BY <2>1, <3>1
    <3>4. X(s.z_i[1], ext, y[1], off, h2) = W
      <4> HIDE DEF off
      <4> QED BY <2>1
    <3> HIDE DEF X, W
    <3> QED BY <3>2, <3>3, <3>4
  <2> QED BY <1>2, <2>2, <2>3
<1>5. /\ z \in Vec /\ z[0] = 1 /\ z[1] = h1 /\ z[2] = h2 /\ z[3] = s.z_i[1] /\ z[4] = ext
      /\ z[5] = y[1] /\ z[6] = c.W[6] /\ z[7] = h2
  <2>1. off \in Fp
    <3>1. h1 + 1 \in Int
      BY FpIsInt
    <3> QED BY <3>1, ModInFp
  <2> HIDE DEF off
  <2> DEFINE h == IF o.holds THEN h1 ELSE off
             e == [k \in Slot |-> CASE k = 0 -> 1 [] k = 1 -> h1 [] k = 2 -> h2 [] k = 3 -> s.z_i[1]
                                    [] k = 4 -> ext [] k = 5 -> y[1] [] k = 6 -> h [] k = 7 -> h2]
  <2>2. z = e
    <3>1. DOMAIN c.x = 1 .. 2 /\ c.x[1] = h1 /\ c.x[2] = h2
      BY <1>4
    <3>2. z = [k \in Slot |-> IF k = 0 THEN 1 ELSE IF k \in 1 .. 2 THEN c.x[k] ELSE c.W[k]]
      BY <3>1 DEF Assignment
    <3> HIDE DEF h
    <3> DEFINE q == c.x  V == c.W
    <3>3. /\ V[3] = s.z_i[1] /\ V[4] = ext /\ V[5] = y[1] /\ V[6] = h /\ V[7] = h2
      BY <1>4 DEF Slot, h
    <3> HIDE DEF q, V, z
    <3>4. ASSUME NEW k \in Slot PROVE z[k] = e[k]
      <4>1. /\ z[0] = 1 /\ z[1] = h1 /\ z[2] = h2 /\ z[3] = V[3] /\ z[4] = V[4] /\ z[5] = V[5]
            /\ z[6] = V[6] /\ z[7] = V[7]
        BY <3>1, <3>2 DEF Slot, V
      <4>2. /\ e[0] = 1 /\ e[1] = h1 /\ e[2] = h2 /\ e[3] = s.z_i[1] /\ e[4] = ext /\ e[5] = y[1]
            /\ e[6] = h /\ e[7] = h2
        BY DEF Slot
      <4>3. k = 0 \/ k = 1 \/ k = 2 \/ k = 3 \/ k = 4 \/ k = 5 \/ k = 6 \/ k = 7
        BY DEF Slot
      <4> HIDE DEF e
      <4> QED BY <3>3, <4>1, <4>2, <4>3
    <3>5. DOMAIN z = Slot /\ z = [k \in Slot |-> z[k]]
      BY <3>2
    <3> QED BY <3>4, <3>5
  <2>3. h \in Fp
    BY <2>1
  <2>3a. c.W[6] = h
    BY <1>4 DEF Slot
  <2>4. z = [k \in Slot |-> z[k]]
    BY DEF Assignment
  <2> HIDE DEF h, z
  <2>5. ASSUME NEW k \in Slot PROVE e[k] \in Fp
    <3>1. k = 0 \/ k = 1 \/ k = 2 \/ k = 3 \/ k = 4 \/ k = 5 \/ k = 6 \/ k = 7
      BY DEF Slot
    <3>2. /\ e[0] = 1 /\ e[1] = h1 /\ e[2] = h2 /\ e[3] = s.z_i[1] /\ e[4] = ext /\ e[5] = y[1]
          /\ e[6] = h /\ e[7] = h2
      BY DEF Slot
    <3> HIDE DEF e
    <3> QED BY <1>3, <2>3, <3>1, <3>2, ZeroOneInFp
  <2>6. /\ e[0] = 1 /\ e[1] = h1 /\ e[2] = h2 /\ e[3] = s.z_i[1] /\ e[4] = ext /\ e[5] = y[1]
        /\ e[6] = h /\ e[7] = h2
    BY DEF Slot
  <2> HIDE DEF e
  <2> QED BY <2>2, <2>3a, <2>4, <2>5, <2>6 DEF Vec
<1>6. PublicOf(z, 2) = <<h1, h2>>
  BY <1>4 DEF PublicOf, Assignment, Slot
<1> HIDE DEF z, W
<1>6a. Held(c) => EvalAtZ(AugCCS, z) = ZeroVec
  <2> SUFFICES ASSUME Held(c) PROVE EvalAtZ(AugCCS, z) = ZeroVec
    OBVIOUS
  <2>1. z[6] = z[1] /\ z[7] = z[2]
    BY <1>4, <1>5 DEF Held
  <2>2. z[5] = (z[3] * z[3] + z[4] + 5) % P
    BY <1>5 DEF F, y
  <2> QED BY <1>5, <2>1, <2>2, AugCcs, StepSatisfied
<1>6b. Assignment(1, <<h1, h2>>, WitnessOf(z, 2)) = z
  <2> DEFINE x == <<h1, h2>>  V == WitnessOf(z, 2)  a1 == Assignment(1, x, V)
  <2>1. DOMAIN x = 1 .. 2 /\ x[1] = h1 /\ x[2] = h2
    OBVIOUS
  <2>2. \A k \in Slot : k > 2 => V[k] = z[k]
    BY DEF WitnessOf, Slot
  <2> HIDE DEF x, V
  <2>3. a1 = [k \in Slot |-> IF k = 0 THEN 1 ELSE IF k \in 1 .. 2 THEN x[k] ELSE V[k]]
    BY <2>1 DEF Assignment
  <2> HIDE DEF a1
  <2>4. ASSUME NEW k \in Slot PROVE a1[k] = z[k]
    <3>1. k = 0 \/ k = 1 \/ k = 2 \/ k > 2
      BY DEF Slot
    <3> QED BY <1>5, <2>1, <2>2, <2>3, <3>1 DEF Slot
  <2>5. a1 = z
    BY <1>5, <2>3, <2>4 DEF Vec
  <2> QED BY <2>5 DEF a1, x, V
<1>7. u = [C |-> Commit(G, WitnessOf(z, 2), rr), x |-> <<h1, h2>>]
      /\ w = [w |-> WitnessOf(z, 2), r_w |-> rr]
  BY <1>6, AugCcs DEF ToCccs, ToWitness
<1>8. rr \in Fp
  BY ZeroOneInFp
<1>9. WitnessOf(z, 2) \in WitnessVec(2) /\ WitnessOf(z, 2) \in Vec
  BY <1>5, ZeroOneInFp DEF WitnessOf, WitnessVec, Vec, Slot
<1> HIDE DEF rr
<1>10. Commit(G, WitnessOf(z, 2), rr) \in Fp
  BY <1>8, <1>9, CommitCong, GAssumption
<1> HIDE DEF u, w
<1>11. u \in Cccs(2) /\ w \in HnWitness(2) /\ HnOpens(G, w, u)
  BY <1>7, <1>8, <1>9, <1>10 DEF Cccs, HnWitness, HnOpens
<1>12. u.x = c.x /\ HashOfClaim(u.x[1], s.i + 1, s.z_0, y)
  BY <1>2, <1>4, <1>7
<1>13. Held(c) => CheckCccs(AugCCS, w, u)
  <2>1. CccsZ(u, w) = z
    BY <1>6b, <1>7 DEF CccsZ
  <2> QED BY <1>6a, <2>1 DEF CheckCccs
<1> QED
  BY <1>4, <1>11, <1>12, <1>13 DEF u, w, z, y

\* The fields after the circuit ran.
LEMMA WithIncomingFields ==
  ASSUME NEW t, DOMAIN t = Fields, t = [k \in Fields |-> t[k]],
         NEW U, NEW W, NEW c, NEW z, NEW r
  PROVE  LET p == WithIncoming(t, U, W, c, z, r)
         IN  /\ DOMAIN p = Fields /\ p = [k \in Fields |-> p[k]]
             /\ p.i = t.i + 1 /\ p.z_0 = t.z_0 /\ p.z_i = c.z_i1
             /\ p.u_i = ToCccs(G, AugCCS, z, r) /\ p.w_i = ToWitness(AugCCS, z, r)
             /\ p.U_i = U /\ p.W_i = W /\ p.cf_W_i = t.cf_W_i /\ p.cf_U_i = t.cf_U_i
<1> DEFINE u == ToCccs(G, AugCCS, z, r)  w == ToWitness(AugCCS, z, r)
           p  == WithIncoming(t, U, W, c, z, r)
           p1 == [t EXCEPT !.i = @ + 1]    p2 == [p1 EXCEPT !.z_i = c.z_i1]
           p3 == [p2 EXCEPT !.u_i = u]     p4 == [p3 EXCEPT !.w_i = w]
           p5 == [p4 EXCEPT !.U_i = U]
<1>1. p = [t EXCEPT !.i = @ + 1, !.z_i = c.z_i1, !.u_i = u, !.w_i = w, !.U_i = U, !.W_i = W]
  BY DEF WithIncoming
<1> HIDE DEF p, u, w
<1>2. p = [p5 EXCEPT !.W_i = W]
  BY <1>1
<1> HIDE DEF p5
<1>3. p5 = [p4 EXCEPT !.U_i = U]
  BY DEF p5
<1> HIDE DEF p4
<1>4. p4 = [p3 EXCEPT !.w_i = w]
  BY DEF p4
<1> HIDE DEF p3
<1>5. p3 = [p2 EXCEPT !.u_i = u]
  BY DEF p3
<1> HIDE DEF p2
<1>6. p2 = [p1 EXCEPT !.z_i = c.z_i1]
  BY DEF p2
<1> HIDE DEF p1
<1>7. p1 = [t EXCEPT !.i = @ + 1]
  BY DEF p1
<1> DEFINE Kept(q) == /\ DOMAIN q = Fields /\ q.i = t.i + 1 /\ q.z_0 = t.z_0
                      /\ q.cf_W_i = t.cf_W_i /\ q.cf_U_i = t.cf_U_i
<1>8. Kept(p1)
  BY <1>7 DEF Fields
<1>9. Kept(p2) /\ p2.z_i = c.z_i1
  BY <1>6, <1>8 DEF Fields
<1>10. Kept(p3) /\ p3.z_i = c.z_i1 /\ p3.u_i = u
  BY <1>5, <1>9 DEF Fields
<1>11. Kept(p4) /\ p4.z_i = c.z_i1 /\ p4.u_i = u /\ p4.w_i = w
  BY <1>4, <1>10 DEF Fields
<1>12. Kept(p5) /\ p5.z_i = c.z_i1 /\ p5.u_i = u /\ p5.w_i = w /\ p5.U_i = U
  BY <1>3, <1>11 DEF Fields
<1>13. Kept(p) /\ p.z_i = c.z_i1 /\ p.u_i = u /\ p.w_i = w /\ p.U_i = U /\ p.W_i = W
       /\ p = [k \in Fields |-> p[k]]
  BY <1>2, <1>12 DEF Fields
<1> QED
  BY <1>13 DEF p, u, w

\* What a step leaves: after a failure of F's circuit the claim and all but the CycleFold
\* pair, else the folded pair, the circuit's new state and the fresh pair it made.
Folded(s, d) ==
  IF s.i = 0
  THEN [U |-> DummyLcccs(AugCCS), W |-> [DummyHnWitness EXCEPT !.r_w = s.W_i.r_w],
        cf_U |-> s.cf_U_i, cf_W |-> s.cf_W_i]
  ELSE [U |-> PrimaryFold(s).U, W |-> PrimaryFold(s).W,
        cf_U |-> CfFold(s, PrimaryFold(s), d).U, cf_W |-> CfFold(s, PrimaryFold(s), d).W]
StepOutputs(s, ext, d) ==
  IF s.i = 0 THEN AugmentedCircuit(BaseInputs(s, ext))
  ELSE AugmentedCircuit(CircuitInputs(s, ext, PrimaryFold(s), CfFold(s, PrimaryFold(s), d)))

LEMMA ProvedFields ==
  ASSUME NEW s, WellFormed(s), NEW ext, NEW d
  PROVE  LET g == Folded(s, d)
             c == StepOutputs(s, ext, d)
             z == Assignment(1, c.x, c.W)
             p == Proved(s, ext, d)
         IN  /\ DOMAIN p = Fields /\ p = [k \in Fields |-> p[k]] /\ p.z_0 = s.z_0
             /\ p.cf_W_i = g.cf_W /\ p.cf_U_i = g.cf_U
             /\ ext \in BadExt => /\ p.i = s.i /\ p.z_i = s.z_i /\ p.w_i = s.w_i
                                  /\ p.u_i = s.u_i /\ p.W_i = s.W_i /\ p.U_i = s.U_i
                                  /\ s.i = 0 => p = s
             /\ ext \notin BadExt => /\ p.i = s.i + 1 /\ p.z_i = c.z_i1
                                     /\ p.u_i = ToCccs(G, AugCCS, z, d["w.r_w"])
                                     /\ p.w_i = ToWitness(AugCCS, z, d["w.r_w"])
                                     /\ p.U_i = g.U /\ p.W_i = g.W
<1> DEFINE g == Folded(s, d)  c == StepOutputs(s, ext, d)
           p == Proved(s, ext, d)  r == d["w.r_w"]  z == Assignment(1, c.x, c.W)
           t == IF s.i = 0 THEN s ELSE [s EXCEPT !.cf_W_i = g.cf_W, !.cf_U_i = g.cf_U]
<1>1. p = IF ext \in BadExt THEN t ELSE WithIncoming(t, g.U, g.W, c, z, r)
  BY DEF Proved, Base, AfterPrimary, AfterFolds, AfterCircuit, Folded, StepOutputs
<1>2. s.i = 0 => g.cf_U = s.cf_U_i /\ g.cf_W = s.cf_W_i
  BY DEF Folded
<1> HIDE DEF g, c, p, z, r
<1>3. DOMAIN s = Fields /\ s = [k \in Fields |-> s[k]]
  BY DEF WellFormed
<1>4. /\ DOMAIN t = Fields /\ t = [k \in Fields |-> t[k]]
      /\ t.cf_W_i = g.cf_W /\ t.cf_U_i = g.cf_U
      /\ t.i = s.i /\ t.z_0 = s.z_0 /\ t.z_i = s.z_i /\ t.w_i = s.w_i
      /\ t.u_i = s.u_i /\ t.W_i = s.W_i /\ t.U_i = s.U_i
      /\ s.i = 0 => t = s
  BY <1>2, <1>3 DEF Fields
<1> HIDE DEF t
<1> DEFINE Always  == /\ DOMAIN p = Fields /\ p = [k \in Fields |-> p[k]] /\ p.z_0 = s.z_0
                      /\ p.cf_W_i = g.cf_W /\ p.cf_U_i = g.cf_U
           Kept    == /\ p.i = s.i /\ p.z_i = s.z_i /\ p.w_i = s.w_i
                      /\ p.u_i = s.u_i /\ p.W_i = s.W_i /\ p.U_i = s.U_i
                      /\ s.i = 0 => p = s
           Changed == /\ p.i = s.i + 1 /\ p.z_i = c.z_i1
                      /\ p.u_i = ToCccs(G, AugCCS, z, r) /\ p.w_i = ToWitness(AugCCS, z, r)
                      /\ p.U_i = g.U /\ p.W_i = g.W
<1>5. ext \in BadExt => Always /\ Kept
  BY <1>1, <1>4
<1>6. ext \notin BadExt => Always /\ Changed
  <2> SUFFICES ASSUME ext \notin BadExt PROVE Always /\ Changed
    OBVIOUS
  <2> DEFINE q == WithIncoming(t, g.U, g.W, c, z, r)
  <2>1. p = q
    BY <1>1
  <2>2. /\ DOMAIN q = Fields /\ q = [k \in Fields |-> q[k]]
        /\ q.i = t.i + 1 /\ q.z_0 = t.z_0 /\ q.z_i = c.z_i1
        /\ q.u_i = ToCccs(G, AugCCS, z, r) /\ q.w_i = ToWitness(AugCCS, z, r)
        /\ q.U_i = g.U /\ q.W_i = g.W /\ q.cf_W_i = t.cf_W_i /\ q.cf_U_i = t.cf_U_i
    BY <1>4, WithIncomingFields
  <2> HIDE DEF q
  <2> QED BY <1>4, <2>1, <2>2
<1>7. Always /\ (ext \in BadExt => Kept) /\ (ext \notin BadExt => Changed)
  BY <1>5, <1>6
<1> QED
  BY <1>7 DEF p, z, c, g, r

LEMMA FreshWellFormed ==
  ASSUME NEW z \in Z0
  PROVE  /\ WellFormed(FreshProver(z)) /\ Consistent(FreshProver(z))
         /\ FreshProver(z).i = 0 /\ FreshProver(z).z_0 = z /\ FreshProver(z).z_i = z
<1> DEFINE s == FreshProver(z)
           W == [DummyHnWitness EXCEPT !.r_w = CallerBlinders.W]
           w == [DummyHnWitness EXCEPT !.r_w = CallerBlinders.w]
           D == DummyLcccs(AugCCS)
           h1 == Hash(D, 0, z, z)  h2 == HashCycleFold(DummyInstance(4))
           u == [DummyCccs(AugCCS) EXCEPT !.x = <<h1, h2>>]
<1>1. s = [i |-> 0, z_0 |-> z, z_i |-> z, w_i |-> w, u_i |-> u, W_i |-> W, U_i |-> D,
           cf_W_i |-> DummyWitness, cf_U_i |-> DummyInstance(4)]
  BY DEF FreshProver
<1>2. CallerBlinders.W \in Fp /\ CallerBlinders.w \in Fp
  BY CallerAssumption
<1>3. W \in HnWitness(2) /\ D \in Lcccs(2, 2) /\ CheckLcccs(AugCCS, W, D)
      /\ W.w = ZeroVec /\ W.r_w = CallerBlinders.W
  BY <1>2, DummyPair
<1>4. w \in HnWitness(2)
  BY <1>2, DummyPair
<1>5. u = [C |-> 0, x |-> <<h1, h2>>]
  BY DEF DummyCccs
<1>6. h1 \in Fp /\ h2 \in Fp
  BY HashInFp
<1>7. OpensBut(W, D)
  <2>1. D.C = 0
    BY DEF DummyLcccs
  <2>2. W.r_w - CallerBlinders.W = 0
    BY <1>2, <1>3, FpIsInt
  <2> HIDE DEF W, D
  <2> QED BY <1>3, <2>1, <2>2, CommitZero, GAssumption DEF OpensBut
<1> HIDE DEF W, w, D, h2
<1>8. u \in Cccs(2) /\ u.x[1] = h1
  <2> DEFINE a == 0
  <2>1. u = [C |-> a, x |-> <<h1, h2>>]
    BY <1>5
  <2>2. a \in Fp
    BY ZeroOneInFp
  <2> HIDE DEF a, u, h1
  <2> QED BY <1>6, <2>1, <2>2 DEF Cccs
<1>9. HashOfClaim(h1, 0, z, z)
  BY <1>3 DEF HashOfClaim
<1>10. Sound(CfR1CS, CfG, DummyWitness, DummyInstance(4))
  BY CfCircuit, CfGAssumption, DummySound
<1>11. z \in State
  BY Z0Assumption
<1> HIDE DEF u
<1>12. /\ DOMAIN s = Fields /\ s = [k \in Fields |-> s[k]]
       /\ s.i = 0 /\ s.z_0 = z /\ s.z_i = z /\ s.w_i = w /\ s.u_i = u /\ s.W_i = W /\ s.U_i = D
       /\ s.cf_W_i = DummyWitness /\ s.cf_U_i = DummyInstance(4)
  BY <1>1 DEF Fields
<1>13. s = FreshProver(s.z_0)
  BY <1>12
<1> HIDE DEF s
<1>14. WellFormed(s) /\ Consistent(s)
  BY <1>3, <1>4, <1>7, <1>8, <1>9, <1>10, <1>11, <1>12, <1>13 DEF WellFormed, Consistent
<1> QED
  BY <1>12, <1>14 DEF s

\* The pairs a step folds satisfy their relations and open.
LEMMA FoldedGood ==
  ASSUME NEW s, WellFormed(s), NEW d \in Draws
  PROVE  LET g == Folded(s, d)
         IN  /\ g.U \in Lcccs(2, 2) /\ g.W \in HnWitness(2) /\ CheckLcccs(AugCCS, g.W, g.U)
             /\ OpensBut(g.W, g.U) /\ Sound(CfR1CS, CfG, g.cf_W, g.cf_U)
<1> DEFINE g == Folded(s, d)
<1>1. CASE s.i = 0
  <2> DEFINE cb == CallerBlinders.W  D == DummyLcccs(AugCCS)
             W == [DummyHnWitness EXCEPT !.r_w = cb]
  <2>1. s.W_i = W /\ Sound(CfR1CS, CfG, s.cf_W_i, s.cf_U_i) /\ OpensBut(s.W_i, s.U_i) /\ s.U_i = D
    <3> DEFINE z == s.z_0
    <3> HIDE DEF z
    <3>1. s = FreshProver(z)
      BY <1>1 DEF WellFormed, z
    <3>2. s.W_i = W /\ s.U_i = D
      BY <3>1 DEF FreshProver
    <3> QED BY <3>2 DEF WellFormed
  <2>2. cb \in Fp
    BY CallerAssumption
  <2> HIDE DEF cb
  <2>3. /\ W \in HnWitness(2) /\ D \in Lcccs(2, 2) /\ CheckLcccs(AugCCS, W, D)
        /\ W.r_w = cb
    BY <2>2, DummyPair
  <2>4. g = [U |-> D, W |-> W, cf_U |-> s.cf_U_i, cf_W |-> s.cf_W_i]
    BY <1>1, <2>1, <2>3 DEF Folded
  <2> HIDE DEF g, W, D
  <2>5. /\ g.U \in Lcccs(2, 2) /\ g.W \in HnWitness(2) /\ CheckLcccs(AugCCS, g.W, g.U)
        /\ OpensBut(g.W, g.U) /\ Sound(CfR1CS, CfG, g.cf_W, g.cf_U)
    BY <2>1, <2>3, <2>4
  <2> QED BY <2>5 DEF g
<1>2. CASE s.i # 0
  <2>1. s.i > 0
    BY <1>2 DEF WellFormed
  <2>2. /\ PrimaryFold(s).U \in Lcccs(2, 2) /\ PrimaryFold(s).W \in HnWitness(2)
        /\ CheckLcccs(AugCCS, PrimaryFold(s).W, PrimaryFold(s).U)
        /\ OpensBut(PrimaryFold(s).W, PrimaryFold(s).U)
        /\ Sound(CfR1CS, CfG, CfFold(s, PrimaryFold(s), d).W, CfFold(s, PrimaryFold(s), d).U)
    BY <2>1, StepFolds
  <2> QED BY <1>2, <2>2 DEF Folded
<1> QED
  BY <1>1, <1>2

\* What its circuit returns.
LEMMA OutputsGood ==
  ASSUME NEW s, WellFormed(s), NEW ext \in Ext, NEW d \in Draws
  PROVE  /\ RunsOn(StepOutputs(s, ext, d), s, ext)
         /\ Consistent(s) =>
              /\ Hashes(StepOutputs(s, ext, d), s, ext, Folded(s, d).U, Folded(s, d).cf_U)
              /\ Held(StepOutputs(s, ext, d))
<1>1. CASE s.i = 0
  <2>1. /\ RunsOn(AugmentedCircuit(BaseInputs(s, ext)), s, ext)
        /\ Hashes(AugmentedCircuit(BaseInputs(s, ext)), s, ext, DummyLcccs(AugCCS), s.cf_U_i)
        /\ Held(AugmentedCircuit(BaseInputs(s, ext)))
    BY <1>1, BaseCircuit
  <2> QED BY <1>1, <2>1 DEF Folded, StepOutputs
<1>2. CASE s.i # 0
  <2> DEFINE f == PrimaryFold(s)  cf == CfFold(s, f, d)
             c == AugmentedCircuit(CircuitInputs(s, ext, f, cf))
  <2>1. s.i > 0
    BY <1>2 DEF WellFormed
  <2>2. RunsOn(c, s, ext) /\ (HashesMatch(s) => Hashes(c, s, ext, f.U, cf.U) /\ Held(c))
    BY <2>1, StepCircuit
  <2>3. StepOutputs(s, ext, d) = c /\ Folded(s, d).U = f.U /\ Folded(s, d).cf_U = cf.U
    BY <1>2 DEF Folded, StepOutputs
  <2> HIDE DEF f, cf, c
  <2> QED BY <2>1, <2>2, <2>3 DEF Consistent
<1> QED
  BY <1>1, <1>2

LEMMA ProvedGood ==
  ASSUME NEW s, WellFormed(s), NEW ext \in Ext, NEW d \in Draws, Len(s.z_i) = 1
  PROVE  LET p == Proved(s, ext, d)
         IN  /\ WellFormed(p) /\ p.z_0 = s.z_0
             /\ ext \in BadExt => p.i = s.i /\ p.z_i = s.z_i
             /\ ext \notin BadExt => /\ p.i = s.i + 1 /\ p.z_i = F(s.z_i, ext)
                                     /\ Consistent(s) => Consistent(p)
<1> DEFINE g == Folded(s, d)
           c == StepOutputs(s, ext, d)
           z == Assignment(1, c.x, c.W)
           r == d["w.r_w"]
           u == ToCccs(G, AugCCS, z, r)
           w == ToWitness(AugCCS, z, r)
           p == Proved(s, ext, d)
<1>1. /\ g.U \in Lcccs(2, 2) /\ g.W \in HnWitness(2) /\ CheckLcccs(AugCCS, g.W, g.U)
      /\ OpensBut(g.W, g.U) /\ Sound(CfR1CS, CfG, g.cf_W, g.cf_U)
  BY FoldedGood
<1>2. RunsOn(c, s, ext) /\ (Consistent(s) => Hashes(c, s, ext, g.U, g.cf_U) /\ Held(c))
  BY OutputsGood
<1>3. s.z_i \in State /\ s.i \in Nat /\ s.z_0 \in State
  BY DEF WellFormed
<1>4. r \in Fp
  BY DrawsAssumption DEF Blinder
<1>5. /\ DOMAIN p = Fields /\ p = [k \in Fields |-> p[k]] /\ p.z_0 = s.z_0
      /\ p.cf_W_i = g.cf_W /\ p.cf_U_i = g.cf_U
      /\ ext \in BadExt => /\ p.i = s.i /\ p.z_i = s.z_i /\ p.w_i = s.w_i
                           /\ p.u_i = s.u_i /\ p.W_i = s.W_i /\ p.U_i = s.U_i
                           /\ s.i = 0 => p = s
      /\ ext \notin BadExt => /\ p.i = s.i + 1 /\ p.z_i = c.z_i1
                              /\ p.u_i = u /\ p.w_i = w /\ p.U_i = g.U /\ p.W_i = g.W
  BY ProvedFields
<1> HIDE DEF g, c, p, r
<1>6. /\ c.z_i1 = F(s.z_i, ext) /\ u \in Cccs(2) /\ w \in HnWitness(2) /\ HnOpens(G, w, u)
      /\ u.x = c.x /\ HashOfClaim(u.x[1], s.i + 1, s.z_0, F(s.z_i, ext))
      /\ Held(c) => CheckCccs(AugCCS, w, u)
  BY <1>2, <1>3, <1>4, FreshPair
<1> HIDE DEF u, w, z
<1>7. Len(s.z_0) = 1
  <2> DEFINE y == s.z_0
  <2> HIDE DEF y
  <2>1. CASE s.i = 0
    <3>1. s = FreshProver(y)
      BY <2>1 DEF WellFormed, y
    <3>2. s.z_0 = s.z_i
      BY <3>1 DEF FreshProver
    <3> QED BY <3>2
  <2>2. CASE s.i # 0
    <3>1. s.i > 0
      BY <1>3, <2>2
    <3> QED BY <3>1 DEF WellFormed
  <2> QED BY <2>1, <2>2
<1>8. CASE ext \in BadExt
  <2>1. CASE s.i = 0
    BY <1>5, <1>8, <2>1 DEF p
  <2>2. CASE s.i # 0
    <3>1. s.i > 0 /\ p.i = s.i /\ p.i # 0
      BY <1>3, <1>5, <1>8, <2>2
    <3>2. /\ s.U_i \in Lcccs(2, 2) /\ s.W_i \in HnWitness(2) /\ CheckLcccs(AugCCS, s.W_i, s.U_i)
          /\ OpensBut(s.W_i, s.U_i) /\ s.u_i \in Cccs(2) /\ s.w_i \in HnWitness(2)
          /\ HashOfClaim(s.u_i.x[1], s.i, s.z_0, s.z_i) /\ HnOpens(G, s.w_i, s.u_i)
          /\ Len(s.z_0) = 1 /\ Len(s.z_i) = 1
      BY <3>1 DEF WellFormed
    <3>3. WellFormed(p)
      BY <1>1, <1>3, <1>5, <1>8, <3>1, <3>2 DEF WellFormed
    <3> QED BY <1>5, <1>8, <3>3 DEF p
  <2> QED BY <2>1, <2>2
<1>9. CASE ext \notin BadExt
  <2>1. F(s.z_i, ext) \in State /\ Len(F(s.z_i, ext)) = 1
    BY <1>3, FIsState
  <2>2. /\ p.i = s.i + 1 /\ p.z_i = F(s.z_i, ext) /\ p.u_i = u /\ p.w_i = w
        /\ p.U_i = g.U /\ p.W_i = g.W
    BY <1>5, <1>6, <1>9
  <2>3. p.i \in Nat /\ p.i # 0
    BY <1>3, <2>2
  <2>4. WellFormed(p)
    BY <1>1, <1>3, <1>5, <1>6, <1>7, <2>1, <2>2, <2>3 DEF WellFormed
  <2>5. Consistent(s) => Consistent(p)
    <3> SUFFICES ASSUME Consistent(s) PROVE Consistent(p)
      OBVIOUS
    <3>1. p.u_i.x = <<Hash(g.U, s.i + 1, s.z_0, F(s.z_i, ext)), HashCycleFold(g.cf_U)>>
      BY <1>2, <1>6, <2>2 DEF Hashes
    <3>2. HashesMatch(p)
      BY <1>5, <2>2, <3>1 DEF HashesMatch
    <3>3. CheckCccs(AugCCS, p.w_i, p.u_i)
      BY <1>2, <1>6, <2>2
    <3> QED BY <3>2, <3>3 DEF Consistent
  <2> QED BY <1>5, <1>9, <2>2, <2>4, <2>5 DEF p
<1> QED
  BY <1>8, <1>9

----------------------------------------------------------------------------
\* What a hash binds.

HashInput(U, s) == ClaimInput(s, LcccsElements(U))

\* The hash in a is that of pr's instance with another claim.
Forged(a, pr) ==
  /\ pr.i > 0 /\ ClaimOf(pr) # ClaimOf(a)
  /\ a.u_i.x[1] = Hash(pr.U_i, pr.i, pr.z_0, pr.z_i)

LEMMA LcccsElementsAreNine ==
  ASSUME NEW U \in Lcccs(2, 2)
  PROVE  LcccsElements(U) \in Seq(Int) /\ Len(LcccsElements(U)) = 9
<1> DEFINE a == <<U.C, U.u>>  x == U.x  y == U.r_x  v == U.v  b == a \o x  c == b \o y  d == c \o v
<1>1. U.C \in Int /\ U.u \in Int /\ U.x \in [1 .. 2 -> Int] /\ U.r_x \in [1 .. 2 -> Int]
      /\ U.v \in [1 .. 3 -> Int]
  BY FpIsInt DEF Lcccs
<1>2. x \in Seq(Int) /\ Len(x) = 2 /\ y \in Seq(Int) /\ Len(y) = 2
  BY <1>1, PairIsSeq, Zenon
<1>3. v \in Seq(Int) /\ Len(v) = 3
  <2>1. v \in Seq(Int)
    BY <1>1, SeqDef
  <2> QED BY <1>1, <2>1, LenProperties
<1>4. a \in Seq(Int) /\ Len(a) = 2
  BY <1>1
<1> HIDE DEF a, x, y, v
<1>5. b \in Seq(Int) /\ Len(b) = Len(a) + Len(x)
  BY <1>2, <1>4, Concat, Zenon
<1> HIDE DEF b
<1>6. c \in Seq(Int) /\ Len(c) = Len(b) + Len(y)
  BY <1>2, <1>5, Concat, Zenon
<1> HIDE DEF c
<1>7. d \in Seq(Int) /\ Len(d) = Len(c) + Len(v)
  BY <1>3, <1>6, Concat, Zenon
<1> HIDE DEF d
<1>8. d \in Seq(Int) /\ Len(d) = 9
  BY <1>2, <1>3, <1>4, <1>5, <1>6, <1>7
<1> QED
  BY <1>8 DEF LcccsElements, a, x, y, v, b, c, d

\* A forgery is a collision of the oracle: two different sequences with one answer.
\* The hash of a proof of no steps is no forgery's either: it holds another i.
LEMMA ForgedIsCollision ==
  ASSUME NEW a, WellFormed(a), NEW pr, Forged(a, pr),
         pr.U_i \in Lcccs(2, 2), pr.i \in Nat, pr.z_0 \in State, pr.z_i \in State,
         pr.z_0 # <<>>, pr.z_i # <<>>, Len(pr.z_0) = 1 \/ Len(pr.z_i) = 1
  PROVE  \E U \in Lcccs(2, 2) :
           LET s == HashInput(U, a)
               t == HashInput(pr.U_i, pr)
           IN  s # t /\ RoElement(s) = RoElement(t) /\ a.u_i.x[1] = RoElement(s)
<1>1. PICK U \in Lcccs(2, 2) : a.u_i.x[1] = Hash(U, a.i, a.z_0, a.z_i)
  BY DEF WellFormed, Forged, HashOfClaim
<1>2. /\ a.i \in Nat /\ a.z_0 \in State /\ a.z_i \in State
      /\ a.i > 0 => Len(a.z_0) = 1 /\ Len(a.z_i) = 1
  BY DEF WellFormed
<1> DEFINE s == HashInput(U, a)
           t == HashInput(pr.U_i, pr)
<1>3. RoElement(s) = a.u_i.x[1] /\ RoElement(t) = a.u_i.x[1]
  <2>1. \A V, c : Hash(V, c.i, c.z_0, c.z_i) = RoElement(HashInput(V, c))
    BY DEF Hash, HashInput, ClaimInput, Squeeze
  <2> HIDE DEF s, t
  <2>2. a.u_i.x[1] = Hash(pr.U_i, pr.i, pr.z_0, pr.z_i)
    BY DEF Forged
  <2> QED BY <1>1, <2>1, <2>2 DEF s, t
<1>4. s # t
  <2>1. (a.i # pr.i \/ a.z_0 # pr.z_0 \/ a.z_i # pr.z_i) /\ pr.i > 0
    BY DEF Forged, ClaimOf
  <2> SUFFICES ASSUME s = t PROVE FALSE
    OBVIOUS
  <2> DEFINE e == LcccsElements(U)  f == LcccsElements(pr.U_i)
  <2>2. e \in Seq(Int) /\ f \in Seq(Int) /\ Len(e) = Len(f)
    BY LcccsElementsAreNine
  <2>3. ClaimInput(a, e) = ClaimInput(pr, f)
    BY DEF HashInput
  <2>4. /\ a.z_0 \in Seq(Int) /\ a.z_i \in Seq(Int)
        /\ pr.z_0 \in Seq(Int) /\ pr.z_i \in Seq(Int) /\ pr.z_0 # <<>> /\ pr.z_i # <<>>
    <3>1. ASSUME NEW z \in State PROVE z \in Seq(Int)
      BY FpIsInt DEF State
    <3> QED BY <1>2, <3>1
  <2> HIDE DEF e, f
  <2>5. a.i \in Nat /\ pr.i \in Nat
    BY <1>2
  <2>6. /\ a.i = pr.i
        /\ Len(a.z_0) = 1 /\ Len(a.z_i) = 1 /\ (Len(pr.z_0) = 1 \/ Len(pr.z_i) = 1)
             => a.z_0 = pr.z_0 /\ a.z_i = pr.z_i
    BY <2>2, <2>3, <2>4, <2>5, ClaimInputBinds
  <2> QED BY <1>2, <2>1, <2>6
<1> QED
  BY <1>3, <1>4

----------------------------------------------------------------------------
\* HyperNova is a folding scheme.
FSP == INSTANCE FoldingSchemeProofs

LEMMA PrecheckOk ==
  ASSUME NEW s, NEW multi \in BOOLEAN, Precheck(s, multi) = "Ok"
  PROVE  Len(s.z_i) = 1 /\ ~(s.i > UsizeMax)
BY DEF Precheck, StateLen

LEMMA HyperNovaSchemeOk == FSP!SchemeOk
<1>1. FSP!FreshOk
  BY FreshWellFormed DEF FSP!FreshOk, FSP!ClaimOf
<1>2. FSP!ProvedOk
  <2> SUFFICES ASSUME NEW s, NEW ext \in Ext, NEW d \in Draws, NEW multi \in BOOLEAN,
                      WellFormed(s), Precheck(s, multi) = "Ok"
               PROVE  /\ WellFormed(Proved(s, ext, d))
                      /\ ext \in BadExt => FSP!ClaimOf(Proved(s, ext, d)) = FSP!ClaimOf(s)
                      /\ ext \notin BadExt =>
                           /\ s.i <= UsizeMax
                           /\ FSP!ClaimOf(Proved(s, ext, d)) = FSP!Step(FSP!ClaimOf(s), ext)
                           /\ Consistent(s) => Consistent(Proved(s, ext, d))
    BY DEF FSP!ProvedOk
  <2>1. Len(s.z_i) = 1 /\ s.i <= UsizeMax
    BY PrecheckOk, BoundsAssumption DEF WellFormed
  <2> DEFINE p == Proved(s, ext, d)
  <2>2. /\ WellFormed(p) /\ p.z_0 = s.z_0
        /\ ext \in BadExt => p.i = s.i /\ p.z_i = s.z_i
        /\ ext \notin BadExt => /\ p.i = s.i + 1 /\ p.z_i = F(s.z_i, ext)
                                /\ Consistent(s) => Consistent(p)
    BY <2>1, ProvedGood
  <2> HIDE DEF p
  <2>3. /\ WellFormed(p)
        /\ ext \in BadExt => FSP!ClaimOf(p) = FSP!ClaimOf(s)
        /\ ext \notin BadExt => /\ s.i <= UsizeMax
                                /\ FSP!ClaimOf(p) = FSP!Step(FSP!ClaimOf(s), ext)
                                /\ Consistent(s) => Consistent(p)
    BY <2>1, <2>2 DEF FSP!ClaimOf, FSP!Step
  <2> QED BY <2>3 DEF p
<1> QED
  BY <1>1, <1>2 DEF FSP!SchemeOk

LEMMA HyperNovaVerifyOk == FSP!VerifyOk
<1> SUFFICES ASSUME NEW s, WellFormed(s), Consistent(s) PROVE Verify(s)
  BY DEF FSP!VerifyOk
<1>1. CASE s.i = 0
  <2> DEFINE z == s.z_0
  <2> HIDE DEF z
  <2>1. s = FreshProver(z)
    BY <1>1 DEF WellFormed, z
  <2>2. s.z_0 = s.z_i
    BY <2>1 DEF FreshProver
  <2> QED BY <1>1, <2>2 DEF Verify
<1>2. CASE s.i # 0
  <2>1. s.i > 0
    BY <1>2 DEF WellFormed
  <2>2. HashesMatch(s) /\ CheckCccs(AugCCS, s.w_i, s.u_i)
    BY <2>1 DEF Consistent
  <2>3. /\ DOMAIN s.u_i.x = 1 .. 2 /\ DOMAIN s.U_i.x = 1 .. 2 /\ CheckLcccs(AugCCS, s.W_i, s.U_i)
        /\ CheckRelation(CfR1CS, s.cf_W_i, s.cf_U_i)
    BY DEF WellFormed, Cccs, Lcccs, Sound
  <2> QED BY <1>2, <2>2, <2>3 DEF Verify
<1> QED
  BY <1>1, <1>2

\* What verify accepts is the claim of the struct whose hashes it is given.
LEMMA HyperNovaBindsOk == FSP!BindsOk
<1> SUFFICES ASSUME NEW a, NEW b, NEW mixed \in Mixed, WellFormed(a), WellFormed(b),
                    Verify(FSP!MixedUp(a, b, mixed))
             PROVE  \/ FSP!ClaimOf(FSP!MixedUp(a, b, mixed))
                         \in {FSP!ClaimOf(a), FSP!NoSteps(a), FSP!NoSteps(b)}
                    \/ Forged(a, FSP!MixedUp(a, b, mixed))
  BY DEF FSP!BindsOk
<1> DEFINE pr == FSP!MixedUp(a, b, mixed)
<1>1. /\ pr.i = (IF "i" \in mixed THEN b.i ELSE a.i)
      /\ pr.z_0 = (IF "z_0" \in mixed THEN b.z_0 ELSE a.z_0)
      /\ pr.z_i = (IF "z_i" \in mixed THEN b.z_i ELSE a.z_i)
      /\ pr.u_i = (IF "u_i" \in mixed THEN b.u_i ELSE a.u_i)
  BY DEF FSP!MixedUp, WellFormed, Fields
<1> HIDE DEF pr
<1>2. CASE pr.i = 0
  <2>1. pr.z_0 = pr.z_i
    BY <1>2 DEF Verify, pr
  <2>2. FSP!ClaimOf(pr) = FSP!NoSteps(a) \/ FSP!ClaimOf(pr) = FSP!NoSteps(b)
    BY <1>1, <1>2, <2>1 DEF FSP!ClaimOf, FSP!NoSteps
  <2> QED BY <2>2 DEF pr
<1>3. CASE pr.i # 0 /\ "u_i" \in mixed
  <2>1. mixed = {"w_i", "u_i"}
    BY <1>3 DEF Mixed
  <2>2. FSP!ClaimOf(pr) = FSP!ClaimOf(a)
    BY <1>1, <2>1 DEF FSP!ClaimOf
  <2> QED BY <2>2 DEF pr
<1>4. CASE pr.i # 0 /\ "u_i" \notin mixed
  <2>1. HashesMatch(pr)
    BY <1>4 DEF Verify, pr
  <2>2. pr.u_i = a.u_i
    BY <1>1, <1>4
  <2>3. a.u_i.x[1] = Hash(pr.U_i, pr.i, pr.z_0, pr.z_i)
    BY <2>1, <2>2 DEF HashesMatch
  <2>4. pr.i > 0
    BY <1>1, <1>4 DEF WellFormed
  <2>5. FSP!ClaimOf(pr) = ClaimOf(pr) /\ FSP!ClaimOf(a) = ClaimOf(a)
    BY DEF FSP!ClaimOf, ClaimOf
  <2> QED BY <2>3, <2>4, <2>5 DEF Forged, pr
<1> QED
  BY <1>2, <1>3, <1>4

\* The sentinel of a party without a prover is neither a struct nor a claim.
NoProverApart == DOMAIN NoProver \notin {Fields, {"i", "z_0", "z_i"}}

LEMMA HyperNovaNoProverOk == ASSUME NoProverApart PROVE FSP!NoProverOk
<1> SUFFICES ASSUME NEW s, WellFormed(s)
             PROVE  s # NoProver /\ FSP!ClaimOf(s) # NoProver
  BY DEF FSP!NoProverOk
<1>1. DOMAIN s = Fields
  BY DEF WellFormed
<1>2. DOMAIN FSP!ClaimOf(s) = {"i", "z_0", "z_i"}
  BY DEF FSP!ClaimOf
<1> QED
  BY <1>1, <1>2 DEF NoProverApart

LEMMA HyperNovaConstantsOk == FSP!Abs!ConstantsOk
<1>1. \A z \in State, e \in Ext \ BadExt : F(z, e) \in State
  BY FIsState
<1> QED
  BY <1>1, Z0Assumption, BoundsAssumption DEF FSP!Abs!ConstantsOk

LEMMA SameSpec ==
  /\ Init <=> FSP!Init
  /\ [Next]_vars <=> [FSP!Next]_FSP!vars
<1>1. Init <=> FSP!Init
  BY DEF Init, FSP!Init, Returned, FSP!Returned
<1>2. \A p \in Party, z_0 \in Z0 : InitProver(p, z_0) <=> FSP!InitProver(p, z_0)
  BY DEF InitProver, FSP!InitProver, Returned, FSP!Returned
<1>3. \A p \in Party, ext \in Ext, multi \in BOOLEAN, d \in Draws :
        ProveStep(p, ext, multi, d) <=> FSP!ProveStep(p, ext, multi, d)
  BY DEF ProveStep, FSP!ProveStep, Returned, FSP!Returned
<1>4. \A p \in Party : Send(p) <=> FSP!Send(p)
  BY DEF Send, FSP!Send, Returned, FSP!Returned, Cardinality, FSP!Cardinality
<1>5. \A p \in Party, pr \in sent : Receive(p, pr) <=> FSP!Receive(p, pr)
  BY DEF Receive, FSP!Receive, Returned, FSP!Returned
<1>6. \A a, b \in sent, mixed \in Mixed : VerifyProof(a, b, mixed) <=> FSP!VerifyProof(a, b, mixed)
  BY DEF VerifyProof, FSP!VerifyProof, Returned, FSP!Returned, ClaimOf, FSP!ClaimOf
<1>7. Next <=> FSP!Next
  BY <1>2, <1>3, <1>4, <1>5, <1>6 DEF Next, FSP!Next
<1> QED
  BY <1>1, <1>7 DEF vars, FSP!vars

\* Every struct in the system is well-formed, and consistent as long as no step failed.
LEMMA HyperNovaInvariant == Spec => []FSP!FInv
<1>1. FSP!Spec => []FSP!FInv
  BY HyperNovaSchemeOk, FSP!FInvariant
<1> QED
  BY <1>1, SameSpec, PTL DEF Spec, FSP!Spec

\* ivc_proof returns a proof "which can be verified in the verify method": of every
\* prover, at any time, whoever started it and however often it changed hands, as long
\* as no step failed inside F's circuit.  In the circuit, the sum-check takes its claim
\* from the proof, and still no honest step fails its constraints.
THEOREM HyperNovaCompleteness == Spec => []UnfailedProofVerifies
<1>1. FSP!Spec => []FSP!UnfailedProofVerifies
  BY HyperNovaSchemeOk, HyperNovaVerifyOk, FSP!Completeness
<1>2. FSP!UnfailedProofVerifies => UnfailedProofVerifies
  BY DEF FSP!UnfailedProofVerifies, FSP!ProofVerifies, FSP!Provers,
         UnfailedProofVerifies, ProofVerifies, Provers
<1> QED
  BY <1>1, <1>2, SameSpec, PTL DEF Spec, FSP!Spec

\* Some way to mix up two published proofs keeps a hash and changes its claim.
Forgery ==
  \E a, b \in sent, mixed \in Mixed :
    Forged(a, [k \in DOMAIN a |-> IF k \in mixed THEN b[k] ELSE a[k]])

LEMMA SameAbs ==
  /\ FSP!Abs!AInit => Abs!AInit
  /\ [FSP!Abs!ANext]_FSP!Abs!avars => [Abs!ANext]_Abs!avars
<1>1. FSP!Abs!AInit => Abs!AInit
  BY DEF FSP!Abs!AInit, Abs!AInit, FSP!ClaimOf, ClaimOf
<1>2. [FSP!Abs!ANext]_FSP!Abs!avars => [Abs!ANext]_Abs!avars
  BY DEF FSP!Abs!ANext, FSP!Abs!avars, FSP!Abs!Begin, FSP!Abs!Advance, FSP!Abs!Publish,
         FSP!Abs!Adopt, FSP!Abs!Fail, FSP!Abs!Accept, FSP!Abs!Trivial, FSP!ClaimOf,
         Abs!ANext, Abs!avars, Abs!Begin, Abs!Advance, Abs!Publish,
         Abs!Adopt, Abs!Fail, Abs!Accept, Abs!Trivial, ClaimOf
<1> QED
  BY <1>1, <1>2

\* Forgetting all but the claims, HyperNova implements IVC unless a published hash is
\* that of a second claim: every step of the parties is one of the abstract
\* specification's.
THEOREM HyperNovaImplementsIVC ==
  ASSUME NoProverApart PROVE Spec /\ []~Forgery => ImplementsIVC
<1>1. FSP!Spec /\ []~FSP!Forgery => FSP!ImplementsIVC
  BY HyperNovaSchemeOk, HyperNovaBindsOk, HyperNovaNoProverOk, FSP!Refinement
<1>2. ~Forgery => ~FSP!Forgery
  BY DEF Forgery, FSP!Forgery, FSP!MixedUp
<1> QED
  BY <1>1, <1>2, SameSpec, SameAbs, PTL
     DEF Spec, FSP!Spec, ImplementsIVC, FSP!ImplementsIVC, Abs!ASpec, FSP!Abs!ASpec

\* What verify accepts is true: some run of F of that length leads from z_0 to z_i.
THEOREM HyperNovaSoundness ==
  ASSUME NoProverApart PROVE Spec /\ []~Forgery => []Abs!AcceptedTrue
<1>1. FSP!Spec /\ []~FSP!Forgery => []FSP!Abs!AcceptedTrue
  BY HyperNovaSchemeOk, HyperNovaBindsOk, HyperNovaNoProverOk, HyperNovaConstantsOk, FSP!Soundness
<1>2. ~Forgery => ~FSP!Forgery
  BY DEF Forgery, FSP!Forgery, FSP!MixedUp
<1>3. FSP!Abs!AcceptedTrue => Abs!AcceptedTrue
  BY DEF FSP!Abs!AcceptedTrue, FSP!Abs!True, Abs!AcceptedTrue, Abs!True
<1> QED
  BY <1>1, <1>2, <1>3, SameSpec, PTL DEF Spec, FSP!Spec

----------------------------------------------------------------------------
\* What the calls leave in the struct.

\* After every call, a failed step included, both running pairs satisfy their
\* relations, the linearized one and CycleFold's; so does the fresh pair as long as no
\* step failed.
THEOREM HyperNovaSatisfied == Spec => []InstancesSatisfied
<1>1. FSP!FInv => InstancesSatisfied
  BY DEF FSP!FInv, FSP!Provers, FSP!Good, Provers, WellFormed, Consistent, Sound,
         InstancesSatisfied
<1> QED
  BY <1>1, HyperNovaInvariant, PTL

\* After every call the fresh witness opens its commitment, and the running one does
\* with the caller's blinder taken out of its own.
THEOREM HyperNovaOpensButForCaller == Spec => []OpensButForCaller
<1>1. FSP!FInv => OpensButForCaller
  <2> SUFFICES ASSUME FSP!FInv, NEW p \in Provers, st[p].i > 0
               PROVE  /\ st[p].u_i.C = Commit(G, st[p].w_i.w, st[p].w_i.r_w)
                      /\ st[p].U_i.C = Commit(G, st[p].W_i.w, st[p].W_i.r_w - CallerBlinders.W)
    BY DEF OpensButForCaller
  <2>1. WellFormed(st[p])
    BY DEF FSP!FInv, FSP!Provers, FSP!Good, Provers
  <2> QED BY <2>1 DEF WellFormed, OpensBut, HnOpens
<1> QED
  BY <1>1, HyperNovaInvariant, PTL

\* As long as no step failed, the public inputs of a prover's fresh instance are the
\* hashes of the running instances it holds.
HashesOwn == failures = 0 => \A p \in Provers : st[p].i > 0 => HashesMatch(st[p])

THEOREM HyperNovaHashesOwn == Spec => []HashesOwn
<1>1. FSP!FInv => HashesOwn
  BY DEF FSP!FInv, FSP!Provers, FSP!Good, Provers, Consistent, HashesOwn
<1> QED
  BY <1>1, HyperNovaInvariant, PTL
=============================================================================

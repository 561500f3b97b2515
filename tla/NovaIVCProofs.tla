----------------------------- MODULE NovaIVCProofs -----------------------------
(***************************************************************************)
(* Nova's IVC, for every field, oracle, generators, number of parties,     *)
(* steps and published proofs: a prover's proof verifies at any time, what *)
(* verify accepts was proved, and what was proved is true.  Its deciders   *)
(* accept the structs that verify accepts, each with its own claim and     *)
(* commitments only.                                                       *)
(***************************************************************************)
EXTENDS NovaZk, NovaDecider, NIFSProofs

----------------------------------------------------------------------------
\* The constraints of the augmented circuit.

LEMMA AugCircuit ==
  /\ Circuit(AugR1CS) /\ AugR1CS.l = 2
  /\ AugR1CS.A = [k \in Slot |-> IF k = 1 THEN E1(3) ELSE IF k = 2 THEN E1(6)
                                 ELSE IF k = 3 THEN E1(7) ELSE ZeroVec]
  /\ AugR1CS.B = [k \in Slot |-> IF k = 1 THEN E1(3) ELSE IF k = 2 THEN E1(0)
                                 ELSE IF k = 3 THEN E1(0) ELSE ZeroVec]
  /\ AugR1CS.C = [k \in Slot |-> IF k = 1 THEN [E1(5) EXCEPT ![4] = P - 1, ![0] = (P - 5) % P]
                                 ELSE IF k = 2 THEN E1(1)
                                 ELSE IF k = 3 THEN E1(2) ELSE ZeroVec]
<1>1. (P - 1) \in Fp /\ ((P - 5) % P) \in Fp
  BY PAssumption, ModInFp DEF Fp
<1>2. \A k \in Slot : E1(k) \in Vec
  BY E1InVec
<1>3. [E1(5) EXCEPT ![4] = P - 1, ![0] = (P - 5) % P] \in Vec
  BY <1>1, <1>2 DEF Vec, Slot
<1> DEFINE c1 == [E1(5) EXCEPT ![4] = P - 1, ![0] = (P - 5) % P]
<1> HIDE DEF c1
<1>4. E1(3) \in Vec /\ E1(6) \in Vec /\ E1(7) \in Vec /\ E1(0) \in Vec /\ E1(1) \in Vec
      /\ E1(2) \in Vec /\ c1 \in Vec
  BY <1>2, <1>3 DEF Slot, c1
<1>5. /\ <<E1(3), E1(6), E1(7)>> \in [1 .. 3 -> Vec]
      /\ <<E1(3), E1(0), E1(0)>> \in [1 .. 3 -> Vec]
      /\ <<c1, E1(1), E1(2)>> \in [1 .. 3 -> Vec]
  BY <1>4
<1>6. ASSUME NEW a, NEW b, NEW c
      PROVE  Sparse(<<a, b, c>>) = [k \in Slot |-> IF k = 1 THEN a ELSE IF k = 2 THEN b
                                                   ELSE IF k = 3 THEN c ELSE ZeroVec]
  BY DEF Sparse, Slot
<1>7. /\ AugR1CS.A = Sparse(<<E1(3), E1(6), E1(7)>>)
      /\ AugR1CS.B = Sparse(<<E1(3), E1(0), E1(0)>>)
      /\ AugR1CS.C = Sparse(<<c1, E1(1), E1(2)>>)
      /\ AugR1CS.l = 2
  BY DEF AugR1CS, c1
<1>8. Circuit(AugR1CS)
  BY <1>5, <1>7, SparseMatrix DEF Circuit, MatricesOk
<1> QED
  BY <1>6, <1>7, <1>8 DEF c1

\* The assignment of the augmented circuit satisfies it.
LEMMA AugSatisfied ==
  ASSUME NEW z \in Vec, z[0] = 1, z[6] = z[1], z[7] = z[2],
         z[5] = (z[3] * z[3] + z[4] + 5) % P
  PROVE  EvalAtZ(AugR1CS, z) = ZeroVec
<1>0. Circuit(AugR1CS)
  BY AugCircuit
<1>1. /\ z[0] \in Int /\ z[1] \in Int /\ z[2] \in Int /\ z[3] \in Int /\ z[4] \in Int
      /\ z[5] \in Int /\ z[6] \in Int /\ z[7] \in Int /\ \A k \in Slot : z[k] \in Int
  BY FpIsInt DEF Vec, Slot
<1>2. /\ Dot(E1(3), z) = z[3] /\ Dot(E1(6), z) = z[6] /\ Dot(E1(7), z) = z[7]
      /\ Dot(E1(0), z) = z[0] /\ Dot(E1(1), z) = z[1] /\ Dot(E1(2), z) = z[2]
  BY DotE1 DEF Slot
<1>3. Dot(ZeroVec, z) = 0
  BY DotZero
<1> DEFINE m == (P - 5) % P
           c == Dot([E1(5) EXCEPT ![4] = P - 1, ![0] = m], z)
<1>4. m \in Int /\ Cong(m, P - 5)
  BY PAssumption, ModInFp, CongOfMod, FpIsInt
<1>5. c = ((m + (P - 1) * z[4] + z[5]) % P)
  <2> HIDE DEF m
  <2> DEFINE row == [E1(5) EXCEPT ![4] = P - 1, ![0] = m]
  <2>1. /\ row[0] = m /\ row[1] = 0 /\ row[2] = 0 /\ row[3] = 0 /\ row[4] = P - 1
        /\ row[5] = 1 /\ row[6] = 0 /\ row[7] = 0
    <3> DEFINE one == [E1(5) EXCEPT ![4] = P - 1]
    <3>1. /\ one[1] = 0 /\ one[2] = 0 /\ one[3] = 0 /\ one[4] = P - 1 /\ one[5] = 1
          /\ one[6] = 0 /\ one[7] = 0 /\ DOMAIN one = Slot
      BY DEF E1, Slot
    <3>2. row = [one EXCEPT ![0] = m]
      OBVIOUS
    <3> HIDE DEF one, row
    <3> QED BY <3>1, <3>2 DEF Slot
  <2>2. Dot(row, z) = (  row[0] * z[0] + row[1] * z[1] + row[2] * z[2] + row[3] * z[3]
                       + row[4] * z[4] + row[5] * z[5] + row[6] * z[6] + row[7] * z[7]) % P
    BY DEF Dot
  <2> HIDE DEF row
  <2>3. row[0] * z[0] + row[1] * z[1] + row[2] * z[2] + row[3] * z[3]
          + row[4] * z[4] + row[5] * z[5] + row[6] * z[6] + row[7] * z[7]
          = m + (P - 1) * z[4] + z[5]
    BY <1>1, <1>4, <2>1, PAssumption
  <2> QED BY <2>2, <2>3 DEF row
<1>6. Cong(z[3] * z[3] - c, 0)
  <2> HIDE DEF m
  <2>1. c \in Int /\ Cong(c, m + (P - 1) * z[4] + z[5])
    <3>1. m + (P - 1) * z[4] + z[5] \in Int
      BY <1>1, <1>4, PAssumption
    <3> QED BY <1>5, <3>1, ModInFp, CongOfMod, FpIsInt
  <2>2. Cong(z[5], z[3] * z[3] + z[4] + 5)
    <3>1. z[3] * z[3] + z[4] + 5 \in Int
      BY <1>1
    <3> QED BY <3>1, CongOfMod
  <2> HIDE DEF c
  <2>3. PICK k1 \in Int : c = m + (P - 1) * z[4] + z[5] + k1 * P
    BY <2>1 DEF Cong
  <2>4. PICK k2 \in Int : z[5] = z[3] * z[3] + z[4] + 5 + k2 * P
    BY <2>2 DEF Cong
  <2>5. PICK k3 \in Int : m = P - 5 + k3 * P
    BY <1>4 DEF Cong
  <2>6. z[3] * z[3] - c = 0 + (-(1 + z[4] + k1 + k2 + k3)) * P
    BY <1>1, <1>4, <2>1, <2>3, <2>4, <2>5, PAssumption
  <2>7. -(1 + z[4] + k1 + k2 + k3) \in Int
    BY <1>1
  <2> QED BY <2>6, <2>7 DEF Cong
<1>7. ASSUME NEW k \in Slot
      PROVE  Cong(Dot(AugR1CS.A[k], z) * Dot(AugR1CS.B[k], z) - Dot(AugR1CS.C[k], z), 0)
  <2> DEFINE x == Dot(AugR1CS.A[k], z) * Dot(AugR1CS.B[k], z) - Dot(AugR1CS.C[k], z)
  <2>1. CASE k = 1
    <3>1. x = z[3] * z[3] - c
      BY <1>2, <2>1, AugCircuit
    <3> QED BY <1>6, <3>1
  <2>2. CASE k = 2
    <3>1. x = z[6] * z[0] - z[1]
      BY <1>2, <2>2, AugCircuit
    <3>2. z[6] * z[0] - z[1] = 0
      BY <1>1
    <3> QED BY <3>1, <3>2, CongRefl
  <2>3. CASE k = 3
    <3>1. x = z[7] * z[0] - z[2]
      BY <1>2, <2>3, AugCircuit
    <3>2. z[7] * z[0] - z[2] = 0
      BY <1>1
    <3> QED BY <3>1, <3>2, CongRefl
  <2>4. CASE k \notin 1 .. 3
    <3>1. x = 0 * 0 - 0
      BY <1>3, <2>4, AugCircuit
    <3> QED BY <3>1, CongRefl
  <2> QED BY <2>1, <2>2, <2>3, <2>4 DEF Slot
<1>8. EvalAtZ(AugR1CS, z) \in Vec
  BY <1>0, EvalRow DEF Circuit
<1> QED
  BY <1>0, <1>7, <1>8, RowHolds, VecOfZeros

----------------------------------------------------------------------------
\* The folds of a step.

LEMMA HashInFp ==
  /\ \A U, i, z_0, z_i : Hash(U, i, z_0, z_i) \in Fp
  /\ \A U : HashCycleFold(U) \in Fp
BY SqueezeInFp DEF Hash, HashCycleFold

LEMMA PrimaryFoldSound ==
  ASSUME NEW tr, NEW W, NEW U, NEW w, NEW u, Sound(AugR1CS, G, W, U), Sound(AugR1CS, G, w, u)
  PROVE  LET f == NIFSProve(AugR1CS, G, tr, PpHash, W, U, w, u)
         IN  Sound(AugR1CS, G, f.W, f.U) /\ f.r \in Fp /\ f.cmT \in Fp
<1> DEFINE f == NIFSProve(AugR1CS, G, tr, PpHash, W, U, w, u)
           T == ComputeT(AugR1CS, U, W, u, w)
<1>1. /\ Circuit(AugR1CS) /\ G \in Vec /\ f.r \in Fp
  BY AugCircuit, GAssumption, SqueezeInFp DEF NIFSProve
<1>2. /\ f.W = FoldWitness(f.r, W, w, T) /\ f.cmT = Commit(G, T, 0)
      /\ f.U = FoldCommittedInstances(f.r, U, u, Commit(G, T, 0))
  BY DEF NIFSProve
<1>3. T \in Vec
  BY <1>1, CrossTermIsError DEF Sound, ErrorVec
<1>4. f.cmT \in Fp
  BY <1>1, <1>2, <1>3, CrossCommitInFp
<1> HIDE DEF f
<1>5. Sound(AugR1CS, G, f.W, f.U)
  BY <1>1, <1>2, FoldSound
<1> QED
  BY <1>1, <1>4, <1>5 DEF f

----------------------------------------------------------------------------
\* The augmented circuit.

\* The fresh pair of its witness, for the outputs h1 and h2.
LEMMA OutputsSound ==
  ASSUME NEW a, a.z_i[1] \in Fp, a.ext \in Fp, NEW h1 \in Fp, NEW h2 \in Fp,
         NEW rW \in Fp, NEW rE \in Fp
  PROVE  LET c == CircuitOutputs(a, F(a.z_i, a.ext), <<h1, h2>>)
             w == NewWitness(c.W, rW, rE)
         IN  Sound(AugR1CS, G, w, CommitWitness(G, w, <<h1, h2>>))
<1> DEFINE z_i1 == F(a.z_i, a.ext)
           c    == CircuitOutputs(a, z_i1, <<h1, h2>>)
           z    == Assignment(1, <<h1, h2>>, c.W)
<1>1. z_i1[1] = (a.z_i[1] * a.z_i[1] + a.ext + 5) % P /\ z_i1[1] \in Fp
  <2>1. a.z_i[1] * a.z_i[1] + a.ext + 5 \in Int
    BY FpIsInt
  <2> QED BY <2>1, ModInFp DEF F
<1> HIDE DEF z_i1
<1>2. /\ c.W[0] = 0 /\ c.W[1] = 0 /\ c.W[2] = 0 /\ c.W[3] = a.z_i[1] /\ c.W[4] = a.ext
      /\ c.W[5] = z_i1[1] /\ c.W[6] = h1 /\ c.W[7] = h2 /\ DOMAIN c.W = Slot
  BY DEF CircuitOutputs, Slot
<1> DEFINE W == c.W
<1>3. W \in Vec
  <2>1. (\A k \in Slot : W[k] \in Fp) => W \in Vec
    BY Zenon DEF CircuitOutputs, Vec
  <2>2. ASSUME NEW k \in Slot PROVE W[k] \in Fp
    <3>1. k = 0 \/ k = 1 \/ k = 2 \/ k = 3 \/ k = 4 \/ k = 5 \/ k = 6 \/ k = 7
      BY DEF Slot
    <3> HIDE DEF c
    <3> QED BY <1>1, <1>2, <3>1, ZeroOneInFp
  <2> QED BY <2>1, <2>2
<1> HIDE DEF c
<1>4. /\ z[0] = 1 /\ z[1] = h1 /\ z[2] = h2 /\ z[3] = a.z_i[1] /\ z[4] = a.ext
      /\ z[5] = z_i1[1] /\ z[6] = h1 /\ z[7] = h2
  BY <1>2 DEF Assignment, Slot
<1>5. z \in Vec
  <2>1. <<h1, h2>> \in [1 .. 2 -> Fp]
    OBVIOUS
  <2> QED BY <1>3, <2>1, AssignmentInVec, ZeroOneInFp
<1>6. PublicOf(z, 2) = <<h1, h2>>
  <2> HIDE DEF z
  <2> QED BY <1>4 DEF PublicOf
<1>7. WitnessOf(z, 2) = W
  <2>1. ASSUME NEW k \in Slot PROVE W[k] = IF k <= 2 THEN 0 ELSE z[k]
    BY <1>2, <2>1 DEF Assignment, Slot
  <2> HIDE DEF z, W
  <2> QED BY <1>3, <2>1 DEF WitnessOf, Vec
<1>8. EvalAtZ(AugR1CS, z) = ZeroVec
  <2>1. z[5] = (z[3] * z[3] + z[4] + 5) % P
    BY <1>1, <1>4
  <2> HIDE DEF z
  <2> QED BY <1>4, <1>5, <2>1, AugSatisfied
<1> HIDE DEF z, W
<1>9. LET w == NewWitness(W, rW, rE) IN Sound(AugR1CS, G, w, CommitWitness(G, w, <<h1, h2>>))
  BY <1>4, <1>5, <1>6, <1>7, <1>8, AugCircuit, GAssumption, FreshSound
<1> QED
  BY <1>9 DEF W, c, z_i1

WithCommitments(U, cmE, cmW) == [U EXCEPT !.cmE = cmE, !.cmW = cmW]

\* What it computes of a folded instance is what the prover computed.
LEMMA PrimaryGadgetAgrees ==
  ASSUME NEW tr, NEW W, NEW U, NEW w, NEW u, Sound(AugR1CS, G, W, U), Sound(AugR1CS, G, w, u),
         u.cmE = 0,
         NEW f, f = NIFSProve(AugR1CS, G, tr, PpHash, W, U, w, u),
         NEW v, v = NIFSGadgetVerify(tr, U, u, f.cmT)
  PROVE  /\ v.r = f.r /\ v.tr = f.tr
         /\ WithCommitments(v.U, f.U.cmE, f.U.cmW) = f.U
         /\ f.U.cmW = Rlc(U.cmW, f.r, u.cmW) /\ f.U.cmE = Rlc(U.cmE, f.r, f.cmT)
<1>1. /\ f.r \in Fp /\ f.cmT \in Fp
      /\ f.U = FoldCommittedInstances(f.r, U, u, f.cmT)
  BY PrimaryFoldSound DEF NIFSProve
<1>2. v.r = f.r /\ v.tr = f.tr
  BY DEF NIFSProve, NIFSGadgetVerify
<1>3. v.U = [cmE |-> 0, cmW |-> 0, u |-> Rlc(U.u, f.r, u.u),
             x |-> [k \in DOMAIN U.x |-> Rlc(U.x[k], f.r, u.x[k])]]
  BY DEF NIFSProve, NIFSGadgetVerify
<1>4. U.cmE \in Fp /\ (f.r * f.r) % P \in Fp
  BY <1>1, SquareInFp DEF Sound, CommittedInstance
<1>5. f.U.cmE = Rlc(U.cmE, f.r, f.cmT)
  BY <1>1, <1>4, RlcCong, RlcZero DEF FoldCommittedInstances
<1>6. f.U.cmW = Rlc(U.cmW, f.r, u.cmW)
  BY <1>1 DEF FoldCommittedInstances
<1>7. WithCommitments(v.U, f.U.cmE, f.U.cmW) = f.U
  <2> DEFINE x == [k \in DOMAIN U.x |-> Rlc(U.x[k], f.r, u.x[k])]
             y == Rlc(U.u, f.r, u.u)
  <2>1. f.U = [cmE |-> f.U.cmE, u |-> y, cmW |-> f.U.cmW, x |-> x]
    BY <1>1 DEF FoldCommittedInstances
  <2> HIDE DEF x, y
  <2>2. v.U = [cmE |-> 0, cmW |-> 0, u |-> y, x |-> x]
    BY <1>3 DEF x, y
  <2>3. [v.U EXCEPT !.cmE = f.U.cmE, !.cmW = f.U.cmW]
          = [cmE |-> f.U.cmE, cmW |-> f.U.cmW, u |-> y, x |-> x]
    <3> DEFINE half == [v.U EXCEPT !.cmE = f.U.cmE]
    <3>1. half = [cmE |-> f.U.cmE, cmW |-> 0, u |-> y, x |-> x]
      BY <2>2
    <3>2. [v.U EXCEPT !.cmE = f.U.cmE, !.cmW = f.U.cmW] = [half EXCEPT !.cmW = f.U.cmW]
      OBVIOUS
    <3> HIDE DEF half
    <3> QED BY <3>1, <3>2
  <2> QED BY <2>1, <2>3 DEF WithCommitments
<1> QED
  BY <1>2, <1>5, <1>6, <1>7

\* In the base case the two dummies are folded, to a dummy.
LEMMA DummyFold ==
  LET d == DummyInstance(2)
  IN  NIFSProve(AugR1CS, G, <<>>, PpHash, DummyWitness, d, DummyWitness, d).U = d
<1> DEFINE d == DummyInstance(2)
           T == ComputeT(AugR1CS, d, DummyWitness, d, DummyWitness)
           f == NIFSProve(AugR1CS, G, <<>>, PpHash, DummyWitness, d, DummyWitness, d)
<1>1. Circuit(AugR1CS) /\ AugR1CS.l = 2 /\ \A k \in 1 .. 2 : k \in Slot
  BY AugCircuit DEF Slot
<1>2. T = ZeroVec
  <2>1. Assignment(0, [k \in 1 .. 2 |-> 0], ZeroVec) = ZeroVec
    BY DEF Assignment, ZeroVec
  <2>2. 0 + 0 = 0 /\ 0 - 0 = 0
    OBVIOUS
  <2>3. VecAdd(ZeroVec, ZeroVec) = ZeroVec /\ VecSub(ZeroVec, ZeroVec) = ZeroVec
    BY <2>2, ZeroMod DEF VecAdd, VecSub, ZeroVec
  <2> QED BY <1>1, <2>1, <2>3, EvalZero DEF ComputeT, DummyInstance, DummyWitness
<1>3. f.r \in Fp /\ f.U = FoldCommittedInstances(f.r, d, d, Commit(G, T, 0))
  BY SqueezeInFp DEF NIFSProve
<1>4. Commit(G, T, 0) = 0
  BY <1>2, CommitZero, GAssumption
<1> HIDE DEF f, T
<1>5. Rlc(0, f.r, 0) = 0 /\ Rlc(0, (f.r * f.r) % P, 0) = 0
  BY <1>3, RlcZero, SquareInFp, ZeroOneInFp
<1>6. f.U = d
  BY <1>3, <1>4, <1>5 DEF FoldCommittedInstances, DummyInstance
<1> QED
  BY <1>6 DEF f

----------------------------------------------------------------------------
\* The scheme's promises.

Fields == {"i", "z_0", "z_i", "w_i", "u_i", "W_i", "U_i", "cf_W_i", "cf_U_i"}

\* Every struct holds sound pairs, the fresh one from the first step on being the
\* last step's: its first public input is the hash of its claim with some instance.
HashOfClaim(h, i, z_0, z_i) == \E U \in CommittedInstance(2) : h = Hash(U, i, z_0, z_i)
WellFormed(s) ==
  /\ DOMAIN s = Fields /\ s = [k \in Fields |-> s[k]]
  /\ s.i \in Nat /\ s.z_0 \in State /\ s.z_i \in State
  /\ Sound(AugR1CS, G, s.w_i, s.u_i) /\ Sound(AugR1CS, G, s.W_i, s.U_i)
  /\ Sound(CfR1CS, CfG, s.cf_W_i, s.cf_U_i)
  /\ s.i = 0 => s = FreshProver(s.z_0)
  /\ s.i > 0 => /\ Len(s.z_0) = 1 /\ Len(s.z_i) = 1
                /\ IsIncoming(s.u_i)
                /\ HashOfClaim(s.u_i.x[1], s.i, s.z_0, s.z_i)

\* As long as no step failed those hashes are of its own running instances.
Consistent(s) == s.i > 0 => HashesMatch(s)

LEMMA FIsState ==
  ASSUME NEW z \in State, NEW e \in Ext
  PROVE  z[1] \in Fp /\ e \in Fp /\ F(z, e) \in State /\ Len(F(z, e)) = 1
<1>1. z[1] \in Fp /\ e \in Fp
  BY ExtAssumption DEF State
<1>2. (z[1] * z[1] + e + 5) % P \in Fp
  <2>1. z[1] * z[1] + e + 5 \in Int
    BY <1>1, FpIsInt
  <2> QED BY <2>1, ModInFp
<1> QED
  BY <1>1, <1>2 DEF F, State

\* Whatever the circuit is given, its outputs are hashes, the first of its claim.
LEMMA CircuitRuns ==
  ASSUME NEW a, a.U_i \in CommittedInstance(2), a.u_i_cmW \in Fp,
         a.U_i1_cmE \in Fp, a.U_i1_cmW \in Fp, a.i \in Nat
  PROVE  LET c == AugmentedCircuit(a)
         IN  /\ c = CircuitOutputs(a, F(a.z_i, a.ext), c.x)
             /\ \E h1, h2 \in Fp : /\ c.x = <<h1, h2>>
                                   /\ HashOfClaim(h1, a.i + 1, a.z_0, F(a.z_i, a.ext))
<1> DEFINE u == IncomingInstance(a.u_i_cmW,
                  <<Hash(a.U_i, a.i, a.z_0, a.z_i), HashCycleFold(a.cf_U_i)>>)
           v == NIFSGadgetVerify(<<>>, a.U_i, u, a.cmT)
           U == [v.U EXCEPT !.cmE = a.U_i1_cmE, !.cmW = a.U_i1_cmW]
           z_i1 == F(a.z_i, a.ext)
           x == IF a.i = 0
                THEN <<Hash(DummyInstance(2), 1, a.z_0, z_i1), HashCycleFold(DummyInstance(4))>>
                ELSE <<Hash(U, a.i + 1, a.z_0, z_i1), HashCycleFold(CycleFoldsInCircuit(a, v, U))>>
           c == AugmentedCircuit(a)
<1>1. c = CircuitOutputs(a, z_i1, x)
  BY DEF AugmentedCircuit
<1>2. U \in CommittedInstance(2)
  <2> DEFINE r == v.r
             y == Rlc(a.U_i.u, r, 1)
             xs == [k \in 1 .. 2 |-> Rlc(a.U_i.x[k], r, u.x[k])]
             half == [v.U EXCEPT !.cmE = a.U_i1_cmE]
  <2>1. a.U_i.u \in Fp /\ a.U_i.x \in [1 .. 2 -> Fp] /\ r \in Fp
    BY SqueezeInFp DEF CommittedInstance, NIFSGadgetVerify
  <2>2. u.u = 1 /\ u.x[1] \in Fp /\ u.x[2] \in Fp
    BY HashInFp DEF IncomingInstance
  <2>3. v.U = [cmE |-> 0, cmW |-> 0, u |-> y, x |-> xs]
    BY <2>1, <2>2 DEF NIFSGadgetVerify
  <2> HIDE DEF u, v, r
  <2>4. y \in Fp /\ xs \in [1 .. 2 -> Fp]
    <3>1. ASSUME NEW k \in 1 .. 2 PROVE Rlc(a.U_i.x[k], r, u.x[k]) \in Fp
      <4>1. a.U_i.x[k] \in Fp /\ u.x[k] \in Fp
        BY <2>1, <2>2
      <4> QED BY <2>1, <4>1, RlcCong
    <3> QED BY <2>1, <3>1, RlcCong, ZeroOneInFp
  <2> HIDE DEF y, xs
  <2>5. half = [cmE |-> a.U_i1_cmE, cmW |-> 0, u |-> y, x |-> xs]
    BY <2>3
  <2>6. U = [half EXCEPT !.cmW = a.U_i1_cmW]
    OBVIOUS
  <2> HIDE DEF half
  <2>7. U = [cmE |-> a.U_i1_cmE, cmW |-> a.U_i1_cmW, u |-> y, x |-> xs]
    BY <2>5, <2>6
  <2> QED BY <2>4, <2>7 DEF CommittedInstance
<1> HIDE DEF u, v, U, c, z_i1
<1>3. /\ Hash(DummyInstance(2), 1, a.z_0, z_i1) \in Fp /\ HashCycleFold(DummyInstance(4)) \in Fp
      /\ Hash(U, a.i + 1, a.z_0, z_i1) \in Fp
      /\ HashCycleFold(CycleFoldsInCircuit(a, v, U)) \in Fp
  BY HashInFp
<1>4. DummyInstance(2) \in CommittedInstance(2)
  BY ZeroOneInFp DEF DummyInstance, CommittedInstance
<1>5. c.x = x
  BY <1>1 DEF CircuitOutputs
<1>6. CASE a.i = 0
  <2>1. x = <<Hash(DummyInstance(2), 1, a.z_0, z_i1), HashCycleFold(DummyInstance(4))>>
    BY <1>6
  <2> HIDE DEF x
  <2>2. HashOfClaim(Hash(DummyInstance(2), 1, a.z_0, z_i1), a.i + 1, a.z_0, z_i1)
    BY <1>4, <1>6 DEF HashOfClaim
  <2> QED BY <1>1, <1>3, <1>5, <2>1, <2>2 DEF c, z_i1
<1>7. CASE a.i # 0
  <2>1. x = <<Hash(U, a.i + 1, a.z_0, z_i1), HashCycleFold(CycleFoldsInCircuit(a, v, U))>>
    BY <1>7
  <2> HIDE DEF x
  <2>2. HashOfClaim(Hash(U, a.i + 1, a.z_0, z_i1), a.i + 1, a.z_0, z_i1)
    BY <1>2 DEF HashOfClaim
  <2> QED BY <1>1, <1>3, <1>5, <2>1, <2>2 DEF c, z_i1
<1> QED
  BY <1>6, <1>7

----------------------------------------------------------------------------
\* One step.

LEMMA DummyWellFormed ==
  /\ Sound(AugR1CS, G, DummyWitness, DummyInstance(2))
  /\ Sound(CfR1CS, CfG, DummyWitness, DummyInstance(4))
BY AugCircuit, CfCircuit, GAssumption, CfGAssumption, DummySound

LEMMA FreshWellFormed ==
  ASSUME NEW z \in Z0
  PROVE  /\ WellFormed(FreshProver(z)) /\ Consistent(FreshProver(z))
         /\ FreshProver(z).i = 0 /\ FreshProver(z).z_0 = z /\ FreshProver(z).z_i = z
BY DummyWellFormed, Z0Assumption DEF FreshProver, WellFormed, Fields, Consistent

\* The folds of a step, each sound if those before it are.
LEMMA StepFolds ==
  ASSUME NEW s, WellFormed(s), NEW d \in Draws
  PROVE  LET f   == PrimaryFold(s)
             cfW == CfWFold(s, f, d)
             cfE == CfEFold(s, f, cfW, d)
         IN  /\ Sound(AugR1CS, G, f.W, f.U) /\ f.r \in Fp /\ f.cmT \in Fp
             /\ Sound(CfR1CS, CfG, cfW.W, cfW.U) /\ Sound(CfR1CS, CfG, cfE.W, cfE.U)
             /\ s.U_i.cmW \in Fp /\ s.u_i.cmW \in Fp /\ s.U_i.cmE \in Fp
             /\ \A b \in Blinder : d[b] \in Fp
<1> DEFINE f   == PrimaryFold(s)
           cfW == CfWFold(s, f, d)
           cfE == CfEFold(s, f, cfW, d)
<1>1. Sound(AugR1CS, G, f.W, f.U) /\ f.r \in Fp /\ f.cmT \in Fp
  BY PrimaryFoldSound DEF WellFormed, PrimaryFold
<1> HIDE DEF f
<1>2. s.U_i.cmW \in Fp /\ s.u_i.cmW \in Fp /\ s.U_i.cmE \in Fp
  BY DEF WellFormed, Sound, CommittedInstance
<1>3. \A b \in Blinder : d[b] \in Fp
  BY DrawsAssumption
<1>4. d["cfW.rW"] \in Fp /\ d["cfW.rE"] \in Fp /\ d["cfE.rW"] \in Fp /\ d["cfE.rE"] \in Fp
  BY <1>3 DEF Blinder
<1>5. Sound(CfR1CS, CfG, cfW.W, cfW.U)
  BY <1>1, <1>2, <1>4, CfFoldSound DEF WellFormed, CfWFold
<1> HIDE DEF cfW
<1>6. Sound(CfR1CS, CfG, cfE.W, cfE.U)
  BY <1>1, <1>2, <1>4, <1>5, CfFoldSound DEF CfEFold
<1> QED
  BY <1>1, <1>2, <1>3, <1>5, <1>6 DEF f, cfW, cfE

\* The fields a step leaves.
LEMMA ProvedFields ==
  ASSUME NEW s, WellFormed(s), NEW ext, NEW d
  PROVE  LET f   == PrimaryFold(s)
             cfW == CfWFold(s, f, d)
             cfE == CfEFold(s, f, cfW, d)
             c   == AugmentedCircuit(CircuitInputs(s, ext, f, cfW, cfE))
             w   == NewWitness(c.W, d["w.rW"], d["w.rE"])
             p   == Proved(s, ext, d)
         IN  /\ DOMAIN p = Fields /\ p = [k \in Fields |-> p[k]]
             /\ p.z_0 = s.z_0
             /\ p.cf_W_i = (IF s.i = 0 THEN s.cf_W_i ELSE cfE.W)
             /\ p.cf_U_i = (IF s.i = 0 THEN s.cf_U_i ELSE cfE.U)
             /\ ext \in BadExt => /\ p.i = s.i /\ p.z_i = s.z_i /\ p.w_i = s.w_i
                                  /\ p.u_i = s.u_i /\ p.W_i = s.W_i /\ p.U_i = s.U_i
                                  /\ s.i = 0 => p = s
             /\ ext \notin BadExt => /\ p.i = s.i + 1 /\ p.z_i = c.z_i1 /\ p.w_i = w
                                     /\ p.u_i = CommitWitness(G, w, c.x)
                                     /\ p.W_i = f.W /\ p.U_i = f.U
<1> DEFINE f   == PrimaryFold(s)
           cfW == CfWFold(s, f, d)
           cfE == CfEFold(s, f, cfW, d)
           c   == AugmentedCircuit(CircuitInputs(s, ext, f, cfW, cfE))
           w   == NewWitness(c.W, d["w.rW"], d["w.rE"])
           u   == CommitWitness(G, w, c.x)
           cfd == IF s.i = 0 THEN s ELSE [s EXCEPT !.cf_W_i = cfE.W, !.cf_U_i = cfE.U]
           p   == Proved(s, ext, d)
<1>1. p = IF ext \in BadExt THEN cfd
          ELSE [cfd EXCEPT !.i = @ + 1, !.z_i = c.z_i1, !.w_i = w, !.u_i = u,
                           !.W_i = f.W, !.U_i = f.U]
  BY DEF Proved, AfterPrimary, AfterCfW, AfterFolds, AfterCircuit
<1> HIDE DEF f, cfW, cfE, c, w, u, p
<1>2. DOMAIN s = Fields /\ s = [k \in Fields |-> s[k]]
  BY DEF WellFormed
<1>3. /\ DOMAIN cfd = Fields /\ cfd = [k \in Fields |-> cfd[k]]
      /\ cfd.cf_W_i = (IF s.i = 0 THEN s.cf_W_i ELSE cfE.W)
      /\ cfd.cf_U_i = (IF s.i = 0 THEN s.cf_U_i ELSE cfE.U)
      /\ cfd.i = s.i /\ cfd.z_0 = s.z_0 /\ cfd.z_i = s.z_i /\ cfd.w_i = s.w_i
      /\ cfd.u_i = s.u_i /\ cfd.W_i = s.W_i /\ cfd.U_i = s.U_i
      /\ s.i = 0 => cfd = s
  BY <1>2 DEF Fields
<1> HIDE DEF cfd
<1> DEFINE Kept    == /\ p.i = s.i /\ p.z_i = s.z_i /\ p.w_i = s.w_i
                      /\ p.u_i = s.u_i /\ p.W_i = s.W_i /\ p.U_i = s.U_i
                      /\ s.i = 0 => p = s
           Stepped == /\ p.i = s.i + 1 /\ p.z_i = c.z_i1 /\ p.w_i = w
                      /\ p.u_i = u /\ p.W_i = f.W /\ p.U_i = f.U
           Always  == /\ DOMAIN p = Fields /\ p = [k \in Fields |-> p[k]]
                      /\ p.z_0 = s.z_0
                      /\ p.cf_W_i = (IF s.i = 0 THEN s.cf_W_i ELSE cfE.W)
                      /\ p.cf_U_i = (IF s.i = 0 THEN s.cf_U_i ELSE cfE.U)
<1>4. ext \in BadExt => Always /\ Kept
  BY <1>1, <1>3
<1>5. ext \notin BadExt => Always /\ Stepped
  <2> SUFFICES ASSUME ext \notin BadExt PROVE Always /\ Stepped
    OBVIOUS
  <2> DEFINE p1 == [cfd EXCEPT !.i = @ + 1]  p2 == [p1 EXCEPT !.z_i = c.z_i1]
             p3 == [p2 EXCEPT !.w_i = w]     p4 == [p3 EXCEPT !.u_i = u]
             p5 == [p4 EXCEPT !.W_i = f.W]
  <2>1. p = [cfd EXCEPT !.i = @ + 1, !.z_i = c.z_i1, !.w_i = w, !.u_i = u,
                        !.W_i = f.W, !.U_i = f.U]
    BY <1>1
  <2>2. p = [p5 EXCEPT !.U_i = f.U]
    BY <2>1
  <2> HIDE DEF p5
  <2>3. p5 = [p4 EXCEPT !.W_i = f.W]
    BY DEF p5
  <2> HIDE DEF p4
  <2>4. p4 = [p3 EXCEPT !.u_i = u]
    BY DEF p4
  <2> HIDE DEF p3
  <2>5. p3 = [p2 EXCEPT !.w_i = w]
    BY DEF p3
  <2> HIDE DEF p2
  <2>6. p2 = [p1 EXCEPT !.z_i = c.z_i1]
    BY DEF p2
  <2> HIDE DEF p1
  <2>7. p1 = [cfd EXCEPT !.i = @ + 1]
    BY DEF p1
  <2>8. /\ DOMAIN p1 = Fields /\ p1.i = s.i + 1 /\ p1.z_0 = cfd.z_0
        /\ p1.cf_W_i = cfd.cf_W_i /\ p1.cf_U_i = cfd.cf_U_i
    BY <1>3, <2>7 DEF Fields
  <2>9. /\ DOMAIN p2 = Fields /\ p2.i = s.i + 1 /\ p2.z_0 = cfd.z_0 /\ p2.z_i = c.z_i1
        /\ p2.cf_W_i = cfd.cf_W_i /\ p2.cf_U_i = cfd.cf_U_i
    BY <2>6, <2>8 DEF Fields
  <2>10. /\ DOMAIN p3 = Fields /\ p3.i = s.i + 1 /\ p3.z_0 = cfd.z_0 /\ p3.z_i = c.z_i1
         /\ p3.cf_W_i = cfd.cf_W_i /\ p3.cf_U_i = cfd.cf_U_i /\ p3.w_i = w
    BY <2>5, <2>9 DEF Fields
  <2>11. /\ DOMAIN p4 = Fields /\ p4.i = s.i + 1 /\ p4.z_0 = cfd.z_0 /\ p4.z_i = c.z_i1
         /\ p4.cf_W_i = cfd.cf_W_i /\ p4.cf_U_i = cfd.cf_U_i /\ p4.w_i = w /\ p4.u_i = u
    BY <2>4, <2>10 DEF Fields
  <2>12. /\ DOMAIN p5 = Fields /\ p5.i = s.i + 1 /\ p5.z_0 = cfd.z_0 /\ p5.z_i = c.z_i1
         /\ p5.cf_W_i = cfd.cf_W_i /\ p5.cf_U_i = cfd.cf_U_i /\ p5.w_i = w /\ p5.u_i = u
         /\ p5.W_i = f.W
    BY <2>3, <2>11 DEF Fields
  <2> QED BY <1>3, <2>2, <2>12 DEF Fields
<1>6. Always /\ (ext \in BadExt => Kept) /\ (ext \notin BadExt => Stepped)
  BY <1>4, <1>5
<1> HIDE DEF cfd
<1> QED
  BY <1>6 DEF p, u, w, c, cfE, cfW, f

\* The circuit's inputs and the fresh pair made of its outputs.
LEMMA StepCircuit ==
  ASSUME NEW s, WellFormed(s), NEW ext \in Ext, NEW d \in Draws
  PROVE  LET f   == PrimaryFold(s)
             cfW == CfWFold(s, f, d)
             cfE == CfEFold(s, f, cfW, d)
             c   == AugmentedCircuit(CircuitInputs(s, ext, f, cfW, cfE))
             w   == NewWitness(c.W, d["w.rW"], d["w.rE"])
             u   == CommitWitness(G, w, c.x)
         IN  /\ c.z_i1 = F(s.z_i, ext)
             /\ Sound(AugR1CS, G, w, u) /\ IsIncoming(u) /\ u.x = c.x
             /\ HashOfClaim(u.x[1], s.i + 1, s.z_0, F(s.z_i, ext))
<1> DEFINE f   == PrimaryFold(s)
           cfW == CfWFold(s, f, d)
           cfE == CfEFold(s, f, cfW, d)
           a   == CircuitInputs(s, ext, f, cfW, cfE)
           c   == AugmentedCircuit(a)
           w   == NewWitness(c.W, d["w.rW"], d["w.rE"])
           u   == CommitWitness(G, w, c.x)
<1>1. /\ f.U.cmE \in Fp /\ f.U.cmW \in Fp /\ s.u_i.cmW \in Fp
      /\ d["w.rW"] \in Fp /\ d["w.rE"] \in Fp
  BY StepFolds DEF Sound, CommittedInstance, Blinder
<1>2. /\ a.i = s.i /\ a.z_0 = s.z_0 /\ a.z_i = s.z_i /\ a.ext = ext
      /\ a.U_i = s.U_i /\ a.u_i_cmW = s.u_i.cmW
      /\ a.U_i1_cmE = f.U.cmE /\ a.U_i1_cmW = f.U.cmW
  BY DEF CircuitInputs
<1> HIDE DEF f, a
<1>3. s.U_i \in CommittedInstance(2) /\ s.i \in Nat /\ s.z_i \in State
  BY AugCircuit DEF WellFormed, Sound
<1>4. s.z_i[1] \in Fp /\ ext \in Fp
  BY <1>3, FIsState
<1>5. /\ c = CircuitOutputs(a, F(a.z_i, a.ext), c.x)
      /\ \E h1, h2 \in Fp : /\ c.x = <<h1, h2>>
                            /\ HashOfClaim(h1, a.i + 1, a.z_0, F(a.z_i, a.ext))
  BY <1>1, <1>2, <1>3, CircuitRuns
<1>6. PICK h1 \in Fp, h2 \in Fp :
        c.x = <<h1, h2>> /\ HashOfClaim(h1, a.i + 1, a.z_0, F(a.z_i, a.ext))
  BY <1>5
<1> HIDE DEF c
<1>7. /\ c = CircuitOutputs(a, F(a.z_i, a.ext), <<h1, h2>>)
      /\ c.z_i1 = F(s.z_i, ext)
  <2>1. c = CircuitOutputs(a, F(a.z_i, a.ext), <<h1, h2>>)
    BY <1>5, <1>6
  <2>2. CircuitOutputs(a, F(a.z_i, a.ext), <<h1, h2>>).z_i1 = F(a.z_i, a.ext)
    BY DEF CircuitOutputs
  <2> QED BY <1>2, <2>1, <2>2
<1>8. Sound(AugR1CS, G, w, u)
  BY <1>1, <1>2, <1>4, <1>6, <1>7, OutputsSound
<1>9. IsIncoming(u) /\ u.x = c.x
  BY DEF CommitWitness, NewWitness, IsIncoming
<1>10. HashOfClaim(u.x[1], s.i + 1, s.z_0, F(s.z_i, ext))
  BY <1>2, <1>6, <1>9
<1> HIDE DEF w, u
<1> QED
  BY <1>7, <1>8, <1>9, <1>10 DEF u, w, c, a, f

LEMMA ProvedWellFormed ==
  ASSUME NEW s, WellFormed(s), NEW ext \in Ext, NEW d \in Draws, Len(s.z_i) = 1
  PROVE  WellFormed(Proved(s, ext, d))
<1> DEFINE f   == PrimaryFold(s)
           cfW == CfWFold(s, f, d)
           cfE == CfEFold(s, f, cfW, d)
           c   == AugmentedCircuit(CircuitInputs(s, ext, f, cfW, cfE))
           w   == NewWitness(c.W, d["w.rW"], d["w.rE"])
           u   == CommitWitness(G, w, c.x)
           p   == Proved(s, ext, d)
<1>1. /\ Sound(AugR1CS, G, f.W, f.U) /\ Sound(CfR1CS, CfG, cfE.W, cfE.U)
  BY StepFolds
<1>2. /\ c.z_i1 = F(s.z_i, ext)
      /\ Sound(AugR1CS, G, w, u) /\ IsIncoming(u)
      /\ HashOfClaim(u.x[1], s.i + 1, s.z_0, F(s.z_i, ext))
  BY StepCircuit
<1>3. /\ DOMAIN p = Fields /\ p = [k \in Fields |-> p[k]]
      /\ p.z_0 = s.z_0
      /\ p.cf_W_i = (IF s.i = 0 THEN s.cf_W_i ELSE cfE.W)
      /\ p.cf_U_i = (IF s.i = 0 THEN s.cf_U_i ELSE cfE.U)
  BY ProvedFields
<1>4. ext \in BadExt => /\ p.i = s.i /\ p.z_i = s.z_i /\ p.w_i = s.w_i
                        /\ p.u_i = s.u_i /\ p.W_i = s.W_i /\ p.U_i = s.U_i
                        /\ s.i = 0 => p = s
  BY ProvedFields
<1>5. ext \notin BadExt => /\ p.i = s.i + 1 /\ p.z_i = c.z_i1 /\ p.w_i = w
                           /\ p.u_i = u /\ p.W_i = f.W /\ p.U_i = f.U
  BY ProvedFields
<1> HIDE DEF f, cfW, cfE, c, w, u, p
<1>6. /\ s.i \in Nat /\ s.z_0 \in State /\ s.z_i \in State
      /\ Sound(AugR1CS, G, s.w_i, s.u_i) /\ Sound(AugR1CS, G, s.W_i, s.U_i)
      /\ Sound(CfR1CS, CfG, s.cf_W_i, s.cf_U_i)
  BY DEF WellFormed
<1>7. Len(s.z_0) = 1
  <2>1. s.i = 0 => s.z_0 = s.z_i
    BY DEF WellFormed, FreshProver
  <2> QED BY <1>6, <2>1 DEF WellFormed
<1>8. Sound(CfR1CS, CfG, p.cf_W_i, p.cf_U_i)
  BY <1>1, <1>3, <1>6
<1>9. CASE ext \in BadExt
  <2>1. p.i = 0 => p = FreshProver(p.z_0)
    BY <1>3, <1>4, <1>9 DEF WellFormed
  <2>2. p.i > 0 => /\ IsIncoming(p.u_i) /\ Len(p.z_0) = 1 /\ Len(p.z_i) = 1
                   /\ HashOfClaim(p.u_i.x[1], p.i, p.z_0, p.z_i)
    BY <1>3, <1>4, <1>9 DEF WellFormed
  <2>3. WellFormed(p)
    BY <1>3, <1>4, <1>6, <1>8, <1>9, <2>1, <2>2 DEF WellFormed
  <2> QED BY <2>3 DEF p
<1>10. CASE ext \notin BadExt
  <2>1. p.z_i \in State /\ Len(p.z_i) = 1
    BY <1>2, <1>5, <1>6, <1>10, FIsState
  <2>2. p.i \in Nat /\ p.i # 0
    BY <1>5, <1>6, <1>10
  <2>3. WellFormed(p)
    BY <1>1, <1>2, <1>3, <1>5, <1>6, <1>7, <1>8, <1>10, <2>1, <2>2 DEF WellFormed
  <2> QED BY <2>3 DEF p
<1> QED
  BY <1>9, <1>10

\* From a struct whose hashes match, the circuit computes the hashes of the
\* instances the prover keeps.
LEMMA CircuitAgrees ==
  ASSUME NEW s, WellFormed(s), HashesMatch(s), s.i > 0, NEW ext \in Ext, NEW d \in Draws
  PROVE  LET f   == PrimaryFold(s)
             cfW == CfWFold(s, f, d)
             cfE == CfEFold(s, f, cfW, d)
             c   == AugmentedCircuit(CircuitInputs(s, ext, f, cfW, cfE))
         IN  c.x = <<Hash(f.U, s.i + 1, s.z_0, F(s.z_i, ext)), HashCycleFold(cfE.U)>>
<1> DEFINE f   == PrimaryFold(s)
           cfW == CfWFold(s, f, d)
           cfE == CfEFold(s, f, cfW, d)
           a   == CircuitInputs(s, ext, f, cfW, cfE)
           u   == IncomingInstance(a.u_i_cmW,
                    <<Hash(a.U_i, a.i, a.z_0, a.z_i), HashCycleFold(a.cf_U_i)>>)
           v   == NIFSGadgetVerify(<<>>, a.U_i, u, a.cmT)
           U   == [v.U EXCEPT !.cmE = a.U_i1_cmE, !.cmW = a.U_i1_cmW]
<1>1. /\ a.i = s.i /\ a.z_0 = s.z_0 /\ a.z_i = s.z_i /\ a.ext = ext
      /\ a.U_i = s.U_i /\ a.u_i_cmW = s.u_i.cmW /\ a.cmT = f.cmT
      /\ a.U_i1_cmE = f.U.cmE /\ a.U_i1_cmW = f.U.cmW
      /\ a.cf_U_i = s.cf_U_i /\ a.cf1_u_i_cmW = cfW.u.cmW /\ a.cf2_u_i_cmW = cfE.u.cmW
      /\ a.cf1_cmT = cfW.cmT /\ a.cf2_cmT = cfE.cmT
  BY DEF CircuitInputs
<1>2. /\ Sound(AugR1CS, G, s.W_i, s.U_i) /\ Sound(AugR1CS, G, s.w_i, s.u_i)
      /\ Sound(CfR1CS, CfG, s.cf_W_i, s.cf_U_i) /\ IsIncoming(s.u_i) /\ s.i \in Nat
      /\ s.u_i \in CommittedInstance(2)
  BY AugCircuit DEF WellFormed, Sound
<1>3. /\ f.r \in Fp /\ f.cmT \in Fp /\ Sound(CfR1CS, CfG, cfW.W, cfW.U)
      /\ s.U_i.cmW \in Fp /\ s.u_i.cmW \in Fp /\ s.U_i.cmE \in Fp
      /\ d["cfW.rW"] \in Fp /\ d["cfW.rE"] \in Fp /\ d["cfE.rW"] \in Fp /\ d["cfE.rE"] \in Fp
  BY StepFolds DEF Blinder
<1>4. AugmentedCircuit(a).x = <<Hash(U, a.i + 1, a.z_0, F(a.z_i, a.ext)),
                                HashCycleFold(CycleFoldsInCircuit(a, v, U))>>
  <2>1. a.i # 0
    BY <1>1, <1>2
  <2> HIDE DEF a
  <2> QED BY <2>1 DEF AugmentedCircuit, CircuitOutputs
<1>5. u = s.u_i
  <2>1. <<s.u_i.x[1], s.u_i.x[2]>> = s.u_i.x
    BY <1>2 DEF CommittedInstance
  <2>2. <<Hash(a.U_i, a.i, a.z_0, a.z_i), HashCycleFold(a.cf_U_i)>> = s.u_i.x
    <3> HIDE DEF a
    <3> QED BY <1>1, <2>1 DEF HashesMatch
  <2> HIDE DEF a
  <2> QED BY <1>1, <1>2, <2>2 DEF IncomingInstance, IsIncoming, CommittedInstance
<1> HIDE DEF a, u
<1>6. /\ v.r = f.r /\ v.tr = f.tr /\ U = f.U
      /\ f.U.cmW = Rlc(s.U_i.cmW, f.r, s.u_i.cmW) /\ f.U.cmE = Rlc(s.U_i.cmE, f.r, f.cmT)
  <2>1. f = NIFSProve(AugR1CS, G, <<>>, PpHash, s.W_i, s.U_i, s.w_i, s.u_i)
    BY DEF PrimaryFold
  <2>2. v = NIFSGadgetVerify(<<>>, s.U_i, s.u_i, f.cmT)
    BY <1>1, <1>5
  <2>3. U = WithCommitments(v.U, f.U.cmE, f.U.cmW)
    BY <1>1 DEF WithCommitments
  <2>4. s.u_i.cmE = 0
    BY <1>2 DEF IsIncoming
  <2> HIDE DEF f, v, U
  <2>5. /\ v.r = f.r /\ v.tr = f.tr
        /\ WithCommitments(v.U, f.U.cmE, f.U.cmW) = f.U
        /\ f.U.cmW = Rlc(s.U_i.cmW, f.r, s.u_i.cmW) /\ f.U.cmE = Rlc(s.U_i.cmE, f.r, f.cmT)
    BY <1>2, <2>1, <2>2, <2>4, PrimaryGadgetAgrees
  <2> QED BY <2>3, <2>5
<1> HIDE DEF f, v, U
<1> DEFINE g1 == CycleFoldGadget(v.tr, a.cf_U_i, a.cf1_u_i_cmW,
                   <<v.r, a.U_i.cmW, a.u_i_cmW, U.cmW>>, a.cf1_cmT)
<1>7. g1.U = cfW.U /\ g1.tr = cfW.tr
  <2>1. cfW = FoldCycleFoldCircuit(f.tr, s.cf_W_i, s.cf_U_i, f.r, s.U_i.cmW, s.u_i.cmW,
                                   d["cfW.rW"], d["cfW.rE"])
    BY DEF CfWFold
  <2>2. g1 = CycleFoldGadget(f.tr, s.cf_U_i, cfW.u.cmW,
               <<f.r, s.U_i.cmW, s.u_i.cmW, Rlc(s.U_i.cmW, f.r, s.u_i.cmW)>>, cfW.cmT)
    BY <1>1, <1>6
  <2> HIDE DEF cfW, g1
  <2> QED BY <1>2, <1>3, <2>1, <2>2, CfGadgetAgrees
<1>8. CycleFoldsInCircuit(a, v, U) = cfE.U
  <2>1. cfE = FoldCycleFoldCircuit(cfW.tr, cfW.W, cfW.U, f.r, s.U_i.cmE, f.cmT,
                                   d["cfE.rW"], d["cfE.rE"])
    BY DEF CfEFold
  <2>2. CycleFoldsInCircuit(a, v, U) =
          CycleFoldGadget(g1.tr, g1.U, a.cf2_u_i_cmW, <<v.r, a.U_i.cmE, a.cmT, U.cmE>>,
                          a.cf2_cmT).U
    BY DEF CycleFoldsInCircuit
  <2> HIDE DEF cfW, cfE, g1
  <2>3. CycleFoldsInCircuit(a, v, U) =
          CycleFoldGadget(cfW.tr, cfW.U, cfE.u.cmW,
            <<f.r, s.U_i.cmE, f.cmT, Rlc(s.U_i.cmE, f.r, f.cmT)>>, cfE.cmT).U
    BY <1>1, <1>6, <1>7, <2>2
  <2> QED BY <1>3, <2>1, <2>3, CfGadgetAgrees
<1> QED
  BY <1>1, <1>4, <1>6, <1>8 DEF a, f

LEMMA ProvedConsistent ==
  ASSUME NEW s, WellFormed(s), Consistent(s), NEW ext \in Ext, ext \notin BadExt, NEW d \in Draws
  PROVE  Consistent(Proved(s, ext, d))
<1> DEFINE f   == PrimaryFold(s)
           cfW == CfWFold(s, f, d)
           cfE == CfEFold(s, f, cfW, d)
           a   == CircuitInputs(s, ext, f, cfW, cfE)
           c   == AugmentedCircuit(a)
           w   == NewWitness(c.W, d["w.rW"], d["w.rE"])
           u   == CommitWitness(G, w, c.x)
           p   == Proved(s, ext, d)
<1>1. /\ p.z_0 = s.z_0 /\ p.i = s.i + 1 /\ p.z_i = c.z_i1 /\ p.u_i = u /\ p.U_i = f.U
      /\ p.cf_U_i = (IF s.i = 0 THEN s.cf_U_i ELSE cfE.U)
  BY ProvedFields
<1>2. c.z_i1 = F(s.z_i, ext) /\ u.x = c.x
  BY StepCircuit
<1>3. s.i \in Nat
  BY DEF WellFormed
<1>4. CASE s.i > 0
  <2>1. c.x = <<Hash(f.U, s.i + 1, s.z_0, F(s.z_i, ext)), HashCycleFold(cfE.U)>>
    BY <1>4, CircuitAgrees DEF Consistent
  <2> HIDE DEF f, cfE, c, u, p
  <2>2. HashesMatch(p)
    BY <1>1, <1>2, <1>4, <2>1 DEF HashesMatch
  <2> QED BY <2>2 DEF Consistent, p
<1>5. CASE s.i = 0
  <2>1. s = FreshProver(s.z_0)
    BY <1>5 DEF WellFormed
  <2>2. /\ s.w_i = DummyWitness /\ s.u_i = DummyInstance(2) /\ s.W_i = DummyWitness
        /\ s.U_i = DummyInstance(2) /\ s.cf_U_i = DummyInstance(4)
    <3> DEFINE z == s.z_0
    <3> HIDE DEF z
    <3>1. s = FreshProver(z)
      BY <2>1 DEF z
    <3> QED BY <3>1 DEF FreshProver
  <2>3. f.U = DummyInstance(2)
    BY <2>2, DummyFold DEF PrimaryFold
  <2>4. a.i = 0 /\ a.z_0 = s.z_0 /\ a.z_i = s.z_i /\ a.ext = ext
    BY <1>5 DEF CircuitInputs
  <2> HIDE DEF f, cfE, u, p, a
  <2>5. c.x = <<Hash(DummyInstance(2), 1, s.z_0, F(s.z_i, ext)), HashCycleFold(DummyInstance(4))>>
    BY <2>4 DEF AugmentedCircuit, CircuitOutputs
  <2> HIDE DEF c
  <2>6. HashesMatch(p)
    BY <1>1, <1>2, <1>5, <2>2, <2>3, <2>5 DEF HashesMatch
  <2> QED BY <2>6 DEF Consistent, p
<1> QED
  BY <1>3, <1>4, <1>5

----------------------------------------------------------------------------
\* What a hash binds.

HashInput(U, s) == ClaimInput(s, InstanceElements(U))

\* The hash in a is that of pr's instance with another claim.
Forged(a, pr) ==
  /\ a.i > 0 /\ ClaimOf(pr) # ClaimOf(a)
  /\ a.u_i.x[1] = Hash(pr.U_i, pr.i, pr.z_0, pr.z_i)

LEMMA InstanceElementsAreFive ==
  ASSUME NEW U \in CommittedInstance(2)
  PROVE  InstanceElements(U) \in Seq(Int) /\ Len(InstanceElements(U)) = 5
<1> DEFINE a == <<U.u>>  x == U.x  c == <<U.cmE, U.cmW>>  b == a \o x  d == b \o c
<1>1. U.u \in Int /\ U.cmE \in Int /\ U.cmW \in Int /\ U.x \in [1 .. 2 -> Int]
  BY FpIsInt DEF CommittedInstance
<1>2. x \in Seq(Int) /\ Len(x) = 2
  BY <1>1, PairIsSeq, Zenon
<1>3. a \in Seq(Int) /\ Len(a) = 1 /\ c \in Seq(Int) /\ Len(c) = 2
  BY <1>1
<1> HIDE DEF a, x, c
<1>4. b \in Seq(Int) /\ Len(b) = Len(a) + Len(x)
  BY <1>2, <1>3, Concat, Zenon
<1> HIDE DEF b
<1>5. d \in Seq(Int) /\ Len(d) = Len(b) + Len(c)
  BY <1>3, <1>4, Concat, Zenon
<1> HIDE DEF d
<1>6. d \in Seq(Int) /\ Len(d) = 5
  BY <1>2, <1>3, <1>4, <1>5
<1> QED
  BY <1>6 DEF InstanceElements, a, x, c, b, d

\* A forgery is a collision of the oracle: two different sequences with one answer.
LEMMA ForgedIsCollision ==
  ASSUME NEW a, WellFormed(a), NEW pr, Forged(a, pr),
         pr.U_i \in CommittedInstance(2), pr.i \in Nat, pr.z_0 \in State, pr.z_i \in State,
         Len(pr.z_0) = 1 \/ Len(pr.z_i) = 1
  PROVE  \E U \in CommittedInstance(2) :
           LET s == HashInput(U, a)
               t == HashInput(pr.U_i, pr)
           IN  s # t /\ RoElement(s) = RoElement(t) /\ a.u_i.x[1] = RoElement(s)
<1>1. PICK U \in CommittedInstance(2) : a.u_i.x[1] = Hash(U, a.i, a.z_0, a.z_i)
  BY DEF WellFormed, Forged, HashOfClaim
<1>2. /\ a.i \in Nat /\ a.z_0 \in State /\ a.z_i \in State
      /\ Len(a.z_0) = 1 /\ Len(a.z_i) = 1
  BY DEF WellFormed, Forged
<1> DEFINE s == HashInput(U, a)
           t == HashInput(pr.U_i, pr)
<1>3. RoElement(s) = a.u_i.x[1] /\ RoElement(t) = a.u_i.x[1]
  <2>1. \A V, c : Hash(V, c.i, c.z_0, c.z_i) = RoElement(HashInput(V, c))
    BY DEF Hash, HashInput, ClaimInput, Squeeze
  <2> HIDE DEF s, t
  <2>2. a.u_i.x[1] = Hash(pr.U_i, pr.i, pr.z_0, pr.z_i)
    BY DEF Forged
  <2> QED BY <1>1, <2>1, <2>2 DEF s, t
<1>4. s # t
  <2>1. a.i # pr.i \/ a.z_0 # pr.z_0 \/ a.z_i # pr.z_i
    BY DEF Forged, ClaimOf
  <2> SUFFICES ASSUME s = t PROVE FALSE
    OBVIOUS
  <2> DEFINE e == InstanceElements(U)  f == InstanceElements(pr.U_i)
  <2>2. e \in Seq(Int) /\ f \in Seq(Int) /\ Len(e) = Len(f)
    BY InstanceElementsAreFive
  <2>3. ClaimInput(a, e) = ClaimInput(pr, f)
    BY DEF HashInput
  <2>4. /\ a.z_0 \in Seq(Int) /\ a.z_i \in Seq(Int)
        /\ pr.z_0 \in Seq(Int) /\ pr.z_i \in Seq(Int) /\ pr.z_0 # <<>> /\ pr.z_i # <<>>
    BY <1>2, FpIsInt, SMTT(30) DEF State
  <2> HIDE DEF e, f
  <2>5. a.i \in Nat /\ pr.i \in Nat
    BY <1>2
  <2>6. /\ a.i = pr.i
        /\ Len(a.z_0) = 1 /\ Len(a.z_i) = 1 /\ (Len(pr.z_0) = 1 \/ Len(pr.z_i) = 1)
             => a.z_0 = pr.z_0 /\ a.z_i = pr.z_i
    BY <2>2, <2>3, <2>4, <2>5, ClaimInputBinds
  <2> QED BY <1>2, <2>1, <2>6
<1> QED
  BY <1>3, <1>4

----------------------------------------------------------------------------
\* Nova is a folding scheme.
FSP == INSTANCE FoldingSchemeProofs

LEMMA PrecheckOk ==
  ASSUME NEW s, NEW multi \in BOOLEAN, Precheck(s, multi) = "Ok"
  PROVE  Len(s.z_i) = 1 /\ ~(s.i > UsizeMax)
BY DEF Precheck, StateLen

LEMMA NovaSchemeOk == FSP!SchemeOk
<1>1. FSP!FreshOk
  BY FreshWellFormed DEF FSP!FreshOk, FSP!ClaimOf
<1>2. FSP!ProvedOk
  <2> SUFFICES ASSUME NEW s, NEW ext \in Ext, NEW d \in Draws, NEW multi \in BOOLEAN,
                      WellFormed(s), Precheck(s, multi) = "Ok"
               PROVE  /\ WellFormed(Proved(s, ext, d))
                      /\ ext \in BadExt => FSP!ClaimOf(Proved(s, ext, d)) = FSP!ClaimOf(s)
                      /\ ext \notin BadExt =>
                           /\ s.i <= UsizeMax
                           /\ FSP!ClaimOf(Proved(s, ext, d)) = FSP!Step(FSP!ClaimOf(s), ext)
                           /\ Consistent(s) => Consistent(Proved(s, ext, d))
    BY DEF FSP!ProvedOk
  <2>1. Len(s.z_i) = 1 /\ s.i <= UsizeMax
    BY PrecheckOk, BoundsAssumption DEF WellFormed
  <2>2. WellFormed(Proved(s, ext, d))
    BY <2>1, ProvedWellFormed
  <2>3. ext \notin BadExt /\ Consistent(s) => Consistent(Proved(s, ext, d))
    BY ProvedConsistent
  <2>4. /\ Proved(s, ext, d).z_0 = s.z_0
        /\ ext \in BadExt => Proved(s, ext, d).i = s.i /\ Proved(s, ext, d).z_i = s.z_i
        /\ ext \notin BadExt => /\ Proved(s, ext, d).i = s.i + 1
                                /\ Proved(s, ext, d).z_i = F(s.z_i, ext)
    BY ProvedFields, StepCircuit
  <2> QED BY <2>1, <2>2, <2>3, <2>4 DEF FSP!ClaimOf, FSP!Step
<1> QED
  BY <1>1, <1>2 DEF FSP!SchemeOk

LEMMA NovaVerifyOk == FSP!VerifyOk
<1> SUFFICES ASSUME NEW s, WellFormed(s), Consistent(s) PROVE Verify(s)
  BY DEF FSP!VerifyOk
<1>1. CASE s.i = 0
  <2> DEFINE z == s.z_0
  <2> HIDE DEF z
  <2>1. s = FreshProver(z)
    BY <1>1 DEF WellFormed, z
  <2> QED BY <1>1, <2>1 DEF FreshProver, Verify
<1>2. CASE s.i # 0
  <2>1. s.i > 0
    BY <1>2 DEF WellFormed
  <2>2. /\ CheckRelation(AugR1CS, s.w_i, s.u_i) /\ CheckRelation(AugR1CS, s.W_i, s.U_i)
        /\ CheckRelation(CfR1CS, s.cf_W_i, s.cf_U_i)
        /\ s.u_i \in CommittedInstance(2) /\ s.U_i \in CommittedInstance(2)
    BY AugCircuit DEF WellFormed, Sound
  <2>3. DOMAIN s.u_i.x = 1 .. 2 /\ DOMAIN s.U_i.x = 1 .. 2
    BY <2>2 DEF CommittedInstance
  <2>4. HashesMatch(s) /\ IsIncoming(s.u_i)
    BY <2>1 DEF Consistent, WellFormed
  <2> QED BY <1>2, <2>2, <2>3, <2>4 DEF Verify
<1> QED
  BY <1>1, <1>2

\* What verify accepts is the claim of the struct whose hashes it is given.
LEMMA NovaBindsOk == FSP!BindsOk
<1> SUFFICES ASSUME NEW a, NEW b, NEW mixed \in Mixed, WellFormed(a), WellFormed(b),
                    Verify(FSP!MixedUp(a, b, mixed))
             PROVE  \/ FSP!ClaimOf(FSP!MixedUp(a, b, mixed))
                         \in {FSP!ClaimOf(a), FSP!NoSteps(a), FSP!NoSteps(b)}
                    \/ Forged(a, FSP!MixedUp(a, b, mixed))
  BY DEF FSP!BindsOk
<1> DEFINE pr == FSP!MixedUp(a, b, mixed)
<1>1. /\ pr.i = (IF "i" \in mixed THEN b.i ELSE a.i)
      /\ pr.z_0 = (IF "z_0" \in mixed THEN b.z_0 ELSE a.z_0)
      /\ pr.z_i = (IF "z_i" \in mixed THEN b.z_i ELSE a.z_i)
      /\ pr.u_i = (IF "u_i" \in mixed THEN b.u_i ELSE a.u_i)
  BY DEF FSP!MixedUp, WellFormed, Fields
<1> HIDE DEF pr
<1>2. CASE pr.i = 0
  <2>1. pr.z_0 = pr.z_i
    BY <1>2 DEF Verify, pr
  <2>2. FSP!ClaimOf(pr) = FSP!NoSteps(a) \/ FSP!ClaimOf(pr) = FSP!NoSteps(b)
    BY <1>1, <1>2, <2>1 DEF FSP!ClaimOf, FSP!NoSteps
  <2> QED BY <2>2 DEF pr
<1>3. CASE pr.i # 0 /\ "u_i" \in mixed
  <2>1. mixed = {"w_i", "u_i"}
    BY <1>3 DEF Mixed
  <2>2. FSP!ClaimOf(pr) = FSP!ClaimOf(a)
    BY <1>1, <2>1 DEF FSP!ClaimOf
  <2> QED BY <2>2 DEF pr
<1>4. CASE pr.i # 0 /\ "u_i" \notin mixed
  <2>1. HashesMatch(pr) /\ IsIncoming(pr.u_i)
    BY <1>4 DEF Verify, pr
  <2>2. pr.u_i = a.u_i
    BY <1>1, <1>4
  <2>3. a.u_i.x[1] = Hash(pr.U_i, pr.i, pr.z_0, pr.z_i) /\ a.u_i.u = 1
    BY <2>1, <2>2 DEF HashesMatch, IsIncoming
  <2>4. a.i > 0
    <3> SUFFICES ASSUME a.i = 0 PROVE FALSE
      BY DEF WellFormed
    <3> DEFINE z == a.z_0
    <3> HIDE DEF z
    <3>1. a = FreshProver(z)
      BY DEF WellFormed, z
    <3> QED BY <2>3, <3>1 DEF FreshProver, DummyInstance
  <2>5. FSP!ClaimOf(pr) = ClaimOf(pr) /\ FSP!ClaimOf(a) = ClaimOf(a)
    BY DEF FSP!ClaimOf, ClaimOf
  <2> QED BY <2>3, <2>4, <2>5 DEF Forged, pr
<1> QED
  BY <1>2, <1>3, <1>4

\* The sentinel of a party without a prover is neither a struct nor a claim.
NoProverApart == DOMAIN NoProver \notin {Fields, {"i", "z_0", "z_i"}}

LEMMA NovaNoProverOk == ASSUME NoProverApart PROVE FSP!NoProverOk
<1> SUFFICES ASSUME NEW s, WellFormed(s)
             PROVE  s # NoProver /\ FSP!ClaimOf(s) # NoProver
  BY DEF FSP!NoProverOk
<1>1. DOMAIN s = Fields
  BY DEF WellFormed
<1>2. DOMAIN FSP!ClaimOf(s) = {"i", "z_0", "z_i"}
  BY DEF FSP!ClaimOf
<1> QED
  BY <1>1, <1>2 DEF NoProverApart

LEMMA NovaConstantsOk == FSP!Abs!ConstantsOk
<1>1. \A z \in State, e \in Ext \ BadExt : F(z, e) \in State
  BY FIsState
<1> QED
  BY <1>1, Z0Assumption, BoundsAssumption DEF FSP!Abs!ConstantsOk

LEMMA SameSpec ==
  /\ Init <=> FSP!Init
  /\ [Next]_vars <=> [FSP!Next]_FSP!vars
<1>1. Init <=> FSP!Init
  BY DEF Init, FSP!Init, Returned, FSP!Returned
<1>2. \A p \in Party, z_0 \in Z0 : InitProver(p, z_0) <=> FSP!InitProver(p, z_0)
  BY DEF InitProver, FSP!InitProver, Returned, FSP!Returned
<1>3. \A p \in Party, ext \in Ext, multi \in BOOLEAN, d \in Draws :
        ProveStep(p, ext, multi, d) <=> FSP!ProveStep(p, ext, multi, d)
  BY DEF ProveStep, FSP!ProveStep, Returned, FSP!Returned
<1>4. \A p \in Party : Send(p) <=> FSP!Send(p)
  BY DEF Send, FSP!Send, Returned, FSP!Returned, Cardinality, FSP!Cardinality
<1>5. \A p \in Party, pr \in sent : Receive(p, pr) <=> FSP!Receive(p, pr)
  BY DEF Receive, FSP!Receive, Returned, FSP!Returned
<1>6. \A a, b \in sent, mixed \in Mixed : VerifyProof(a, b, mixed) <=> FSP!VerifyProof(a, b, mixed)
  BY DEF VerifyProof, FSP!VerifyProof, Returned, FSP!Returned, ClaimOf, FSP!ClaimOf
<1>7. Next <=> FSP!Next
  BY <1>2, <1>3, <1>4, <1>5, <1>6 DEF Next, FSP!Next
<1> QED
  BY <1>1, <1>7 DEF vars, FSP!vars

\* A prover's proof verifies at any time, whoever started it and however often it
\* changed hands, as long as no step failed inside F's circuit.
THEOREM NovaCompleteness == Spec => []UnfailedProofVerifies
<1>1. FSP!Spec => []FSP!UnfailedProofVerifies
  BY NovaSchemeOk, NovaVerifyOk, FSP!Completeness
<1>2. FSP!UnfailedProofVerifies => UnfailedProofVerifies
  BY DEF FSP!UnfailedProofVerifies, UnfailedProofVerifies, FSP!ProofVerifies, ProofVerifies,
         FSP!Provers, Provers
<1> QED
  BY <1>1, <1>2, SameSpec, PTL DEF Spec, FSP!Spec

\* Some way to mix up two published proofs keeps a hash and changes its claim.
Forgery ==
  \E a, b \in sent, mixed \in Mixed :
    Forged(a, [k \in DOMAIN a |-> IF k \in mixed THEN b[k] ELSE a[k]])

LEMMA SameAbs ==
  /\ FSP!Abs!AInit => Abs!AInit
  /\ [FSP!Abs!ANext]_FSP!Abs!avars => [Abs!ANext]_Abs!avars
<1>1. FSP!Abs!AInit => Abs!AInit
  BY DEF FSP!Abs!AInit, Abs!AInit, FSP!ClaimOf, ClaimOf
<1>2. [FSP!Abs!ANext]_FSP!Abs!avars => [Abs!ANext]_Abs!avars
  BY DEF FSP!Abs!ANext, FSP!Abs!avars, FSP!Abs!Begin, FSP!Abs!Advance, FSP!Abs!Publish,
         FSP!Abs!Adopt, FSP!Abs!Fail, FSP!Abs!Accept, FSP!Abs!Trivial, FSP!ClaimOf,
         Abs!ANext, Abs!avars, Abs!Begin, Abs!Advance, Abs!Publish,
         Abs!Adopt, Abs!Fail, Abs!Accept, Abs!Trivial, ClaimOf
<1> QED
  BY <1>1, <1>2

\* Forgetting all but the claims, Nova implements IVC unless a published hash is
\* that of a second claim: every step of the parties is one of the abstract
\* specification's.
THEOREM NovaImplementsIVC ==
  ASSUME NoProverApart PROVE Spec /\ []~Forgery => ImplementsIVC
<1>1. FSP!Spec /\ []~FSP!Forgery => FSP!ImplementsIVC
  BY NovaSchemeOk, NovaBindsOk, NovaNoProverOk, FSP!Refinement
<1>2. ~Forgery => ~FSP!Forgery
  BY DEF Forgery, FSP!Forgery, FSP!MixedUp
<1> QED
  BY <1>1, <1>2, SameSpec, SameAbs, PTL
     DEF Spec, FSP!Spec, ImplementsIVC, FSP!ImplementsIVC, Abs!ASpec, FSP!Abs!ASpec

\* What verify accepts is true: some run of F of that length leads from z_0 to z_i.
THEOREM NovaSoundness ==
  ASSUME NoProverApart PROVE Spec /\ []~Forgery => []Abs!AcceptedTrue
<1>1. FSP!Spec /\ []~FSP!Forgery => []FSP!Abs!AcceptedTrue
  BY NovaSchemeOk, NovaBindsOk, NovaNoProverOk, NovaConstantsOk, FSP!Soundness
<1>2. ~Forgery => ~FSP!Forgery
  BY DEF Forgery, FSP!Forgery, FSP!MixedUp
<1>3. FSP!Abs!AcceptedTrue => Abs!AcceptedTrue
  BY DEF FSP!Abs!AcceptedTrue, FSP!Abs!True, Abs!AcceptedTrue, Abs!True
<1> QED
  BY <1>1, <1>2, <1>3, SameSpec, PTL DEF Spec, FSP!Spec

----------------------------------------------------------------------------
\* The zero-knowledge layer.

ZkFields == {"i", "z_0", "z_i", "U_i", "u_i", "U_r", "pi", "pi_prime", "W_i_prime",
             "cf_U_i", "cf_W_i"}

\* A randomized proof of a good struct: a proof of no steps has its dummy instance.
ZGood(pr) ==
  /\ DOMAIN pr = ZkFields /\ pr.i \in Nat
  /\ pr.i = 0 => pr.u_i = DummyInstance(2)
  /\ failures = 0 => ZkVerify(pr)

ZInv == FSP!FInv /\ \A pr \in zk : ZGood(pr)

\* What the verifier folds from the instances is what the prover folded.
LEMMA VerifyIsProve ==
  ASSUME NEW tr, NEW W, NEW U, NEW w, NEW u
  PROVE  LET f == NIFSProve(AugR1CS, G, tr, PpHash, W, U, w, u)
             v == NIFSVerify(tr, PpHash, U, u, f.cmT)
         IN  v.U = f.U /\ v.tr = f.tr
BY DEF NIFSProve, NIFSVerify

LEMMA RandomizedChecked ==
  ASSUME NEW s, WellFormed(s), HashesMatch(s), s.i > 0, Hiding,
         NEW z \in Samples, NEW blinders \in SampleBlinders
  PROVE  ZkVerify(Randomized(s, z, blinders))
<1> DEFINE f   == NIFSProve(AugR1CS, G, <<>>, PpHash, s.w_i, s.u_i, s.W_i, s.U_i)
           W_r == SampledWitness(AugR1CS, z, blinders[1], blinders[2])
           U_r == SampledInstance(G, AugR1CS, z, W_r)
           h   == NIFSProve(AugR1CS, G, f.tr, PpHash, f.W, f.U, W_r, U_r)
           pr  == Randomized(s, z, blinders)
<1>1. /\ pr.i = s.i /\ pr.z_0 = s.z_0 /\ pr.z_i = s.z_i /\ pr.U_i = s.U_i /\ pr.u_i = s.u_i
      /\ pr.U_r = U_r /\ pr.pi = f.cmT /\ pr.pi_prime = h.cmT /\ pr.W_i_prime = h.W
      /\ pr.cf_U_i = s.cf_U_i /\ pr.cf_W_i = s.cf_W_i
  BY DEF Randomized
<1>2. /\ Sound(AugR1CS, G, s.w_i, s.u_i) /\ Sound(AugR1CS, G, s.W_i, s.U_i)
      /\ Sound(CfR1CS, CfG, s.cf_W_i, s.cf_U_i) /\ IsIncoming(s.u_i)
      /\ s.u_i \in CommittedInstance(2)
  BY AugCircuit DEF WellFormed, Sound
<1>3. Sound(AugR1CS, G, f.W, f.U)
  BY <1>2, PrimaryFoldSound
<1>4. Sound(AugR1CS, G, W_r, U_r)
  <2>1. z \in Vec /\ blinders[1] \in Fp /\ blinders[2] \in Fp
    BY SamplesAssumption, SampleBlindersAssumption
  <2> QED BY <2>1, AugCircuit, GAssumption, SampledSound
<1> HIDE DEF W_r, U_r, pr
<1>5. FoldedInstance(pr) = h.U
  <2> DEFINE v == NIFSVerify(<<>>, PpHash, s.u_i, s.U_i, f.cmT)
             y == NIFSVerify(f.tr, PpHash, f.U, U_r, h.cmT)
  <2>1. v.U = f.U /\ v.tr = f.tr
    BY VerifyIsProve
  <2>2. y.U = h.U
    BY VerifyIsProve
  <2>3. FoldedInstance(pr) = NIFSVerify(v.tr, PpHash, v.U, pr.U_r, pr.pi_prime).U
    BY <1>1 DEF FoldedInstance
  <2> HIDE DEF f, h, v
  <2>4. FoldedInstance(pr) = y.U
    BY <1>1, <2>1, <2>3
  <2> QED BY <2>2, <2>4
<1> HIDE DEF f
<1>6. Sound(AugR1CS, G, h.W, h.U)
  BY <1>3, <1>4, PrimaryFoldSound
<1> HIDE DEF h
<1>7. RandomizedWitnessChecked(pr)
  BY <1>1, <1>2, <1>5, <1>6 DEF RandomizedWitnessChecked, Sound
<1>8. HashesMatch(pr)
  BY <1>1 DEF HashesMatch
<1>9. DOMAIN pr.u_i.x = 1 .. 2 /\ IsIncoming(pr.u_i)
  BY <1>1, <1>2 DEF CommittedInstance
<1>10. ZkVerify(pr)
  BY <1>1, <1>7, <1>8, <1>9 DEF ZkVerify
<1> QED
  BY <1>10 DEF pr

LEMMA RandomizeGood ==
  ASSUME ZInv, NEW p \in Party, NEW z \in Samples, NEW blinders \in SampleBlinders,
         Randomize(p, z, blinders)
  PROVE  ZInv'
<1> DEFINE s  == st[p]
           pr == Randomized(s, z, blinders)
<1>1. /\ WellFormed(s) /\ (failures = 0 => Consistent(s)) /\ Hiding
      /\ st' = st /\ sent' = sent /\ failures' = failures /\ zk' = zk \union {pr}
  BY DEF Randomize, ZInv, FSP!FInv, FSP!Provers, FSP!Good
<1>2. FSP!FInv'
  BY <1>1 DEF ZInv, FSP!FInv, FSP!Provers, FSP!Good
<1> HIDE DEF s
<1>3. DOMAIN pr = ZkFields /\ pr.i = s.i /\ pr.u_i = s.u_i /\ pr.z_0 = s.z_0 /\ pr.z_i = s.z_i
  BY DEF Randomized, ZkFields
<1> HIDE DEF pr
<1>4. s.i = 0 => s.u_i = DummyInstance(2) /\ s.z_0 = s.z_i
  <2> DEFINE y == s.z_0
  <2> HIDE DEF y
  <2>1. s.i = 0 => s = FreshProver(y)
    BY <1>1 DEF WellFormed, y
  <2> QED BY <2>1 DEF FreshProver
<1>5. failures = 0 => ZkVerify(pr)
  <2>1. CASE s.i = 0
    BY <1>3, <1>4, <2>1 DEF ZkVerify
  <2>2. CASE s.i # 0
    <3>1. s.i > 0
      BY <1>1, <2>2 DEF WellFormed
    <3> QED BY <1>1, <3>1, RandomizedChecked DEF Consistent, pr
  <2> QED BY <2>1, <2>2
<1>6. \A q \in zk' : ZGood(q)'
  BY <1>1, <1>3, <1>4, <1>5 DEF ZInv, ZGood, WellFormed
<1> QED
  BY <1>2, <1>6 DEF ZInv

LEMMA NextGood == ASSUME ZInv, Next, zk' = zk PROVE ZInv'
<1>1. FSP!FInv'
  BY SameSpec, NovaSchemeOk, FSP!FNext DEF ZInv
<1>2. failures \in Nat /\ (failures' = failures \/ failures' = failures + 1)
  BY DEF ZInv, FSP!FInv, Next, InitProver, ProveStep, Send, Receive, VerifyProof
<1>3. failures' = 0 => failures = 0
  BY <1>2
<1> QED
  BY <1>1, <1>3 DEF ZInv, ZGood

LEMMA ZStep == ZInv /\ [ZNext]_zvars => ZInv'
<1> SUFFICES ASSUME ZInv, [ZNext]_zvars PROVE ZInv'
  OBVIOUS
<1>1. CASE UNCHANGED <<st, sent, failures, zk>>
  <2>1. FSP!FInv'
    BY <1>1 DEF ZInv, FSP!FInv, FSP!Provers, FSP!Good
  <2> QED BY <1>1, <2>1 DEF ZInv, ZGood
<1>2. CASE Next /\ UNCHANGED zk
  BY <1>2, NextGood
<1>3. CASE \E p \in Party, z \in Samples, blinders \in SampleBlinders : Randomize(p, z, blinders)
  BY <1>3, RandomizeGood
<1> QED
  BY <1>1, <1>2, <1>3 DEF ZNext, ZkVerifyProof, zvars

LEMMA ZBegins == ZInit => ZInv
BY SameSpec, FSP!FInit DEF ZInit, ZInv

LEMMA ZInvariant == ZSpec => []ZInv
BY ZBegins, ZStep, PTL DEF ZSpec

\* A randomized proof verifies, whatever prover state it was made of, that of zero
\* steps included, and whatever the sampler drew, as long as no step failed in F's
\* circuit.
THEOREM ZkCompleteness == ZSpec => [](failures = 0 => RandomizedVerifies)
<1>1. ZInv => (failures = 0 => RandomizedVerifies)
  BY DEF ZInv, ZGood, RandomizedVerifies
<1> QED
  BY <1>1, ZInvariant, PTL

\* The same of two published randomized proofs.
ZkForgery ==
  \/ Forgery
  \/ \E a, b \in zk, mixed \in ZkMixed :
       Forged(a, [k \in DOMAIN a |-> IF k \in mixed THEN b[k] ELSE a[k]])

\* Publishing more than sent, the abstract specification can still take its steps.
LEMMA NextRefines ==
  ASSUME NoProverApart, ZInv, ~ZkForgery, Next, zk' = zk
  PROVE  ZkAbs!ANext \/ UNCHANGED ZkAbs!avars
<1>1. FSP!FInv /\ ~FSP!Forgery
  BY DEF ZInv, ZkForgery, Forgery, FSP!Forgery, FSP!MixedUp
<1>2. [FSP!Next]_FSP!vars
  BY SameSpec
<1>3. [FSP!Abs!ANext]_FSP!Abs!avars
  BY <1>1, <1>2, NovaSchemeOk, NovaBindsOk, NovaNoProverOk, FSP!StepRefines
<1>4. [Abs!ANext]_Abs!avars
  BY <1>3, SameAbs
<1>5. /\ {ClaimOf(pr) : pr \in sent \union zk}
           = {ClaimOf(pr) : pr \in sent} \union {ClaimOf(pr) : pr \in zk}
      /\ {ClaimOf(pr) : pr \in sent \union zk}'
           = {ClaimOf(pr) : pr \in sent}' \union {ClaimOf(pr) : pr \in zk}
  OBVIOUS
<1>6. CASE UNCHANGED Abs!avars
  BY <1>5, <1>6 DEF Abs!avars, ZkAbs!avars
<1>7. CASE \E p \in Party : Abs!Begin(p)
  BY <1>5, <1>7 DEF Abs!Begin, ZkAbs!Begin, ZkAbs!ANext
<1>8. CASE \E p \in Party : Abs!Advance(p)
  BY <1>5, <1>8 DEF Abs!Advance, ZkAbs!Advance, ZkAbs!ANext
<1>9. CASE \E p \in Party : Abs!Publish(p)
  BY <1>5, <1>9 DEF Abs!Publish, ZkAbs!Publish, ZkAbs!ANext
<1>10. CASE \E p \in Party : Abs!Adopt(p)
  BY <1>5, <1>10 DEF Abs!Adopt, ZkAbs!Adopt, ZkAbs!ANext
<1>11. CASE Abs!Fail
  BY <1>5, <1>11 DEF Abs!Fail, ZkAbs!Fail, ZkAbs!ANext
<1>12. CASE Abs!Accept
  BY <1>5, <1>12 DEF Abs!Accept, Abs!Trivial, ZkAbs!Accept, ZkAbs!Trivial, ZkAbs!ANext
<1> QED
  BY <1>4, <1>6, <1>7, <1>8, <1>9, <1>10, <1>11, <1>12 DEF Abs!ANext

LEMMA RandomizePublishes ==
  ASSUME ZInv, NEW p \in Party, NEW z \in Samples, NEW blinders \in SampleBlinders,
         NoProverApart, Randomize(p, z, blinders)
  PROVE  ZkAbs!Publish(p)
<1> DEFINE pr == Randomized(st[p], z, blinders)
<1>1. /\ st[p] # NoProver /\ st' = st /\ sent' = sent /\ zk' = zk \union {pr}
      /\ verdict'.claim = NoProver
  BY DEF Randomize, Returned
<1>2. WellFormed(st[p])
  BY <1>1 DEF ZInv, FSP!FInv, FSP!Provers, FSP!Good
<1>3. ClaimOf(st[p]) # NoProver
  BY <1>2, NovaNoProverOk DEF FSP!NoProverOk, FSP!ClaimOf, ClaimOf
<1>4. ClaimOf(pr) = ClaimOf(st[p])
  BY DEF Randomized, ClaimOf
<1> HIDE DEF pr
<1>5. {ClaimOf(q) : q \in sent' \union zk'}
        = {ClaimOf(q) : q \in sent \union zk} \union {ClaimOf(st[p])}
  BY <1>1, <1>4
<1> QED
  BY <1>1, <1>3, <1>5 DEF ZkAbs!Publish

LEMMA ZkVerifyAccepts ==
  ASSUME ZInv, ~ZkForgery, NEW a \in zk, NEW b \in zk, NEW mixed \in ZkMixed,
         ZkVerifyProof(a, b, mixed)
  PROVE  ZkAbs!Accept \/ ZkAbs!Fail
<1> DEFINE pr == [k \in DOMAIN a |-> IF k \in mixed THEN b[k] ELSE a[k]]
           published == {ClaimOf(q) : q \in sent \union zk}
<1>1. /\ st' = st /\ sent' = sent /\ zk' = zk
      /\ verdict'.claim = IF ZkVerify(pr) THEN ClaimOf(pr) ELSE NoProver
  BY DEF ZkVerifyProof, Returned
<1>2. CASE ~ZkVerify(pr)
  BY <1>1, <1>2 DEF ZkAbs!Fail
<1>3. CASE ZkVerify(pr)
  <2>1. /\ pr.i = (IF "i" \in mixed THEN b.i ELSE a.i)
        /\ pr.z_0 = (IF "z_0" \in mixed THEN b.z_0 ELSE a.z_0)
        /\ pr.z_i = (IF "z_i" \in mixed THEN b.z_i ELSE a.z_i)
        /\ pr.u_i = (IF "u_i" \in mixed THEN b.u_i ELSE a.u_i)
    BY DEF ZInv, ZGood, ZkFields
  <2>2. ~Forged(a, pr)
    BY DEF ZkForgery
  <2> HIDE DEF pr
  <2>3. ClaimOf(a) \in published /\ ClaimOf(b) \in published
    OBVIOUS
  <2>4. CASE pr.i = 0
    <3>1. pr.z_0 = pr.z_i
      BY <1>3, <2>4 DEF ZkVerify
    <3>2. ClaimOf(pr) = [i |-> 0, z_0 |-> ClaimOf(a).z_0, z_i |-> ClaimOf(a).z_0]
          \/ ClaimOf(pr) = [i |-> 0, z_0 |-> ClaimOf(b).z_0, z_i |-> ClaimOf(b).z_0]
      BY <2>1, <2>4, <3>1 DEF ClaimOf
    <3>3. ClaimOf(pr) \in {[i |-> 0, z_0 |-> c.z_0, z_i |-> c.z_0] : c \in published}
      BY <2>3, <3>2
    <3> QED BY <1>1, <1>3, <3>3 DEF ZkAbs!Accept, ZkAbs!Trivial
  <2>5. CASE pr.i # 0 /\ "u_i" \in mixed
    <3>1. mixed = {"u_i"} \/ mixed = {"U_i", "u_i"}
      BY <2>5 DEF ZkMixed
    <3>2. ClaimOf(pr) = ClaimOf(a)
      BY <2>1, <3>1 DEF ClaimOf
    <3> QED BY <1>1, <1>3, <2>3, <3>2 DEF ZkAbs!Accept
  <2>6. CASE pr.i # 0 /\ "u_i" \notin mixed
    <3>1. HashesMatch(pr) /\ IsIncoming(pr.u_i)
      BY <1>3, <2>6 DEF ZkVerify
    <3>2. a.u_i.x[1] = Hash(pr.U_i, pr.i, pr.z_0, pr.z_i) /\ a.u_i.u = 1
      BY <2>1, <2>6, <3>1 DEF HashesMatch, IsIncoming
    <3>3. a.i > 0
      BY <3>2 DEF ZInv, ZGood, DummyInstance
    <3>4. ClaimOf(pr) = ClaimOf(a)
      BY <2>2, <3>2, <3>3 DEF Forged
    <3> QED BY <1>1, <1>3, <2>3, <3>4 DEF ZkAbs!Accept
  <2> QED BY <2>4, <2>5, <2>6
<1> QED
  BY <1>2, <1>3

LEMMA ZStepRefines ==
  ASSUME NoProverApart
  PROVE  ZInv /\ ~ZkForgery /\ [ZNext]_zvars => [ZkAbs!ANext]_ZkAbs!avars
<1> SUFFICES ASSUME ZInv, ~ZkForgery, [ZNext]_zvars PROVE [ZkAbs!ANext]_ZkAbs!avars
  OBVIOUS
<1>1. CASE UNCHANGED zvars
  BY <1>1 DEF zvars, ZkAbs!avars
<1>2. CASE Next /\ UNCHANGED zk
  BY <1>2, NextRefines
<1>3. CASE \E p \in Party, z \in Samples, blinders \in SampleBlinders : Randomize(p, z, blinders)
  BY <1>3, RandomizePublishes DEF ZkAbs!ANext
<1>4. CASE \E a, b \in zk, mixed \in ZkMixed : ZkVerifyProof(a, b, mixed)
  BY <1>4, ZkVerifyAccepts DEF ZkAbs!ANext
<1> QED
  BY <1>1, <1>2, <1>3, <1>4 DEF ZNext

LEMMA ZkBegins == ZInit => ZkAbs!AInit
BY DEF ZInit, Init, Returned, ZkAbs!AInit

\* With randomized proofs among those published, Nova still implements IVC.
THEOREM NovaZkImplementsIVC ==
  ASSUME NoProverApart PROVE ZSpec /\ []~ZkForgery => ZkImplementsIVC
BY ZInvariant, ZkBegins, ZStepRefines, PTL DEF ZSpec, ZkImplementsIVC, ZkAbs!ASpec

----------------------------------------------------------------------------
\* The deciders.

\* What a struct holds, whether or not its fields belong together.
Typed(s) ==
  /\ s.i \in Nat /\ s.z_0 \in State /\ s.z_i \in State
  /\ s.w_i \in Witness(2) /\ s.u_i \in CommittedInstance(2)
  /\ s.W_i \in Witness(2) /\ s.U_i \in CommittedInstance(2)
  /\ s.cf_W_i \in Witness(4) /\ s.cf_U_i \in CommittedInstance(4)

\* What the deciders look at: the last fold, and what is left of verify.
FoldHolds(s) ==
  LET f == PrimaryFold(s)
  IN  CheckRelation(AugR1CS, f.W, f.U) /\ Opens(G, f.W, f.U)
RestHolds(s) ==
  /\ IsIncoming(s.u_i) /\ HashesMatch(s)
  /\ CheckRelation(CfR1CS, s.cf_W_i, s.cf_U_i) /\ Opens(CfG, s.cf_W_i, s.cf_U_i)

\* What verify looks at instead of the fold, with the openings.
PartsHold(s) ==
  /\ CheckRelation(AugR1CS, s.w_i, s.u_i) /\ Opens(G, s.w_i, s.u_i)
  /\ CheckRelation(AugR1CS, s.W_i, s.U_i) /\ Opens(G, s.W_i, s.U_i)

LEMMA LastFoldTyped ==
  ASSUME NEW s, Typed(s), NEW f, f = PrimaryFold(s)
  PROVE  /\ f.W \in Witness(2) /\ f.U \in CommittedInstance(2) /\ f.r \in Fp /\ f.cmT \in Fp
         /\ \E T \in Vec : /\ T = ComputeT(AugR1CS, s.U_i, s.W_i, s.u_i, s.w_i)
                           /\ f.cmT = Commit(G, T, 0) /\ f.W = FoldWitness(f.r, s.W_i, s.w_i, T)
                           /\ f.U = FoldCommittedInstances(f.r, s.U_i, s.u_i, f.cmT)
         /\ s.u_i.cmE = 0 => f.U.cmE = Rlc(s.U_i.cmE, f.r, f.cmT)
<1> DEFINE T  == ComputeT(AugR1CS, s.U_i, s.W_i, s.u_i, s.w_i)
<1>1. Circuit(AugR1CS) /\ MatricesOk(AugR1CS) /\ AugR1CS.l = 2
  BY AugCircuit DEF Circuit
<1>2. T \in ErrorVec
  BY <1>1, CrossTermIsError DEF Typed
<1>3. T \in Vec /\ T[0] = 0
  BY <1>2 DEF ErrorVec
<1>4. /\ f.cmT = Commit(G, T, 0) /\ f.W = FoldWitness(f.r, s.W_i, s.w_i, T)
      /\ f.U = FoldCommittedInstances(f.r, s.U_i, s.u_i, f.cmT)
      /\ f.r = Squeeze(Absorb(<<>>, ChallengeInput(PpHash, s.U_i, s.u_i, f.cmT))).r
  BY DEF PrimaryFold, NIFSProve
<1> HIDE DEF T
<1>5. f.r \in Fp /\ f.cmT \in Fp
  BY <1>3, <1>4, SqueezeInFp, CrossCommitInFp, GAssumption
<1>6. f.W \in Witness(2) /\ f.U \in CommittedInstance(2)
  BY <1>1, <1>3, <1>4, <1>5, FoldWellFormed DEF Typed
<1>7. s.u_i.cmE = 0 => f.U.cmE = Rlc(s.U_i.cmE, f.r, f.cmT)
  <2>1. s.U_i.cmE \in Fp /\ (f.r * f.r) % P \in Fp
    BY <1>5, SquareInFp DEF Typed, CommittedInstance
  <2>2. Rlc(s.U_i.cmE, f.r, f.cmT) \in Fp
    BY <1>5, <2>1, RlcCong
  <2>3. f.U.cmE = Rlc(Rlc(s.U_i.cmE, f.r, f.cmT), (f.r * f.r) % P, s.u_i.cmE)
    BY <1>4 DEF FoldCommittedInstances
  <2> QED BY <2>1, <2>2, <2>3, RlcZero
<1> QED
  BY <1>3, <1>4, <1>5, <1>6, <1>7 DEF T

\* Without blinders a commitment is one of KZG's.
LEMMA CommitIsKzg ==
  ASSUME ~Hiding, NEW v \in Vec, NEW r
  PROVE  /\ Commit(G, v, r) = KzgCommit(Entries(v)) /\ Commit(CfG, v, r) = KzgCommit(Entries(v))
         /\ Dot(CfG, v) = KzgCommit(Entries(v))
<1>1. KzgCommit(Entries(v)) = Dot(G, v) /\ Dot(G, v) \in Fp
  BY KzgKeyAssumption, KzgIsDot
<1>2. KzgCommit(Entries(v)) = Dot(CfG, v) /\ Dot(CfG, v) \in Fp
  BY KzgKeyAssumption, KzgIsDot
<1>3. Dot(G, v) + 0 = Dot(G, v) /\ Dot(CfG, v) + 0 = Dot(CfG, v)
  BY <1>1, <1>2, FpIsInt
<1>4. Commit(G, v, r) = Dot(G, v) % P /\ Commit(CfG, v, r) = Dot(CfG, v) % P
  BY <1>3 DEF Commit
<1> QED
  BY <1>1, <1>2, <1>4, ModOfFp

\* The two vectors a witness opens the commitments of its instance with.
LEMMA OpensIsKzg ==
  ASSUME ~Hiding, NEW l \in 0 .. 7, NEW w \in Witness(l), NEW u
  PROVE  /\ Entries(w.W) \in List(Int, 8) /\ Entries(w.E) \in List(Int, 8)
         /\ Opens(G, w, u) <=> u.cmW = KzgCommit(Entries(w.W)) /\ u.cmE = KzgCommit(Entries(w.E))
         /\ Opens(CfG, w, u) <=> u.cmW = KzgCommit(Entries(w.W)) /\ u.cmE = KzgCommit(Entries(w.E))
         /\ Opens(CfG, w, u) <=> CfCommitted(w, u)
<1>1. w.W \in Vec /\ w.E \in Vec
  BY WitnessParts
<1> QED
  BY <1>1, CommitIsKzg, EntriesIs DEF Opens, OpensW, OpensE, CfCommitted

\* A proof with KZG that two vectors open two commitments.
KzgPair(w, cs) == [j \in DOMAIN cs |-> KzgProveWithChallenge(cs[j], Openings(w)[j])]

LEMMA KzgPairOpens ==
  ASSUME NEW w, Entries(w.W) \in List(Int, 8), Entries(w.E) \in List(Int, 8),
         NEW tr, NEW cms, Len(cms) = 2, cms = <<cms[1], cms[2]>>,
         NEW a \in Fp, NEW b \in Fp,
         NEW cs, cs = KzgChallenges(tr, cms), NEW pfs, pfs = KzgPair(w, cs)
  PROVE  /\ Eth!Evals(pfs) = Eth!Evaluations(Openings(w), cs)
         /\ Eth!KzgOk(<<a, b>>, cs, pfs)
              <=> a = KzgCommit(Entries(w.W)) /\ b = KzgCommit(Entries(w.E))
<1>1. DOMAIN cs = 1 .. 2 /\ cs[1] \in Fp /\ cs[2] \in Fp
  BY KzgChallengesAre
<1>2. Openings(w)[1] = Entries(w.W) /\ Openings(w)[2] = Entries(w.E)
  BY DEF Openings
<1>3. /\ DOMAIN pfs = 1 .. 2
      /\ pfs[1] = KzgProveWithChallenge(cs[1], Entries(w.W))
      /\ pfs[2] = KzgProveWithChallenge(cs[2], Entries(w.E))
  BY <1>1, <1>2 DEF KzgPair
<1>4. /\ pfs[1].eval = EvalVec(Entries(w.W), cs[1])
      /\ KzgVerifyWithChallenge(cs[1], a, pfs[1]) <=> a = KzgCommit(Entries(w.W))
  BY <1>1, <1>3, KzgOpens
<1>5. /\ pfs[2].eval = EvalVec(Entries(w.E), cs[2])
      /\ KzgVerifyWithChallenge(cs[2], b, pfs[2]) <=> b = KzgCommit(Entries(w.E))
  BY <1>1, <1>3, KzgOpens
<1>6. Eth!Evals(pfs) = Eth!Evaluations(Openings(w), cs)
  <2>1. \A j \in 1 .. 2 : pfs[j].eval = EvalVec(Openings(w)[j], cs[j])
    <3>1. \A j \in 1 .. 2 : j = 1 \/ j = 2
      OBVIOUS
    <3> QED BY <1>2, <1>4, <1>5, <3>1
  <2> QED BY <1>1, <1>3, <2>1 DEF Eth!Evals, Eth!Evaluations
<1>7. Eth!KzgOk(<<a, b>>, cs, pfs)
        <=> KzgVerifyWithChallenge(cs[1], a, pfs[1]) /\ KzgVerifyWithChallenge(cs[2], b, pfs[2])
  <2>1. DOMAIN <<a, b>> = 1 .. 2 /\ <<a, b>>[1] = a /\ <<a, b>>[2] = b
        /\ \A j \in 1 .. 2 : j = 1 \/ j = 2
    OBVIOUS
  <2> QED BY <2>1 DEF Eth!KzgOk
<1> QED
  BY <1>4, <1>5, <1>6, <1>7

\* The circuit of a struct.
LEMMA LastCircuitIs ==
  ASSUME NEW s, Typed(s), NEW f, f = PrimaryFold(s), NEW c, c = Eth!TryFrom(s)
  PROVE  /\ c.i = s.i /\ c.z_0 = s.z_0 /\ c.z_i = s.z_i /\ c.U_i = s.U_i /\ c.u_i = s.u_i
         /\ c.cf_U_i = s.cf_U_i /\ c.cf_W_i = s.cf_W_i /\ c.U_i1 = f.U /\ c.W_i1 = f.W
         /\ c.proof = f.cmT /\ c.randomness = f.r
         /\ c.kzg_challenges = KzgChallenges(f.tr, <<f.U.cmW, f.U.cmE>>)
         /\ c.kzg_evaluations = Eth!Evaluations(Openings(f.W), c.kzg_challenges)
         /\ Eth!KzgProofs(c) = KzgPair(f.W, c.kzg_challenges)
<1>1. c = Eth!WithEvaluations(s, LastFoldOf(f), KzgChallenges(f.tr, <<f.U.cmW, f.U.cmE>>))
  BY DEF Eth!TryFrom, Eth!WithFold, LastFold, LastFoldOf, Commitments
<1>2. /\ LastFoldOf(f).U = f.U /\ LastFoldOf(f).W = f.W /\ LastFoldOf(f).proof = f.cmT
      /\ LastFoldOf(f).randomness = f.r
  BY DEF LastFoldOf
<1> QED
  BY <1>1, <1>2 DEF Eth!WithEvaluations, Eth!KzgProofs, KzgPair

\* The circuit's own fold is the prover's: its challenge and its challenges for KZG are right.
LEMMA FoldIsConstrained ==
  ASSUME NEW s, Typed(s), NEW f, f = PrimaryFold(s), NEW c, c = Eth!TryFrom(s)
  PROVE  /\ Eth!MainConstraints(c) <=>
              CheckRelation(AugR1CS, f.W, f.U) /\ IsIncoming(s.u_i) /\ HashesMatch(s)
         /\ Eth!OnchainConstraints(c) <=>
              /\ CheckRelation(AugR1CS, f.W, f.U) /\ IsIncoming(s.u_i) /\ HashesMatch(s)
              /\ CfCommitted(s.cf_W_i, s.cf_U_i) /\ CheckRelation(CfR1CS, s.cf_W_i, s.cf_U_i)
<1> DEFINE v == NIFSGadgetVerify(<<>>, s.U_i, s.u_i, f.cmT)
<1>1. /\ v.tr = f.tr /\ v.U.u = Rlc(s.U_i.u, f.r, s.u_i.u)
      /\ v.U.x = [k \in DOMAIN s.U_i.x |-> Rlc(s.U_i.x[k], f.r, s.u_i.x[k])]
  BY DEF PrimaryFold, NIFSProve, NIFSGadgetVerify
<1>2. f.U = FoldCommittedInstances(f.r, s.U_i, s.u_i, f.cmT)
  BY DEF PrimaryFold, NIFSProve
<1> HIDE DEF v
<1>3. PartialEqual(v.U, f.U)
  BY <1>1, <1>2 DEF PartialEqual, FoldCommittedInstances
<1>4. /\ c.i = s.i /\ c.z_0 = s.z_0 /\ c.z_i = s.z_i /\ c.U_i = s.U_i /\ c.u_i = s.u_i
      /\ c.cf_U_i = s.cf_U_i /\ c.cf_W_i = s.cf_W_i /\ c.U_i1 = f.U /\ c.W_i1 = f.W
      /\ c.proof = f.cmT /\ c.randomness = f.r
      /\ c.kzg_challenges = KzgChallenges(f.tr, <<f.U.cmW, f.U.cmE>>)
      /\ c.kzg_evaluations = Eth!Evaluations(Openings(f.W), c.kzg_challenges)
      /\ Eth!KzgProofs(c) = KzgPair(f.W, c.kzg_challenges)
  BY LastCircuitIs
<1>5. Eth!FoldConstraints(c, FoldFields(c))
  <2>1. FoldFields(c) = [U |-> v.U, tr |-> f.tr, holds |-> TRUE]
    BY <1>1, <1>4 DEF FoldFields, WithHolds, v
  <2>2. c.kzg_challenges = KzgChallenges(f.tr, Commitments(f.U))
    BY <1>4 DEF Commitments
  <2>3. c.kzg_evaluations = Eth!Evaluations(Openings(f.W), c.kzg_challenges)
    BY <1>4
  <2> DEFINE w == [U |-> v.U, tr |-> f.tr, holds |-> TRUE]
  <2>4. w.U = v.U /\ w.tr = f.tr /\ w.holds
    OBVIOUS
  <2> HIDE DEF w
  <2>5. Eth!FoldConstraints(c, w)
    BY <1>3, <1>4, <2>2, <2>3, <2>4 DEF Eth!FoldConstraints
  <2> QED BY <2>1, <2>5 DEF w
<1>6. HashesMatch(c) <=> HashesMatch(s)
  BY <1>4 DEF HashesMatch
<1>7. Eth!MainConstraints(c) <=>
        CheckRelation(AugR1CS, f.W, f.U) /\ IsIncoming(s.u_i) /\ HashesMatch(s)
  <2>1. Relation(c.W_i1, c.U_i1) = CheckRelation(AugR1CS, f.W, f.U)
        /\ IncomingOk(c.u_i) = IsIncoming(s.u_i)
    BY <1>4 DEF Relation, IncomingOk
  <2> QED BY <1>5, <1>6, <2>1 DEF Eth!MainConstraints
<1>8. CfCommitted(c.cf_W_i, c.cf_U_i) = CfCommitted(s.cf_W_i, s.cf_U_i)
      /\ CfRelation(c.cf_W_i, c.cf_U_i) = CheckRelation(CfR1CS, s.cf_W_i, s.cf_U_i)
  BY <1>4 DEF CfRelation
<1> QED
  BY <1>7, <1>8 DEF Eth!OnchainConstraints

\* The verifier's fold of the commitments is the prover's of a fresh instance.
LEMMA GroupFolds ==
  ASSUME NEW s, Typed(s), NEW f, f = PrimaryFold(s), NEW g,
         g = FoldGroup(Commitments(s.U_i), Commitments(s.u_i), f.cmT, f.r)
  PROVE  /\ s.u_i.cmE # 0 => g.ret = "NotIncomingCommittedInstance"
         /\ s.u_i.cmE = 0 => g.ret = "Ok" /\ g.cms = Commitments(f.U)
<1>1. f.U = FoldCommittedInstances(f.r, s.U_i, s.u_i, f.cmT)
  BY DEF PrimaryFold, NIFSProve
<1>2. f.U.cmW = Rlc(s.U_i.cmW, f.r, s.u_i.cmW)
  BY <1>1 DEF FoldCommittedInstances
<1>3. s.u_i.cmE = 0 => f.U.cmE = Rlc(s.U_i.cmE, f.r, f.cmT)
  BY LastFoldTyped
<1>4. /\ Commitments(s.u_i)[2] = s.u_i.cmE /\ Commitments(s.u_i)[1] = s.u_i.cmW
      /\ Commitments(s.U_i)[2] = s.U_i.cmE /\ Commitments(s.U_i)[1] = s.U_i.cmW
  BY DEF Commitments
<1>5. CASE s.u_i.cmE # 0
  BY <1>4, <1>5 DEF FoldGroup
<1>6. CASE s.u_i.cmE = 0
  <2>1. g = [ret |-> "Ok", cms |-> <<Rlc(s.U_i.cmW, f.r, s.u_i.cmW), Rlc(s.U_i.cmE, f.r, f.cmT)>>]
    BY <1>4, <1>6 DEF FoldGroup
  <2>2. g.ret = "Ok" /\ g.cms = <<f.U.cmW, f.U.cmE>>
    BY <1>2, <1>3, <1>6, <2>1
  <2> QED BY <1>6, <2>2 DEF Commitments
<1> QED
  BY <1>5, <1>6

\* From the second step on the on-chain decider accepts a struct's proof of its own claim
\* and commitments if and only if the last fold and the rest of the struct hold.
LEMMA OnchainAccepts ==
  ASSUME ~Hiding, NEW s, Typed(s), s.i > 1
  PROVE  Eth!DeciderVerify(ClaimOf(s), Commitments(s.U_i), Commitments(s.u_i),
                           Eth!ProofOf(Eth!TryFrom(s))) = "Verified"
           <=> FoldHolds(s) /\ RestHolds(s)
<1> DEFINE f   == PrimaryFold(s)
           c   == Eth!TryFrom(s)
           pf  == Eth!ProofOf(c)
           g   == FoldGroup(Commitments(s.U_i), Commitments(s.u_i), f.cmT, f.r)
           cms == Commitments(f.U)
<1>1. /\ f.W \in Witness(2) /\ f.U.cmW \in Fp /\ f.U.cmE \in Fp
  BY LastFoldTyped DEF CommittedInstance
<1> HIDE DEF f, c
<1>2. /\ pf.snark_proof = Eth!SnarkProve(Eth!OnchainConstraints(c), Eth!CircuitInputs(c))
      /\ pf.proof = f.cmT /\ pf.randomness = f.r
      /\ pf.kzg_challenges = c.kzg_challenges /\ pf.kzg_proofs = KzgPair(f.W, c.kzg_challenges)
  BY LastCircuitIs, ZenonT(60) DEF Eth!ProofOf, f, c
<1>3. /\ Entries(f.W.W) \in List(Int, 8) /\ Entries(f.W.E) \in List(Int, 8)
      /\ Opens(G, f.W, f.U) <=> f.U.cmW = KzgCommit(Entries(f.W.W))
                                /\ f.U.cmE = KzgCommit(Entries(f.W.E))
  BY <1>1, OpensIsKzg
<1>4. /\ c.kzg_challenges = KzgChallenges(f.tr, cms)
      /\ cms = <<f.U.cmW, f.U.cmE>> /\ cms = <<cms[1], cms[2]>> /\ Len(cms) = 2
      /\ c.kzg_evaluations = Eth!Evaluations(Openings(f.W), c.kzg_challenges)
      /\ c.proof = f.cmT /\ c.randomness = f.r /\ c.U_i1 = f.U
      /\ c.i = s.i /\ c.z_0 = s.z_0 /\ c.z_i = s.z_i
  BY LastCircuitIs DEF Commitments, f, c
<1> HIDE DEF pf
<1>5. /\ Eth!Evals(pf.kzg_proofs) = c.kzg_evaluations
      /\ Eth!KzgOk(cms, pf.kzg_challenges, pf.kzg_proofs) <=> Opens(G, f.W, f.U)
  <2>1. /\ Eth!Evals(pf.kzg_proofs) = Eth!Evaluations(Openings(f.W), c.kzg_challenges)
        /\ Eth!KzgOk(<<f.U.cmW, f.U.cmE>>, c.kzg_challenges, pf.kzg_proofs)
             <=> f.U.cmW = KzgCommit(Entries(f.W.W)) /\ f.U.cmE = KzgCommit(Entries(f.W.E))
    <3> HIDE DEF cms
    <3> QED BY <1>1, <1>2, <1>3, <1>4, KzgPairOpens
  <2> QED BY <1>2, <1>3, <1>4, <2>1
<1>6. /\ ClaimOf(s).i = s.i /\ ClaimOf(s).z_0 = s.z_0 /\ ClaimOf(s).z_i = s.z_i
      /\ ~(ClaimOf(s).i <= 1)
  BY DEF ClaimOf, Typed
<1>7. Eth!SnarkVerify(Eth!PublicInputs(ClaimOf(s), cms, pf.kzg_challenges,
                        Eth!Evals(pf.kzg_proofs), FoldInputs(pf.proof, pf.randomness)),
                      pf.snark_proof)
        <=> Eth!OnchainConstraints(c)
  <2> HIDE DEF cms
  <2>1. Eth!PublicInputs(ClaimOf(s), cms, pf.kzg_challenges,
                         Eth!Evals(pf.kzg_proofs), FoldInputs(pf.proof, pf.randomness))
          = Eth!CircuitInputs(c)
    BY <1>2, <1>4, <1>5, <1>6 DEF Eth!PublicInputs, Eth!CircuitInputs, cms
  <2> QED BY <1>2, <2>1 DEF Eth!SnarkVerify, Eth!SnarkProve
<1>8. Eth!VerifyFolded(ClaimOf(s), cms, pf) = "Verified"
        <=> Eth!OnchainConstraints(c) /\ Opens(G, f.W, f.U)
  BY <1>5, <1>7 DEF Eth!VerifyFolded
<1>9. Eth!OnchainConstraints(c) /\ Opens(G, f.W, f.U) <=> FoldHolds(s) /\ RestHolds(s)
  <2>1. CfCommitted(s.cf_W_i, s.cf_U_i) <=> Opens(CfG, s.cf_W_i, s.cf_U_i)
    BY OpensIsKzg DEF Typed
  <2>2. Eth!OnchainConstraints(c) <=>
              /\ CheckRelation(AugR1CS, f.W, f.U) /\ IsIncoming(s.u_i) /\ HashesMatch(s)
              /\ CfCommitted(s.cf_W_i, s.cf_U_i) /\ CheckRelation(CfR1CS, s.cf_W_i, s.cf_U_i)
    BY FoldIsConstrained DEF f, c
  <2> QED BY <2>1, <2>2 DEF FoldHolds, RestHolds, f
<1>10. Eth!DeciderVerify(ClaimOf(s), Commitments(s.U_i), Commitments(s.u_i), pf)
         = (IF g.ret # "Ok" THEN g.ret ELSE Eth!VerifyFolded(ClaimOf(s), g.cms, pf))
  BY <1>2, <1>6 DEF Eth!DeciderVerify, Eth!VerifyGroup
<1>11. /\ s.u_i.cmE # 0 => g.ret = "NotIncomingCommittedInstance"
       /\ s.u_i.cmE = 0 => g.ret = "Ok" /\ g.cms = cms
  BY GroupFolds DEF f
<1>12. RestHolds(s) => s.u_i.cmE = 0
  BY DEF RestHolds, IsIncoming
<1> HIDE DEF g, cms
<1>13. Eth!DeciderVerify(ClaimOf(s), Commitments(s.U_i), Commitments(s.u_i), pf) = "Verified"
         <=> FoldHolds(s) /\ RestHolds(s)
  <2>1. CASE s.u_i.cmE # 0
    BY <1>10, <1>11, <1>12, <2>1
  <2>2. CASE s.u_i.cmE = 0
    BY <1>8, <1>9, <1>10, <1>11, <2>2
  <2> QED BY <2>1, <2>2
<1> QED
  BY <1>13 DEF pf, c

\* The second circuit of the off-chain decider is about the CycleFold pair.
LEMMA Circuit2Is ==
  ASSUME ~Hiding, NEW s, Typed(s), NEW d, d = Circuit2(s)
  PROVE  /\ d.cf_U_i = s.cf_U_i /\ d.cf_W_i = s.cf_W_i
         /\ d.kzg_challenges = KzgChallenges(<<PpHash>>, Commitments(s.cf_U_i))
         /\ d.kzg_evaluations = Eth!Evaluations(Openings(s.cf_W_i), d.kzg_challenges)
         /\ Circuit2Constraints(d) <=> CheckRelation(CfR1CS, s.cf_W_i, s.cf_U_i)
<1>1. d = Circuit2Evaluations(s, KzgChallenges(<<PpHash>>, Commitments(s.cf_U_i)))
  BY DEF Circuit2
<1>2. /\ d.cf_U_i = s.cf_U_i /\ d.cf_W_i = s.cf_W_i
      /\ d.kzg_challenges = KzgChallenges(<<PpHash>>, Commitments(s.cf_U_i))
      /\ d.kzg_evaluations = Eth!Evaluations(Openings(s.cf_W_i), d.kzg_challenges)
  BY <1>1 DEF Circuit2Evaluations
<1>3. Circuit2Constraints(d) <=> CheckRelation(CfR1CS, s.cf_W_i, s.cf_U_i)
  BY <1>2 DEF Circuit2Constraints, CfRelation
<1> QED
  BY <1>2, <1>3

\* The same of the off-chain decider.
LEMMA OffchainAccepts ==
  ASSUME ~Hiding, NEW s, Typed(s), s.i > 1
  PROVE  OffchainVerify(ClaimOf(s), Commitments(s.U_i), Commitments(s.u_i),
                        OffchainProofOf(Eth!TryFrom(s), Circuit2(s))) = "Verified"
           <=> FoldHolds(s) /\ RestHolds(s)
<1> DEFINE f   == PrimaryFold(s)
           c   == Eth!TryFrom(s)
           d   == Circuit2(s)
           pf  == OffchainProofOf(c, d)
           g   == FoldGroup(Commitments(s.U_i), Commitments(s.u_i), f.cmT, f.r)
           cms == Commitments(f.U)
           cfs == Commitments(s.cf_U_i)
<1>1. /\ f.W \in Witness(2) /\ f.U.cmW \in Fp /\ f.U.cmE \in Fp
  BY LastFoldTyped DEF CommittedInstance
<1>2. /\ s.cf_W_i \in Witness(4) /\ s.cf_U_i.cmW \in Fp /\ s.cf_U_i.cmE \in Fp
  BY DEF CommittedInstance, Typed
<1>3. /\ c.kzg_challenges = KzgChallenges(f.tr, cms)
      /\ cms = <<f.U.cmW, f.U.cmE>> /\ cms = <<cms[1], cms[2]>> /\ Len(cms) = 2
      /\ c.kzg_evaluations = Eth!Evaluations(Openings(f.W), c.kzg_challenges)
      /\ c.proof = f.cmT /\ c.randomness = f.r /\ c.U_i1 = f.U /\ c.cf_U_i = s.cf_U_i
      /\ c.i = s.i /\ c.z_0 = s.z_0 /\ c.z_i = s.z_i
      /\ Eth!KzgProofs(c) = KzgPair(f.W, c.kzg_challenges)
  BY LastCircuitIs DEF Commitments
<1>4. /\ d.cf_U_i = s.cf_U_i /\ d.cf_W_i = s.cf_W_i
      /\ d.kzg_challenges = KzgChallenges(<<PpHash>>, cfs)
      /\ cfs = <<s.cf_U_i.cmW, s.cf_U_i.cmE>> /\ cfs = <<cfs[1], cfs[2]>> /\ Len(cfs) = 2
      /\ d.kzg_evaluations = Eth!Evaluations(Openings(s.cf_W_i), d.kzg_challenges)
      /\ Circuit2Constraints(d) <=> CheckRelation(CfR1CS, s.cf_W_i, s.cf_U_i)
  BY Circuit2Is DEF Commitments
<1>5. Eth!MainConstraints(c) <=>
        CheckRelation(AugR1CS, f.W, f.U) /\ IsIncoming(s.u_i) /\ HashesMatch(s)
  BY FoldIsConstrained
<1> HIDE DEF f, c, d
<1>6. DOMAIN d.kzg_challenges = 1 .. 2
  <2> HIDE DEF cfs
  <2>1. DOMAIN KzgChallenges(<<PpHash>>, <<cfs[1], cfs[2]>>) = 1 .. 2
    BY KzgChallengesAre
  <2> QED BY <1>4, <2>1
<1>7. /\ pf.c1_snark_proof = Eth!SnarkProve(Eth!MainConstraints(c),
           Inputs1(c, cms, s.cf_U_i, c.kzg_challenges, c.kzg_evaluations, f.cmT))
      /\ pf.c2_snark_proof = Eth!SnarkProve(Circuit2Constraints(d),
           Inputs2(s.cf_U_i, d.kzg_challenges, d.kzg_evaluations))
      /\ pf.cs1_proofs = KzgPair(f.W, c.kzg_challenges)
      /\ pf.cs2_proofs = KzgPair(s.cf_W_i, d.kzg_challenges)
      /\ pf.cmT = f.cmT /\ pf.r = f.r /\ pf.cf_U_final = s.cf_U_i
      /\ pf.cs1_challenges = c.kzg_challenges /\ pf.cs2_challenges = d.kzg_challenges
  <2>1. KzgPair(s.cf_W_i, d.kzg_challenges)
          = [j \in 1 .. 2 |-> KzgProveWithChallenge(d.kzg_challenges[j], Openings(d.cf_W_i)[j])]
    BY <1>4, <1>6 DEF KzgPair
  <2> QED BY <1>3, <1>4, <2>1 DEF OffchainProofOf
<1>8. /\ Entries(f.W.W) \in List(Int, 8) /\ Entries(f.W.E) \in List(Int, 8)
      /\ Opens(G, f.W, f.U) <=> f.U.cmW = KzgCommit(Entries(f.W.W))
                                /\ f.U.cmE = KzgCommit(Entries(f.W.E))
  BY <1>1, OpensIsKzg
<1>9. /\ Entries(s.cf_W_i.W) \in List(Int, 8) /\ Entries(s.cf_W_i.E) \in List(Int, 8)
      /\ Opens(CfG, s.cf_W_i, s.cf_U_i) <=> s.cf_U_i.cmW = KzgCommit(Entries(s.cf_W_i.W))
                                            /\ s.cf_U_i.cmE = KzgCommit(Entries(s.cf_W_i.E))
  BY <1>2, OpensIsKzg
<1> HIDE DEF pf
<1>10. /\ Eth!Evals(pf.cs1_proofs) = c.kzg_evaluations
       /\ Eth!KzgOk(cms, pf.cs1_challenges, pf.cs1_proofs) <=> Opens(G, f.W, f.U)
  <2>1. /\ Eth!Evals(pf.cs1_proofs) = Eth!Evaluations(Openings(f.W), c.kzg_challenges)
        /\ Eth!KzgOk(<<f.U.cmW, f.U.cmE>>, c.kzg_challenges, pf.cs1_proofs)
             <=> f.U.cmW = KzgCommit(Entries(f.W.W)) /\ f.U.cmE = KzgCommit(Entries(f.W.E))
    <3> HIDE DEF cms
    <3> QED BY <1>1, <1>3, <1>7, <1>8, KzgPairOpens
  <2> QED BY <1>3, <1>7, <1>8, <2>1
<1>11. /\ Eth!Evals(pf.cs2_proofs) = d.kzg_evaluations
       /\ Eth!KzgOk(cfs, pf.cs2_challenges, pf.cs2_proofs) <=> Opens(CfG, s.cf_W_i, s.cf_U_i)
  <2>1. /\ Eth!Evals(pf.cs2_proofs) = Eth!Evaluations(Openings(s.cf_W_i), d.kzg_challenges)
        /\ Eth!KzgOk(<<s.cf_U_i.cmW, s.cf_U_i.cmE>>, d.kzg_challenges, pf.cs2_proofs)
             <=> s.cf_U_i.cmW = KzgCommit(Entries(s.cf_W_i.W))
                 /\ s.cf_U_i.cmE = KzgCommit(Entries(s.cf_W_i.E))
    <3> HIDE DEF cfs
    <3> QED BY <1>2, <1>4, <1>7, <1>9, KzgPairOpens
  <2> QED BY <1>4, <1>7, <1>9, <2>1
<1>12. /\ ClaimOf(s).i = s.i /\ ClaimOf(s).z_0 = s.z_0 /\ ClaimOf(s).z_i = s.z_i
       /\ ~(ClaimOf(s).i <= 1)
  BY DEF ClaimOf, Typed
<1> HIDE DEF cms
<1>13. Eth!SnarkVerify(Inputs1(ClaimOf(s), cms, pf.cf_U_final, pf.cs1_challenges,
                               Eth!Evals(pf.cs1_proofs), pf.cmT), pf.c1_snark_proof)
         <=> Eth!MainConstraints(c)
  <2>1. Inputs1(ClaimOf(s), cms, pf.cf_U_final, pf.cs1_challenges,
                Eth!Evals(pf.cs1_proofs), pf.cmT)
          = Inputs1(c, cms, s.cf_U_i, c.kzg_challenges, c.kzg_evaluations, f.cmT)
    BY <1>3, <1>7, <1>10, <1>12 DEF Inputs1
  <2> QED BY <1>7, <2>1 DEF Eth!SnarkVerify, Eth!SnarkProve
<1>14. Eth!SnarkVerify(Inputs2(pf.cf_U_final, pf.cs2_challenges, Eth!Evals(pf.cs2_proofs)),
                       pf.c2_snark_proof) <=> Circuit2Constraints(d)
  BY <1>7, <1>11 DEF Eth!SnarkVerify, Eth!SnarkProve
<1>15. OffchainVerifyFolded(ClaimOf(s), cms, pf) = "Verified"
         <=> /\ Eth!MainConstraints(c) /\ Circuit2Constraints(d)
             /\ Opens(G, f.W, f.U) /\ Opens(CfG, s.cf_W_i, s.cf_U_i)
  BY <1>7, <1>10, <1>11, <1>13, <1>14 DEF OffchainVerifyFolded
<1>16. OffchainVerifyFolded(ClaimOf(s), cms, pf) = "Verified" <=> FoldHolds(s) /\ RestHolds(s)
  BY <1>4, <1>5, <1>15 DEF FoldHolds, RestHolds, f
<1>17. OffchainVerify(ClaimOf(s), Commitments(s.U_i), Commitments(s.u_i), pf)
         = (IF g.ret # "Ok" THEN g.ret ELSE OffchainVerifyFolded(ClaimOf(s), g.cms, pf))
  BY <1>7, <1>12 DEF OffchainVerify, OffchainVerifyGroup
<1>18. /\ s.u_i.cmE # 0 => g.ret = "NotIncomingCommittedInstance"
       /\ s.u_i.cmE = 0 => g.ret = "Ok" /\ g.cms = cms
  BY GroupFolds DEF f, cms
<1>19. RestHolds(s) => s.u_i.cmE = 0
  BY DEF RestHolds, IsIncoming
<1> HIDE DEF g
<1>20. OffchainVerify(ClaimOf(s), Commitments(s.U_i), Commitments(s.u_i), pf) = "Verified"
         <=> FoldHolds(s) /\ RestHolds(s)
  <2>1. CASE s.u_i.cmE # 0
    BY <1>17, <1>18, <1>19, <2>1
  <2>2. CASE s.u_i.cmE = 0
    BY <1>16, <1>17, <1>18, <2>2
  <2> QED BY <2>1, <2>2
<1> QED
  BY <1>20 DEF pf, c, d

\* What a decider answers a struct that it accepts or refuses.
LEMMA AnswersAre ==
  ASSUME ~Hiding, NEW s, Typed(s), s.i > 1
  PROVE  /\ FoldHolds(s) /\ RestHolds(s) => Answers(s, s, s, Proofs(s)) = {"Verified"}
         /\ ~(FoldHolds(s) /\ RestHolds(s)) => "Verified" \notin Answers(s, s, s, Proofs(s))
<1>1. /\ Proofs(s).onchain = Eth!ProofOf(Eth!TryFrom(s))
      /\ Proofs(s).offchain = OffchainProofOf(Eth!TryFrom(s), Circuit2(s))
  BY DEF Proofs, ProofsOf
<1> DEFINE D == Eth!DeciderVerify(ClaimOf(s), Commitments(s.U_i), Commitments(s.u_i),
                                  Eth!ProofOf(Eth!TryFrom(s)))
           O == OffchainVerify(ClaimOf(s), Commitments(s.U_i), Commitments(s.u_i),
                               OffchainProofOf(Eth!TryFrom(s), Circuit2(s)))
<1>2. Answers(s, s, s, Proofs(s)) = {D, O}
  BY <1>1 DEF Answers
<1>3. /\ D = "Verified" <=> FoldHolds(s) /\ RestHolds(s)
      /\ O = "Verified" <=> FoldHolds(s) /\ RestHolds(s)
  BY OnchainAccepts, OffchainAccepts
<1> QED
  BY <1>2, <1>3

\* A fold of two pairs that hold, holds.
LEMMA PartsFold == ASSUME NEW s, Typed(s), PartsHold(s) PROVE FoldHolds(s)
<1> DEFINE f == PrimaryFold(s)
<1>1. PICK T \in Vec : /\ T = ComputeT(AugR1CS, s.U_i, s.W_i, s.u_i, s.w_i)
                       /\ f.cmT = Commit(G, T, 0) /\ f.W = FoldWitness(f.r, s.W_i, s.w_i, T)
                       /\ f.U = FoldCommittedInstances(f.r, s.U_i, s.u_i, f.cmT)
  BY LastFoldTyped
<1>2. f.r \in Fp
  BY LastFoldTyped
<1> HIDE DEF f
<1>3. MatricesOk(AugR1CS) /\ AugR1CS.l = 2
  BY AugCircuit DEF Circuit
<1>4. CheckRelation(AugR1CS, f.W, f.U)
  BY <1>1, <1>2, <1>3, FoldPreservesRelation DEF Typed, PartsHold
<1>5. OpensW(G, f.W, f.U) /\ OpensE(G, f.W, f.U)
  BY <1>1, <1>2, <1>3, FoldPreservesOpenings, GAssumption DEF Typed, PartsHold, Opens
<1> QED
  BY <1>4, <1>5 DEF FoldHolds, Opens, f

\* What verify and the openings ask of a struct.
LEMMA VerifyIsParts ==
  ASSUME NEW s, Typed(s), s.i > 1
  PROVE  Verify(s) /\ AllOpen(s) <=> PartsHold(s) /\ RestHolds(s)
<1>1. DOMAIN s.u_i.x = 1 .. 2 /\ DOMAIN s.U_i.x = 1 .. 2 /\ s.i # 0
  BY DEF Typed, CommittedInstance
<1> QED
  BY <1>1 DEF Verify, AllOpen, PartsHold, RestHolds

\* A prover's own struct and those mixed with a published proof.
LEMMA WellFormedOpens ==
  ASSUME ~Hiding, NEW s, WellFormed(s) PROVE Typed(s) /\ AllOpen(s)
<1>1. AugR1CS.l = 2 /\ CfR1CS.l = 4
  BY AugCircuit, CfCircuit
<1>2. Typed(s)
  BY <1>1 DEF WellFormed, Sound, Typed
<1>3. AllOpen(s)
  BY DEF WellFormed, Sound, AllOpen, Opens
<1> QED
  BY <1>2, <1>3

LEMMA MixedTyped ==
  ASSUME ~Hiding, NEW a, NEW b, WellFormed(a), WellFormed(b), NEW mixed
  PROVE  Typed(MixedUp(a, b, mixed))
<1>1. Typed(a) /\ Typed(b)
  BY WellFormedOpens
<1> DEFINE m == MixedUp(a, b, mixed)
<1>2. \A k \in Fields : m[k] = a[k] \/ m[k] = b[k]
  BY DEF MixedUp, WellFormed
<1> HIDE DEF m
<1>3. /\ m.i = a.i \/ m.i = b.i
      /\ m.z_0 = a.z_0 \/ m.z_0 = b.z_0
      /\ m.z_i = a.z_i \/ m.z_i = b.z_i
      /\ m.w_i = a.w_i \/ m.w_i = b.w_i
      /\ m.u_i = a.u_i \/ m.u_i = b.u_i
      /\ m.W_i = a.W_i \/ m.W_i = b.W_i
      /\ m.U_i = a.U_i \/ m.U_i = b.U_i
      /\ m.cf_W_i = a.cf_W_i \/ m.cf_W_i = b.cf_W_i
      /\ m.cf_U_i = a.cf_U_i \/ m.cf_U_i = b.cf_U_i
  BY <1>2 DEF Fields
<1>4. Typed(m)
  BY <1>1, <1>3 DEF Typed
<1> QED
  BY <1>4 DEF m

LEMMA StructsOk ==
  ASSUME ~Hiding, FSP!FInv, NEW p \in Provers, NEW s \in Structs(p)
  PROVE  Typed(s) /\ (s = st[p] => AllOpen(s))
<1>1. WellFormed(st[p]) /\ \A pr \in sent : WellFormed(pr)
  BY DEF FSP!FInv, FSP!Good, Provers, FSP!Provers
<1>2. CASE s = st[p]
  BY <1>1, <1>2, WellFormedOpens
<1>3. CASE s # st[p]
  <2>1. PICK b \in sent, mixed \in Mixed : s = MixedUp(st[p], b, mixed)
    BY <1>3 DEF Structs
  <2> QED BY <1>1, <1>3, <2>1, MixedTyped
<1> QED
  BY <1>2, <1>3

\* The challenge of the last fold hides that one of the two pairs does not hold.
HidesError ==
  \E p \in Provers : \E s \in Structs(p) : s.i > 1 /\ FoldHolds(s) /\ ~PartsHold(s)

\* Both deciders accept every struct that verify accepts and whose witnesses open.
AcceptWhatVerifies ==
  \A p \in Provers : \A s \in Structs(p) :
    s.i > 1 /\ Verify(s) /\ AllOpen(s) => Answers(s, s, s, Proofs(s)) = {"Verified"}

\* A struct that Nova's own verify accepts can be decided: whoever ran the prover, and
\* whichever fields come from another proof, as long as the witnesses open.
THEOREM NovaDecidersComplete == ASSUME ~Hiding PROVE Spec => []AcceptWhatVerifies
<1>1. FSP!Spec => []FSP!FInv
  BY NovaSchemeOk, FSP!FInvariant
<1>2. FSP!FInv => AcceptWhatVerifies
  BY StructsOk, VerifyIsParts, PartsFold, AnswersAre DEF AcceptWhatVerifies
<1> QED
  BY <1>1, <1>2, SameSpec, PTL DEF Spec, FSP!Spec

\* And as long as no challenge of a last fold hides an error, the deciders accept nothing
\* else: their circuits and verifiers are together the verify of Nova.
THEOREM NovaDecidersAgree == ASSUME ~Hiding PROVE Spec /\ []~HidesError => []DecidersAgree
<1>1. FSP!Spec => []FSP!FInv
  BY NovaSchemeOk, FSP!FInvariant
<1>2. FSP!FInv /\ ~HidesError => DecidersAgree
  <2> SUFFICES ASSUME FSP!FInv, ~HidesError, NEW p \in Provers, NEW s \in Structs(p), s.i > 1
               PROVE  IF Verify(s) /\ (s = st[p] \/ AllOpen(s))
                      THEN Answers(s, s, s, Proofs(s)) = {"Verified"}
                      ELSE "Verified" \notin Answers(s, s, s, Proofs(s))
    BY DEF DecidersAgree
  <2>1. Typed(s) /\ (s = st[p] => AllOpen(s))
    BY StructsOk
  <2>2. Verify(s) /\ (s = st[p] \/ AllOpen(s)) <=> PartsHold(s) /\ RestHolds(s)
    BY <2>1, VerifyIsParts
  <2>3. PartsHold(s) <=> FoldHolds(s)
    BY <2>1, PartsFold DEF HidesError
  <2> QED BY <2>1, <2>2, <2>3, AnswersAre
<1> QED
  BY <1>1, <1>2, SameSpec, PTL DEF Spec, FSP!Spec

----------------------------------------------------------------------------
\* What the public inputs of the deciders' circuits bind.

LEMMA StateIsSeq == ASSUME NEW z \in State PROVE z \in Seq(Int) /\ z # <<>> /\ Len(z) \in Nat \ {0}
<1>1. z \in Seq(Fp) /\ z # <<>>
  BY DEF State
<1>2. z \in [1 .. Len(z) -> Fp] /\ Len(z) \in Nat
  BY <1>1
<1>3. z \in [1 .. Len(z) -> Int]
  BY <1>2 DEF Fp
<1>4. z \in Seq(Int)
  BY <1>2, <1>3
<1> QED
  BY <1>1, <1>2, <1>4

\* The inputs that follow the commitments are the proof's own.
LEMMA TailIs ==
  ASSUME NEW w, Entries(w.W) \in List(Int, 8), Entries(w.E) \in List(Int, 8),
         NEW tr, NEW cms, cms = <<cms[1], cms[2]>>,
         NEW cs, cs = KzgChallenges(tr, cms)
  PROVE  cs \in Seq(Int) /\ Eth!Evaluations(Openings(w), cs) \in Seq(Int)
<1>1. DOMAIN cs = 1 .. 2 /\ cs[1] \in Fp /\ cs[2] \in Fp /\ cs \in Seq(Int)
  BY KzgChallengesAre
<1>2. Openings(w)[1] = Entries(w.W) /\ Openings(w)[2] = Entries(w.E)
  BY DEF Openings
<1>3. EvalVec(Entries(w.W), cs[1]) \in Fp /\ EvalVec(Entries(w.E), cs[2]) \in Fp
  BY <1>1, EvaluationInFp
<1>4. \A j \in 1 .. 2 : EvalVec(Openings(w)[j], cs[j]) \in Int
  <2>1. \A j \in 1 .. 2 : j = 1 \/ j = 2
    OBVIOUS
  <2> QED BY <1>2, <1>3, <2>1, FpIsInt
<1>5. Eth!Evaluations(Openings(w), cs) \in [1 .. 2 -> Int]
  BY <1>1, <1>4 DEF Eth!Evaluations
<1> QED
  BY <1>1, <1>5, PairIsSeq

\* The verifier's fold of two commitments.
Folded(r, n, f) == <<Rlc(r.U_i.cmW, f.r, n.u_i.cmW), Rlc(r.U_i.cmE, f.r, f.cmT)>>

LEMMA FoldedIs ==
  ASSUME NEW r, Typed(r), NEW n, Typed(n), NEW f, f.r \in Fp, f.cmT \in Fp,
         NEW g, g = FoldGroup(Commitments(r.U_i), Commitments(n.u_i), f.cmT, f.r)
  PROVE  /\ g.ret = "Ok" <=> n.u_i.cmE = 0
         /\ n.u_i.cmE = 0 => g.cms = Folded(r, n, f)
         /\ g.ret # "Verified"
         /\ Folded(r, n, f) \in Seq(Int) /\ Len(Folded(r, n, f)) = 2
<1>1. /\ Commitments(n.u_i)[2] = n.u_i.cmE /\ Commitments(n.u_i)[1] = n.u_i.cmW
      /\ Commitments(r.U_i)[2] = r.U_i.cmE /\ Commitments(r.U_i)[1] = r.U_i.cmW
  BY DEF Commitments
<1>2. n.u_i.cmW \in Fp /\ r.U_i.cmW \in Fp /\ r.U_i.cmE \in Fp
  BY DEF Typed, CommittedInstance
<1>3. Rlc(r.U_i.cmW, f.r, n.u_i.cmW) \in Int /\ Rlc(r.U_i.cmE, f.r, f.cmT) \in Int
  BY <1>2, RlcCong, FpIsInt
<1>4. Folded(r, n, f) \in Seq(Int) /\ Len(Folded(r, n, f)) = 2
  BY <1>3 DEF Folded
<1>5. CASE n.u_i.cmE # 0
  BY <1>1, <1>4, <1>5 DEF FoldGroup
<1>6. CASE n.u_i.cmE = 0
  BY <1>1, <1>4, <1>6 DEF FoldGroup, Folded
<1> QED
  BY <1>5, <1>6

\* Who holds a claim.
ClaimTyped(c) == c.i \in Nat /\ c.z_0 \in State /\ c.z_i \in State

\* A proof of s is accepted with its claim only, and with commitments that fold to its own.
BindsFold(s, c, r, n) ==
  /\ c.i = s.i /\ c.z_0 = s.z_0 /\ c.z_i = s.z_i
  /\ n.u_i.cmE = 0 /\ Folded(r, n, PrimaryFold(s)) = Commitments(PrimaryFold(s).U)

LEMMA OnchainBinds ==
  ASSUME ~Hiding, NEW s, Typed(s), Len(s.z_0) = 1, Len(s.z_i) = 1,
         NEW c, ClaimTyped(c), NEW r, Typed(r), NEW n, Typed(n),
         Eth!DeciderVerify(ClaimOf(c), Commitments(r.U_i), Commitments(n.u_i),
                           Eth!ProofOf(Eth!TryFrom(s))) = "Verified"
  PROVE  BindsFold(s, c, r, n)
<1> DEFINE f   == PrimaryFold(s)
           d   == Eth!TryFrom(s)
           pf  == Eth!ProofOf(d)
           g   == FoldGroup(Commitments(r.U_i), Commitments(n.u_i), f.cmT, f.r)
           cms == Commitments(f.U)
           fld == Folded(r, n, f)
<1>1. /\ f.W \in Witness(2) /\ f.U.cmW \in Fp /\ f.U.cmE \in Fp /\ f.r \in Fp /\ f.cmT \in Fp
  BY LastFoldTyped DEF CommittedInstance
<1>2. /\ d.kzg_challenges = KzgChallenges(f.tr, cms)
      /\ cms = <<f.U.cmW, f.U.cmE>> /\ cms = <<cms[1], cms[2]>> /\ Len(cms) = 2
      /\ d.kzg_evaluations = Eth!Evaluations(Openings(f.W), d.kzg_challenges)
      /\ d.proof = f.cmT /\ d.randomness = f.r /\ d.U_i1 = f.U
      /\ d.i = s.i /\ d.z_0 = s.z_0 /\ d.z_i = s.z_i
      /\ Eth!KzgProofs(d) = KzgPair(f.W, d.kzg_challenges)
  BY LastCircuitIs DEF Commitments
<1> HIDE DEF f, d
<1>3. /\ pf.snark_proof = Eth!SnarkProve(Eth!OnchainConstraints(d), Eth!CircuitInputs(d))
      /\ pf.proof = f.cmT /\ pf.randomness = f.r
      /\ pf.kzg_challenges = d.kzg_challenges /\ pf.kzg_proofs = KzgPair(f.W, d.kzg_challenges)
  BY <1>2 DEF Eth!ProofOf
<1>4. Entries(f.W.W) \in List(Int, 8) /\ Entries(f.W.E) \in List(Int, 8)
  BY <1>1, OpensIsKzg
<1> HIDE DEF pf, cms
<1>5. Eth!Evals(pf.kzg_proofs) = d.kzg_evaluations
  BY <1>1, <1>2, <1>3, <1>4, KzgPairOpens
<1>6. d.kzg_challenges \in Seq(Int) /\ d.kzg_evaluations \in Seq(Int)
  BY <1>2, <1>4, TailIs
<1>7. /\ g.ret = "Ok" <=> n.u_i.cmE = 0
      /\ n.u_i.cmE = 0 => g.cms = fld
      /\ g.ret # "Verified" /\ fld \in Seq(Int) /\ Len(fld) = 2
  BY <1>1, FoldedIs
<1>8. /\ ClaimOf(c).i = c.i /\ ClaimOf(c).z_0 = c.z_0 /\ ClaimOf(c).z_i = c.z_i
  BY DEF ClaimOf
<1>9. g.ret = "Ok" /\ Eth!VerifyFolded(ClaimOf(c), g.cms, pf) = "Verified"
  <2>1. Eth!DeciderVerify(ClaimOf(c), Commitments(r.U_i), Commitments(n.u_i), pf) = "Verified"
    BY DEF pf, d
  <2>2. Eth!DeciderVerify(ClaimOf(c), Commitments(r.U_i), Commitments(n.u_i), pf)
          \in {"NotEnoughSteps", IF g.ret # "Ok" THEN g.ret
                                 ELSE Eth!VerifyFolded(ClaimOf(c), g.cms, pf)}
    BY <1>3 DEF Eth!DeciderVerify, Eth!VerifyGroup
  <2> HIDE DEF g
  <2> QED BY <1>7, <2>1, <2>2
<1>10. n.u_i.cmE = 0 /\ g.cms = fld
  BY <1>7, <1>9
<1> HIDE DEF g, fld
<1>11. Eth!PublicInputs(ClaimOf(c), fld, pf.kzg_challenges, Eth!Evals(pf.kzg_proofs),
                        FoldInputs(pf.proof, pf.randomness)) = Eth!CircuitInputs(d)
  BY <1>3, <1>9, <1>10 DEF Eth!VerifyFolded, Eth!SnarkVerify, Eth!SnarkProve
<1>12. Followed(ClaimInput(c, fld), d.kzg_challenges, d.kzg_evaluations, <<f.cmT>>)
         = Followed(ClaimInput(s, cms), d.kzg_challenges, d.kzg_evaluations, <<f.cmT>>)
  BY <1>2, <1>3, <1>5, <1>8, <1>11
     DEF Eth!PublicInputs, Eth!CircuitInputs, FoldInputs, ClaimInput, Followed, cms
<1>13. cms \in Seq(Int) /\ Len(cms) = 2 /\ <<f.cmT>> \in Seq(Int)
  <2>1. f.U.cmW \in Int /\ f.U.cmE \in Int /\ f.cmT \in Int
    BY <1>1, FpIsInt
  <2> QED BY <1>2, <2>1
<1>14. /\ s.i \in Nat /\ s.z_0 \in Seq(Int) /\ s.z_i \in Seq(Int)
       /\ c.i \in Nat /\ c.z_0 \in Seq(Int) /\ c.z_i \in Seq(Int) /\ c.z_0 # <<>> /\ c.z_i # <<>>
  BY StateIsSeq DEF Typed, ClaimTyped
<1>15. s.i = c.i /\ s.z_0 = c.z_0 /\ s.z_i = c.z_i /\ cms = fld
  <2> DEFINE t1 == d.kzg_challenges  t2 == d.kzg_evaluations  t3 == <<f.cmT>>
  <2>1. t1 \in Seq(Int) /\ t2 \in Seq(Int) /\ t3 \in Seq(Int) /\ Len(cms) = Len(fld)
        /\ Followed(ClaimInput(s, cms), t1, t2, t3) = Followed(ClaimInput(c, fld), t1, t2, t3)
    BY <1>6, <1>7, <1>12, <1>13
  <2> HIDE DEF t1, t2, t3
  <2>2. s.i \in Nat /\ s.z_0 \in Seq(Int) /\ s.z_i \in Seq(Int) /\ Len(s.z_0) = 1 /\ Len(s.z_i) = 1
    BY <1>14
  <2>3. c.i \in Nat /\ c.z_0 \in Seq(Int) /\ c.z_i \in Seq(Int) /\ c.z_0 # <<>> /\ c.z_i # <<>>
    BY <1>14
  <2>4. cms \in Seq(Int) /\ fld \in Seq(Int)
    BY <1>7, <1>13
  <2>5. ClaimInput(s, cms) \in Seq(Int) /\ ClaimInput(c, fld) \in Seq(Int)
    BY <2>2, <2>3, <2>4, ClaimInputIsSeq
  <2>6. ClaimInput(s, cms) = ClaimInput(c, fld)
    BY <2>1, <2>5, CancelThree
  <2> QED BY <2>1, <2>2, <2>3, <2>4, <2>6, InputsBind, SMTT(30)
<1> QED
  BY <1>10, <1>15 DEF BindsFold, f, cms, fld

LEMMA CfElements ==
  ASSUME NEW U \in CommittedInstance(4) PROVE InstanceElements(U) \in Seq(Int)
<1>1. U.u \in Int /\ U.cmE \in Int /\ U.cmW \in Int /\ U.x \in [1 .. 4 -> Int]
  BY FpIsInt DEF CommittedInstance
<1>2. <<U.u>> \in Seq(Int) /\ <<U.cmE, U.cmW>> \in Seq(Int)
  BY <1>1
<1>3. U.x \in Seq(Int)
  BY <1>1, SeqDef
<1> QED
  BY <1>2, <1>3, Concat, Zenon DEF InstanceElements

LEMMA OffchainBinds ==
  ASSUME ~Hiding, NEW s, Typed(s), Len(s.z_0) = 1, Len(s.z_i) = 1,
         NEW c, ClaimTyped(c), NEW r, Typed(r), NEW n, Typed(n),
         OffchainVerify(ClaimOf(c), Commitments(r.U_i), Commitments(n.u_i),
                        OffchainProofOf(Eth!TryFrom(s), Circuit2(s))) = "Verified"
  PROVE  BindsFold(s, c, r, n)
<1> DEFINE f   == PrimaryFold(s)
           d   == Eth!TryFrom(s)
           pf  == OffchainProofOf(d, Circuit2(s))
           g   == FoldGroup(Commitments(r.U_i), Commitments(n.u_i), f.cmT, f.r)
           cms == Commitments(f.U)
           fld == Folded(r, n, f)
           cf  == InstanceElements(s.cf_U_i)
<1>1. /\ f.W \in Witness(2) /\ f.U.cmW \in Fp /\ f.U.cmE \in Fp /\ f.r \in Fp /\ f.cmT \in Fp
  BY LastFoldTyped DEF CommittedInstance
<1>2. /\ d.kzg_challenges = KzgChallenges(f.tr, cms)
      /\ cms = <<f.U.cmW, f.U.cmE>> /\ cms = <<cms[1], cms[2]>> /\ Len(cms) = 2
      /\ d.kzg_evaluations = Eth!Evaluations(Openings(f.W), d.kzg_challenges)
      /\ d.proof = f.cmT /\ d.randomness = f.r /\ d.U_i1 = f.U /\ d.cf_U_i = s.cf_U_i
      /\ d.i = s.i /\ d.z_0 = s.z_0 /\ d.z_i = s.z_i
      /\ Eth!KzgProofs(d) = KzgPair(f.W, d.kzg_challenges)
  BY LastCircuitIs DEF Commitments
<1> HIDE DEF f, d
<1>3. /\ pf.c1_snark_proof = Eth!SnarkProve(Eth!MainConstraints(d),
           Inputs1(d, cms, s.cf_U_i, d.kzg_challenges, d.kzg_evaluations, f.cmT))
      /\ pf.cs1_proofs = KzgPair(f.W, d.kzg_challenges)
      /\ pf.cmT = f.cmT /\ pf.r = f.r /\ pf.cf_U_final = s.cf_U_i
      /\ pf.cs1_challenges = d.kzg_challenges
  BY <1>2 DEF OffchainProofOf
<1>4. Entries(f.W.W) \in List(Int, 8) /\ Entries(f.W.E) \in List(Int, 8)
  BY <1>1, OpensIsKzg
<1> HIDE DEF pf, cms
<1>5. Eth!Evals(pf.cs1_proofs) = d.kzg_evaluations
  BY <1>1, <1>2, <1>3, <1>4, KzgPairOpens
<1>6. d.kzg_challenges \in Seq(Int) /\ d.kzg_evaluations \in Seq(Int) /\ cf \in Seq(Int)
  BY <1>2, <1>4, TailIs, CfElements DEF Typed
<1>7. /\ g.ret = "Ok" <=> n.u_i.cmE = 0
      /\ n.u_i.cmE = 0 => g.cms = fld
      /\ g.ret # "Verified" /\ fld \in Seq(Int) /\ Len(fld) = 2
  BY <1>1, FoldedIs
<1>8. /\ ClaimOf(c).i = c.i /\ ClaimOf(c).z_0 = c.z_0 /\ ClaimOf(c).z_i = c.z_i
  BY DEF ClaimOf
<1>9. g.ret = "Ok" /\ OffchainVerifyFolded(ClaimOf(c), g.cms, pf) = "Verified"
  <2>1. OffchainVerify(ClaimOf(c), Commitments(r.U_i), Commitments(n.u_i), pf) = "Verified"
    BY DEF pf, d
  <2>2. OffchainVerify(ClaimOf(c), Commitments(r.U_i), Commitments(n.u_i), pf)
          \in {"NotEnoughSteps", IF g.ret # "Ok" THEN g.ret
                                 ELSE OffchainVerifyFolded(ClaimOf(c), g.cms, pf)}
    BY <1>3 DEF OffchainVerify, OffchainVerifyGroup
  <2> HIDE DEF g
  <2> QED BY <1>7, <2>1, <2>2
<1>10. n.u_i.cmE = 0 /\ g.cms = fld
  BY <1>7, <1>9
<1> HIDE DEF g, fld, cf
<1>11. Inputs1(ClaimOf(c), fld, pf.cf_U_final, pf.cs1_challenges, Eth!Evals(pf.cs1_proofs), pf.cmT)
         = Inputs1(d, cms, s.cf_U_i, d.kzg_challenges, d.kzg_evaluations, f.cmT)
  BY <1>3, <1>9, <1>10 DEF OffchainVerifyFolded, Eth!SnarkVerify, Eth!SnarkProve
<1>12. Followed(ClaimInput(c, fld) \o cf, d.kzg_challenges, d.kzg_evaluations, <<f.cmT>>)
         = Followed(ClaimInput(s, cms) \o cf, d.kzg_challenges, d.kzg_evaluations, <<f.cmT>>)
  BY <1>2, <1>3, <1>5, <1>8, <1>11 DEF Inputs1, ClaimInput, Followed, cf
<1>13. cms \in Seq(Int) /\ Len(cms) = 2 /\ <<f.cmT>> \in Seq(Int)
  <2>1. f.U.cmW \in Int /\ f.U.cmE \in Int /\ f.cmT \in Int
    BY <1>1, FpIsInt
  <2> QED BY <1>2, <2>1
<1>14. /\ s.i \in Nat /\ s.z_0 \in Seq(Int) /\ s.z_i \in Seq(Int)
       /\ c.i \in Nat /\ c.z_0 \in Seq(Int) /\ c.z_i \in Seq(Int) /\ c.z_0 # <<>> /\ c.z_i # <<>>
  BY StateIsSeq DEF Typed, ClaimTyped
<1>15. s.i = c.i /\ s.z_0 = c.z_0 /\ s.z_i = c.z_i /\ cms = fld
  <2> DEFINE t1 == d.kzg_challenges  t2 == d.kzg_evaluations  t3 == <<f.cmT>>
             A  == ClaimInput(s, cms)  B == ClaimInput(c, fld)
  <2>1. t1 \in Seq(Int) /\ t2 \in Seq(Int) /\ t3 \in Seq(Int) /\ Len(cms) = Len(fld)
        /\ Followed(A \o cf, t1, t2, t3) = Followed(B \o cf, t1, t2, t3)
    BY <1>6, <1>7, <1>12, <1>13
  <2>2. A \in Seq(Int) /\ B \in Seq(Int)
    BY <1>7, <1>13, <1>14, ClaimInputIsSeq
  <2> HIDE DEF t1, t2, t3, A, B
  <2>3. A \o cf \in Seq(Int) /\ B \o cf \in Seq(Int)
    BY <1>6, <2>2, Concat, Zenon
  <2>4. A \o cf = B \o cf
    BY <2>1, <2>3, CancelThree
  <2>5. A = B
    BY <1>6, <2>2, <2>4, CancelRight
  <2>6. ClaimInput(s, cms) = ClaimInput(c, fld) /\ Len(cms) = Len(fld)
    BY <2>1, <2>5 DEF A, B
  <2>7. s.i \in Nat /\ s.z_0 \in Seq(Int) /\ s.z_i \in Seq(Int) /\ Len(s.z_0) = 1 /\ Len(s.z_i) = 1
    BY <1>14
  <2>8. c.i \in Nat /\ c.z_0 \in Seq(Int) /\ c.z_i \in Seq(Int) /\ c.z_0 # <<>> /\ c.z_i # <<>>
    BY <1>14
  <2>9. cms \in Seq(Int) /\ fld \in Seq(Int)
    BY <1>7, <1>13
  <2> QED BY <2>6, <2>7, <2>8, <2>9, InputsBind
<1> QED
  BY <1>10, <1>15 DEF BindsFold, f, cms, fld

\* Two running and incoming commitments that the last fold of a struct makes the same of.
CommitmentsCollide ==
  \E p \in Provers : \E b \in sent : \E r, n \in {st[p], b} :
    LET s == st[p]
        f == PrimaryFold(s)
    IN  /\ s.i > 1
        /\ r.U_i.cmW # s.U_i.cmW \/ n.u_i.cmW # s.u_i.cmW
        /\ Rlc(r.U_i.cmW, f.r, n.u_i.cmW) = Rlc(s.U_i.cmW, f.r, s.u_i.cmW)

\* No decider proof of a struct past its first step is accepted with another claim, nor
\* with the commitments of another proof, unless these fold to the same.
THEOREM NovaDecidersBind ==
  ASSUME ~Hiding PROVE Spec /\ []~CommitmentsCollide => []DeciderBindsClaim
<1>1. FSP!Spec => []FSP!FInv
  BY NovaSchemeOk, FSP!FInvariant
<1>2. FSP!FInv /\ ~CommitmentsCollide => DeciderBindsClaim
  <2> SUFFICES ASSUME FSP!FInv, ~CommitmentsCollide,
                      NEW p \in Provers, st[p].i > 1, NEW b \in sent,
                      NEW c \in MixedClaims(st[p], b), NEW r \in {st[p], b}, NEW n \in {st[p], b},
                      "Verified" \in Answers(c, r, n, Proofs(st[p]))
               PROVE  /\ ClaimOf(c) = ClaimOf(st[p])
                      /\ Commitments(r.U_i) = Commitments(st[p].U_i)
                      /\ Commitments(n.u_i) = Commitments(st[p].u_i)
    BY DEF DeciderBindsClaim, BoundTo
  <2> DEFINE s == st[p]  f == PrimaryFold(s)
  <2>1. WellFormed(s) /\ WellFormed(b)
    BY DEF FSP!FInv, FSP!Good, Provers, FSP!Provers
  <2>2. Typed(s) /\ Typed(b) /\ Typed(r) /\ Typed(n)
    BY <2>1, WellFormedOpens
  <2>3. Len(s.z_0) = 1 /\ Len(s.z_i) = 1 /\ s.u_i.cmE = 0
    BY <2>1 DEF WellFormed, IsIncoming
  <2>4. ClaimTyped(c)
    BY <2>2 DEF MixedClaims, Typed, ClaimTyped
  <2>5. BindsFold(s, c, r, n)
    <3>1. /\ Proofs(s).onchain = Eth!ProofOf(Eth!TryFrom(s))
          /\ Proofs(s).offchain = OffchainProofOf(Eth!TryFrom(s), Circuit2(s))
      BY DEF Proofs, ProofsOf
    <3>2. \/ Eth!DeciderVerify(ClaimOf(c), Commitments(r.U_i), Commitments(n.u_i),
                               Eth!ProofOf(Eth!TryFrom(s))) = "Verified"
          \/ OffchainVerify(ClaimOf(c), Commitments(r.U_i), Commitments(n.u_i),
                            OffchainProofOf(Eth!TryFrom(s), Circuit2(s))) = "Verified"
      BY <3>1 DEF Answers
    <3> HIDE DEF s
    <3> QED BY <2>2, <2>3, <2>4, <3>2, OnchainBinds, OffchainBinds
  <2>6. /\ f.r \in Fp /\ f.cmT \in Fp /\ f.U.cmE = Rlc(s.U_i.cmE, f.r, f.cmT)
        /\ f.U.cmW = Rlc(s.U_i.cmW, f.r, s.u_i.cmW)
    <3>1. f.r \in Fp /\ f.cmT \in Fp /\ f.U.cmE = Rlc(s.U_i.cmE, f.r, f.cmT)
      BY <2>2, <2>3, LastFoldTyped
    <3>2. f.U.cmW = Rlc(s.U_i.cmW, f.r, s.u_i.cmW)
      BY DEF PrimaryFold, NIFSProve, FoldCommittedInstances
    <3> QED BY <3>1, <3>2
  <2>7. /\ Rlc(r.U_i.cmW, f.r, n.u_i.cmW) = Rlc(s.U_i.cmW, f.r, s.u_i.cmW)
        /\ Rlc(r.U_i.cmE, f.r, f.cmT) = Rlc(s.U_i.cmE, f.r, f.cmT)
    BY <2>5, <2>6 DEF BindsFold, Folded, Commitments
  <2>8. r.U_i.cmE = s.U_i.cmE
    <3>1. r.U_i.cmE \in Fp /\ s.U_i.cmE \in Fp
      BY <2>2 DEF Typed, CommittedInstance
    <3> HIDE DEF s, f
    <3> QED BY <2>6, <2>7, <3>1, RlcCancels
  <2>9. r.U_i.cmW = s.U_i.cmW /\ n.u_i.cmW = s.u_i.cmW
    BY <2>7 DEF CommitmentsCollide
  <2> QED BY <2>3, <2>5, <2>8, <2>9 DEF BindsFold, ClaimOf, Commitments
<1> QED
  BY <1>1, <1>2, SameSpec, PTL DEF Spec, FSP!Spec
===============================================================================

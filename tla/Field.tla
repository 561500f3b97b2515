-------------------------------- MODULE Field --------------------------------
(***************************************************************************)
(* Field elements and the vector helpers of utils/vec.rs.                  *)
(*                                                                         *)
(* A field element is a residue modulo P.  Every vector of the code (the   *)
(* assignment z, a witness, an error vector, a matrix row, a list of       *)
(* generators) is a function from the eight Slots, zero where the code's   *)
(* vector has no entry; the length checks of the code guard against        *)
(* mismatched dimensions, which this representation cannot express.        *)
(***************************************************************************)
EXTENDS Integers

CONSTANT P      \* the modulus

ASSUME PAssumption == P \in Nat /\ P > 1

Fp   == 0 .. P - 1
Slot == 0 .. 7
Vec  == [Slot -> Fp]

ZeroVec == [k \in Slot |-> 0]

\* The inner product of a matrix row, or of a list of generators, and a vector.
Dot(a, b) == (  a[0] * b[0] + a[1] * b[1] + a[2] * b[2] + a[3] * b[3]
              + a[4] * b[4] + a[5] * b[5] + a[6] * b[6] + a[7] * b[7]) % P

MatVecMul(M, z)    == [k \in Slot |-> Dot(M[k], z)]
Hadamard(a, b)     == [k \in Slot |-> (a[k] * b[k]) % P]
VecAdd(a, b)       == [k \in Slot |-> (a[k] + b[k]) % P]
VecSub(a, b)       == [k \in Slot |-> (a[k] - b[k]) % P]
VecScalarMul(a, c) == [k \in Slot |-> (a[k] * c) % P]

\* a + r * b, the random linear combination every folding step is made of.
Rlc(a, r, b)    == (a + r * b) % P
VecRlc(a, r, b) == [k \in Slot |-> Rlc(a[k], r, b[k])]
=============================================================================

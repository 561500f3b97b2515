--------------------------- MODULE ProtoGalaxyFolding ---------------------------
(***************************************************************************)
(* A running ProtoGalaxy pair and its verifier: one or several instances   *)
(* are folded in, as often as MaxFolds says, with any challenges.          *)
(***************************************************************************)
EXTENDS ProtoGalaxyNIFS

CONSTANTS System,      \* the constraint system
          Gens,        \* generators of the commitments
          Incoming,    \* satisfied assignments
          Wrong,       \* assignments that are not
          Challenge,   \* the challenges a transcript may give
          Offers,      \* the sequences of assignments a fold is called with
          MaxFolds     \* bound on the number of folds

ASSUME SystemAssumption ==
  /\ System.A \in Matrix /\ System.B \in Matrix /\ System.C \in Matrix
  /\ System.l \in 1 .. 7 /\ System.t \in 1 .. 3
  /\ \A k \in Slot : k >= 2^System.t =>
       System.A[k] = ZeroVec /\ System.B[k] = ZeroVec /\ System.C[k] = ZeroVec
ASSUME FoldAssumption ==
  /\ Gens \in Vec /\ Challenge \subseteq Fp /\ MaxFolds \in Nat
  /\ Incoming \subseteq Vec /\ Wrong \subseteq Vec
  /\ \A z \in Incoming : z[0] = 1 /\ EvalAtZ(System, z) = ZeroVec
  /\ \A z \in Wrong    : z[0] = 1 /\ EvalAtZ(System, z) # ZeroVec
ASSUME OffersAssumption ==
  Offers \subseteq UNION {[1 .. k -> Incoming \union Wrong] : k \in {2} \union Foldable}

VARIABLES proverU, proverW,   \* the prover's running instance and witness
          verifierU,          \* the verifier's running instance
          outcome,            \* what the last Folding::prove returned
          offered,            \* the incoming assignments it was given
          folds

foldVars == <<proverU, proverW, verifierU, outcome, offered, folds>>

WitnessFor(z)  == PgNewWitness(WitnessOf(z, System.l))
IncomingFor(z) == PgCommit(Gens, WitnessFor(z), PublicOf(z, System.l))

\* The first running pair: a satisfied one, without error, for any beta.
FoldInit ==
  /\ \E z \in Incoming, b \in Challenge :
       /\ proverW = WitnessFor(z)
       /\ proverU = [IncomingFor(z) EXCEPT !.betas = ExponentialPowers(b, System.t)]
  /\ verifierU = proverU
  /\ outcome = "Ok" /\ offered = {} /\ folds = 0

\* Folding::prove and, when it returned a proof, Folding::verify.
Fold(zs, delta, alpha, gamma) ==
  LET us == Collect(Len(zs), LAMBDA j : IncomingFor(zs[j]))
      ws == Collect(Len(zs), LAMBDA j : WitnessFor(zs[j]))
      m  == PgMessages(System, proverU, proverW, us, ws, delta, alpha)
      f  == PgFold(m, proverU, proverW, us, ws, gamma)
  IN  /\ folds < MaxFolds
      /\ folds' = folds + 1
      /\ offered' = {zs[j] : j \in DOMAIN zs}
      /\ IF Len(zs) + 1 \notin {2, 4, 8}
         THEN /\ outcome' = "WrongNumInstances"
              /\ UNCHANGED <<proverU, proverW, verifierU>>
         ELSE IF ~f.divided
         THEN /\ outcome' = "RemainderNotZero"
              /\ UNCHANGED <<proverU, proverW, verifierU>>
         ELSE /\ outcome' = "Ok"
              /\ proverU' = f.U /\ proverW' = f.W
              /\ verifierU' = PgVerifierFold(verifierU, us, f.F_coeffs, f.K_coeffs,
                                             delta, alpha, gamma)

FoldNext == \E zs \in Offers, delta, alpha, gamma \in Challenge : Fold(zs, delta, alpha, gamma)

FoldSpec == FoldInit /\ [][FoldNext]_foldVars

----------------------------------------------------------------------------
\* The running pair satisfies the relation after every fold, whatever was offered:
\* its e, which comes out of F, G and K, is the weighed error of its witness.
Satisfied == PgCheckRunning(System, proverW, proverU)

\* Prover and verifier come to the same running instance.
ProverVerifierAgree == verifierU = proverU

\* The division by the vanishing polynomial fails for no satisfied instances.
HonestNotRefused == offered \subseteq Incoming => outcome # "RemainderNotZero"

\* The prover only folds in assignments whose errors the new betas weigh to zero;
\* for an unsatisfied one few alphas do, the weight being a polynomial in alpha.
OnlyZeroWeightFolded ==
  outcome = "Ok" => \A z \in offered : WeighedError(EvalAtZ(System, z), proverU.betas) = 0
=============================================================================

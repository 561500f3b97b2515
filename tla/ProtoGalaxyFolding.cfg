SPECIFICATION FoldSpec
CONSTANTS
  P = 17
  Ro <- MCRo
  Hiding = FALSE
  System <- MCR
  Gens <- MCGens
  Incoming <- MCIncoming
  Wrong <- MCWrong
  Challenge <- MCChallenge
  Offers <- MCOffers
  MaxFolds = 2
INVARIANTS
  Satisfied
  ProverVerifierAgree
  HonestNotRefused
  OnlyZeroWeightFolded
CHECK_DEADLOCK FALSE

SPECIFICATION FoldSpec
CONSTANTS
  P = 17
  Ro <- MCRo
  Hiding = FALSE
  System <- MCReversed
  Gens <- MCGens
  Incoming <- MCIncoming
  Wrong <- MCWrong
  Challenge <- MCChallenge
  Offers <- MCOffers
  MaxFolds = 2
INVARIANTS
  ProverVerifierAgree
CHECK_DEADLOCK FALSE

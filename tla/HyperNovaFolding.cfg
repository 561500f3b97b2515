SPECIFICATION Spec
CONSTANTS
  P = 7
  Hiding = TRUE
  Ro <- MCRo
  Ccs <- MCCcs
  Gens <- MCGens
  Others <- MCOthers
  Incoming <- MCIncoming
  Gammas <- MCGammas
  Betas <- MCBetas
  Points <- MCPoints
  Rhos <- MCRhos
  MaxFolds = 2
CHECK_DEADLOCK FALSE
INVARIANTS
  Satisfied
  AcceptedExactly
  SumKept

SPECIFICATION VariantSpec
CONSTANTS
  P = 7
  Ro <- MCVariantRo
  Hiding = TRUE
  Cs <- MCCs
  Gens <- MCGens
  Incoming <- MCIncoming
  Wrong <- MCWrong
  Sampled <- MCSampled
  Blinders <- MCHidingBlinders
  MaxFolds = 2
  GensE <- MCGensE
  NumVars = 2
  BetaLabel = 3
  PpHashes = {4}
  Points <- MCPoints
  Auxes <- MCAuxes
INVARIANTS
  Satisfied
  WitnessOpens
  WrongInstanceSpoils
  MovaSatisfied
  OvaOpens
  SidesAgree
CHECK_DEADLOCK FALSE

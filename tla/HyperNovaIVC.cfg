SPECIFICATION Spec
CONSTANTS
  P = 10007
  Ro <- MCRo
  Hiding = TRUE
  Party = {alice}
  NoProver = NoProver
  Z0 <- MCZ0
  Ext = {0, 9}
  BadExt = {9}
  Draws <- MCDraws
  CallerBlinders <- MCCaller
  PpHash = 77
  G <- MCG
  CfG <- MCCfG
  UsizeMax = 2
  MaxSent = 2
  MaxFailures = 1
INVARIANTS
  InstancesSatisfied
  UnfailedProofVerifies
  BlindingSuffices
  OpensButForCaller
PROPERTY
  ImplementsIVC

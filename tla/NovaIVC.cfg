SPECIFICATION Spec
CONSTANTS
  P = 10169
  Ro <- MCRo
  Hiding = FALSE
  Party = {alice}
  NoProver = NoProver
  Z0 <- MCZ0
  Ext = {0, 9}
  BadExt = {9}
  Draws <- MCDraws
  PpHash = 77
  Beta = 1234
  Omega = 3532
  G <- MCKzgKey
  CfG <- MCKzgKey
  UsizeMax = 2
  MaxSent = 2
  MaxFailures = 1
INVARIANTS
  UnfailedProofVerifies
  DecidersAgree
  DeciderBindsClaim
PROPERTY
  ImplementsIVC

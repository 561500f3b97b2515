SPECIFICATION ZSpec
CONSTANTS
  P = 10169
  Ro <- MCRo
  Hiding = TRUE
  Party = {alice}
  NoProver = NoProver
  Z0 <- MCZ0One
  Ext = {0, 1}
  BadExt = {}
  Draws <- MCOneDraw
  PpHash = 77
  Beta = 1234
  Omega = 3532
  G <- MCKzgKey
  CfG <- MCKzgKey
  UsizeMax = 1
  MaxSent = 0
  MaxFailures = 0
  Samples <- MCSamples
  SampleBlinders <- MCSampleBlinders
  MaxRandomized = 2
INVARIANTS
  RandomizedVerifies
  BlindingSuffices
  WrongRunningRefused
PROPERTY
  ZkImplementsIVC

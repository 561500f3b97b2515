SPECIFICATION Spec
CONSTANTS
  P = 40961
  Ro <- MCRo
  Base = 5
  Beta = 1234
  Omega = 31679
  Gens <- MCGens
  H0 = 999
  Powers = 5
  Vectors <- MCVectors
  Blinders = {0, 6}
  Rhos = {3}
  Draw <- MCDraw
  MaxCommitted = 2
  MaxHeld = 3
  MaxProofs = 2
CHECK_DEADLOCK FALSE
INVARIANTS
  TranscriptsInStep
  AcceptedExactly
  CommittedOpens
  GadgetsAgree

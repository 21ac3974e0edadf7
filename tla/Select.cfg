SPECIFICATION Spec
CONSTANTS
  Sink = 1
  Window = 1
  Ceil = 37
  Inf = 63
  MP = 5
  Base = 4
  Digits = 3
  Fine = 2
  BallotMax = 2
  PPad = 6
  Z = 3
  ZS = 2
  Draws <- MCDraws
  Configs <- MCConfigs
INVARIANTS AtRest BoundaryBin
PROPERTY Selected
CHECK_DEADLOCK FALSE

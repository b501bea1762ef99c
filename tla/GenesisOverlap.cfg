\* The host command beside a serving bootloader: no lock keeps their appends apart.
SPECIFICATION OneWorld
CONSTANTS
  k1 = k1
  k2 = k2
  k3 = k3
  op1 = op1
  op2 = op2
  Keys = {k1, k2, k3}
  OperatorKeys = {op1}
  SealedId = rb1
  OtherKinds = {}
  GenesisKinds = {"passphrase"}
  Intents = {i1}
  NoIntent = NoIntent
  HostOverlaps = TRUE
  Faults = {}
  MaxLen = 4
  MaxSigners = 2
SYMMETRY KeySymmetry
PROPERTY HostCannotBreakChain
CHECK_DEADLOCK FALSE

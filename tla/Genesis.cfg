\* The rules of the chain over rosters of up to five entries, and the two files
\* under crashes, failed writes, a restored chain file and a deleted mark.
SPECIFICATION Worlds
CONSTANTS
  k1 = k1
  k2 = k2
  k3 = k3
  op1 = op1
  op2 = op2
  Keys = {k1, k2, k3}
  OperatorKeys = {op1, op2}
  SealedId = rb1
  OtherKinds = {}
  GenesisKinds = {"passphrase"}
  Intents = {i1}
  NoIntent = NoIntent
  HostOverlaps = FALSE
  Faults = {"crash", "write", "restore", "lose"}
  MaxLen = 5
  MaxSigners = 2
SYMMETRY KeySymmetry
INVARIANTS
  TypeOK
  OwnChainAccepted
  NoSilentRollback
  TwoKeysPerChange
  SetsStayUsable
PROPERTY ImplementsSealedLog
CHECK_DEADLOCK FALSE

\* The slots on the file backend. A card expires before an approval, which lasts as long as the window.
SPECIFICATION Worlds
CONSTANTS
  Keys = {k1, k2, k3}
  NoKey = NoKey
  OpKeys = {op1, op2}
  DeviceKeys = {d1}
  NoOperator = NoOperator
  Label = Label
  NoId = NoId
  Configured = {Label, {op1}}
  Expected = {NoId, {op1}}
  Attempts = 3
  MaxLinks = 3
  Durable = FALSE
  CardTTL = 3
  ApprovalTTL = 6
  ContestWindow = 6
  MaxRecords = 2
SYMMETRY KeySymmetry
INVARIANTS
  TypeOK
  OneKeyPerSlot
  NoRivalRequests
  ApprovalsNeverRevived
  TrustRootHolds
PROPERTIES
  LastOwnerLeavesByReset
  EntryAsApproved

CONSTANTS
  Users = {alice, bob, carol}
  Pair = {alice, bob}
  Sole = {carol}
  Operators = {issuer}
  Firms = {firm1}
  Validators = {"Didit"}
  KycAddr = KycAddr
  NftAddr = NftAddr
  NoAddr = NoAddr
  NoHandle = NoHandle
  MaxTokenId = 2
  MaxTime = 1
  MaxSerial = 3
  PairMaxSerial = 2
  SoleMaxTime = 0
  SoleMaxTokenId = 1
SPECIFICATION MCSpec
SYMMETRY PartySymmetry
INVARIANTS
  TypeOK
  OnlyTheVerdictReachesAFirm
  StoredHandlesAreUsable
  VerdictsComeFromTheirUser
  OneTokenPerCustomer
PROPERTIES
  LedgerImplemented
CHECK_DEADLOCK FALSE

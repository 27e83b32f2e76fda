CONSTANTS
  Users = {alice}
  Operators = {issuer}
  Firms = {firm1, firm2}
  Validators = {"Didit", "ZK"}
  KycAddr = KycAddr
  NftAddr = NftAddr
  NoAddr = NoAddr
  NoHandle = NoHandle
  MaxTokenId = 1
  MaxTime = 1
  MaxSerial = 3
SPECIFICATION Spec
INVARIANT RevokedReadsEmpty
CHECK_DEADLOCK FALSE

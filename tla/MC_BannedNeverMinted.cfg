CONSTANTS
  w1 = w1
  w2 = w2
  u1 = u1
  u2 = u2
  id1 = id1
  ad1 = ad1
  Workers = {w1}
  Users = {u1}
  Firms = {}
  Contents = {"basic", "enhanced"}
  NoContent = NoContent
  Sessions = {id1, ad1}
  Address = {ad1}
  NoSession = NoSession
  NoWallet = NoWallet
  RetryLimit = 1
  MaxCopies = 1
  Faults = {}
  MaxFaults = 0
  Interventions = {"ban"}
  MaxInterventions = 1
  MaxRows = 3
SPECIFICATION Spec
SYMMETRY Identical
INVARIANT BannedNeverMinted
CHECK_DEADLOCK FALSE

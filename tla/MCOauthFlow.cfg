CONSTANTS
  Users = {alice, bob, carol}
  Alone = {alice}
  Pair = {bob, carol}
  NoUser = NoUser
  Requests = {r1, r2}
  NoRequest = NoRequest
  Scopes = {"basic", "enhanced"}
  OneLevel = {"enhanced"}
  Calls = {c1, c2, c3}
  Concurrent = {c1, c2}
  Single = {c3}
  MaxAttempts = 1
  Faults = {"db", "reverted", "crash"}
  MaxFaults = 1
  Events = {"revoke", "revokeClient", "expire"}
  MaxEvents = 2
  AloneMaxEvents = 1
  LevelsFaults = {"reverted", "crash"}
  LevelsMaxEvents = 1
SPECIFICATION MCSpec
SYMMETRY Interchangeable
INVARIANTS
  OauthTypeOK
  OneOutcomePerRequest
  OneTokenPerCode
  TokensFollowTheOwner
  ReusedCodeIsWorthless
  LiveTokenHasConsent
  GrantHasConsent
CHECK_DEADLOCK FALSE

CONSTANTS
  Users = {alice}
  NoUser = NoUser
  Requests = {r1, r2}
  NoRequest = NoRequest
  Scopes = {"enhanced"}
  Calls = {c1}
  MaxAttempts = 1
  Faults = {}
  MaxFaults = 0
  Events = {"expire"}
  MaxEvents = 1
SPECIFICATION FairSpec
PROPERTY RegrantIsServed
CHECK_DEADLOCK FALSE

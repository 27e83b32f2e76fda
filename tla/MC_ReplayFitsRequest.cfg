CONSTANTS
  Calls = {c1, c2, c3}
  NoCall = NoCall
  Bodies = {b1, b2}
  NoBody = NoBody
SPECIFICATION IdempotencySpec
INVARIANT ReplayFitsRequest
CHECK_DEADLOCK FALSE

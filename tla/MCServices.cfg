CONSTANTS
  Calls = {"c1", "c2", "c3"}
  NoCall = "nobody"
  Bodies = {"b1", "b2"}
  NoBody = "nothing"
  Superadmins = {"s"}
  Staff = {"a", "b"}
  Support = {}
  Nobody = "nobody"
  Requests = {"p1", "p2"}
  MaxRequests = 6
  Operations = {"update", "invite", "answer", "remove", "join", "takeOver", "reply", "message"}
  NewStatuses = {"open", "resolved"}
  Arrivals = {"q1", "q2", "q3"}
  Tiers <- FirmTiers
  Cost = 2
  MaxClock = 3
  Tabs = {"t1"}
  Ways = {"password", "wallet", "refresh", "logout", "change", "reset", "wrong"}
  Moderators = {"m1"}
  Acts = {"suspend", "activate", "lock", "unlock", "ban"}
  MaxFailed = 2
  MaxSignIns = 2
  MaxTokens = 2
  MaxPasswords = 2
  MaxActs = 2
  Deliveries = {"d1", "d2"}
  NoDelivery = "nothing"
  Emitted = {"d1", "d2"}
  Workers = {"w1", "w2"}
  MaxAttempts = 2
  Threshold = 2
  RetryLimit = 1
  MaxFaults = 1
  Edits = {}
  MaxEdits = 1
  MaxSessions = 2
  Cap = 1
  KycRequests = {"p1"}
  Worker = "w1"
  Verdicts = {"in_progress", "approved", "declined", "expired", "kyc_expired"}
  Faults = {"forget", "block", "duplicate", "revoke", "die", "overdue"}
  MaxKycFaults = 1
SPECIFICATION MCSpec
INVARIANT ServicesTypeOK
INVARIANT StoredAnswerFits
INVARIANT RunsOnce
INVARIANT BreakerIsJust
INVARIANT SpendIsFunded
INVARIANT CopiesAgree
INVARIANT OneTokenAlive
INVARIANT PasswordChangeSignsOut
INVARIANT RestrictionSignsOut
PROPERTY AnswerStays
PROPERTY OutcomeIsFinal
PROPERTY OnlyDiditReopens
PROPERTY OwnersAreNotDisplaced
PROPERTY EndedSessionsStayEnded
CHECK_DEADLOCK FALSE

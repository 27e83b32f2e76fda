CONSTANTS
  Tabs = {"t1"}
  Ways = {"password", "wrong"}
  Moderators = {"m1"}
  Acts = {"ban", "activate"}
  MaxFailed = 5
  MaxSignIns = 1
  MaxTokens = 1
  MaxPasswords = 1
  MaxActs = 1
SPECIFICATION SignInSpec
PROPERTY BanIsTerminal
CHECK_DEADLOCK FALSE

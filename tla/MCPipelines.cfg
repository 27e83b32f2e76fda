CONSTANTS
  Workers = {w0, w1, w2}
  Users = {u0, u1, u2}
  RetryLimit = 1
  MaxCopies = 2
  Faults = {"crash", "chain", "db", "rpc", "gone", "overrun", "adminCrash",
            "auditAfterCommit"}
  MaxFaults = 2
  Interventions = {"unlink", "expire", "ban", "reset", "activate", "selfRevoke", "mint"}
  MaxInterventions = 2
  MaxRows = 3
  SingleCopies = 1
  RecoveryWorkers = {w0}
  RecoveryUsers = {u1, u2}
  RecoveryFaults = {"crash", "chain", "db", "rpc", "gone"}
  RecoveryInterventions = {"unlink", "expire"}
  AdminWorkers = {w1, w2}
  AdminUsers = {u0}
  AdminRetryLimit = 0
  AdminFaults = {"overrun", "adminCrash", "auditAfterCommit"}
  AdminMaxFaults = 1
  AdminInterventions = {"ban", "reset", "activate"}
  AdminMaxRows = 2
  DoubleMaxFaults = 1
  DoubleInterventions = {}
  BadgeFaults = {"chain", "adminCrash"}
  BadgeMaxFaults = 1
  BadgeInterventions = {"reset", "expire", "selfRevoke", "mint"}
  Firms = {}
  Contents = {"basic", "enhanced"}
  NoContent = NoContent
  Sessions = {id1, ad1}
  Address = {ad1}
  NoSession = NoSession
  NoWallet = NoWallet
SPECIFICATION MCSpec
SYMMETRY Identical
INVARIANT PipelineTypeOK
INVARIANT LevelHasRow
INVARIANT ActiveRowIsLive
INVARIANT SessionMintsOnce
INVARIANT BanIsFinal
INVARIANT RecordedTokenExists
PROPERTY NoSplitCredential
CHECK_DEADLOCK FALSE

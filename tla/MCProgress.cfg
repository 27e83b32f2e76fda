SPECIFICATION MCSpec
PROPERTY ClaimGivesWay
PROPERTY QueuedDeliverySettles
PROPERTY DecisionIsLearned
PROPERTY OrphansAreClosed
PROPERTY GrantsSettle
PROPERTY IdentityIsMinted
CHECK_DEADLOCK FALSE

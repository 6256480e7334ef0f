SPECIFICATION AgentFairSpec
CONSTANTS
  Cases = {c1}
  Requests = {r1, r2}
  ClientKeys = {k1}
  NoKey = NoKey
  Limit = 1
  MaxRecoveryAttempts = 2
  HardCap = 4
  Cooldown = 24
  DecisionNow = 100
  Clock = {50, 90}
  Domestic = {}
  Advices <- AnyAdvice
  Fates <- BothFates
  CustomerFlags = {"dispute", "opted_out"}
INVARIANTS
  AgentTypeOK
  FlagsBlockCollection
  AttemptsAreExecutions
  SpentWithinLimit
PROPERTIES
  ExecutedIsFinal
  PaidIsClosed
CHECK_DEADLOCK FALSE

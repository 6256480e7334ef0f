SPECIFICATION AgentSpec
CONSTANTS
  Cases = {c1}
  Requests = {r1}
  ClientKeys = {}
  NoKey = NoKey
  Limit = 1
  MaxRecoveryAttempts = 3
  HardCap = 4
  Cooldown = 24
  DecisionNow = 100
  Clock = {50}
  Domestic = {}
  Advices <- LinkAdvice
  Fates <- Unpaid
  CustomerFlags = {"dispute"}
PROPERTIES
  NothingCollectsInDispute
CHECK_DEADLOCK FALSE

SPECIFICATION CommsSpec
CONSTANTS
  People = {p0}
  Unknown = unknown
  NoRecipient = none
  Asks = {a1}
  Incoming = {x1}
  Hosts = {1, 2}
  Teams = {1, 2}
  NoTeam = 0
  SingleRules <- SomeSingleRules
  LaterRules <- SomeLaterRules
  Phrasings <- SomePhrasings
  MaxLost = 1
INVARIANTS NoDraftForOptedOut
CHECK_DEADLOCK FALSE

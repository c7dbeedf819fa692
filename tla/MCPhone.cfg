SPECIFICATION PhoneSpec
CONSTANTS
  Messages = {m1, m2}
  Drains = {d1, d2}
  NoMessage = NoMessage
  MaxRetry = 1
  MaxKills = 1
  Connects = {c1, c2}
  Disconnects = {e1}
  Renewals = {n1}
  Analyses = {z1}
  MaxSlips = 1
INVARIANTS KeptUntilSent DisconnectEndsAccess
PROPERTY DrainsOverReconnects
CHECK_DEADLOCK FALSE

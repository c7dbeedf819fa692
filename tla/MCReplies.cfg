SPECIFICATION RepliesSpec
CONSTANTS
  phone1 = phone1
  phone2 = phone2
  Devices = {phone1, phone2}
  Requests = {r1}
  OwnerOf <- FirstAsks
  N = 3
  Spares = 1
  MaxConns <- FirstTwice
  g1 = g1
  g2 = g2
  q1 = q1
  p1 = p1
  p2 = p2
  Replicas = {g1, g2}
  Messages = {q1}
  Saves = {p1, p2}
  SendTypes = {mail}
  NoCoordinator = none
  MaxRegMishaps = 1
INVARIANTS ShownIsAPiece ReplicaFollowsDb
PROPERTY SettledWhileConnected
CHECK_DEADLOCK FALSE

SPECIFICATION Spec
CONSTANTS
  phone1 = phone1
  phone2 = phone2
  Devices = {phone1}
  Requests = {r1}
  OwnerOf <- FirstAsks
  N = 3
  Spares = 0
  MaxConns <- FirstTwice
INVARIANT DoneShowsWholeReply
CHECK_DEADLOCK FALSE

SPECIFICATION ProgressSpec
CONSTANTS
  w1 = w1
  w2 = w2
  w3 = w3
  m1 = m1
  m2 = m2
  t1 = t1
  t2 = t2
  contact = contact
  redis = redis
  Writers = {w1, w2, w3}
  Managers = {m1, m2}
  Tenants = {t1}
  Paths = {contact}
  Stores = {redis}
  ManagerOf <- LastThroughM2
  TenantOf <- OneTenant
  StoreOf <- BothRedis
  PathOf <- SamePath
  OpsOf <- AnyOperation
  None = None
  SlowWrites = FALSE
  MaxCrashes = 1
  MaxFaults = 1
  N = 3
  ActionTypes = {"send_email", "financial_action"}
  AlwaysRequire = {"financial_action"}
  Decisions = {"approve", "cancel", "shared"}
  house = house
  condo = condo
  loft = loft
  Props = {house, condo, loft}
  Listing <- MCListing
  PatchTo = {"completed"}
  Slots = {1, 2}
  Options = 2
  MaxDays = 2
  MaxStops = 2
  MaxNegotiations = 1
  MaxFailures = 1
  People = {p, q}
  WithEmail = {p}
  Nobody = none
  Drains = {d1, d2}
  MaxRefused = 1
  Persons = {p1, p2}
  NoPerson = none
  Arrivals = {1, 2}
  Lists = {l1}
  Opens = {o1}
  PageSize = 1
  Loads = {a1, a2}
INVARIANTS OneWriterPerFile ReportedWritesKept DraftsMeetTheirReview RouteCoversCheckedStops NotesLostInTheWindowOnly DossierShowsItsContact PlanIsOneLoadsVerdict NoTextPassesUnnoticed
PROPERTIES WorkEnds ResolvedDayIsRouted PendingContactIsStored
CHECK_DEADLOCK FALSE

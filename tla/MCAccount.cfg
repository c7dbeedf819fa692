SPECIFICATION AccountSpec
CONSTANTS
  Tenants = {t1}
  Calls = {c1, c2}
  Tok = {k1, k2, k3, k4}
  NoTok = NoTok
  NoTenant = NoTenant
  MaxEvents = 2
  MaxLapses = 1
INVARIANTS SignedOutForAReason SettledRowMatchesStore
PROPERTY ClaimsCatchUp
CHECK_DEADLOCK FALSE

SPECIFICATION ApprovalsSpec
CONSTANTS
  Approvals = {}
  Handlers = {}
  None = None
  MaxRestarts = 1
  MaxFaults = 1
  p1 = p1
  p2 = p2
  Decks = {p1, p2}
  NoApproval = none
  Cards <- MCCards
  MaxPushes = 2
  MaxPosts = 1
  Milestones = {1, 2}
  Disclosures = {x}
  MaxDealFaults = 1
INVARIANT NothingSentUnseen
CHECK_DEADLOCK FALSE

SPECIFICATION ApprovalsSpec
CONSTANTS
  Approvals = {a1, a2}
  Handlers = {h1, h2}
  None = None
  MaxRestarts = 1
  MaxFaults = 1
  p1 = p1
  p2 = p2
  Decks = {p1, p2}
  NoApproval = none
  Cards <- MCCards
  MaxPushes = 2
  MaxPosts = 1
  Milestones = {1, 2}
  Disclosures = {x}
  MaxDealFaults = 1
INVARIANTS SentOncePerStart ExecutedWasSwiped OneAlertPerMilestoneAndDay
PROPERTIES NoReopenWhileUp ImplementsGate EventuallyLeaves
CHECK_DEADLOCK FALSE

SPECIFICATION InboundSpec
CONSTANTS
  N = 3
  ActionTypes = {"send_email", "financial_action"}
  AlwaysRequire = {"financial_action"}
  Decisions = {"approve", "cancel", "edit", "shared"}
INVARIANT NothingSentUnasked
CHECK_DEADLOCK FALSE

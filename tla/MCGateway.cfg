SPECIFICATION Spec
CONSTANTS
  Items = {i1}
  MaxTaps = 2
  MaxMishaps = 2
  Posts = {s1, s2}
  Limit = 2
  MaxAnswers = 3
  Enabled = {"manifest", "anthropic", "openrouter", "ollama"}
  KeyMissing = {}
  TierMapping <- ModelTiers
  AgentOverrides <- Overridden
  FallbackChain <- ModelChain
  TiersOf <- ModelsOf
  MaxTokens = 2
  People = {p0}
  Unknown = unknown
  NoRecipient = none
  Asks = {a1}
  Incoming = {x1}
  Hosts = {1, 2}
  Teams = {1, 2}
  NoTeam = 0
  SingleRules <- SomeSingleRules
  LaterRules <- SomeLaterRules
  Phrasings <- SomePhrasings
  MaxLost = 1
  Records = {m, o}
  Mine = m
  NoRecord = none
  Sends = {s1, s2}
  Texts = {t1}
  MaxStopTexts = 1
  NStops = 3
  Drives = {1, 4}
  Bookings = {6, 9}
  Duration = 2
  Tolerance = 1
  Requests = {g1, g2}
  NoRequest = none
  MaxLosses = 2
  Guests = {1, 2}
  NoteSaves = {v1, v2}
  NoGuest = 0
  MaxNotes = 2
  MaxSwallowed = 1
  Users = {u1, u2}
  Nobody = nobody
  MaxSignIns = 2
  MaxReads = 1
  MaxOutages = 1
  MaxKills = 1
  MaxResets = 1
  Builds = {b1, b2}
  Schedules = {w1}
  Patterns = {k1, k2}
  MaxTicks = 2
  MaxFailures = 1
  AgentHosts = {g1, g2}
  Attendees = {ann}
  NoContact = nocontact
  MaxTasks = 2
  MaxEmits = 6
  MaxUnlucky = 1
INVARIANTS TickFiresOnce ItemIsHandledOnce TwoFetchesPerCount AnswerFitsRequestAndStream RecordedWasApproved StopIsObeyed NoteReachesItsGuest FlexibleNeverDelayAnchors EventsDieOut
PROPERTIES AnswersAreKept ResultIsOfLastPress
CHECK_DEADLOCK FALSE

CONSTANTS
  a = a
  b = b
  r1 = r1
  r2 = r2
  w1 = w1
  x1 = x1
  x2 = x2
  h1 = h1
  h2 = h2
  h3 = h3
  j1 = j1
  j2 = j2
  None = None
  Learners = {a, b}
  ReqIds = {r1, r2}
  LearnerOf <- TwoLearners
  SlotOf <- SameSlot
  SessionIds = {x1, x2}
  Handlers = {h1, h2}
  Expirers = {j1}
  Cost = 1
  StartCredits = 1
  MaxDeaths = 1
SPECIFICATION FairSpec
INVARIANTS
  OpenHoldsNothing
  DebitsMatchSessions
PROPERTIES
  ImplementsEscrow
  StaleRequestsClose

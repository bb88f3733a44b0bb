CONSTANTS
  a = a
  b = b
  r1 = r1
  r2 = r2
  w1 = w1
  x1 = x1
  x2 = x2
  h1 = h1
  h2 = h2
  h3 = h3
  j1 = j1
  j2 = j2
  None = None
  Learners = {a}
  ReqIds = {r1, r2}
  LearnerOf <- OneLearner
  SlotOf <- SameSlot
  SessionIds = {x1, x2}
  Handlers = {h1, h2, h3}
  Expirers = {j1, j2}
  Cost = 1
  StartCredits = 2
  MaxDeaths = 1
SYMMETRY Workers
SPECIFICATION RepairedSpec
INVARIANTS
  NeverDoubleBooked
  OneOpenRequest
  NoticesStayTrue
PROPERTY AnsweredOnce

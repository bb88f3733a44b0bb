CONSTANTS
  m = m
  a = a
  b = b
  s1 = s1
  s2 = s2
  h1 = h1
  h2 = h2
  j1 = j1
  j2 = j2
  root = root
  Nobody = Nobody
  Users = {m, a, b}
  Admins = {root}
  SessionIds = {s1}
  MentorOf <- OneMentor
  Handlers = {h1, h2}
  Sweepers = {j1}
  Prices = {1, 2}
  StartCredits = 2
  Adjustments <- Debits
  MaxCredits = 2
  MaxDeaths = 1
SYMMETRY WorkersAndLearners
SPECIFICATION Spec
INVARIANTS
  RefundWithinHold
PROPERTIES
  SlotClaimedOnce
  PayoutIsTheHold
  CancelBeforeStartIsFree

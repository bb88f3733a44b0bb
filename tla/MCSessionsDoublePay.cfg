CONSTANTS
  m = m
  a = a
  b = b
  s1 = s1
  s2 = s2
  h1 = h1
  h2 = h2
  j1 = j1
  j2 = j2
  root = root
  Nobody = Nobody
  Users = {m, a}
  Admins = {}
  SessionIds = {s1}
  MentorOf <- OneMentor
  Handlers = {h1, h2}
  Sweepers = {}
  Prices = {1}
  StartCredits = 1
  Adjustments = {}
  MaxCredits = 0
  MaxDeaths = 0
SPECIFICATION Spec
INVARIANT EarnedWithinPaid

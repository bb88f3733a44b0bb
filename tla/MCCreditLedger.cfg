CONSTANTS
  u1 = u1
  u2 = u2
  t1 = t1
  t2 = t2
  t3 = t3
  Nobody = Nobody
  Users = {u1, u2}
  Txns = {t1, t2, t3}
  Amounts <- MCAmounts
  StarterCredits = 2
  MaxInt = 3
  MaxRows = 3
SYMMETRY Symmetry
SPECIFICATION Spec
INVARIANTS
  NeverOverdrawn
  LedgerExplainsBalance
PROPERTY ImplementsAccounts

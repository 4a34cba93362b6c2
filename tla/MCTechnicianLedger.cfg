SPECIFICATION LedgerSpec
CONSTANTS
  r1 = r1
  r2 = r2
  s2 = s2
  i1 = i1
  i2 = i2
  s1 = s1
  Requests = {r1, r2}
  WageInvoices = {i1, i2}
  Tokens = {s1, s2}
  Nobody = Nobody
  Wage = 1
  Total = 3
  Settled = {3}
SYMMETRY Symmetry
INVARIANTS PostedOnce EntriesFollowPayment NoWaitCycle

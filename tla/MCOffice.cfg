SPECIFICATION OfficeSpec
CONSTANTS
  c1 = c1
  c2 = c2
  r1 = r1
  r2 = r2
  t0 = t0
  t1 = t1
  t2 = t2
  t3 = t3
  d1 = d1
  d2 = d2
  k1 = k1
  k2 = k2
  i1 = i1
  u1 = u1
  u2 = u2
  o1 = o1
  o2 = o2
  p1 = p1
  p2 = p2
  Clients <- MCClients
  Requests <- MCRequests
  Texts <- MCTexts
  Master = t0
  Fallback = t3
  DefaultOn = FALSE
  Fatal <- MCFatal
  Apart <- MCApart
  Desks <- MCDesks
  Categories <- MCCategories
  Items <- MCItems
  Customers <- MCCustomers
  Orders <- MCOrders
  Phones <- MCPhones
  Separate <- MCSeparate
  MaxRequests = 3
SYMMETRY Symmetry
INVARIANTS SentAsEndorsed OverrideIsApproved AnswersFit CustomerOfCaller
CHECK_DEADLOCK FALSE

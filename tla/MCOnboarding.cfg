SPECIFICATION OnboardingSpec
CONSTANTS
  c1 = c1
  c2 = c2
  text = text
  d1 = d1
  d2 = d2
  none = none
  blank = blank
  r1 = r1
  v1 = v1
  v2 = v2
  s1 = s1
  k1 = k1
  k2 = k2
  n1 = n1
  n2 = n2
  p1 = p1
  p2 = p2
  Clients <- MCClients
  Texts <- MCTexts
  Filled <- MCFilled
  Blank = blank
  Cards <- MCCards
  NoCard = none
  Requests <- MCRequests
  Visitors <- MCVisitors
  Sessions <- MCSessions
  CompanyCodes <- MCCodes
  Names <- MCNames
  Phones <- MCPhones
  Elsewhere = {n2}
  Forms <- MCForms
  MaxOtps = 2
  Overlapping = FALSE
  Plain <- MCPlain
SYMMETRY MCSymmetry
INVARIANTS PhoneWasProved OneCompanyPerOtp GatewayForEndorsed ApprovedWasApplied
CHECK_DEADLOCK FALSE

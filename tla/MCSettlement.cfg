SPECIFICATION Spec
CONSTANTS
  c1 = c1
  c2 = c2
  p1 = p1
  a1 = a1
  blank = blank
  Hundred = 4
  Clients <- MCClients
  Payments <- MCPayments
  Accounts <- MCAccounts
  Blank = blank
  Bills <- MCBills
  Campaigns <- MCCampaigns
  Rates <- MCRates
  Fees <- MCFees
  PolicyPairs <- MCPolicyPairs
  Apart <- MCApart
SYMMETRY MCSymmetry
INVARIANTS  SettledAsIssued SplitAddsUp VerifiedAsReviewed

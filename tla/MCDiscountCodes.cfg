SPECIFICATION DiscountSpec
CONSTANTS
  c1 = c1
  c2 = c2
  p1 = p1
  p2 = p2
  i1 = i1
  i2 = i2
  w1 = w1
  s1 = s1
  Clients <- MCClients
  Phones <- MCPhones
  Invoices <- MCInvoices
  PhoneOf <- MCPhoneOf
  Net <- MCNet
  Words <- MCWords
  Singles <- MCSingles
  SingleOf <- MCSingleOf
  Offers <- MCOffers
  Hundred = 2
  MaxCampaigns = 2
  Apart <- MCApart
SYMMETRY MCSymmetry
INVARIANT DiscountAccounted

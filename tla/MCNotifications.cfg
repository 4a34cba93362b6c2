SPECIFICATION FairSpec
CONSTANTS
  c1 = c1
  c2 = c2
  customer = customer
  t1 = t1
  created = created
  paid = paid
  offered = offered
  Clients <- MCClients
  Events <- MCEvents
  Offer = offered
  Lots <- MCLots
  Creation <- MCCreation
  Customers <- MCCustomers
  Technicians <- MCTechnicians
  Recipients <- MCRecipients
  Switched <- MCSwitched
  Profile <- MCProfile
  NewOrder <- MCNewOrder
  Company <- MCCompany
  Delay2 = 1
  Delay3 = 2
  PerDay = 2
  Horizon = 2
  LegacyLimit = 2
  None = None
  MaxRows = 3
  Fatal <- MCFatal
  Apart <- MCApart
  OpenOrders <- MCOrders
  OfferedTo <- MCOffered
  Companies <- MCSettings
INVARIANTS OneMessage ToldOnce OffersAgree
PROPERTY EventsEnd

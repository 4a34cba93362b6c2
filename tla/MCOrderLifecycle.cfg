SPECIFICATION Spec
CONSTANTS
  r1 = r1
  r2 = r2
  t1 = t1
  t2 = t2
  Requests = {r1, r2}
  Techs = {t1, t2}
  NoTech = NoTech
  MaxNew = 1
  MaxOrders = 2
  MaxInvoices = 1
  Limit = 1
  LegacyLimit = 5
  Kinds = {"category", "legacy"}
  Overrides = {}
  Used = {"create", "accept", "assign", "status", "forceCancel", "recycle", "complete", "adminInvoice", "cancelInvoice", "edit", "editBlank"}
  Alone = {"edit"}
SYMMETRY Symmetry
INVARIANTS HeldOrderStands LoggedStatus
CHECK_DEADLOCK FALSE

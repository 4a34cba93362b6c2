SPECIFICATION Spec
CONSTANTS
  r1 = r1
  r2 = r2
  t1 = t1
  t2 = t2
  Requests = {r1}
  Techs = {t1, t2}
  NoTech = NoTech
  MaxNew = 1
  MaxOrders = 3
  MaxInvoices = 2
  Limit = 1
  LegacyLimit = 5
  Kinds = {"category"}
  Overrides = {}
  Used = {"create", "accept", "edit", "editBlank", "status", "return", "requestCancel", "reject", "approve", "assign", "complete", "techInvoice"}
  Alone = {"create", "accept", "edit", "editBlank", "status", "return", "requestCancel", "reject", "approve", "assign", "complete", "techInvoice"}
SYMMETRY Symmetry
INVARIANTS AssignedWhenActive NoTwinOrders InvoicedOnce
CHECK_DEADLOCK FALSE

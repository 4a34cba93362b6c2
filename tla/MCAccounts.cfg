SPECIFICATION Spec
CONSTANTS
  c1 = c1
  c2 = c2
  Clients <- MCClients
  Users = {1, 2}
  Technicians = {3}
  UserOf <- MCUserOf
  Keys <- MCKeys
  MaxAttempts = 1
  MaxCodes = 2
  MaxPasswords = 2
  MaxOffice = 1
  Apart <- MCApart
  Pages <- MCPages
  StaffPages <- MCStaffPages
  Invoices = {"admin_invoice_detail"}
SYMMETRY ClientSymmetry
INVARIANTS LastWriteStands OneResetPerCode ServedAsTicked
PROPERTY DeletedStaysDeleted
CHECK_DEADLOCK FALSE

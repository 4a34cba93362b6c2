SPECIFICATION Spec
CONSTANTS
  r1 = r1
  r2 = r2
  r3 = r3
  c1 = c1
  Requests = {r1, r2}
  MaxPayments = 3
  Nets = {0, 2}
  Codes = {c1}
  Discount = 1
  Alone = {"issue", "edit", "cancel"}
  Free = Free
  Blank = Blank
  Garbled = Garbled
  Cells <- MCCells
  Files <- MCFiles
PROPERTIES ImplementsWorkflow
CHECK_DEADLOCK FALSE

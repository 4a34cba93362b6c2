SPECIFICATION FairSpec
CONSTANTS
  w1 = w1
  w2 = w2
  m1 = m1
  m2 = m2
  b1 = b1
  Workers <- MCWorkers
  Messages <- MCMessages
  Platform <- MCPlatform
  Bills <- MCBills
  Amount = 2
  Prices = {1}
  MaxAttempts = 3
  MaxPays = 2
  MaxCrashes = 1
  Alone = {"pay"}
INVARIANTS WalletAccounts PaidForWhatWasSent SentWasAccepted
PROPERTY SendingEnds
CHECK_DEADLOCK FALSE

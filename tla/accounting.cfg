CONSTANTS
  Peer = {1, 2}
  Request = {1, 2, 10}
  From <- FromWhom
  Price <- Prices
  Originated = {1}
  refreshRate = 2
  paymentThreshold = 2
  earlyPayment = 1
  disconnectLimit = 3
  minimumPayment = 1
  failedSettlementInterval = 1
  maxDrift = 2
  Start = 3
  MaxTime = 3
  MaxFaults = 2
SPECIFICATION Spec
CHECK_DEADLOCK FALSE
INVARIANTS BooksBalance DebtIsBounded OwnDebtIsOwed
PROPERTIES BlocksOnlyDebtors

CONSTANTS
  Users = {u1}
  Addresses = {a1}
  Loops <- TwoWorkers
  UsdAmounts = {600}
  PaidAmounts = {600}
  SimAmounts = {}
  Tolerance = 15
  Floor = 1
  Required = 1
  MaxDeposits = 2
  MaxPayments = 1
  MaxFailures = 1
SPECIFICATION Spec
INVARIANTS CreditedOnce
PROPERTIES KeepsTheDepositBook


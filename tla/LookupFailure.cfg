CONSTANTS
  Users = {u1}
  Addresses = {a1}
  Loops <- ChainTimer
  UsdAmounts = {100}
  PaidAmounts = {100}
  SimAmounts = {}
  Tolerance = 15
  Floor = 1
  Required = 1
  MaxDeposits = 1
  MaxPayments = 1
  MaxFailures = 0
SPECIFICATION FairSpec

PROPERTIES PaidIsNotGivenUp

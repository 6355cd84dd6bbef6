CONSTANTS
  Users = {u1}
  Addresses = {a1}
  Loops <- OneWorker
  UsdAmounts = {100}
  PaidAmounts = {100, 114}
  SimAmounts = {100}
  Tolerance = 15
  Floor = 1
  Required = 1
  MaxDeposits = 2
  MaxPayments = 1
  MaxFailures = 1
SPECIFICATION FairSpec
INVARIANTS TypeOK  
PROPERTIES DecidedIsLeftAlone 

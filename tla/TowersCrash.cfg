CONSTANTS
  Users = {u1}
  Nobody = Nobody
  Requests = {r1}
  Commands <- TowersCommands
  SerialPlayers = TRUE
  StakeInputs = {10049}
  MinBet = 50
  MaxBet = 1000
  Multipliers = {50, 196}
  Difficulty = 0
  ControlRules <- FairOrForcedLoss
  TileCount = 3
  MineCounts = {1}
  HotSpots <- MCHotSpots
  TowerTiles = 2
  TowerRows = 2
  TowerTraps = {1}
  MinesMultiplier <- MCMinesMultiplier
  TowersMultiplier <- MCTowersMultiplier
  DepositAmounts = {200}
  MaxBets = 2
  MaxSessions = 2
  MaxDeposited = 200
  MaxFailures = 1
  MaxAdminActs = 0
SPECIFICATION Spec
INVARIANTS TypeOK LockedIsHeld PaidOnce NoncesCount OneOpenRound OneOpenSession
PROPERTIES FinishedRoundIsFinal   KeepsTheBook

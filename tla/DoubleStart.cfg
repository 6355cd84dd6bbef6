CONSTANTS
  Users = {u1}
  Nobody = Nobody
  Requests = {r1, r2}
  Commands <- MinesCommands
  SerialPlayers = FALSE
  StakeInputs = {10049}
  MinBet = 50
  MaxBet = 1000
  Multipliers = {50, 196}
  Difficulty = 0
  ControlRules <- FairOdds
  TileCount = 3
  MineCounts = {1}
  HotSpots <- MCHotSpots
  TowerTiles = 2
  TowerRows = 2
  TowerTraps = {1}
  MinesMultiplier <- MCMinesMultiplier
  TowersMultiplier <- MCTowersMultiplier
  DepositAmounts = {200}
  MaxBets = 2
  MaxSessions = 1
  MaxDeposited = 400
  MaxFailures = 0
  MaxAdminActs = 0
SPECIFICATION Spec
INVARIANTS OneOpenRound

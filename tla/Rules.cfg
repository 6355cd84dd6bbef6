CONSTANTS
  HouseEdge = 2
  MaxMultiplier = 100000
  Tiles = 5
  HotSpots <- MCHotSpots
  Floors = 3
  Inputs <- MCInputs
  Rules <- MCControls
  Difficulties = {0, 90, 100}
  Grain = 40
SPECIFICATION Spec
INVARIANTS TypeOK ForcedResultIsObeyed DifficultyIsALossPercent OnlyTheWheelFavoursThePlayer BoardsPayTheirOdds BoardsAreWhole

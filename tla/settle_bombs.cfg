SPECIFICATION Spec
CONSTANTS
  NP = 3
  Stakes <- LowStake
  Fee = 1
  LeaveMoney = 0
  FullHand = 3
  BirdRule = FALSE
  Starts <- LossStarts
  TopUp = 25
  MaxBombs = 2
  MaxGames = 1
  MaxExtras = 0
PROPERTY Conserved

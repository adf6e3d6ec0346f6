SPECIFICATION Spec
CONSTANTS
  NP = 2
  Stakes <- BothStakes
  Fee = 1
  LeaveMoney = 0
  FullHand = 3
  BirdRule = TRUE
  Starts <- TwoStarts
  TopUp = 25
  MaxBombs = 2
  MaxGames = 2
  MaxExtras = 2
PROPERTIES
  Conserved
  NoOverdraft
  WinnersDoNotPay

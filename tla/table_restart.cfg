SPECIFICATION Spec
CONSTANTS
  NP = 3
  RoomType = 0
  FirstRule = TRUE
  BirdRule = FALSE
  HighStake = FALSE
  TurnTime = 1
  MaxCrashes = 1
  Deals <- RestartDeals
  OpeningCard <- MCOpeningCard
  BirdCard <- MCBirdCard
  Kind <- MCKind
  Rank <- MCRank
  TripleGroups <- MCTripleGroups
  HasTip <- MCHasTip
  AutoFollow <- MCAutoFollow
  AutoLead <- MCAutoLead
  Kinds <- KindTable
  Ranks <- RankTable
  GroupCounts <- GroupsTable
  Tips <- TipTable
  Follows <- FollowTable
  Leads <- LeadTable
INVARIANTS
  GameIsFull
  RowCurrent
  ReadyPolled
PROPERTIES
  KeepsSeats
  OnlyTurnPlays
  TurnOrder

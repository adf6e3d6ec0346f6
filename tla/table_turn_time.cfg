SPECIFICATION Spec
CONSTANTS
  NP = 3
  RoomType = 0
  FirstRule = TRUE
  BirdRule = FALSE
  HighStake = FALSE
  TurnTime = 1
  MaxCrashes = 0
  Deals <- OpenDeals
  OpeningCard <- MCOpeningCard
  BirdCard <- MCBirdCard
  Kind <- MCKind
  Rank <- MCRank
  TripleGroups <- MCTripleGroups
  HasTip <- MCHasTip
  AutoFollow <- MCAutoFollow
  AutoLead <- MCAutoLead
  Kinds <- KindTable
  Ranks <- RankTable
  GroupCounts <- GroupsTable
  Tips <- TipTable
  Follows <- FollowTable
  Leads <- LeadTable
PROPERTY FullTurnTime
CHECK_DEADLOCK FALSE

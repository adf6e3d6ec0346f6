SPECIFICATION Spec
CONSTANTS
  NP = 2
  RoomType = 1
  FirstRule = FALSE
  BirdRule = FALSE
  HighStake = TRUE
  TurnTime = 1
  MaxCrashes = 0
  Deals <- DuelDeals
  OpeningCard <- MCOpeningCard
  BirdCard <- MCBirdCard
  Kind <- MCKind
  Rank <- MCRank
  TripleGroups <- MCTripleGroups
  HasTip <- MCHasTip
  AutoFollow <- MCAutoFollow
  AutoLead <- MCAutoLead
  Kinds <- KindTable
  Ranks <- RankTable
  GroupCounts <- GroupsTable
  Tips <- TipTable
  Follows <- FollowTable
  Leads <- LeadTable
INVARIANTS
  PaidOnce
  RowCurrent
CHECK_DEADLOCK FALSE

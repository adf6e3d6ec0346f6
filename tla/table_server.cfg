SPECIFICATION FairSpec
CONSTANTS
  NP = 3
  RoomType = 0
  FirstRule = TRUE
  BirdRule = TRUE
  HighStake = FALSE
  TurnTime = 1
  MaxCrashes = 0
  Deals <- ServerDeals
  OpeningCard <- MCOpeningCard
  BirdCard <- MCBirdCard
  Kind <- MCKind
  Rank <- MCRank
  TripleGroups <- MCTripleGroups
  HasTip <- MCHasTip
  AutoFollow <- MCAutoFollow
  AutoLead <- MCAutoLead
  Kinds <- KindTable
  Ranks <- RankTable
  GroupCounts <- GroupsTable
  Tips <- TipTable
  Follows <- FollowTable
  Leads <- LeadTable
INVARIANTS
  TypeOK
  CardsPlayOnce
  RoundShape
  SingleReported
  LeaderCanPlay
  BirdHolder
  BombsBalance
PROPERTIES
  PlaysAccepted
  GameEnds
  LateSeatFreed

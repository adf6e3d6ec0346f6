SPECIFICATION FairSpec
CONSTANTS
  Users = {u1}
  Conns = {c1, c2, c3}
  Objs <- FourObjs
  MaxTid = 2
  Sizes <- Twos
  RoomSize = 2
  RoomTypes <- ServerRoom
  SwitchUser = FALSE
  Failing = {"rest"}
  MaxFailures = 1
  MaxCrashes = 1
PROPERTY
  StrangersLeave

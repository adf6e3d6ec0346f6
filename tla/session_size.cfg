SPECIFICATION Spec
CONSTANTS
  Users = {u1, u2}
  Conns = {c1, c2}
  Objs <- FourObjs
  MaxTid = 2
  Sizes <- TwosAndThrees
  RoomSize = 2
  RoomTypes <- ServerRoom
  SwitchUser = FALSE
  Failing = {}
  MaxFailures = 0
  MaxCrashes = 1
INVARIANT
  PlacesTaken
SYMMETRY Same

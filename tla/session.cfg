SPECIFICATION Spec
CONSTANTS
  Users = {u1, u2}
  Conns = {c1, c2}
  Objs <- FourObjs
  MaxTid = 2
  Sizes <- Twos
  RoomSize = 2
  RoomTypes <- AllRooms
  SwitchUser = FALSE
  Failing = {"tid", "create", "leave"}
  MaxFailures = 1
  MaxCrashes = 1
INVARIANTS
  TypeOK
  ConnectionsAgree
  PointersLive
  OnePlayerPerUser
  RoomAgrees
  ChairFound
  TablesAgree
PROPERTIES
  KeepsSeats
  ComesBack
  GameKeepsPlayers
SYMMETRY Same

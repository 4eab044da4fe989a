CONSTANTS
  NoUser = NoUser
  NoRoom = NoRoom
  Users = {u1, u2}
  Rooms = {r1}
  Connections = 1
  TotalRounds = 2
  CountdownTicks = 1
  Decibels = {0}
  MaxLookups = 1
  MaxSockets = 2
  MaxLost = 0
  MaxRound = 3
SPECIFICATION LiveSpec
CHECK_DEADLOCK FALSE
PROPERTY MatchEnds
PROPERTY FinishedRoomMovesOn

CONSTANTS
  NoUser = NoUser
  NoRoom = NoRoom
  Users = {u1, u2}
  Rooms = {r1}
  Connections = 1
  TotalRounds = 1
  CountdownTicks = 1
  Decibels = {0}
  MaxLookups = 1
  MaxSockets = 2
  MaxLost = 0
  MaxRound = 1
SPECIFICATION Spec
CHECK_DEADLOCK FALSE
SYMMETRY Symmetry
INVARIANT OfficialOnlyInMatch

CONSTANTS
  NoUser = NoUser
  NoRoom = NoRoom
  Users = {u1, u2}
  Rooms = {r1, r2}
  Connections = 1
  TotalRounds = 2
  CountdownTicks = 1
  Decibels = {0, 1}
  MaxLookups = 1
  MaxSockets = 2
  MaxLost = 0
  MaxRound = 3
SPECIFICATION Spec
CHECK_DEADLOCK FALSE
SYMMETRY Symmetry
INVARIANT TypeOK
INVARIANT ScoresMatchRecords
INVARIANT RoundsScoredOnce
INVARIANT UserIndexComplete
PROPERTY SubmissionStands
PROPERTY OfficialMatchDecided
PROPERTY ImplementsDuelMatch

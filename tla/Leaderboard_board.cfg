CONSTANTS
  Calls = {c1}
  Identities = {i1, i2, i3}
  Nicknames = {n1, n2, n3}
  Peaks = {1, 2}
  Dates = {}
  Null = Null
  MaxUsers = 3
  MaxImages = 0
  TopN = 2
  MaxMoved = 1
SPECIFICATION BoardSpec
SYMMETRY Symmetry
INVARIANT BoardTypeOK
PROPERTY ListedOnce
PROPERTY NobodyPassedOver
PROPERTY RankCountsThoseAhead
PROPERTY RankAgreesWithList

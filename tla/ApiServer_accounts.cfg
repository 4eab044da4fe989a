CONSTANTS
  Calls = {c1, c2}
  Identities = {i1, i2}
  Nicknames = {n1, n2}
  Peaks = {1, 2}
  Dates = {d1}
  Null = Null
  MaxUsers = 2
  MaxImages = 1
SPECIFICATION Spec
SYMMETRY Symmetry
INVARIANT TypeOK
INVARIANT OneAccountEach
INVARIANT DeletedAccountHasNoRecords
PROPERTY SessionsEndWithAccount
PROPERTY ImageLostOnlyByDeletion
PROPERTY BestFallsOnlyByOverlap
PROPERTY ImplementsAccounts

CONSTANTS
  Calls = {c1, c2, c3}
  Ttl = 3
  MaxTime = 5
SPECIFICATION Spec
SYMMETRY Symmetry
INVARIANT TypeOK
INVARIANT ClientStaysLoggedIn
PROPERTY ReplacedTokenStaysDead
PROPERTY LogoutHolds

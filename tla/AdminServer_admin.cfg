CONSTANTS
  Names = {"admin_login_rate_limited", "admin_login_failed", "admin_login_success"}
  Filters = {Undefined, "admin_login_failed"}
  Limits = {Undefined, 0, 1}
  DefaultLimit = 2
  MaxLimit = 2
  Undefined = Undefined
  MaxEvents = 4
  Calls = {c1, c2}
  Ips = {a}
  WindowMs = 1
  MaxAttempts = 2
  MaxTime = 2
SPECIFICATION Spec
SYMMETRY Symmetry
INVARIANT TypeOK
INVARIANT FailuresBounded
INVARIANT PagesInOrder
INVARIANT WalkIsComplete
PROPERTY RefusedOnlyAfterFailures

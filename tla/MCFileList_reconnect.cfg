SPECIFICATION Spec
CONSTANTS
  Addr = {a1, a2}
  NULL = NULL
  Files = {f1, f2}
  MaxLines = 2
  Listings <- MCListings
  MaxConnects = 2
CHECK_DEADLOCK FALSE
INVARIANT ListIsListing

SPECIFICATION FairSpec
CONSTANTS
  Addr = {a1, a2, a3}
  NULL = NULL
  Files = {f1, f2}
  MaxLines = 3
  Listings <- MCListings
  MaxConnects = 2
CHECK_DEADLOCK FALSE
INVARIANTS TypeOK FreshListIsListing FreshListIsSafe NothingLeaks
PROPERTIES  ListRefines

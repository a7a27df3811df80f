SPECIFICATION Spec
CONSTANTS
  Names <- MCNames
  Chars <- MCChars
  FirstWord <- MCFirstWord
  Listings <- MCListings
  Held = {0, 62}
  HASH_SIZE = 3
  Long = 8
  Halves = 8
  MaxConnects = 2
INVARIANTS
  TypeOK
  ListedSizeWins
PROPERTIES
  OthersKeepSize
CHECK_DEADLOCK FALSE

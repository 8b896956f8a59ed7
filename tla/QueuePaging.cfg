\* Three items, two of them moved or inserted while a client reads pages of one or two.
SPECIFICATION Spec
CONSTANTS
  r1 = r1
  r2 = r2
  r3 = r3
  a1 = a1
  a2 = a2
  NoRow = NoRow
  Reports = {r1, r2, r3}
  Attempts = {a1, a2}
  Rank <- MCRank
  MaxClock = 3
  MaxLimit = 2
INVARIANTS
  NothingStillIsMissed
  PagesDescend
PROPERTY ListingEnds
CHECK_DEADLOCK FALSE

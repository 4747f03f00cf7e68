SPECIFICATION FairSpec
CONSTANTS
  admin = admin
  viewer = viewer
  g1 = g1
  g2 = g2
  gNew = gNew
  SeedOrder <- MCOrder
  RowsOf <- MCRowsOf
  SeedRows <- MCSeed
  Purgeable <- Accounts
  Erasable <- Generators
  MaxAttempts = 3
  MaxFaults = 3
INVARIANTS TypeOK SeededAsAWhole ServedAfterSeeding
PROPERTIES DeletedStaysDeleted ServesUnlessBlocked
CHECK_DEADLOCK FALSE

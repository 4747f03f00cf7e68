SPECIFICATION Spec
CONSTANTS
  admin = admin
  viewer = viewer
  g1 = g1
  g2 = g2
  gNew = gNew
  SeedOrder <- MCOrder
  RowsOf <- MCRowsOf
  SeedRows <- MCSeed
  Purgeable <- Accounts
  Erasable <- Generators
  MaxAttempts = 2
  MaxFaults = 1
PROPERTIES RemovedAccountsStayRemoved

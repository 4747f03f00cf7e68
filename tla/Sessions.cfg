SPECIFICATION FairSpec
CONSTANTS
  t1 = t1
  t2 = t2
  viewer = viewer
  reviewer = reviewer
  Tabs = {t1, t2}
  Users = {viewer, reviewer}
  SeedAccounts <- MCSeed
  AccountsOf <- MCAccounts
  Ttl = 1
  MaxTime = 1
  PageRoutes = {"list", "transition", "audits"}
  None = None
INVARIANTS TypeOK SessionsMatchTheirTokens PagesMatchTheSession
PROPERTIES ServedOnARecentRole OwnCallsPermitted LoadingEnds

SPECIFICATION PageSpec
CONSTANTS
  c1 = c1
  d1 = d1
  s1 = s1
  s2 = s2
  w1 = w1
  Codes = {c1}
  Slots = {s1, s2}
  Workers = {s1, s2, w1}
  Absent = Absent
  Idle = Idle
  PageSize = 20
  NoCall = NoCall
  NoDialog = NoDialog
  CreateDialog = CreateDialog
  Graph <- CarrierGraph
  Offers <- CarrierOffers
  InitialStatus = "pending"
  Editable <- AnyCarrierStatus
  Deletable <- AnyCarrierStatus
  Data = {d1}
  Seed <- EmptySeed
  Lookahead = 0
  MaxVersion <- UpTo3
SYMMETRY SlotSymmetry
INVARIANTS PageTypeOK ShownIsCurrentOrOutdated SpinnerStops
PROPERTIES ConfirmedAsShown

SPECIFICATION Spec
CONSTANTS
  c1 = c1
  c2 = c2
  d1 = d1
  d2 = d2
  w1 = w1
  w2 = w2
  w3 = w3
  Codes = {c1}
  Workers = {w1, w2}
  Absent = Absent
  Idle = Idle
  Graph <- ManifestGraph
  InitialStatus = "draft"
  Editable <- OnlyDraft
  Deletable <- OnlyDraft
  Data <- MCData
  Seed <- SeededDraft
  Lookahead = 1
  MaxVersion <- UpTo4
PROPERTIES FrozenOutsideEditable

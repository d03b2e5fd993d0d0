SPECIFICATION Spec
CONSTANTS
  d1 = d1
  d2 = d2
  d3 = d3
  sales = sales
  order = order
  assembly = assembly
  Docs = {d1}
  Age <- MCAge
  Kinds <- MCKinds
  Kind <- MCKind
  InlineKinds <- MCInline
  HeaderKinds = {}
  Exts <- MCExts
  Ext <- MCExtLower
  BcCode <- MCBcCode
  ChunkSize = 1
  MaxInflight = 2
  Stuck = {}
  Faults = {}
  MaxFaults = 0
  MaxRuns = 1
INVARIANTS CleanRunSettles
CHECK_DEADLOCK FALSE

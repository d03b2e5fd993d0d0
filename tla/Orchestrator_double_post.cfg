SPECIFICATION Spec
CONSTANTS
  d1 = d1
  d2 = d2
  d3 = d3
  sales = sales
  order = order
  assembly = assembly
  Docs = {d1, d2}
  Age <- MCAge
  Kinds <- MCKinds
  Kind <- MCKindOrders
  InlineKinds <- MCInline
  HeaderKinds = {}
  Exts <- MCExts
  Ext <- MCExt
  BcCode <- MCBcCode
  ChunkSize = 2
  MaxInflight = 2
  Stuck = {}
  Faults = {}
  MaxFaults = 0
  MaxRuns = 2
INVARIANTS NeverPostedTwice
CHECK_DEADLOCK FALSE

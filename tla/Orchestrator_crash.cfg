SPECIFICATION Spec
CONSTANTS
  d1 = d1
  d2 = d2
  d3 = d3
  sales = sales
  order = order
  assembly = assembly
  Docs = {d1}
  Age <- MCAge
  Kinds <- MCKinds
  Kind <- MCKind
  InlineKinds <- MCInline
  HeaderKinds = {}
  Exts <- MCExts
  Ext <- MCExt
  BcCode <- MCBcCode
  ChunkSize = 1
  MaxInflight = 2
  Stuck = {}
  Faults = {"crash"}
  MaxFaults = 1
  MaxRuns = 2
INVARIANTS CrashIsResumable
CHECK_DEADLOCK FALSE

SPECIFICATION FairSpec
CONSTANTS
  d1 = d1
  d2 = d2
  d3 = d3
  sales = sales
  order = order
  assembly = assembly
  Docs = {d1, d2, d3}
  Age <- MCAge
  Kinds <- MCKinds
  Kind <- MCKindEach
  InlineKinds <- MCInline
  HeaderKinds = {assembly}
  Exts <- MCExts
  Ext <- MCExt
  BcCode <- MCBcCode
  ChunkSize = 2
  MaxInflight = 2
  Stuck = {d3}
  Faults = {"reply", "staging", "slow", "session", "retry", "rerun"}
  MaxFaults = 1
  MaxRuns = 1
INVARIANTS PostedIsTrue
PROPERTIES RunEnds
CHECK_DEADLOCK FALSE

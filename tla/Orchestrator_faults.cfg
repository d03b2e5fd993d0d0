SPECIFICATION Spec
CONSTANTS
  d1 = d1
  d2 = d2
  d3 = d3
  sales = sales
  order = order
  assembly = assembly
  Docs = {d1, d2}
  Age <- MCAge
  Kinds <- MCKinds
  Kind <- MCKind
  InlineKinds <- MCInline
  HeaderKinds = {}
  Exts <- MCExts
  Ext <- MCExt
  BcCode <- MCBcCode
  ChunkSize = 1
  MaxInflight = 2
  Stuck = {}
  Faults = {"crash", "staging", "reply", "retry", "rerun", "slow", "session"}
  MaxFaults = 2
  MaxRuns = 2
INVARIANTS TypeOK ImportedHasNumber ImportedOncePerRun CleanRunSettles InflightBounded
PROPERTIES FailureExplained PostedIsFinal
CHECK_DEADLOCK FALSE

SPECIFICATION FairSpec
CONSTANTS
  i1 = i1
  i2 = i2
  i3 = i3
  main = main
  p1 = p1
  Importers <- MCImporters3
  Reporters <- MCReporters
  Main <- main
  INCREASE_EVERY = 2
  MaxOwed = 1
INVARIANTS TypeOK PermitsBalance CounterBounded
PROPERTIES TargetMoves TargetRespected WaiterServed

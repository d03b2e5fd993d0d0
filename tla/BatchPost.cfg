SPECIFICATION Spec
CONSTANTS
  j1 = j1
  j2 = j2
  d1 = d1
  d2 = d2
  manual = manual
  c1 = c1
  c2 = c2
  s1 = s1
  s2 = s2
  s3 = s3
  code = code
  Blank = Blank
  NoJob = NoJob
  NoDoc = NoDoc
  NoSession = NoSession
  Jobs = {j1, j2}
  Docs = {d1, d2}
  Transfers = {d1, d2}
  Callers = {c1, c2}
  Sessions = {s1, s2}
  Batch <- MCBatchSame
  Tag <- MCTagTwo
  MaxCrashes = 1
SYMMETRY MCSymmetry
INVARIANTS TypeOK OneReportingSession CompletedAccounts CompletedCountsMatch SuccessRowsTrue LossBounded

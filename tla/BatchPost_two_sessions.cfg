SPECIFICATION Spec
CONSTANTS
  j1 = j1
  j2 = j2
  d1 = d1
  d2 = d2
  manual = manual
  c1 = c1
  c2 = c2
  s1 = s1
  s2 = s2
  s3 = s3
  code = code
  Blank = Blank
  NoJob = NoJob
  NoDoc = NoDoc
  NoSession = NoSession
  Jobs = {j1}
  Docs = {d1}
  Transfers = {}
  Callers = {c1, c2}
  Sessions = {s1, s2, s3}
  Batch <- MCBatchOne
  Tag <- MCTagTwo
  MaxCrashes = 0
INVARIANTS NeverTwoSessions

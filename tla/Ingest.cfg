SPECIFICATION FairSpec
CONSTANTS
  p1 = p1
  p2 = p2
  None = None
  NaN = NaN
  Lower <- MCLower
  Numbers <- MCNumbers
  Iso <- MCIso
  Procs = {p1, p2}
  Inbox <- MCInbox
  Content <- MCContent
  Wrote <- MCWrote
  Documents <- MCDocuments
  NewStatuses = {"imported", "posted", "failed"}
  Faults = {"staging", "reply", "crash"}
  MaxFaults = 1
INVARIANTS TypeOK ReportsTrue DoneIsStaged ParsedAsWritten
PROPERTIES StagesOnce IngestEnds
CHECK_DEADLOCK FALSE

---------------------------- MODULE BatchPostProofs ----------------------------
(* Proofs about BatchPost, for any number of jobs, documents, requests and      *)
(* sessions: at most one session can report for a job, success rows are true    *)
(* and unique, documents without a batch code are never posted, a run never     *)
(* counts a document twice, the counters of a Completed job are those of its    *)
(* rows and leave no document of its batch unexplained, and a session that ends *)
(* loses one row at most.                                                       *)
EXTENDS BatchPost, FiniteSetTheorems, TLAPS

CallerPCs == {"idle", "poll", "run", "reset", "start"}
SessionPCs == {"unused", "starting", "done", "ended"} \union Working

(* The types the proofs need: those of control, documents and rows.             *)
Types ==
    /\ status \in [Jobs -> Statuses]
    /\ owner \in [Jobs -> Sessions \union {NoSession}]
    /\ posted \subseteq Docs
    /\ toShip \subseteq Transfers
    /\ results \subseteq Rows
    /\ current \subseteq Callers \union Sessions
    /\ cpc \in [Callers -> CallerPCs]
    /\ cjob \in [Callers -> Jobs \union {NoJob}]
    /\ spc \in [Sessions -> SessionPCs]
    /\ sjob \in [Sessions -> Jobs \union {NoJob}]
    /\ stodo \in [Sessions -> SUBSET Docs]
    /\ scur \in [Sessions -> Docs \union {NoDoc}]
    /\ slog \in [Sessions -> SUBSET Rows]

(* A request in progress and a session that has started have a job; a session   *)
(* posting a document has one.                                                  *)
Placed ==
    /\ \A c \in Callers : cpc[c] \notin {"idle", "poll"} => cjob[c] \in Jobs
    /\ \A s \in Sessions : spc[s] \in {"starting"} \union Working => sjob[s] \in Jobs
    /\ \A s \in Sessions : spc[s] \in {"codeunit", "reread"} => scur[s] \in Docs

Control == Types /\ Placed

LEMMA ControlInit == Init => Control
  BY NoneAssumption
  DEF Init, Control, Types, Placed, Statuses, CallerPCs, SessionPCs, Working

\* The step of one action, by the actor that takes it.
LEMMA ControlCaller ==
  ASSUME Control, NEW c \in Callers, CallerStep(c)
  PROVE  Control'
  <1> USE NoneAssumption, HoldersAssumption DEF Control, Types, Placed, Respond, CallerPCs, SessionPCs
  <1>1. CASE poll(c)
    BY <1>1 DEF poll, session, Statuses
  <1>2. CASE refused(c)
    BY <1>2 DEF refused, session, jobRow
  <1>3. CASE run(c)
    BY <1>3 DEF run, session, BackToPending, Statuses
  <1>4. CASE reset(c)
    BY <1>4 DEF reset, session, BackToPending, Statuses
  <1>5. CASE SessionNotStarted(c)
    BY <1>5 DEF SessionNotStarted, session, Modified, Statuses
  <1>6. CASE \E s \in Sessions : StartSession(c, s)
    BY <1>6 DEF StartSession, jobRow, Working
  <1> QED
    BY <1>1, <1>2, <1>3, <1>4, <1>5, <1>6 DEF CallerStep

LEMMA ControlSession ==
  ASSUME Control, NEW s \in Sessions, SessionStep(s)
  PROVE  Control'
  <1> USE NoneAssumption, HoldersAssumption
      DEF Control, Types, Placed, At, Goto, caller, SessionPCs, Working
  <1>1. CASE RunJob_blank(s)
    BY <1>1 DEF RunJob_blank, Modified, Statuses
  <1>2. CASE RunJob_running(s)
    BY <1>2 DEF RunJob_running, Modified, Statuses
  <1>3. CASE RunJob_conflict(s)
    BY <1>3 DEF RunJob_conflict, EndSession, jobRow
  <1>4. CASE PostBatch_collect(s)
    BY <1>4 DEF PostBatch_collect, jobRow
  <1>5. CASE \E d \in Docs : PostBatch_skip(s, d)
    BY <1>5 DEF PostBatch_skip, jobRow
  <1>6. CASE \E d \in Docs : PostBatch_commit(s, d)
    BY <1>6 DEF PostBatch_commit, jobRow
  <1>7. CASE Codeunit_Run_true(s)
    <2>1. Row(scur[s], TRUE, s) \in Rows
      BY <1>7 DEF Codeunit_Run_true, Row, Rows
    <2>2. slog' \in [Sessions -> SUBSET Rows]
      BY <1>7, <2>1 DEF Codeunit_Run_true
    <2>3. posted' \subseteq Docs
      BY <1>7 DEF Codeunit_Run_true
    <2>4. Types'
      BY <1>7, <2>2, <2>3 DEF Codeunit_Run_true, jobRow
    <2>5. Placed'
      BY <1>7 DEF Codeunit_Run_true, jobRow
    <2> QED
      BY <2>4, <2>5
  <1>8. CASE Codeunit_Run_false(s)
    <2>1. Row(scur[s], FALSE, s) \in Rows
      BY <1>8 DEF Codeunit_Run_false, Row, Rows
    <2>2. slog' \in [Sessions -> SUBSET Rows]
      BY <1>8, <2>1 DEF Codeunit_Run_false
    <2> QED
      BY <1>8, <2>2 DEF Codeunit_Run_false, jobRow
  <1>9. CASE RunJob_completed(s)
    BY <1>9 DEF RunJob_completed, Modified, Statuses
  <1>10. CASE SessionEnds(s)
    BY <1>10 DEF SessionEnds, EndSession, jobRow
  <1>11. CASE ShipAndReceive_shipped(s)
    BY <1>11 DEF ShipAndReceive_shipped, jobRow
  <1>12. CASE ShipAndReceive_reread(s)
    BY <1>12 DEF ShipAndReceive_reread, EndSession, jobRow
  <1> QED
    BY <1>1, <1>2, <1>3, <1>4, <1>5, <1>6, <1>7, <1>8, <1>9, <1>10, <1>11, <1>12
    DEF SessionStep

LEMMA ControlNext == Control /\ [Next]_vars => Control'
  <1> SUFFICES ASSUME Control, [Next]_vars PROVE Control'
    OBVIOUS
  <1>1. CASE \E c \in Callers, j \in Jobs, request \in {"poll", "run", "reset"} :
               OnOpenPage(c, request, j)
    BY <1>1, NoneAssumption, HoldersAssumption
    DEF OnOpenPage, Control, Types, Placed, CallerPCs, jobRow, session
  <1>2. CASE \E s \in Sessions : Crash(s)
    BY <1>2, NoneAssumption, HoldersAssumption
    DEF Crash, EndSession, Goto, Control, Types, Placed, SessionPCs, Working, jobRow, caller
  <1>3. CASE UNCHANGED vars
    BY <1>3 DEF vars, jobRow, caller, session, Control, Types, Placed
  <1> QED
    BY <1>1, <1>2, <1>3, ControlCaller, ControlSession DEF Next
-------------------------------------------------------------------------------
(* At most one session can report for a job.                                    *)

\* A Modify leaves no other record of the row up to date.
LEMMA OutdatedSessions ==
  ASSUME NEW js, NEW s \in Sessions, s \in current \ Outdated(js)
  PROVE  sjob[s] \notin js
  BY DEF Outdated, Copies

Reporting == Control /\ OneReportingSession

LEMMA ReportingCaller ==
  ASSUME Reporting, NEW c \in Callers, CallerStep(c)
  PROVE  OneReportingSession'
  <1> USE DEF Reporting, Control, Types, Placed
  <1> SUFFICES ASSUME NEW s \in Sessions, spc[s]' \in Working, s \in current'
               PROVE  status'[sjob'[s]] = "Running" /\ owner'[sjob'[s]] = s
    BY DEF OneReportingSession
  <1>0. s # c
    BY HoldersAssumption
  <1>1. CASE poll(c)
    <2>1. s \in current \ Outdated(StaleJobs(c)) /\ UNCHANGED <<spc, sjob, owner>>
      BY <1>0, <1>1 DEF poll, session
    <2>2. sjob[s] \notin StaleJobs(c)
      BY <2>1, OutdatedSessions
    <2> QED
      BY <1>1, <2>1, <2>2 DEF poll, OneReportingSession, Working
  <1>2. CASE refused(c)
    BY <1>2 DEF refused, session, jobRow, OneReportingSession
  <1>3. CASE run(c)
    <2>1. /\ s \in current \ Outdated(StaleJobs(c) \union {cjob[c]})
          /\ UNCHANGED <<spc, sjob, owner>>
      BY <1>0, <1>3 DEF run, session
    <2>2. sjob[s] \notin StaleJobs(c) \union {cjob[c]}
      BY <2>1, OutdatedSessions
    <2> QED
      BY <1>3, <2>1, <2>2 DEF run, BackToPending, OneReportingSession, Working
  <1>4. CASE reset(c)
    <2>1. /\ s \in current \ Outdated(StaleJobs(c) \union {cjob[c]})
          /\ UNCHANGED <<spc, sjob>>
      BY <1>0, <1>4 DEF reset, session
    <2>2. sjob[s] \notin StaleJobs(c) \union {cjob[c]}
      BY <2>1, OutdatedSessions
    <2> QED
      BY <1>4, <2>1, <2>2 DEF reset, BackToPending, OneReportingSession, Working
  <1>5. CASE SessionNotStarted(c)
    <2>1. UNCHANGED <<spc, sjob, owner>>
      BY <1>5 DEF SessionNotStarted, session
    <2>2. CASE c \in current
      <3>1. s \in current \ Outdated({cjob[c]})
        BY <1>0, <1>5, <2>2 DEF SessionNotStarted, Modified
      <3>2. sjob[s] # cjob[c]
        BY <3>1, OutdatedSessions
      <3> QED
        BY <1>5, <2>1, <2>2, <3>1, <3>2 DEF SessionNotStarted, OneReportingSession, Working
    <2>3. CASE c \notin current
      BY <1>5, <2>1, <2>3 DEF SessionNotStarted, OneReportingSession
    <2> QED
      BY <2>2, <2>3
  <1>6. CASE \E s2 \in Sessions : StartSession(c, s2)
    BY <1>0, <1>6 DEF StartSession, jobRow, Working, OneReportingSession
  <1> QED
    BY <1>1, <1>2, <1>3, <1>4, <1>5, <1>6 DEF CallerStep

LEMMA ReportingSession ==
  ASSUME Reporting, NEW s \in Sessions, SessionStep(s)
  PROVE  OneReportingSession'
  <1> USE DEF Reporting, Control, Types, Placed, At, Goto
  <1> SUFFICES ASSUME NEW q \in Sessions, spc[q]' \in Working, q \in current'
               PROVE  status'[sjob'[q]] = "Running" /\ owner'[sjob'[q]] = q
    BY DEF OneReportingSession
  <1>0. ASSUME q # s, current' = Modified(s, sjob[s])
        PROVE  q \in current /\ sjob[q] # sjob[s]
    <2>1. q \in current \ Outdated({sjob[s]})
      BY <1>0 DEF Modified
    <2> QED
      BY <2>1, OutdatedSessions
  <1>1. CASE RunJob_blank(s)
    BY <1>0, <1>1 DEF RunJob_blank, Working, OneReportingSession
  <1>2. CASE RunJob_running(s)
    BY <1>0, <1>2 DEF RunJob_running, Working, OneReportingSession
  <1>3. CASE RunJob_conflict(s)
    BY <1>3 DEF RunJob_conflict, EndSession, jobRow, Working, OneReportingSession
  <1>4. CASE PostBatch_collect(s)
    BY <1>4 DEF PostBatch_collect, jobRow, Working, OneReportingSession
  <1>5. CASE \E d \in Docs : PostBatch_skip(s, d)
    BY <1>5 DEF PostBatch_skip, jobRow, OneReportingSession
  <1>6. CASE \E d \in Docs : PostBatch_commit(s, d)
    BY <1>6 DEF PostBatch_commit, jobRow, Working, OneReportingSession
  <1>7. CASE Codeunit_Run_true(s)
    BY <1>7 DEF Codeunit_Run_true, jobRow, Working, OneReportingSession
  <1>8. CASE Codeunit_Run_false(s)
    BY <1>8 DEF Codeunit_Run_false, jobRow, Working, OneReportingSession
  <1>9. CASE RunJob_completed(s)
    BY <1>0, <1>9 DEF RunJob_completed, Working, OneReportingSession
  <1>10. CASE SessionEnds(s)
    BY <1>10 DEF SessionEnds, EndSession, jobRow, Working, OneReportingSession
  <1>11. CASE ShipAndReceive_shipped(s)
    BY <1>11 DEF ShipAndReceive_shipped, jobRow, Working, OneReportingSession
  <1>12. CASE ShipAndReceive_reread(s)
    BY <1>12 DEF ShipAndReceive_reread, EndSession, jobRow, Working, OneReportingSession
  <1> QED
    BY <1>1, <1>2, <1>3, <1>4, <1>5, <1>6, <1>7, <1>8, <1>9, <1>10, <1>11, <1>12
    DEF SessionStep

LEMMA ReportingNext == Reporting /\ [Next]_vars => Reporting'
  <1> SUFFICES ASSUME Reporting, [Next]_vars PROVE OneReportingSession'
    BY ControlNext DEF Reporting
  <1>1. CASE \E c \in Callers, j \in Jobs, request \in {"poll", "run", "reset"} :
               OnOpenPage(c, request, j)
    BY <1>1, HoldersAssumption DEF OnOpenPage, Reporting, OneReportingSession, jobRow, session
  <1>2. CASE \E s \in Sessions : Crash(s)
    BY <1>2
    DEF Crash, EndSession, Goto, Reporting, Control, Types, OneReportingSession, Working, jobRow
  <1>3. CASE UNCHANGED vars
    BY <1>3 DEF vars, jobRow, session, Reporting, OneReportingSession, Working
  <1> QED
    BY <1>1, <1>2, <1>3, ReportingCaller, ReportingSession DEF Next

(* OneReportingSession holds whatever the numbers of jobs, documents, requests, *)
(* sessions and crashes (BatchPost.Codeunit:39, :49, JobSessionMonitor).        *)
THEOREM OneReporting == Spec => []OneReportingSession
  <1>1. Init => Reporting
    BY ControlInit DEF Init, Reporting, OneReportingSession, Working
  <1>2. Reporting => OneReportingSession
    BY DEF Reporting
  <1> QED
    BY <1>1, <1>2, ReportingNext, PTL DEF Spec
-------------------------------------------------------------------------------
(* Success rows are true and unique.                                            *)

\* The rows committed and the rows sessions have still to commit.
AllRows == results \union UNION {slog[s] : s \in Sessions}

TrueRows ==
    /\ \A r \in AllRows : r.success => r.doc \in posted
    /\ \A r, q \in AllRows : r.success /\ q.success /\ q.doc = r.doc => q = r

RowsOk == Control /\ TrueRows

\* A step that writes no new row and unposts nothing keeps the rows true.
LEMMA NoNewRows ==
  ASSUME TrueRows, AllRows' \subseteq AllRows, posted \subseteq posted'
  PROVE  TrueRows'
  BY DEF TrueRows

LEMMA RowsAdded ==
  ASSUME NEW new, results' = results,
         \A q \in Sessions : slog'[q] \subseteq slog[q] \union {new}
  PROVE  AllRows' \subseteq AllRows \union {new}
  <1> SUFFICES ASSUME NEW r \in AllRows' PROVE r \in AllRows \union {new}
    OBVIOUS
  <1>1. CASE r \in results
    BY <1>1 DEF AllRows
  <1>2. CASE r \notin results
    <2>1. PICK q \in Sessions : r \in slog'[q]
      BY <1>2 DEF AllRows
    <2>2. r \in slog[q] \union {new}
      BY <2>1
    <2> QED
      BY <2>1, <2>2 DEF AllRows
  <1> QED
    BY <1>1, <1>2

LEMMA RowsSession ==
  ASSUME RowsOk, NEW s \in Sessions, SessionStep(s)
  PROVE  TrueRows'
  <1> USE DEF RowsOk, Control, Types, At, Goto
  <1>1. CASE RunJob_blank(s) \/ RunJob_running(s) \/ PostBatch_collect(s)
             \/ ShipAndReceive_shipped(s) \/ \E d \in Docs : PostBatch_skip(s, d)
    <2>1. UNCHANGED <<posted, results, slog>>
      BY <1>1
      DEF RunJob_blank, RunJob_running, PostBatch_collect, ShipAndReceive_shipped, PostBatch_skip
    <2> QED
      BY <2>1, NoNewRows DEF AllRows
  <1>2. CASE RunJob_conflict(s) \/ SessionEnds(s) \/ ShipAndReceive_reread(s)
    <2>1. /\ UNCHANGED <<posted, results>>
          /\ slog' = [slog EXCEPT ![s] = {}] \/ slog' = slog
      BY <1>2 DEF RunJob_conflict, SessionEnds, ShipAndReceive_reread, EndSession
    <2> QED
      BY <2>1, NoNewRows DEF AllRows
  <1>3. CASE RunJob_completed(s) \/ \E d \in Docs : PostBatch_commit(s, d)
    <2>1. /\ UNCHANGED posted /\ results' = results \union slog[s]
          /\ slog' = [slog EXCEPT ![s] = {}]
      BY <1>3 DEF RunJob_completed, PostBatch_commit
    <2> QED
      BY <2>1, NoNewRows DEF AllRows
  <1>4. CASE Codeunit_Run_true(s)
    <2> DEFINE new == Row(scur[s], TRUE, s)
    <2>1. new.doc = scur[s]
      BY DEF Row
    <2>0. /\ results' = results
          /\ \A q \in Sessions : slog'[q] \subseteq slog[q] \union {new}
      BY <1>4 DEF Codeunit_Run_true
    <2>2. AllRows' \subseteq AllRows \union {new}
      BY <2>0, RowsAdded
    <2>4. posted' = posted \union {scur[s]}
      BY <1>4 DEF Codeunit_Run_true, HasQtyToShip
    <2>3. \A r \in AllRows : r.success => r.doc # scur[s] /\ r.doc \in posted
      BY <1>4 DEF Codeunit_Run_true, TrueRows
    <2> QED
      BY <2>1, <2>2, <2>3, <2>4 DEF TrueRows
  <1>5. CASE Codeunit_Run_false(s)
    <2> DEFINE new == Row(scur[s], FALSE, s)
    <2>1. ~new.success
      BY DEF Row
    <2>0. /\ results' = results
          /\ \A q \in Sessions : slog'[q] \subseteq slog[q] \union {new}
      BY <1>5 DEF Codeunit_Run_false
    <2>2. AllRows' \subseteq AllRows \union {new} /\ posted' = posted
      BY <1>5, <2>0, RowsAdded DEF Codeunit_Run_false
    <2> QED
      BY <2>1, <2>2 DEF TrueRows
  <1> QED
    BY <1>1, <1>2, <1>3, <1>4, <1>5 DEF SessionStep

LEMMA RowsNext == RowsOk /\ [Next]_vars => RowsOk'
  <1> SUFFICES ASSUME RowsOk, [Next]_vars PROVE TrueRows'
    BY ControlNext DEF RowsOk
  <1>1. CASE \E c \in Callers, j \in Jobs, request \in {"poll", "run", "reset"} :
               OnOpenPage(c, request, j)
    <2>1. UNCHANGED <<posted, results, slog>>
      BY <1>1 DEF OnOpenPage, session
    <2> QED
      BY <2>1, NoNewRows DEF AllRows, RowsOk
  <1>2. CASE \E c \in Callers : CallerStep(c)
    <2>1. UNCHANGED <<posted, results, slog>>
      BY <1>2
      DEF CallerStep, poll, refused, run, reset, SessionNotStarted, StartSession, session
    <2> QED
      BY <2>1, NoNewRows DEF AllRows, RowsOk
  <1>3. CASE \E s \in Sessions : Crash(s)
    <2>1. PICK s \in Sessions : Crash(s)
      BY <1>3
    <2>2. UNCHANGED <<posted, results>> /\ slog' = [slog EXCEPT ![s] = {}]
      BY <2>1 DEF Crash, EndSession
    <2> QED
      BY <2>2, NoNewRows DEF AllRows, RowsOk, Control, Types
  <1>4. CASE UNCHANGED vars
    BY <1>4, NoNewRows DEF vars, session, AllRows, RowsOk
  <1> QED
    BY <1>1, <1>2, <1>3, <1>4, RowsSession DEF Next

(* SuccessRowsTrue holds whatever sessions collect the same documents and       *)
(* wherever they crash (SalesPoster.Codeunit:20-38).                            *)
THEOREM SuccessIsTrue == Spec => []SuccessRowsTrue
  <1>1. Init => RowsOk
    BY ControlInit DEF Init, RowsOk, TrueRows, AllRows
  <1>2. RowsOk => SuccessRowsTrue
    BY DEF RowsOk, TrueRows, AllRows, SuccessRowsTrue
  <1> QED
    BY <1>1, <1>2, RowsNext, PTL DEF Spec

-------------------------------------------------------------------------------
(* Documents without a batch code are never posted.                             *)

Tagged ==
    /\ \A s \in Sessions : spc[s] \in Working => Batch[sjob[s]] # Blank
    /\ \A s \in Sessions : \A d \in stodo[s] : Tag[d] # Blank
    /\ \A s \in Sessions : scur[s] \in Docs => Tag[scur[s]] # Blank
    /\ UntaggedNeverPosted

TagsOk == Control /\ Tagged

LEMMA TagsSession ==
  ASSUME TagsOk, NEW s \in Sessions, SessionStep(s)
  PROVE  Tagged'
  <1> USE NoneAssumption
      DEF TagsOk, Control, Types, Placed, Tagged, UntaggedNeverPosted, At, Goto, Working
  <1>1. CASE RunJob_blank(s)
    BY <1>1 DEF RunJob_blank
  <1>2. CASE RunJob_running(s)
    BY <1>2 DEF RunJob_running
  <1>3. CASE RunJob_conflict(s)
    BY <1>3 DEF RunJob_conflict, EndSession
  <1>4. CASE PostBatch_collect(s)
    BY <1>4 DEF PostBatch_collect
  <1>5. CASE \E d \in Docs : PostBatch_skip(s, d)
    BY <1>5 DEF PostBatch_skip
  <1>6. CASE \E d \in Docs : PostBatch_commit(s, d)
    BY <1>6 DEF PostBatch_commit
  <1>7. CASE Codeunit_Run_true(s)
    BY <1>7 DEF Codeunit_Run_true
  <1>8. CASE Codeunit_Run_false(s)
    BY <1>8 DEF Codeunit_Run_false
  <1>9. CASE RunJob_completed(s)
    BY <1>9 DEF RunJob_completed
  <1>10. CASE SessionEnds(s)
    BY <1>10 DEF SessionEnds, EndSession
  <1>11. CASE ShipAndReceive_shipped(s)
    BY <1>11 DEF ShipAndReceive_shipped
  <1>12. CASE ShipAndReceive_reread(s)
    BY <1>12 DEF ShipAndReceive_reread, EndSession
  <1> QED
    BY <1>1, <1>2, <1>3, <1>4, <1>5, <1>6, <1>7, <1>8, <1>9, <1>10, <1>11, <1>12
    DEF SessionStep

LEMMA TagsNext == TagsOk /\ [Next]_vars => TagsOk'
  <1> SUFFICES ASSUME TagsOk, [Next]_vars PROVE Tagged'
    BY ControlNext DEF TagsOk
  <1> USE DEF TagsOk, Control, Types, Placed, Tagged, UntaggedNeverPosted, Working
  <1>1. CASE \E c \in Callers, j \in Jobs, request \in {"poll", "run", "reset"} :
               OnOpenPage(c, request, j)
    BY <1>1 DEF OnOpenPage, session
  <1>2. CASE \E c \in Callers : poll(c) \/ refused(c) \/ run(c) \/ reset(c) \/ SessionNotStarted(c)
    BY <1>2 DEF poll, refused, run, reset, SessionNotStarted, session
  <1>3. CASE \E c \in Callers, s \in Sessions : StartSession(c, s)
    BY <1>3 DEF StartSession
  <1>4. CASE \E s \in Sessions : Crash(s)
    BY <1>4, NoneAssumption DEF Crash, EndSession, Goto
  <1>5. CASE UNCHANGED vars
    BY <1>5 DEF vars, session
  <1> QED
    BY <1>1, <1>2, <1>3, <1>4, <1>5, TagsSession DEF Next, CallerStep

(* UntaggedNeverPosted holds whatever jobs, with whatever batch codes, are run  *)
(* (BatchPost.Codeunit:19-27).                                                  *)
THEOREM UntaggedStay == Spec => []UntaggedNeverPosted
  <1>1. Init => TagsOk
    BY ControlInit, NoneAssumption DEF Init, TagsOk, Tagged, UntaggedNeverPosted, Working
  <1>2. TagsOk => UntaggedNeverPosted
    BY DEF TagsOk, Tagged
  <1> QED
    BY <1>1, <1>2, TagsNext, PTL DEF Spec
-------------------------------------------------------------------------------
(* A run never counts a document twice: the rest of TypeOK.                     *)

\* What a session has counted, has still to post and is posting.
Counted(s) ==
    sposted[s] + sfailed[s] + Cardinality(stodo[s])
        + (IF spc[s] \in {"codeunit", "reread"} THEN 1 ELSE 0)

CountTypes ==
    /\ postedCount \in [Jobs -> 0 .. Cardinality(Docs)]
    /\ failedCount \in [Jobs -> 0 .. Cardinality(Docs)]
    /\ cseen \in [Callers -> SUBSET [job : Jobs, session : Sessions \union {NoSession}]]
    /\ sposted \in [Sessions -> Nat]
    /\ sfailed \in [Sessions -> Nat]
    /\ crashes \in 0 .. MaxCrashes

\* Before a session collects its documents it has counted nothing.
Fresh ==
    \A s \in Sessions : spc[s] \in {"unused", "starting", "collect"} =>
        sposted[s] = 0 /\ sfailed[s] = 0

CountOk ==
    /\ Control /\ CountTypes /\ Fresh
    /\ \A s \in Sessions : Counted(s) <= Cardinality(Docs)

LEMMA DocSets ==
  /\ Cardinality(Docs) \in Nat
  /\ \A S \in SUBSET Docs : Cardinality(S) \in Nat /\ Cardinality(S) <= Cardinality(Docs)
  /\ \A S \in SUBSET Docs, d \in Docs : d \in S => Cardinality(S \ {d}) = Cardinality(S) - 1
  <1>1. \A S \in SUBSET Docs : IsFiniteSet(S) /\ Cardinality(S) <= Cardinality(Docs)
    BY SetsAssumption, FS_Subset
  <1> QED
    BY <1>1, SetsAssumption, FS_CardinalityType, FS_RemoveElement

LEMMA CountEnd ==
  ASSUME CountOk, Control', NEW s \in Sessions, EndSession(s),
         UNCHANGED <<postedCount, failedCount, cseen>>, crashes' \in 0 .. MaxCrashes
  PROVE  CountOk'
  <1> USE DocSets DEF CountOk, Control, Types, CountTypes, Fresh, Goto
  <1>1. /\ spc' = [spc EXCEPT ![s] = "ended"] /\ stodo' = [stodo EXCEPT ![s] = {}]
        /\ sposted' = [sposted EXCEPT ![s] = 0] /\ sfailed' = [sfailed EXCEPT ![s] = 0]
    BY DEF EndSession
  <1>2. Fresh' /\ CountTypes'
    BY <1>1
  <1>3. Counted(s)' <= Cardinality(Docs)
    BY <1>1, FS_EmptySet DEF Counted
  <1>4. \A q \in Sessions \ {s} : Counted(q)' = Counted(q)
    BY <1>1 DEF Counted
  <1> QED
    BY <1>2, <1>3, <1>4

LEMMA CountSession ==
  ASSUME CountOk, NEW s \in Sessions, SessionStep(s)
  PROVE  CountOk'
  <1>0. Control'
    BY ControlSession DEF CountOk
  <1> USE DocSets DEF CountOk, Control, Types, CountTypes, Fresh, At, Goto, SessionPCs, Working
  <1>a. CASE RunJob_blank(s) \/ RunJob_running(s)
    <2>1. /\ UNCHANGED <<sposted, sfailed, stodo, cseen, crashes>>
          /\ \E label \in {"done", "collect"} : spc' = [spc EXCEPT ![s] = label]
          /\ spc[s] = "starting"
      BY <1>a DEF RunJob_blank, RunJob_running, caller
    <2>2. postedCount' \in [Jobs -> 0 .. Cardinality(Docs)]
          /\ failedCount' \in [Jobs -> 0 .. Cardinality(Docs)]
      BY <1>a DEF RunJob_blank, RunJob_running
    <2>3. \A q \in Sessions : Counted(q)' = Counted(q)
      BY <2>1 DEF Counted
    <2>4. Fresh'
      BY <2>1
    <2> QED
      BY <1>0, <2>1, <2>2, <2>3, <2>4
  <1>b. CASE PostBatch_collect(s)
    <2>1. /\ UNCHANGED <<postedCount, failedCount, sposted, sfailed, cseen, crashes>>
          /\ spc[s] = "collect" /\ spc' = [spc EXCEPT ![s] = "posting"]
          /\ stodo'[s] \in SUBSET Docs
          /\ \A q \in Sessions \ {s} : stodo'[q] = stodo[q]
      BY <1>b DEF PostBatch_collect, jobRow, caller
    <2>2. Counted(s)' <= Cardinality(Docs)
      BY <2>1 DEF Counted
    <2>3. \A q \in Sessions \ {s} : Counted(q)' = Counted(q)
      BY <2>1 DEF Counted
    <2>4. Fresh' /\ CountTypes'
      BY <2>1
    <2> QED
      BY <1>0, <2>2, <2>3, <2>4
  <1>c. CASE \E d \in Docs : PostBatch_skip(s, d) \/ PostBatch_commit(s, d)
    <2>1. PICK d \in Docs : PostBatch_skip(s, d) \/ PostBatch_commit(s, d)
      BY <1>c
    <2>2. /\ UNCHANGED <<postedCount, failedCount, sposted, sfailed, cseen, crashes>>
          /\ spc[s] = "posting" /\ spc'[s] \in {"posting", "codeunit"}
          /\ d \in stodo[s] /\ stodo'[s] = stodo[s] \ {d}
          /\ \A q \in Sessions \ {s} : stodo'[q] = stodo[q] /\ spc'[q] = spc[q]
      BY <2>1 DEF PostBatch_skip, PostBatch_commit, jobRow, caller
    <2>3. Cardinality(stodo'[s]) = Cardinality(stodo[s]) - 1 /\ Cardinality(stodo[s]) \in Nat
      BY <2>2
    <2>4. Counted(s)' <= Counted(s)
      BY <2>2, <2>3 DEF Counted
    <2>5. \A q \in Sessions \ {s} : Counted(q)' = Counted(q)
      BY <2>2 DEF Counted
    <2>6. Fresh' /\ CountTypes'
      BY <2>2
    <2>7. Counted(s) \in Int /\ Counted(s)' \in Int
      BY <2>2, <2>3 DEF Counted
    <2>8. Counted(s)' <= Cardinality(Docs)
      BY <2>4, <2>7
    <2>9. \A q \in Sessions : Counted(q)' <= Cardinality(Docs)
      BY <2>5, <2>8
    <2> QED
      BY <1>0, <2>6, <2>9
  <1>d. CASE Codeunit_Run_true(s) \/ Codeunit_Run_false(s)
    <2>1. /\ UNCHANGED <<postedCount, failedCount, stodo, cseen, crashes>>
          /\ spc[s] = "codeunit" /\ spc' = [spc EXCEPT ![s] = "posting"]
          /\ sposted' \in [Sessions -> Nat] /\ sfailed' \in [Sessions -> Nat]
          /\ sposted'[s] + sfailed'[s] = sposted[s] + sfailed[s] + 1
          /\ \A q \in Sessions \ {s} : sposted'[q] = sposted[q] /\ sfailed'[q] = sfailed[q]
      <3>1. CASE Codeunit_Run_true(s)
        <4>1. sposted' = [sposted EXCEPT ![s] = sposted[s] + 1] /\ sfailed' = sfailed
          BY <3>1 DEF Codeunit_Run_true
        <4>2. sposted'[s] = sposted[s] + 1 /\ \A q \in Sessions \ {s} : sposted'[q] = sposted[q]
          BY <4>1
        <4>3. sposted' \in [Sessions -> Nat]
          BY <4>1
        <4>5. sposted'[s] + sfailed'[s] = sposted[s] + sfailed[s] + 1
          <5>1. sposted[s] \in Nat /\ sfailed[s] \in Nat /\ sfailed'[s] = sfailed[s]
            BY <4>1
          <5> QED
            BY <4>2, <5>1
        <4>4. /\ UNCHANGED <<postedCount, failedCount, stodo, cseen, crashes>>
              /\ spc[s] = "codeunit" /\ spc' = [spc EXCEPT ![s] = "posting"]
          BY <3>1 DEF Codeunit_Run_true, jobRow, caller
        <4> QED
          BY <4>1, <4>2, <4>3, <4>4, <4>5
      <3>2. CASE Codeunit_Run_false(s)
        <4>1. sfailed' = [sfailed EXCEPT ![s] = sfailed[s] + 1] /\ sposted' = sposted
          BY <3>2 DEF Codeunit_Run_false
        <4>2. sfailed'[s] = sfailed[s] + 1 /\ \A q \in Sessions \ {s} : sfailed'[q] = sfailed[q]
          BY <4>1
        <4>3. sfailed' \in [Sessions -> Nat]
          BY <4>1
        <4>5. sposted'[s] + sfailed'[s] = sposted[s] + sfailed[s] + 1
          <5>1. sposted[s] \in Nat /\ sfailed[s] \in Nat /\ sposted'[s] = sposted[s]
            BY <4>1
          <5> QED
            BY <4>2, <5>1
        <4>4. /\ UNCHANGED <<postedCount, failedCount, stodo, cseen, crashes>>
              /\ spc[s] = "codeunit" /\ spc' = [spc EXCEPT ![s] = "posting"]
          BY <3>2 DEF Codeunit_Run_false, jobRow, caller
        <4> QED
          BY <4>1, <4>2, <4>3, <4>4, <4>5
      <3> QED
        BY <1>d, <3>1, <3>2
    <2>2. Counted(s)' = Counted(s)
      BY <2>1 DEF Counted
    <2>3. \A q \in Sessions \ {s} : Counted(q)' = Counted(q)
      BY <2>1 DEF Counted
    <2>4. Fresh' /\ CountTypes'
      BY <2>1
    <2> QED
      BY <1>0, <2>2, <2>3, <2>4
  <1>e. CASE RunJob_completed(s)
    <2>1. /\ UNCHANGED <<sposted, sfailed, stodo, cseen, crashes>>
          /\ spc[s] = "posting" /\ spc' = [spc EXCEPT ![s] = "done"]
      BY <1>e DEF RunJob_completed, caller
    <2>2. sposted[s] \in 0 .. Cardinality(Docs) /\ sfailed[s] \in 0 .. Cardinality(Docs)
      BY <2>1 DEF Counted
    <2>3. CountTypes'
      BY <1>e, <2>1, <2>2 DEF RunJob_completed
    <2>4. \A q \in Sessions : Counted(q)' = Counted(q)
      BY <2>1 DEF Counted
    <2> QED
      BY <1>0, <2>1, <2>3, <2>4
  <1>f. CASE RunJob_conflict(s) \/ SessionEnds(s) \/ (ShipAndReceive_reread(s) /\ EndSession(s))
    <2>1. EndSession(s) /\ UNCHANGED <<postedCount, failedCount, cseen, crashes>>
      BY <1>f DEF RunJob_conflict, SessionEnds, ShipAndReceive_reread, jobRow, caller
    <2> QED
      BY <1>0, <2>1, CountEnd
  <1>g. CASE ShipAndReceive_shipped(s) \/ (ShipAndReceive_reread(s) /\ ~EndSession(s))
    <2>1. /\ UNCHANGED <<postedCount, failedCount, sposted, sfailed, stodo, cseen, crashes>>
          /\ spc[s] \in {"codeunit", "reread"}
          /\ \E label \in {"codeunit", "reread"} : spc' = [spc EXCEPT ![s] = label]
      BY <1>g DEF ShipAndReceive_shipped, ShipAndReceive_reread, jobRow, caller
    <2>2. \A q \in Sessions : Counted(q)' = Counted(q)
      BY <2>1 DEF Counted
    <2>3. Fresh' /\ CountTypes'
      BY <2>1
    <2> QED
      BY <1>0, <2>2, <2>3
  <1> QED
    BY <1>a, <1>b, <1>c, <1>d, <1>e, <1>f, <1>g DEF SessionStep

LEMMA CountNext == CountOk /\ [Next]_vars => CountOk'
  <1> SUFFICES ASSUME CountOk, [Next]_vars PROVE CountOk'
    OBVIOUS
  <1>0. Control'
    BY ControlNext DEF CountOk
  <1> USE DocSets DEF CountOk, Control, Types, CountTypes, Fresh
  <1>1. CASE \E c \in Callers, j \in Jobs, request \in {"poll", "run", "reset"} :
               OnOpenPage(c, request, j)
    <2>1. UNCHANGED <<jobRow, session, crashes>>
      BY <1>1 DEF OnOpenPage
    <2>2. cseen' \in [Callers -> SUBSET [job : Jobs, session : Sessions \union {NoSession}]]
      BY <1>1 DEF OnOpenPage
    <2> QED
      BY <1>0, <2>1, <2>2 DEF jobRow, session, Counted
  <1>2. CASE \E c \in Callers : CallerStep(c)
    <2>1. PICK c \in Callers : CallerStep(c)
      BY <1>2
    <2>2. /\ UNCHANGED <<sposted, sfailed, stodo, crashes>>
          /\ \A q \in Sessions : spc'[q] = spc[q] \/ (spc[q] = "unused" /\ spc'[q] = "starting")
      BY <2>1 DEF CallerStep, poll, refused, run, reset, SessionNotStarted, StartSession, session
    <2>3. CountTypes'
      <3>1. CASE poll(c)
        BY <2>2, <3>1 DEF poll, Respond
      <3>2. CASE refused(c)
        BY <2>2, <3>2 DEF refused, Respond, jobRow
      <3>3. CASE run(c)
        BY <2>2, <3>3 DEF run
      <3>4. CASE reset(c)
        <4>1. postedCount' = [postedCount EXCEPT ![cjob[c]] = 0]
              /\ failedCount' = [failedCount EXCEPT ![cjob[c]] = 0]
          BY <3>4 DEF reset
        <4>2. cseen' = [cseen EXCEPT ![c] = {}]
          BY <3>4 DEF reset, Respond
        <4>0. 0 \in 0 .. Cardinality(Docs)
          BY DocSets
        <4>3. /\ postedCount' \in [Jobs -> 0 .. Cardinality(Docs)]
              /\ failedCount' \in [Jobs -> 0 .. Cardinality(Docs)]
          BY <4>0, <4>1, Zenon
        <4>4. cseen' \in [Callers -> SUBSET [job : Jobs, session : Sessions \union {NoSession}]]
          BY <4>2
        <4> QED
          BY <2>2, <4>3, <4>4
      <3>5. CASE SessionNotStarted(c)
        BY <2>2, <3>5 DEF SessionNotStarted, Respond
      <3>6. CASE \E s \in Sessions : StartSession(c, s)
        BY <2>2, <3>6 DEF StartSession, Respond, jobRow
      <3> QED
        BY <2>1, <3>1, <3>2, <3>3, <3>4, <3>5, <3>6 DEF CallerStep
    <2>4. Fresh' /\ \A q \in Sessions : Counted(q)' = Counted(q)
      BY <2>2 DEF Counted
    <2> QED
      BY <1>0, <2>3, <2>4
  <1>3. CASE \E s \in Sessions : Crash(s)
    <2>1. PICK s \in Sessions : Crash(s)
      BY <1>3
    <2>2. /\ EndSession(s) /\ UNCHANGED <<postedCount, failedCount, cseen>>
          /\ crashes' \in 0 .. MaxCrashes
      BY <2>1, CrashAssumption DEF Crash, jobRow, caller
    <2> QED
      BY <1>0, <2>2, CountEnd
  <1>4. CASE UNCHANGED vars
    BY <1>0, <1>4 DEF vars, jobRow, caller, session, Counted
  <1> QED
    BY <1>1, <1>2, <1>3, <1>4, CountSession DEF Next

(* TypeOK holds whatever the numbers of jobs, documents, requests and sessions: *)
(* in particular a run never counts more documents than there are               *)
(* (SalesPoster.Codeunit:20-38).                                                *)
THEOREM TypeCorrect == Spec => []TypeOK
  <1>1. Init => CountOk
    BY ControlInit, DocSets, CrashAssumption, FS_EmptySet
    DEF Init, CountOk, CountTypes, Fresh, Counted
  <1>2. CountOk => TypeOK
    <2> SUFFICES ASSUME CountOk PROVE TypeOK
      OBVIOUS
    <2>1. \A s \in Sessions : sposted[s] <= Cardinality(Docs) /\ sfailed[s] <= Cardinality(Docs)
      BY DocSets DEF CountOk, CountTypes, Counted, Control, Types
    <2>2. /\ sposted \in [Sessions -> 0 .. Cardinality(Docs)]
          /\ sfailed \in [Sessions -> 0 .. Cardinality(Docs)]
      BY <2>1, DocSets DEF CountOk, CountTypes
    <2> QED
      BY <2>2 DEF CountOk, CountTypes, Control, Types, TypeOK, CallerPCs, SessionPCs
  <1> QED
    BY <1>1, <1>2, CountNext, PTL DEF Spec

-------------------------------------------------------------------------------
(* What a run reports                                                           *)

AtDocument == {"codeunit", "reread"}
Ended == {s \in Sessions : spc[s] = "ended"}

\* The rows a session has written, committed or not.
Written(s) == {r \in results \union slog[s] : r.by = s}
WrittenAs(s, ok) == {r \in Written(s) : r.success = ok}

\* What a session has not committed is about one document, and its own; while it
\* posts a document there is none.
OneRow ==
    \A s \in Sessions :
        /\ slog[s] = {} \/ \E d \in Docs : slog[s] \subseteq {Row(d, TRUE, s), Row(d, FALSE, s)}
        /\ spc[s] \in AtDocument => slog[s] = {}

\* The counters of a session are those of its rows.
Tallied ==
    \A s \in Sessions : \A ok \in BOOLEAN :
        /\ IsFiniteSet(WrittenAs(s, ok))
        /\ spc[s] # "ended" =>
               Cardinality(WrittenAs(s, ok)) = IF ok THEN sposted[s] ELSE sfailed[s]

\* What a session has still to post has no row of it.
Ahead ==
    \A s \in Sessions :
        /\ \A r \in Written(s) : /\ r.doc \notin stodo[s]
                                 /\ spc[s] \in AtDocument => r.doc # scur[s]
        /\ spc[s] \in AtDocument => scur[s] \notin stodo[s]

\* Once a session has collected, every document of its batch is posted, still to
\* be posted, or has failed.
Covered ==
    \A s \in Sessions : spc[s] \in {"posting"} \union AtDocument =>
        \A d \in Docs : Tag[d] = Batch[sjob[s]] =>
            \/ d \in posted \union stodo[s]
            \/ spc[s] \in AtDocument /\ d = scur[s]
            \/ Row(d, FALSE, s) \in Written(s)

\* The session of a Completed job writes no more rows.
Settled ==
    \A j \in Jobs : status[j] = "Completed" =>
        owner[j] \in Sessions /\ spc[owner[j]] \in {"done", "ended"}

Accounts ==
    /\ OneRow /\ Tallied /\ Ahead /\ Covered /\ Settled
    /\ CompletedCountsMatch /\ CompletedAccounts /\ LossBounded

AccountsOk == CountOk /\ Reporting /\ Accounts

LEMMA AccountsInit == Init => Accounts
  <1> SUFFICES ASSUME Init PROVE Accounts
    OBVIOUS
  <1>1. \A s \in Sessions : Written(s) = {} /\ \A ok \in BOOLEAN : WrittenAs(s, ok) = {}
    BY DEF Init, Written, WrittenAs
  <1>2. OneRow /\ Covered /\ Settled /\ CompletedCountsMatch /\ CompletedAccounts
    <2>1. \A s \in Sessions : slog[s] = {} /\ spc[s] = "unused"
      BY DEF Init
    <2>2. \A j \in Jobs : status[j] # "Completed"
      BY DEF Init
    <2>3. OneRow
      BY <2>1, NoneAssumption DEF OneRow, AtDocument
    <2> QED
      BY <2>1, <2>2, <2>3 DEF Covered, Settled, CompletedCountsMatch, CompletedAccounts, AtDocument
  <1>3. Tallied /\ Ahead
    BY <1>1, FS_EmptySet DEF Init, Tallied, Ahead, AtDocument
  <1>4. LossBounded
    <2>1. Unreported = {} /\ {s \in Sessions : spc[s] = "ended"} = {}
      BY DEF Init, Unreported
    <2> QED
      BY <2>1, FS_EmptySet DEF LossBounded
  <1> QED
    BY <1>2, <1>3, <1>4 DEF Accounts

-------------------------------------------------------------------------------
(* The steps that write no row                                                  *)

\* Where a step may take a session that writes nothing in it.
Moves(s) ==
    \/ spc'[s] = spc[s]
    \/ spc[s] = "unused" /\ spc'[s] = "starting"
    \/ spc[s] = "starting" /\ spc'[s] \in {"collect", "done"}
    \/ spc[s] \in AtDocument /\ spc'[s] \in AtDocument

\* What is Completed was so before, and its row has not changed.
SameReports ==
    \A j \in Jobs : status'[j] = "Completed" =>
        /\ status[j] = "Completed" /\ owner'[j] = owner[j]
        /\ postedCount'[j] = postedCount[j] /\ failedCount'[j] = failedCount[j]

LEMMA SameRows ==
  ASSUME AccountsOk, SameReports, results' = results, posted \subseteq posted'
  PROVE  CompletedCountsMatch' /\ CompletedAccounts'
  <1>1. \A q, ok : RowsBy(q, ok)' = RowsBy(q, ok)
    BY DEF RowsBy
  <1>2. CompletedCountsMatch'
    BY <1>1 DEF AccountsOk, Accounts, CompletedCountsMatch, SameReports
  <1>3. CompletedAccounts'
    BY DEF AccountsOk, Accounts, CompletedAccounts, SameReports
  <1> QED
    BY <1>2, <1>3

(* Requests, and the steps of a session outside its documents, post nothing and *)
(* write no row; no job is Completed by them, and of those that were they       *)
(* change nothing.                                                              *)
LEMMA QuietAccounts ==
  ASSUME AccountsOk, UNCHANGED <<posted, results, slog, stodo, scur, sposted, sfailed>>,
         \A s \in Sessions : Moves(s) /\ (spc[s] \in Working => sjob'[s] = sjob[s]),
         SameReports
  PROVE  Accounts'
  <1> USE DEF AccountsOk, Accounts
  <1>1. \A s \in Sessions : /\ Written(s)' = Written(s)
                            /\ \A ok \in BOOLEAN : WrittenAs(s, ok)' = WrittenAs(s, ok)
    BY DEF Written, WrittenAs
  <1>2. \A s \in Sessions : /\ spc'[s] = "ended" <=> spc[s] = "ended"
                            /\ spc'[s] \in AtDocument <=> spc[s] \in AtDocument
    BY DEF Moves, AtDocument
  <1>3. OneRow'
    BY <1>2 DEF OneRow
  <1>4. Tallied'
    BY <1>1, <1>2 DEF Tallied
  <1>5. Ahead'
    BY <1>1, <1>2 DEF Ahead
  <1>6. Covered'
    <2>1. \A s \in Sessions : spc'[s] \in {"posting"} \union AtDocument =>
              spc[s] \in {"posting"} \union AtDocument /\ sjob'[s] = sjob[s]
      BY DEF Moves, AtDocument, Working
    <2> QED
      <3> SUFFICES ASSUME NEW q \in Sessions, spc'[q] \in {"posting"} \union AtDocument,
                          NEW d \in Docs, Tag[d] = Batch[sjob'[q]]
                   PROVE  \/ d \in posted' \union stodo'[q]
                          \/ spc'[q] \in AtDocument /\ d = scur'[q]
                          \/ Row(d, FALSE, q) \in Written(q)'
        BY DEF Covered
      <3>1. spc[q] \in {"posting"} \union AtDocument /\ sjob'[q] = sjob[q]
        BY <2>1
      <3>2. \/ d \in posted \union stodo[q]
            \/ spc[q] \in AtDocument /\ d = scur[q]
            \/ Row(d, FALSE, q) \in Written(q)
        BY <3>1 DEF Covered
      <3> QED
        BY <1>1, <1>2, <3>2
  <1>7. Settled'
    BY DEF Settled, SameReports, Moves, AtDocument
  <1>8. CompletedCountsMatch' /\ CompletedAccounts'
    BY SameRows
  <1>9. LossBounded'
    BY <1>2 DEF LossBounded, Unreported
  <1> QED
    BY <1>3, <1>4, <1>5, <1>6, <1>7, <1>8, <1>9

(* A session that ends takes with it what it has not committed: the row of one  *)
(* document.                                                                    *)
LEMMA EndAccounts ==
  ASSUME AccountsOk, NEW s \in Sessions, IsSessionAlive(s), EndSession(s),
         UNCHANGED <<jobRow, posted, results>>
  PROVE  Accounts'
  <1> USE DEF AccountsOk, Accounts, CountOk, Control, Types
  <1>1. /\ spc' = [spc EXCEPT ![s] = "ended"] /\ slog' = [slog EXCEPT ![s] = {}]
        /\ stodo' = [stodo EXCEPT ![s] = {}] /\ sjob' = [sjob EXCEPT ![s] = NoJob]
        /\ scur' = [scur EXCEPT ![s] = NoDoc]
        /\ sposted' = [sposted EXCEPT ![s] = 0] /\ sfailed' = [sfailed EXCEPT ![s] = 0]
    BY DEF EndSession, Goto
  <1>2. \A q \in Sessions \ {s} : /\ spc'[q] = spc[q] /\ slog'[q] = slog[q] /\ stodo'[q] = stodo[q]
                                  /\ sjob'[q] = sjob[q] /\ scur'[q] = scur[q]
                                  /\ sposted'[q] = sposted[q] /\ sfailed'[q] = sfailed[q]
    BY <1>1
  <1>3. spc'[s] = "ended" /\ slog'[s] = {} /\ stodo'[s] = {} /\ spc[s] # "ended"
    BY <1>1 DEF IsSessionAlive
  <1>4. /\ \A q \in Sessions \ {s} : /\ Written(q)' = Written(q)
                                     /\ \A ok \in BOOLEAN : WrittenAs(q, ok)' = WrittenAs(q, ok)
        /\ Written(s)' \subseteq Written(s)
        /\ \A ok \in BOOLEAN : WrittenAs(s, ok)' \subseteq WrittenAs(s, ok)
    BY <1>2, <1>3 DEF Written, WrittenAs
  <1>5. OneRow'
    BY <1>2, <1>3 DEF OneRow, AtDocument
  <1>6. Tallied'
    <2>1. \A ok \in BOOLEAN : IsFiniteSet(WrittenAs(s, ok)')
      BY <1>4, FS_Subset DEF Tallied
    <2> QED
      BY <1>2, <1>3, <1>4, <2>1 DEF Tallied
  <1>7. Ahead'
    BY <1>2, <1>3, <1>4 DEF Ahead, AtDocument
  <1>8. Covered'
    <2> SUFFICES ASSUME NEW q \in Sessions, spc'[q] \in {"posting"} \union AtDocument,
                        NEW d \in Docs, Tag[d] = Batch[sjob'[q]]
                 PROVE  \/ d \in posted \union stodo'[q]
                        \/ spc'[q] \in AtDocument /\ d = scur'[q]
                        \/ Row(d, FALSE, q) \in Written(q)'
      BY DEF Covered
    <2>1. q # s
      BY <1>3 DEF AtDocument
    <2>2. \/ d \in posted \union stodo[q]
          \/ spc[q] \in AtDocument /\ d = scur[q]
          \/ Row(d, FALSE, q) \in Written(q)
      BY <1>2, <2>1 DEF Covered
    <2> QED
      <3>1. /\ q \in Sessions \ {s} /\ spc'[q] = spc[q] /\ stodo'[q] = stodo[q]
            /\ scur'[q] = scur[q] /\ Written(q)' = Written(q)
        BY <1>2, <1>4, <2>1
      <3> QED
        BY <2>2, <3>1, Zenon
  <1>9. Settled'
    BY <1>2, <1>3 DEF Settled, jobRow
  <1>10. CompletedCountsMatch' /\ CompletedAccounts'
    BY SameRows DEF SameReports, jobRow
  <1>11. LossBounded'
    <2>1. PICK d : slog[s] \subseteq {Row(d, TRUE, s), Row(d, FALSE, s)}
      BY DEF OneRow
    <2>2. Unreported' \subseteq Unreported \union {d}
      <3>1. SUFFICES ASSUME NEW e \in Unreported', e # d PROVE e \in Unreported
        OBVIOUS
      <3>2. e \in posted /\ \A q \in Sessions : Row(e, TRUE, q) \notin results \union slog'[q]
        BY <3>1 DEF Unreported
      <3>3. Row(e, TRUE, s) \notin slog[s]
        BY <2>1, <3>1 DEF Row
      <3> QED
        BY <1>2, <3>2, <3>3 DEF Unreported
    <2>3. Ended' = Ended \union {s} /\ s \notin Ended
      BY <1>2, <1>3 DEF Ended
    <2>4. /\ IsFiniteSet(Unreported) /\ IsFiniteSet(Ended)
          /\ Cardinality(Unreported) \in Nat /\ Cardinality(Ended) \in Nat
      <3>1. Unreported \subseteq Docs /\ Ended \subseteq Sessions
        BY DEF Unreported, Ended
      <3> QED
        BY <3>1, SetsAssumption, FS_Subset, FS_CardinalityType
    <2>5. Cardinality(Unreported') <= Cardinality(Unreported) + 1 /\ Cardinality(Unreported') \in Nat
      <3>1. /\ IsFiniteSet(Unreported \union {d})
            /\ Cardinality(Unreported \union {d}) <= Cardinality(Unreported) + 1
            /\ Cardinality(Unreported \union {d}) \in Nat
        <4>1. /\ IsFiniteSet(Unreported \union {d})
              /\ Cardinality(Unreported \union {d}) =
                     IF d \in Unreported THEN Cardinality(Unreported) ELSE Cardinality(Unreported) + 1
          BY <2>4, FS_AddElement
        <4> QED
          BY <2>4, <4>1
      <3>2. /\ IsFiniteSet(Unreported')
            /\ Cardinality(Unreported') <= Cardinality(Unreported \union {d})
        BY <2>2, <3>1, FS_Subset
      <3>3. Cardinality(Unreported') \in Nat
        BY <3>2, FS_CardinalityType
      <3> QED
        BY <2>4, <3>1, <3>2, <3>3
    <2>6. Cardinality(Ended') = Cardinality(Ended) + 1
      BY <2>3, <2>4, FS_AddElement
    <2>7. Cardinality(Unreported) <= Cardinality(Ended)
      BY DEF LossBounded, Ended
    <2>8. Cardinality(Unreported') <= Cardinality(Ended')
      BY <2>4, <2>5, <2>6, <2>7
    <2> QED
      BY <2>8 DEF LossBounded, Ended
  <1> QED
    BY <1>5, <1>6, <1>7, <1>8, <1>9, <1>10, <1>11

-------------------------------------------------------------------------------
(* The documents of a session, one by one                                       *)

(* Collecting, and passing over a document that somebody else has posted.       *)
LEMMA CollectAccounts ==
  ASSUME AccountsOk, NEW s \in Sessions,
         PostBatch_collect(s) \/ \E d \in Docs : PostBatch_skip(s, d)
  PROVE  Accounts'
  <1> USE DEF AccountsOk, Accounts, CountOk, Control, Types
  <1>1. /\ UNCHANGED <<jobRow, posted, results, slog, sjob, scur, sposted, sfailed>>
        /\ spc[s] \in {"collect", "posting"} /\ spc' = [spc EXCEPT ![s] = "posting"]
        /\ stodo' = [stodo EXCEPT ![s] = stodo'[s]]
    BY DEF PostBatch_collect, PostBatch_skip, At, Goto
  <1>2. /\ spc'[s] = "posting"
        /\ \A q \in Sessions \ {s} : spc'[q] = spc[q] /\ stodo'[q] = stodo[q]
    BY <1>1
  <1>3. \A q \in Sessions : /\ Written(q)' = Written(q)
                            /\ \A ok \in BOOLEAN : WrittenAs(q, ok)' = WrittenAs(q, ok)
    BY <1>1 DEF Written, WrittenAs
  <1>4. OneRow' /\ Tallied'
    <2>1. OneRow'
      BY <1>1, <1>2 DEF OneRow, AtDocument
    <2>2. \A q \in Sessions : spc'[q] # "ended" => spc[q] # "ended"
      BY <1>1, <1>2
    <2>3. Tallied'
      BY <1>1, <1>3, <2>2 DEF Tallied
    <2> QED
      BY <2>1, <2>3
  <1>5. Ahead'
    <2>1. \A r \in Written(s) : r.doc \notin stodo'[s]
      <3>1. CASE PostBatch_collect(s)
        <4>1. sposted[s] = 0 /\ sfailed[s] = 0 /\ spc[s] = "collect"
          BY <3>1 DEF PostBatch_collect, At, Fresh
        <4>2. \A ok \in BOOLEAN : WrittenAs(s, ok) = {}
          BY <4>1, FS_EmptySet DEF Tallied
        <4>3. \A r \in Written(s) : r.success \in BOOLEAN
          BY DEF Written, Rows
        <4> QED
          BY <4>2, <4>3 DEF WrittenAs
      <3>2. CASE \E d \in Docs : PostBatch_skip(s, d)
        <4>1. stodo'[s] \subseteq stodo[s]
          BY <3>2 DEF PostBatch_skip
        <4> QED
          BY <4>1 DEF Ahead
      <3> QED
        BY <3>1, <3>2
    <2> QED
      BY <1>1, <1>2, <1>3, <2>1 DEF Ahead, AtDocument
  <1>6. Covered'
    <2> SUFFICES ASSUME NEW q \in Sessions, spc'[q] \in {"posting"} \union AtDocument,
                        NEW d \in Docs, Tag[d] = Batch[sjob'[q]]
                 PROVE  \/ d \in posted' \union stodo'[q]
                        \/ spc'[q] \in AtDocument /\ d = scur'[q]
                        \/ Row(d, FALSE, q) \in Written(q)'
      BY DEF Covered
    <2>1. CASE q # s
      <3>1. \/ d \in posted \union stodo[q]
            \/ spc[q] \in AtDocument /\ d = scur[q]
            \/ Row(d, FALSE, q) \in Written(q)
        BY <1>1, <1>2, <2>1 DEF Covered
      <3> QED
        BY <1>1, <1>2, <1>3, <2>1, <3>1
    <2>2. CASE q = s
      <3>1. CASE PostBatch_collect(s)
        <4>1. stodo'[s] = {e \in Docs \ posted : Tag[e] = Batch[sjob[s]]}
          BY <3>1 DEF PostBatch_collect
        <4> QED
          BY <1>1, <2>2, <4>1
      <3>2. CASE \E e \in Docs : PostBatch_skip(s, e)
        <4>1. PICK e \in Docs : PostBatch_skip(s, e)
          BY <3>2
        <4>2. spc[s] = "posting" /\ e \in posted /\ stodo'[s] = stodo[s] \ {e}
          BY <4>1 DEF PostBatch_skip, At
        <4>3. d \in posted \union stodo[s] \/ Row(d, FALSE, s) \in Written(s)
          BY <1>1, <2>2, <4>2 DEF Covered, AtDocument
        <4> QED
          BY <1>1, <1>3, <2>2, <4>2, <4>3
      <3> QED
        BY <3>1, <3>2
    <2> QED
      BY <2>1, <2>2
  <1>7. Settled'
    BY <1>1, <1>2 DEF Settled, jobRow
  <1>8. CompletedCountsMatch' /\ CompletedAccounts'
    BY <1>1, SameRows DEF SameReports, jobRow
  <1>9. LossBounded'
    <2>1. Ended' = Ended /\ Unreported' = Unreported
      BY <1>1, <1>2 DEF Ended, Unreported
    <2> QED
      BY <2>1 DEF LossBounded, Ended
  <1> QED
    BY <1>4, <1>5, <1>6, <1>7, <1>8, <1>9

(* What a session has inserted is committed.                                    *)
LEMMA Committed ==
  ASSUME AccountsOk, NEW s \in Sessions,
         UNCHANGED posted, results' = results \union slog[s], slog' = [slog EXCEPT ![s] = {}]
  PROVE  /\ \A q \in Sessions : /\ Written(q)' = Written(q)
                                /\ \A ok \in BOOLEAN : WrittenAs(q, ok)' = WrittenAs(q, ok)
         /\ \A q \in Sessions \ {s}, ok \in BOOLEAN : RowsBy(q, ok)' = RowsBy(q, ok)
         /\ \A ok \in BOOLEAN : RowsBy(s, ok)' = WrittenAs(s, ok)
         /\ Unreported' = Unreported
  <1> USE DEF AccountsOk, Accounts, CountOk, Control, Types
  <1>1. \A r \in slog[s] : r.by = s
    BY DEF OneRow, Row
  <1>2. slog'[s] = {} /\ \A q \in Sessions \ {s} : slog'[q] = slog[q]
    OBVIOUS
  <1>3. \A q \in Sessions : Written(q)' = Written(q)
    BY <1>1, <1>2 DEF Written
  <1>4. \A q \in Sessions, ok \in BOOLEAN : WrittenAs(q, ok)' = WrittenAs(q, ok)
    BY <1>3 DEF WrittenAs
  <1>5. \A q \in Sessions \ {s}, ok \in BOOLEAN : RowsBy(q, ok)' = RowsBy(q, ok)
    BY <1>1 DEF RowsBy
  <1>6. \A ok \in BOOLEAN : RowsBy(s, ok)' = WrittenAs(s, ok)
    BY DEF RowsBy, Written, WrittenAs
  <1>7. Unreported' = Unreported
    <2>1. \A d \in posted :
              (\A q \in Sessions : Row(d, TRUE, q) \notin results' \union slog'[q])
              <=> (\A q \in Sessions : Row(d, TRUE, q) \notin results \union slog[q])
      BY <1>1, <1>2 DEF Row
    <2> QED
      BY <2>1 DEF Unreported
  <1> QED
    BY <1>3, <1>4, <1>5, <1>6, <1>7

(* The row of the document before is committed, and the next one taken up.      *)
LEMMA CommitAccounts ==
  ASSUME AccountsOk, NEW s \in Sessions, NEW d \in Docs, PostBatch_commit(s, d)
  PROVE  Accounts'
  <1> USE DEF AccountsOk, Accounts, CountOk, Control, Types
  <1>1. /\ UNCHANGED <<jobRow, posted, sjob, sposted, sfailed>>
        /\ spc[s] = "posting" /\ d \in stodo[s] \ posted
        /\ spc' = [spc EXCEPT ![s] = "codeunit"] /\ scur' = [scur EXCEPT ![s] = d]
        /\ stodo' = [stodo EXCEPT ![s] = @ \ {d}]
        /\ results' = results \union slog[s] /\ slog' = [slog EXCEPT ![s] = {}]
    BY DEF PostBatch_commit, At, Goto
  <1>2. /\ spc'[s] = "codeunit" /\ slog'[s] = {} /\ scur'[s] = d /\ stodo'[s] = stodo[s] \ {d}
        /\ \A q \in Sessions \ {s} : /\ spc'[q] = spc[q] /\ slog'[q] = slog[q]
                                     /\ stodo'[q] = stodo[q] /\ scur'[q] = scur[q]
    BY <1>1
  <1>3. /\ \A q \in Sessions : /\ Written(q)' = Written(q)
                               /\ \A ok \in BOOLEAN : WrittenAs(q, ok)' = WrittenAs(q, ok)
        /\ \A q \in Sessions \ {s}, ok \in BOOLEAN : RowsBy(q, ok)' = RowsBy(q, ok)
        /\ Unreported' = Unreported
    BY <1>1, Committed
  <1>4. OneRow'
    BY <1>2 DEF OneRow, AtDocument
  <1>5. Tallied'
    <2>1. \A q \in Sessions : spc'[q] # "ended" => spc[q] # "ended"
      BY <1>1, <1>2
    <2> QED
      BY <1>1, <1>3, <2>1 DEF Tallied
  <1>6. Ahead'
    <2>1. \A r \in Written(s) : r.doc # d
      BY <1>1 DEF Ahead
    <2> QED
      BY <1>2, <1>3, <2>1 DEF Ahead, AtDocument
  <1>7. Covered'
    <2> SUFFICES ASSUME NEW q \in Sessions, spc'[q] \in {"posting"} \union AtDocument,
                        NEW e \in Docs, Tag[e] = Batch[sjob'[q]]
                 PROVE  \/ e \in posted' \union stodo'[q]
                        \/ spc'[q] \in AtDocument /\ e = scur'[q]
                        \/ Row(e, FALSE, q) \in Written(q)'
      BY DEF Covered
    <2>1. /\ spc[q] \in {"posting"} \union AtDocument /\ Tag[e] = Batch[sjob[q]]
          /\ Written(q)' = Written(q) /\ posted' = posted
      BY <1>1, <1>2, <1>3
    <2>2. \/ e \in posted \union stodo[q]
          \/ spc[q] \in AtDocument /\ e = scur[q]
          \/ Row(e, FALSE, q) \in Written(q)
      BY <2>1 DEF Covered
    <2>3. CASE q # s
      <3>1. stodo'[q] = stodo[q] /\ spc'[q] = spc[q] /\ scur'[q] = scur[q]
        BY <1>2, <2>3
      <3> QED
        BY <2>1, <2>2, <3>1, Zenon
    <2>4. CASE q = s
      BY <1>1, <1>2, <2>1, <2>2, <2>4 DEF AtDocument
    <2> QED
      BY <2>3, <2>4
  <1>8. Settled'
    BY <1>1, <1>2 DEF Settled, jobRow
  <1>9. CompletedCountsMatch'
    <2>1. \A j \in Jobs : status[j] = "Completed" => owner[j] \in Sessions \ {s}
      BY <1>1 DEF Settled
    <2> QED
      BY <1>1, <1>3, <2>1 DEF CompletedCountsMatch, jobRow
  <1>10. CompletedAccounts'
    BY <1>1 DEF CompletedAccounts, jobRow
  <1>11. LossBounded'
    <2>1. Ended' = Ended
      BY <1>1, <1>2 DEF Ended
    <2> QED
      BY <1>3, <2>1 DEF LossBounded, Ended
  <1> QED
    BY <1>4, <1>5, <1>6, <1>7, <1>8, <1>9, <1>10, <1>11

(* Codeunit.Run, with the row of its outcome: posted, and from then on with a   *)
(* success row; or failed.                                                      *)
LEMMA RunAccounts ==
  ASSUME AccountsOk, NEW s \in Sessions, Codeunit_Run_true(s) \/ Codeunit_Run_false(s)
  PROVE  Accounts'
  <1> USE DEF AccountsOk, Accounts, CountOk, Control, Types, Placed
  <1>1. PICK ok \in BOOLEAN :
            /\ UNCHANGED <<jobRow, results, sjob, stodo>>
            /\ spc[s] = "codeunit" /\ spc' = [spc EXCEPT ![s] = "posting"]
            /\ scur' = [scur EXCEPT ![s] = NoDoc]
            /\ slog' = [slog EXCEPT ![s] = @ \union {Row(scur[s], ok, s)}]
            /\ posted' = IF ok THEN posted \union {scur[s]} ELSE posted
            /\ ok => scur[s] \notin posted
            /\ sposted' = IF ok THEN [sposted EXCEPT ![s] = @ + 1] ELSE sposted
            /\ sfailed' = IF ok THEN sfailed ELSE [sfailed EXCEPT ![s] = @ + 1]
    <2>1. CASE Codeunit_Run_true(s)
      BY <2>1 DEF Codeunit_Run_true, HasQtyToShip, At, Goto
    <2>2. CASE Codeunit_Run_false(s)
      BY <2>2 DEF Codeunit_Run_false, At, Goto
    <2> QED
      BY <2>1, <2>2
  <1> DEFINE d == scur[s]
             new == Row(d, ok, s)
  <1>2. /\ d \in Docs /\ new.doc = d /\ new.by = s /\ new.success = ok
        /\ slog[s] = {} /\ d \notin stodo[s]
    BY <1>1 DEF Row, OneRow, Ahead, AtDocument
  <1>3. /\ spc'[s] = "posting" /\ slog'[s] = {new}
        /\ \A q \in Sessions \ {s} : spc'[q] = spc[q] /\ slog'[q] = slog[q] /\ scur'[q] = scur[q]
    BY <1>1, <1>2
  <1> HIDE DEF new, d
  <1>4. /\ Written(s)' = Written(s) \union {new}
        /\ \A q \in Sessions \ {s} : /\ Written(q)' = Written(q)
                                     /\ \A o \in BOOLEAN : WrittenAs(q, o)' = WrittenAs(q, o)
    BY <1>1, <1>2, <1>3 DEF Written, WrittenAs
  <1>5. /\ new \notin Written(s) /\ \A o \in BOOLEAN : new \notin WrittenAs(s, o)
        /\ WrittenAs(s, ok)' = WrittenAs(s, ok) \union {new}
        /\ \A o \in BOOLEAN \ {ok} : WrittenAs(s, o)' = WrittenAs(s, o)
    BY <1>1, <1>2, <1>4 DEF Ahead, AtDocument, WrittenAs, d
  <1>6. OneRow'
    <2>1. slog'[s] \subseteq {Row(d, TRUE, s), Row(d, FALSE, s)}
      BY <1>3 DEF new
    <2> QED
      BY <1>2, <1>3, <2>1 DEF OneRow, AtDocument
  <1>7. Tallied'
    <2>1. \A o \in BOOLEAN :
              /\ IsFiniteSet(WrittenAs(s, o))
              /\ Cardinality(WrittenAs(s, o)) = IF o THEN sposted[s] ELSE sfailed[s]
      BY <1>1 DEF Tallied
    <2>2. /\ IsFiniteSet(WrittenAs(s, ok)')
          /\ Cardinality(WrittenAs(s, ok)') = Cardinality(WrittenAs(s, ok)) + 1
      BY <1>5, <2>1, FS_AddElement
    <2>3. /\ sposted'[s] = IF ok THEN sposted[s] + 1 ELSE sposted[s]
          /\ sfailed'[s] = IF ok THEN sfailed[s] ELSE sfailed[s] + 1
          /\ \A q \in Sessions \ {s} : sposted'[q] = sposted[q] /\ sfailed'[q] = sfailed[q]
      BY <1>1 DEF CountTypes
    <2>4. ASSUME NEW o \in BOOLEAN
          PROVE  /\ IsFiniteSet(WrittenAs(s, o)')
                 /\ Cardinality(WrittenAs(s, o)') = IF o THEN sposted'[s] ELSE sfailed'[s]
      <3>1. CASE o = ok
        BY <2>1, <2>2, <2>3, <3>1
      <3>2. CASE o # ok
        BY <1>5, <2>1, <2>3, <3>2
      <3> QED
        BY <3>1, <3>2
    <2>5. ASSUME NEW q \in Sessions \ {s}, NEW o \in BOOLEAN
          PROVE  /\ IsFiniteSet(WrittenAs(q, o)')
                 /\ spc'[q] # "ended" =>
                        Cardinality(WrittenAs(q, o)') = IF o THEN sposted'[q] ELSE sfailed'[q]
      BY <1>3, <1>4, <2>3 DEF Tallied
    <2> QED
      BY <2>4, <2>5 DEF Tallied
  <1>8. Ahead'
    BY <1>1, <1>2, <1>3, <1>4 DEF Ahead, AtDocument
  <1>9. Covered'
    <2> SUFFICES ASSUME NEW q \in Sessions, spc'[q] \in {"posting"} \union AtDocument,
                        NEW e \in Docs, Tag[e] = Batch[sjob'[q]]
                 PROVE  \/ e \in posted' \union stodo'[q]
                        \/ spc'[q] \in AtDocument /\ e = scur'[q]
                        \/ Row(e, FALSE, q) \in Written(q)'
      BY DEF Covered
    <2>1. /\ spc[q] \in {"posting"} \union AtDocument /\ Tag[e] = Batch[sjob[q]]
          /\ posted \subseteq posted' /\ stodo' = stodo
      BY <1>1, <1>3 DEF AtDocument
    <2>2. \/ e \in posted \union stodo[q]
          \/ spc[q] \in AtDocument /\ e = scur[q]
          \/ Row(e, FALSE, q) \in Written(q)
      BY <2>1 DEF Covered
    <2>3. CASE q # s
      <3>1. spc'[q] = spc[q] /\ scur'[q] = scur[q] /\ Written(q)' = Written(q)
        BY <1>3, <1>4, <2>3
      <3> QED
        BY <2>1, <2>2, <3>1
    <2>4. CASE q = s
      <3>1. d \in posted' \/ Row(d, FALSE, s) \in Written(s)'
        BY <1>1, <1>4 DEF new, d
      <3> QED
        BY <1>4, <2>1, <2>2, <2>4, <3>1 DEF d
    <2> QED
      BY <2>3, <2>4
  <1>10. Settled'
    BY <1>1, <1>3 DEF Settled, jobRow
  <1>11. CompletedCountsMatch' /\ CompletedAccounts'
    BY <1>1, SameRows DEF SameReports, jobRow
  <1>12. LossBounded'
    <2>1. Ended' = Ended
      BY <1>1, <1>3 DEF Ended
    <2>2. Unreported' = Unreported
      <3>1. \A e \in Docs : (\A q \in Sessions : Row(e, TRUE, q) \notin results' \union slog'[q])
                            => (\A q \in Sessions : Row(e, TRUE, q) \notin results \union slog[q])
        BY <1>1, <1>2, <1>3
      <3>2. \A e \in Docs : (\A q \in Sessions : Row(e, TRUE, q) \notin results \union slog[q])
                            => (\A q \in Sessions : Row(e, TRUE, q) \notin results' \union slog'[q])
                               \/ (ok /\ e = d)
        BY <1>1, <1>2, <1>3 DEF new, Row
      <3>3. ok => Row(d, TRUE, s) \in slog'[s]
        BY <1>3 DEF new
      <3>4. posted' \ {d} = posted \ {d} /\ (ok => d \notin posted) /\ (~ok => posted' = posted)
        BY <1>1 DEF d
      <3>5. ASSUME NEW e \in Docs PROVE e \in Unreported' <=> e \in Unreported
        <4>1. CASE ok /\ e = d
          BY <3>3, <3>4, <4>1 DEF Unreported
        <4>2. CASE ~(ok /\ e = d)
          <5>1. e \in posted' <=> e \in posted
            BY <3>4, <4>2
          <5> QED
            BY <3>1, <3>2, <4>2, <5>1 DEF Unreported
        <4> QED
          BY <4>1, <4>2
      <3>6. posted' \subseteq Docs
        BY <1>1, <1>2 DEF d
      <3> QED
        BY <3>5, <3>6 DEF Unreported
    <2> QED
      BY <2>1, <2>2 DEF LossBounded, Ended
  <1> QED
    BY <1>6, <1>7, <1>8, <1>9, <1>10, <1>11, <1>12

(* The job is Completed: its record is up to date, so that the job is the       *)
(* session's own; it gets the counters of the session, whose last row is        *)
(* committed with them.                                                         *)
LEMMA CompleteAccounts ==
  ASSUME AccountsOk, NEW s \in Sessions, RunJob_completed(s)
  PROVE  Accounts'
  <1> USE DEF AccountsOk, Accounts, CountOk, Control, Types, CountTypes
  <1> DEFINE own == sjob[s]
  <1>1. /\ UNCHANGED <<owner, posted, sjob, stodo, scur, sposted, sfailed>>
        /\ spc[s] = "posting" /\ stodo[s] = {} /\ s \in current
        /\ status' = [status EXCEPT ![own] = "Completed"]
        /\ postedCount' = [postedCount EXCEPT ![own] = sposted[s]]
        /\ failedCount' = [failedCount EXCEPT ![own] = sfailed[s]]
        /\ results' = results \union slog[s] /\ slog' = [slog EXCEPT ![s] = {}]
        /\ spc' = [spc EXCEPT ![s] = "done"]
    BY DEF RunJob_completed, At, Goto
  <1>2. /\ spc'[s] = "done" /\ slog'[s] = {}
        /\ \A q \in Sessions \ {s} : spc'[q] = spc[q] /\ slog'[q] = slog[q]
    BY <1>1
  <1>3. own \in Jobs /\ owner[own] = s
    BY <1>1 DEF Placed, Reporting, OneReportingSession, Working
  <1> HIDE DEF own
  <1>4. \A j \in Jobs \ {own} : /\ status'[j] = status[j] /\ owner'[j] = owner[j]
                                /\ postedCount'[j] = postedCount[j]
                                /\ failedCount'[j] = failedCount[j]
                                /\ status[j] = "Completed" => owner[j] \in Sessions \ {s}
    BY <1>1 DEF Settled
  <1>5. /\ status'[own] = "Completed" /\ owner'[own] = s
        /\ postedCount'[own] = sposted[s] /\ failedCount'[own] = sfailed[s]
    BY <1>1, <1>3
  <1>6. /\ \A q \in Sessions : /\ Written(q)' = Written(q)
                               /\ \A ok \in BOOLEAN : WrittenAs(q, ok)' = WrittenAs(q, ok)
        /\ \A q \in Sessions \ {s}, ok \in BOOLEAN : RowsBy(q, ok)' = RowsBy(q, ok)
        /\ \A ok \in BOOLEAN : RowsBy(s, ok)' = WrittenAs(s, ok)
        /\ Unreported' = Unreported
    BY <1>1, Committed
  <1>7. OneRow'
    BY <1>2 DEF OneRow, AtDocument
  <1>8. Tallied'
    <2>1. \A q \in Sessions : spc'[q] # "ended" => spc[q] # "ended"
      BY <1>1, <1>2
    <2> QED
      BY <1>1, <1>6, <2>1 DEF Tallied
  <1>9. Ahead'
    BY <1>1, <1>2, <1>6 DEF Ahead, AtDocument
  <1>10. Covered'
    <2> SUFFICES ASSUME NEW q \in Sessions, spc'[q] \in {"posting"} \union AtDocument,
                        NEW d \in Docs, Tag[d] = Batch[sjob'[q]]
                 PROVE  \/ d \in posted' \union stodo'[q]
                        \/ spc'[q] \in AtDocument /\ d = scur'[q]
                        \/ Row(d, FALSE, q) \in Written(q)'
      BY DEF Covered
    <2>1. q # s
      BY <1>2 DEF AtDocument
    <2>2. \/ d \in posted \union stodo[q]
          \/ spc[q] \in AtDocument /\ d = scur[q]
          \/ Row(d, FALSE, q) \in Written(q)
      BY <1>1, <1>2, <2>1 DEF Covered
    <2> QED
      BY <1>1, <1>2, <1>6, <2>1, <2>2
  <1>11. Settled'
    BY <1>2, <1>4, <1>5 DEF Settled
  <1>12. CompletedCountsMatch'
    <2>1. /\ sposted[s] = Cardinality(WrittenAs(s, TRUE))
          /\ sfailed[s] = Cardinality(WrittenAs(s, FALSE))
      BY <1>1 DEF Tallied
    <2>2. ASSUME NEW j \in Jobs, status'[j] = "Completed"
          PROVE  /\ postedCount'[j] = Cardinality({r \in results' : r.by = owner'[j] /\ r.success = TRUE})
                 /\ failedCount'[j] = Cardinality({r \in results' : r.by = owner'[j] /\ r.success = FALSE})
      <3>1. CASE j = own
        <4>1. \A ok \in BOOLEAN : {r \in results' : r.by = s /\ r.success = ok} = WrittenAs(s, ok)
          BY <1>6 DEF RowsBy
        <4> QED
          BY <1>5, <2>1, <3>1, <4>1
      <3>2. CASE j # own
        <4>1. \A ok \in BOOLEAN :
                  {r \in results' : r.by = owner[j] /\ r.success = ok} = RowsBy(owner[j], ok)
          BY <1>4, <1>6, <2>2, <3>2 DEF RowsBy
        <4>2. /\ postedCount[j] = Cardinality(RowsBy(owner[j], TRUE))
              /\ failedCount[j] = Cardinality(RowsBy(owner[j], FALSE))
          BY <1>4, <2>2, <3>2 DEF CompletedCountsMatch
        <4> QED
          BY <1>4, <3>2, <4>1, <4>2
      <3> QED
        BY <3>1, <3>2
    <2> QED
      BY <2>2 DEF CompletedCountsMatch, RowsBy
  <1>13. CompletedAccounts'
    <2> SUFFICES ASSUME NEW j \in Jobs, NEW d \in Docs, status'[j] = "Completed", Tag[d] = Batch[j]
                 PROVE  d \in posted' \/ Row(d, FALSE, owner'[j]) \in results'
      BY DEF CompletedAccounts
    <2>1. CASE j = own
      BY <1>1, <1>5, <2>1 DEF Covered, AtDocument, Written, own
    <2>2. CASE j # own
      BY <1>1, <1>4, <2>2 DEF CompletedAccounts
    <2> QED
      BY <2>1, <2>2
  <1>14. LossBounded'
    <2>1. Ended' = Ended
      BY <1>1, <1>2 DEF Ended
    <2> QED
      BY <1>6, <2>1 DEF LossBounded, Ended
  <1> QED
    BY <1>7, <1>8, <1>9, <1>10, <1>11, <1>12, <1>13, <1>14

-------------------------------------------------------------------------------
(* Every step                                                                   *)

LEMMA AccountsCaller ==
  ASSUME AccountsOk, NEW c \in Callers, CallerStep(c)
  PROVE  Accounts'
  <1>0. Control
    BY DEF AccountsOk, Reporting
  <1>1. /\ UNCHANGED <<posted, results, slog, stodo, scur, sposted, sfailed>>
        /\ \A s \in Sessions : /\ spc'[s] = spc[s] \/ (spc[s] = "unused" /\ spc'[s] = "starting")
                               /\ spc[s] \in Working => sjob'[s] = sjob[s]
    <2>1. CASE poll(c) \/ refused(c) \/ run(c) \/ reset(c) \/ SessionNotStarted(c)
      BY <2>1 DEF poll, refused, run, reset, SessionNotStarted, session
    <2>2. CASE \E s \in Sessions : StartSession(c, s)
      BY <1>0, <2>2 DEF StartSession, Control, Types, Working
    <2> QED
      BY <2>1, <2>2 DEF CallerStep
  <1>2. SameReports
    <2> USE <1>0 DEF SameReports, Control, Types, Placed
    <2>1. CASE poll(c)
      BY <2>1 DEF poll
    <2>2. CASE refused(c) \/ \E s \in Sessions : StartSession(c, s)
      BY <2>2 DEF refused, StartSession, jobRow
    <2>3. CASE run(c)
      BY <2>3 DEF run, BackToPending
    <2>4. CASE reset(c)
      <3>1. /\ status' = [k \in Jobs |-> IF k = cjob[c] THEN "Pending"
                                         ELSE IF k \in StaleJobs(c) THEN "Failed" ELSE status[k]]
            /\ owner' = [owner EXCEPT ![cjob[c]] = NoSession]
            /\ postedCount' = [postedCount EXCEPT ![cjob[c]] = 0]
            /\ failedCount' = [failedCount EXCEPT ![cjob[c]] = 0]
        BY <2>4 DEF reset, BackToPending
      <3> QED
        BY <3>1
    <2>5. CASE SessionNotStarted(c)
      BY <2>5 DEF SessionNotStarted
    <2> QED
      BY <2>1, <2>2, <2>3, <2>4, <2>5 DEF CallerStep
  <1> QED
    BY <1>1, <1>2, QuietAccounts DEF Moves

LEMMA AccountsSession ==
  ASSUME AccountsOk, NEW s \in Sessions, SessionStep(s)
  PROVE  Accounts'
  <1>0. Control
    BY DEF AccountsOk, Reporting
  <1>1. CASE RunJob_blank(s) \/ RunJob_running(s)
    <2>1. /\ UNCHANGED <<posted, results, slog, stodo, scur, sposted, sfailed, sjob>>
          /\ spc[s] = "starting" /\ spc'[s] \in {"collect", "done"}
          /\ \A q \in Sessions \ {s} : spc'[q] = spc[q]
      BY <1>0, <1>1 DEF RunJob_blank, RunJob_running, At, Goto, Control, Types
    <2>2. SameReports
      <3> USE <1>0 DEF Control, Types
      <3>1. CASE RunJob_blank(s)
        BY <3>1 DEF RunJob_blank, SameReports
      <3>2. CASE RunJob_running(s)
        <4>1. /\ status' = [status EXCEPT ![sjob[s]] = "Running"]
              /\ \A j \in Jobs : j # sjob[s] => /\ owner'[j] = owner[j]
                                              /\ postedCount'[j] = postedCount[j]
                                              /\ failedCount'[j] = failedCount[j]
          BY <3>2 DEF RunJob_running, AccountsOk, CountOk, CountTypes
        <4> QED
          BY <4>1 DEF SameReports
      <3> QED
        BY <1>1, <3>1, <3>2
    <2> QED
      BY <2>1, <2>2, QuietAccounts DEF Moves
  <1>2. CASE RunJob_conflict(s) \/ SessionEnds(s)
    BY <1>2, EndAccounts DEF RunJob_conflict, SessionEnds, At, IsSessionAlive
  <1>3. CASE PostBatch_collect(s) \/ \E d \in Docs : PostBatch_skip(s, d)
    BY <1>3, CollectAccounts
  <1>4. CASE \E d \in Docs : PostBatch_commit(s, d)
    BY <1>4, CommitAccounts
  <1>5. CASE ShipAndReceive_shipped(s)
    <2>1. /\ UNCHANGED <<jobRow, posted, results, slog, stodo, scur, sposted, sfailed, sjob>>
          /\ spc[s] = "codeunit" /\ spc'[s] = "reread"
          /\ \A q \in Sessions \ {s} : spc'[q] = spc[q]
      BY <1>0, <1>5 DEF ShipAndReceive_shipped, At, Goto, Control, Types
    <2> QED
      BY <2>1, QuietAccounts DEF Moves, AtDocument, SameReports, jobRow
  <1>6. CASE ShipAndReceive_reread(s)
    <2>1. CASE EndSession(s)
      BY <1>6, <2>1, EndAccounts DEF ShipAndReceive_reread, At, IsSessionAlive
    <2>2. CASE ~EndSession(s)
      <3>1. /\ UNCHANGED <<jobRow, posted, results, slog, stodo, scur, sposted, sfailed, sjob>>
            /\ spc[s] = "reread" /\ spc'[s] = "codeunit"
            /\ \A q \in Sessions \ {s} : spc'[q] = spc[q]
        BY <1>0, <1>6, <2>2 DEF ShipAndReceive_reread, At, Goto, Control, Types
      <3> QED
        BY <3>1, QuietAccounts DEF Moves, AtDocument, SameReports, jobRow
    <2> QED
      BY <2>1, <2>2
  <1>7. CASE Codeunit_Run_true(s) \/ Codeunit_Run_false(s)
    BY <1>7, RunAccounts
  <1>8. CASE RunJob_completed(s)
    BY <1>8, CompleteAccounts
  <1> QED
    BY <1>1, <1>2, <1>3, <1>4, <1>5, <1>6, <1>7, <1>8 DEF SessionStep

LEMMA AccountsNext == AccountsOk /\ [Next]_vars => AccountsOk'
  <1> SUFFICES ASSUME AccountsOk, [Next]_vars PROVE AccountsOk'
    OBVIOUS
  <1>1. CountOk' /\ Reporting'
    BY CountNext, ReportingNext DEF AccountsOk
  <1>2. Accounts'
    <2>1. CASE \/ \E c \in Callers, j \in Jobs, request \in {"poll", "run", "reset"} :
                      OnOpenPage(c, request, j)
               \/ UNCHANGED vars
      <3>1. UNCHANGED <<jobRow, posted, results, session>>
        BY <2>1 DEF OnOpenPage, vars, jobRow, session
      <3> QED
        BY <3>1, QuietAccounts DEF Moves, SameReports, jobRow, session
    <2>2. CASE \E s \in Sessions : Crash(s)
      BY <2>2, EndAccounts DEF Crash
    <2> QED
      BY <2>1, <2>2, AccountsCaller, AccountsSession DEF Next
  <1> QED
    BY <1>1, <1>2 DEF AccountsOk

LEMMA AccountsAlways == Spec => []AccountsOk
  <1>1. Init => CountOk
    BY ControlInit, DocSets, CrashAssumption, FS_EmptySet
    DEF Init, CountOk, CountTypes, Fresh, Counted
  <1>2. Init => Reporting
    BY ControlInit DEF Init, Reporting, OneReportingSession, Working
  <1>3. Init => AccountsOk
    BY <1>1, <1>2, AccountsInit DEF AccountsOk
  <1> QED
    BY <1>3, AccountsNext, PTL DEF Spec

(* CompletedCountsMatch holds whatever the numbers of jobs, documents, requests *)
(* and sessions: the counters of a Completed job are those of the rows its run  *)
(* has committed, and of no other run's (BatchPost.Codeunit:45-49, PostLog).    *)
THEOREM CountsMatch == Spec => []CompletedCountsMatch
  <1>1. AccountsOk => CompletedCountsMatch
    BY DEF AccountsOk, Accounts
  <1> QED
    BY <1>1, AccountsAlways, PTL

(* CompletedAccounts holds: a job is not Completed while a document of its      *)
(* batch is neither posted nor has a failure row of the run that completed it   *)
(* (SalesPoster.Codeunit:20-38, BatchPost.Codeunit:45-49).                      *)
THEOREM BatchAccounted == Spec => []CompletedAccounts
  <1>1. AccountsOk => CompletedAccounts
    BY DEF AccountsOk, Accounts
  <1> QED
    BY <1>1, AccountsAlways, PTL

(* LossBounded holds: no more posted documents are without a result row than    *)
(* sessions have ended, whenever they crashed (SalesPoster.Codeunit:30).        *)
THEOREM LossIsBounded == Spec => []LossBounded
  <1>1. AccountsOk => LossBounded
    BY DEF AccountsOk, Accounts
  <1> QED
    BY <1>1, AccountsAlways, PTL
-------------------------------------------------------------------------------
(* What becomes of a batch that two sessions post, or of a result row that is   *)
(* lost, comes of one race alone.                                               *)

\* No request has found a job Running, and has its session still to look up,
\* when another request starts a new session for that job.
NoStaleLookup ==
    \A c, e \in Callers : cpc[c] = "start" /\ e # c =>
        \A p \in cseen[e] : p.job # cjob[c]

\* The record of a session that posts stays up to date; that of one about to
\* begin is of a Pending job, which nobody has found Running; whoever has found
\* a job Running knows the session that posts it.
Undisturbed ==
    /\ cseen \in [Callers -> SUBSET [job : Jobs, session : Sessions \union {NoSession}]]
    /\ \A s \in Sessions : /\ spc[s] \in Working => s \in current
                           /\ spc[s] = "unused" => s \notin current
    /\ \A s \in Sessions : spc[s] = "starting" /\ s \in current =>
           /\ status[sjob[s]] = "Pending"
           /\ \A c \in Callers : \A p \in cseen[c] : p.job # sjob[s]
    /\ \A c \in Callers : cpc[c] = "start" /\ c \in current => status[cjob[c]] = "Pending"
    /\ \A c \in Callers : \A p \in cseen[c] : \A s \in Sessions :
           spc[s] \in Working /\ sjob[s] = p.job => p.session = s

UndisturbedOk == Reporting /\ Undisturbed

(* A job that is failed as stale has no session that posts it.                  *)
LEMMA StaleHasNoWorker ==
  ASSUME UndisturbedOk, NEW c \in Callers, NEW s \in Sessions, spc[s] \in Working
  PROVE  sjob[s] \notin StaleJobs(c)
  <1> SUFFICES ASSUME NEW p \in Stale(c), p.job = sjob[s] PROVE FALSE
    BY DEF StaleJobs
  <1>1. p.session = s
    BY DEF Stale, UndisturbedOk, Undisturbed
  <1> QED
    BY <1>1 DEF Stale, IsSessionAlive, Working

(* A job that may be run or reset has no session that posts it.                 *)
LEMMA StartableHasNoWorker ==
  ASSUME UndisturbedOk, NEW s \in Sessions, spc[s] \in Working
  PROVE  ~CanStart(sjob[s])
  <1>1. status[sjob[s]] = "Running" /\ owner[sjob[s]] = s
    BY DEF UndisturbedOk, Undisturbed, Reporting, OneReportingSession
  <1> QED
    BY <1>1 DEF CanStart, IsSessionAlive, Working

(* A record outlives the changes of other rows.                                 *)
LEMMA StaysCurrent ==
  ASSUME NEW js, NEW s \in Sessions, s \in current, sjob[s] \notin js, NEW c \in Callers
  PROVE  s \in current \ (Outdated(js) \union {c})
  <1>1. s # c /\ s \notin Callers
    BY HoldersAssumption
  <1>2. \A j \in js : s \notin Copies(j)
    BY <1>1 DEF Copies
  <1> QED
    BY <1>1, <1>2 DEF Outdated

LEMMA UndisturbedCaller ==
  ASSUME UndisturbedOk, NoStaleLookup, NEW c \in Callers, CallerStep(c)
  PROVE  Undisturbed'
  <1> USE HoldersAssumption DEF UndisturbedOk, Reporting, Control, Types, Placed, Respond
  <1>0. ASSUME UNCHANGED <<spc, sjob>>, cseen' = [cseen EXCEPT ![c] = {}] \/ cseen' = cseen,
               NEW js, current' \subseteq (current \ Outdated(js)) \union {c},
               \A s \in Sessions : s \in current /\ sjob[s] \notin js => s \in current',
               \A s \in Sessions : spc[s] \in Working => sjob[s] \notin js,
               \A j \in Jobs \ js : status'[j] = status[j],
               cpc' = [cpc EXCEPT ![c] = "idle"] \/ (/\ cpc' = [cpc EXCEPT ![c] = "start"]
                                                     /\ status'[cjob[c]] = "Pending"),
               \A e \in Callers \ {c} : cjob'[e] = cjob[e],
               cjob'[c] = cjob[c] \/ cpc'[c] = "idle"
        PROVE  Undisturbed'
    <2>1. /\ \A e \in Callers : \A p \in cseen'[e] : p \in cseen[e]
          /\ cseen' \in [Callers -> SUBSET [job : Jobs, session : Sessions \union {NoSession}]]
      BY <1>0 DEF Undisturbed
    <2>2. ASSUME NEW s \in Sessions
          PROVE  /\ spc'[s] \in Working => s \in current'
                 /\ spc'[s] = "unused" => s \notin current'
      BY <1>0, <2>2 DEF Undisturbed
    <2>3. ASSUME NEW s \in Sessions, spc'[s] = "starting", s \in current'
          PROVE  /\ status'[sjob'[s]] = "Pending"
                 /\ \A e \in Callers : \A p \in cseen'[e] : p.job # sjob'[s]
      <3>1. s \in current \ Outdated(js) /\ spc[s] = "starting" /\ sjob'[s] = sjob[s]
        BY <1>0, <2>3
      <3>2. sjob[s] \in Jobs \ js
        BY <3>1, OutdatedSessions
      <3> QED
        BY <1>0, <2>1, <3>1, <3>2 DEF Undisturbed
    <2>4. ASSUME NEW e \in Callers, cpc'[e] = "start", e \in current'
          PROVE  status'[cjob'[e]] = "Pending"
      <3>1. CASE e = c
        BY <1>0, <2>4, <3>1
      <3>2. CASE e # c
        <4>1. cpc[e] = "start" /\ cjob'[e] = cjob[e] /\ e \in current \ Outdated(js)
          BY <1>0, <2>4, <3>2
        <4>2. cjob[e] \in Jobs \ js
          BY <4>1 DEF Outdated, Copies
        <4> QED
          BY <1>0, <4>1, <4>2 DEF Undisturbed
      <3> QED
        BY <3>1, <3>2
    <2>5. ASSUME NEW e \in Callers, NEW p \in cseen'[e], NEW s \in Sessions,
                 spc'[s] \in Working, sjob'[s] = p.job
          PROVE  p.session = s
      BY <1>0, <2>1, <2>5 DEF Undisturbed
    <2> QED
      BY <2>1, <2>2, <2>3, <2>4, <2>5 DEF Undisturbed
  <1>1. CASE poll(c)
    <2> DEFINE js == StaleJobs(c)
    <2>1. /\ UNCHANGED <<spc, sjob>> /\ cseen' = [cseen EXCEPT ![c] = {}]
          /\ current' = current \ Outdated(js)
          /\ cpc' = [cpc EXCEPT ![c] = "idle"]
          /\ \A e \in Callers \ {c} : cjob'[e] = cjob[e]
      BY <1>1 DEF poll, session
    <2>2. \A j \in Jobs \ js : status'[j] = status[j]
      BY <1>1 DEF poll
    <2>3. \A s \in Sessions : s \in current /\ sjob[s] \notin js => s \in current'
      BY <2>1, StaysCurrent
    <2>4. \A s \in Sessions : spc[s] \in Working => sjob[s] \notin js
      BY StaleHasNoWorker
    <2> HIDE DEF js
    <2>5. current' \subseteq (current \ Outdated(js)) \union {c} /\ cpc'[c] = "idle"
      BY <2>1
    <2> QED
      BY <1>0, <2>1, <2>2, <2>3, <2>4, <2>5
  <1>2. CASE refused(c)
    <2>1. /\ UNCHANGED <<spc, sjob>> /\ cseen' = [cseen EXCEPT ![c] = {}]
          /\ UNCHANGED <<current, status>>
          /\ cpc' = [cpc EXCEPT ![c] = "idle"]
          /\ \A e \in Callers \ {c} : cjob'[e] = cjob[e]
      BY <1>2 DEF refused, session, jobRow
    <2>2. current' \subseteq (current \ Outdated({})) \union {c} /\ cpc'[c] = "idle"
      BY <2>1 DEF Outdated
    <2>3. \A s \in Sessions : s \in current /\ sjob[s] \notin {} => s \in current'
      BY <2>1
    <2> QED
      BY <1>0, <2>1, <2>2, <2>3
  <1>3. CASE run(c) \/ reset(c)
    <2> DEFINE js == StaleJobs(c) \union {cjob[c]}
    <2>1. /\ UNCHANGED <<spc, sjob>>
          /\ cseen' = [cseen EXCEPT ![c] = {}] \/ cseen' = cseen
          /\ \/ current' = (current \ Outdated(js)) \union {c}
             \/ current' = current \ Outdated(js)
          /\ cpc' = [cpc EXCEPT ![c] = "idle"] \/ cpc' = [cpc EXCEPT ![c] = "start"]
          /\ \A e \in Callers \ {c} : cjob'[e] = cjob[e]
          /\ cjob'[c] = cjob[c] \/ cpc'[c] = "idle"
      BY <1>3 DEF run, reset, session
    <2>2. BackToPending(c, cjob[c]) /\ cjob[c] \in Jobs /\ MayStart(c)
      BY <1>3 DEF run, reset
    <2>3. status'[cjob[c]] = "Pending" /\ \A j \in Jobs \ js : status'[j] = status[j]
      BY <2>2 DEF BackToPending
    <2>4. \A s \in Sessions : s \in current /\ sjob[s] \notin js => s \in current'
      BY <2>1, StaysCurrent
    <2>5. \A s \in Sessions : spc[s] \in Working => sjob[s] \notin js
      BY <2>2, StaleHasNoWorker, StartableHasNoWorker DEF MayStart
    <2> HIDE DEF js
    <2>6. current' \subseteq (current \ Outdated(js)) \union {c}
      BY <2>1
    <2> QED
      BY <1>0, <2>1, <2>3, <2>4, <2>5, <2>6
  <1>4. CASE SessionNotStarted(c) /\ c \in current
    <2> DEFINE js == {cjob[c]}
    <2>1. /\ UNCHANGED <<spc, sjob>> /\ cseen' = [cseen EXCEPT ![c] = {}]
          /\ current' = ((current \ Outdated(js)) \union {c}) \ {c}
          /\ cpc' = [cpc EXCEPT ![c] = "idle"]
          /\ \A e \in Callers \ {c} : cjob'[e] = cjob[e]
          /\ \A j \in Jobs \ js : status'[j] = status[j]
      BY <1>4 DEF SessionNotStarted, Modified, session
    <2>2. \A s \in Sessions : s \in current /\ sjob[s] \notin js => s \in current'
      BY <2>1, StaysCurrent
    <2>3. status[cjob[c]] = "Pending"
      BY <1>4 DEF SessionNotStarted, Undisturbed
    <2>4. \A s \in Sessions : spc[s] \in Working => sjob[s] \notin js
      BY <2>3 DEF Undisturbed, OneReportingSession
    <2> HIDE DEF js
    <2>5. current' \subseteq (current \ Outdated(js)) \union {c} /\ cpc'[c] = "idle"
      BY <2>1
    <2> QED
      BY <1>0, <2>1, <2>2, <2>4, <2>5
  <1>5. CASE SessionNotStarted(c) /\ c \notin current
    <2>1. /\ UNCHANGED <<spc, sjob, status, current>> /\ cseen' = [cseen EXCEPT ![c] = {}]
          /\ cpc' = [cpc EXCEPT ![c] = "idle"]
          /\ \A e \in Callers \ {c} : cjob'[e] = cjob[e]
      BY <1>5 DEF SessionNotStarted, session
    <2>2. current' \subseteq (current \ Outdated({})) \union {c} /\ cpc'[c] = "idle"
      BY <2>1 DEF Outdated
    <2> QED
      BY <1>0, <2>1, <2>2
  <1>6. ASSUME NEW s \in Sessions, StartSession(c, s) PROVE Undisturbed'
    <2>1. /\ spc' = [spc EXCEPT ![s] = "starting"] /\ spc[s] = "unused"
          /\ sjob' = [sjob EXCEPT ![s] = cjob[c]]
          /\ cpc[c] = "start" /\ cpc' = [cpc EXCEPT ![c] = "idle"]
          /\ cjob' = [cjob EXCEPT ![c] = NoJob] /\ cseen' = [cseen EXCEPT ![c] = {}]
          /\ current' = (current \ {c}) \union (IF c \in current THEN {s} ELSE {})
          /\ status' = status
      BY <1>6 DEF StartSession, jobRow
    <2>2. /\ \A e \in Callers : \A p \in cseen'[e] : p \in cseen[e] /\ p.job # cjob[c]
          /\ cseen' \in [Callers -> SUBSET [job : Jobs, session : Sessions \union {NoSession}]]
      BY <2>1 DEF NoStaleLookup, Undisturbed
    <2>3. \A q \in Sessions : spc'[q] \in Working => spc[q] \in Working /\ q # s
      BY <2>1 DEF Working
    <2>5. \A q \in Sessions : spc'[q] = "unused" => q \notin current'
      BY <2>1 DEF Undisturbed
    <2>4. ASSUME NEW q \in Sessions, spc'[q] = "starting", q \in current'
          PROVE  /\ status'[sjob'[q]] = "Pending"
                 /\ \A e \in Callers : \A p \in cseen'[e] : p.job # sjob'[q]
      <3>1. CASE q # s
        BY <2>1, <2>2, <2>4, <3>1 DEF Undisturbed
      <3>2. CASE q = s /\ c \in current
        BY <2>1, <2>2, <2>4, <3>2 DEF Undisturbed
      <3>3. CASE q = s /\ c \notin current
        BY <2>1, <2>4, <3>3 DEF Undisturbed
      <3> QED
        BY <3>1, <3>2, <3>3
    <2> QED
      BY <2>1, <2>2, <2>3, <2>4, <2>5 DEF Undisturbed
  <1> QED
    BY <1>1, <1>2, <1>3, <1>4, <1>5, <1>6 DEF CallerStep
(* A session ends, or modifies the row of its own job, which no other posts.    *)
LEMMA UndisturbedSession ==
  ASSUME UndisturbedOk, NEW s \in Sessions, SessionStep(s) \/ Crash(s)
  PROVE  Undisturbed'
  <1> USE HoldersAssumption DEF UndisturbedOk, Reporting, Control, Types, Placed
  <1>0. UNCHANGED <<cpc, cjob, cseen>>
    BY DEF SessionStep, RunJob_blank, RunJob_running, RunJob_conflict, PostBatch_collect,
           PostBatch_skip, PostBatch_commit, ShipAndReceive_shipped, ShipAndReceive_reread,
           Codeunit_Run_true, Codeunit_Run_false, RunJob_completed, SessionEnds, Crash, caller
  <1>1. CASE RunJob_blank(s) \/ RunJob_running(s) \/ RunJob_completed(s)
    <2>1. /\ s \in current /\ sjob' = sjob /\ sjob[s] \in Jobs
          /\ current' = (current \ Outdated({sjob[s]})) \union {s}
          /\ \A q \in Sessions \ {s} : spc'[q] = spc[q]
          /\ \A j \in Jobs \ {sjob[s]} : status'[j] = status[j]
      BY <1>1 DEF RunJob_blank, RunJob_running, RunJob_completed, Modified, At, Goto, Working
    <2>2. \/ spc[s] = "starting" /\ spc'[s] \in {"collect", "done"}
          \/ spc[s] = "posting" /\ spc'[s] = "done"
      BY <1>1 DEF RunJob_blank, RunJob_running, RunJob_completed, At, Goto
    <2>3. \A q \in Sessions \ {s} : spc[q] \in Working => sjob[q] # sjob[s]
      BY <2>1, <2>2 DEF Undisturbed, OneReportingSession, Working
    <2>4. \A q \in Sessions : q \in current /\ sjob[q] # sjob[s] => q \in current'
      BY <2>1 DEF Outdated, Copies
    <2>5. \A q \in Sessions \ {s} : q \in current' => q \in current /\ sjob[q] # sjob[s]
      BY <2>1, OutdatedSessions
    <2>6. \A q \in Sessions : /\ spc'[q] \in Working => q \in current'
                              /\ spc'[q] = "unused" => q \notin current'
      <3>1. s \in current' /\ spc'[s] # "unused"
        BY <2>1, <2>2
      <3>2. \A q \in Sessions \ {s} : /\ spc[q] \in Working => q \in current
                                      /\ spc[q] = "unused" => q \notin current
        BY DEF Undisturbed
      <3> QED
        BY <2>1, <2>3, <2>4, <2>5, <3>1, <3>2
    <2>7. ASSUME NEW q \in Sessions, spc'[q] = "starting", q \in current'
          PROVE  /\ status'[sjob'[q]] = "Pending"
                 /\ \A c \in Callers : \A p \in cseen'[c] : p.job # sjob'[q]
      <3>1. q # s
        BY <2>2, <2>7
      <3>2. spc[q] = "starting" /\ q \in current /\ sjob[q] \in Jobs \ {sjob[s]}
        BY <2>1, <2>5, <2>7, <3>1
      <3>3. status'[sjob[q]] = status[sjob[q]]
        BY <2>1, <3>2
      <3> QED
        BY <1>0, <2>1, <3>2, <3>3 DEF Undisturbed
    <2>8. ASSUME NEW c \in Callers, cpc'[c] = "start", c \in current'
          PROVE  status'[cjob'[c]] = "Pending"
      <3>1. c \in current /\ cjob[c] \in Jobs \ {sjob[s]}
        BY <1>0, <2>1, <2>8 DEF Outdated, Copies
      <3> QED
        BY <1>0, <2>1, <2>8, <3>1 DEF Undisturbed
    <2>9. ASSUME NEW c \in Callers, NEW p \in cseen'[c], NEW q \in Sessions,
                 spc'[q] \in Working, sjob'[q] = p.job
          PROVE  p.session = q
      <3>1. CASE spc[q] \in Working
        BY <1>0, <2>1, <2>9, <3>1 DEF Undisturbed
      <3>2. CASE spc[q] \notin Working
        <4>1. q = s /\ spc[s] = "starting"
          BY <2>1, <2>2, <2>9, <3>2 DEF Working
        <4> QED
          BY <1>0, <2>1, <2>9, <4>1 DEF Undisturbed
      <3> QED
        BY <3>1, <3>2
    <2> QED
      BY <1>0, <2>6, <2>7, <2>8, <2>9 DEF Undisturbed
  <1>2. CASE EndSession(s) /\ status' = status
    <2>1. /\ spc' = [spc EXCEPT ![s] = "ended"] /\ sjob' = [sjob EXCEPT ![s] = NoJob]
          /\ current' = current \ {s}
      BY <1>2 DEF EndSession, Goto
    <2>2. \A q \in Sessions : spc'[q] # "ended" => q # s /\ spc'[q] = spc[q] /\ sjob'[q] = sjob[q]
      BY <2>1
    <2> QED
      BY <1>0, <1>2, <2>1, <2>2 DEF Undisturbed, Working
  <1>3. CASE \/ PostBatch_collect(s) \/ ShipAndReceive_shipped(s) \/ ShipAndReceive_reread(s)
             \/ Codeunit_Run_true(s) \/ Codeunit_Run_false(s)
             \/ \E d \in Docs : PostBatch_skip(s, d) \/ PostBatch_commit(s, d)
    <2>1. CASE EndSession(s) /\ status' = status
      BY <1>2, <2>1
    <2>2. CASE ~(EndSession(s) /\ status' = status)
      <3>1. /\ UNCHANGED <<status, sjob, current>>
            /\ spc[s] \in Working /\ spc'[s] \in Working
            /\ \A q \in Sessions \ {s} : spc'[q] = spc[q]
        BY <1>3, <2>2
        DEF PostBatch_collect, ShipAndReceive_shipped, ShipAndReceive_reread, Codeunit_Run_true,
            Codeunit_Run_false, PostBatch_skip, PostBatch_commit, At, Goto, Working, jobRow
      <3>2. \A q \in Sessions : /\ spc'[q] \in Working <=> spc[q] \in Working
                                /\ spc'[q] = "starting" <=> spc[q] = "starting"
                                /\ spc'[q] = "unused" <=> spc[q] = "unused"
        BY <3>1 DEF Working
      <3> QED
        BY <1>0, <3>1, <3>2 DEF Undisturbed
    <2> QED
      BY <2>1, <2>2
  <1> QED
    BY <1>1, <1>2, <1>3 DEF SessionStep, RunJob_conflict, SessionEnds, Crash, jobRow

LEMMA UndisturbedNext == UndisturbedOk /\ NoStaleLookup /\ [Next]_vars => UndisturbedOk'
  <1> SUFFICES ASSUME UndisturbedOk, NoStaleLookup, [Next]_vars PROVE Undisturbed'
    BY ReportingNext DEF UndisturbedOk
  <1>1. ASSUME NEW c \in Callers, NEW j \in Jobs, NEW request \in {"poll", "run", "reset"},
               OnOpenPage(c, request, j)
        PROVE  Undisturbed'
    <2> USE HoldersAssumption DEF UndisturbedOk, Reporting, Control, Types
    <2> DEFINE found == {[job |-> k, session |-> owner[k]] : k \in {k \in Jobs : status[k] = "Running"}}
    <2>1. /\ cseen' = [cseen EXCEPT ![c] = found]
          /\ cpc' = [cpc EXCEPT ![c] = request]
          /\ \A e \in Callers \ {c} : cjob'[e] = cjob[e]
          /\ UNCHANGED <<status, owner, spc, sjob, current>>
      BY <1>1 DEF OnOpenPage, jobRow, session
    <2>2. \A p \in found : /\ p.job \in Jobs /\ status[p.job] = "Running"
                           /\ p.session = owner[p.job]
                           /\ p \in [job : Jobs, session : Sessions \union {NoSession}]
      OBVIOUS
    <2> HIDE DEF found
    <2>3. \A e \in Callers : \A p \in cseen'[e] : p \in cseen[e] \/ p \in found
      BY <2>1 DEF Undisturbed
    <2>4. cseen' \in [Callers -> SUBSET [job : Jobs, session : Sessions \union {NoSession}]]
      BY <2>1, <2>2 DEF Undisturbed
    <2>5. \A s \in Sessions : s \in current' <=> s \in current
      BY <2>1
    <2>6. ASSUME NEW s \in Sessions, spc[s] = "starting", s \in current
          PROVE  \A e \in Callers : \A p \in cseen'[e] : p.job # sjob[s]
      BY <2>2, <2>3, <2>6 DEF Undisturbed
    <2>7. ASSUME NEW e \in Callers, NEW p \in cseen'[e], NEW s \in Sessions,
                 spc[s] \in Working, sjob[s] = p.job
          PROVE  p.session = s
      BY <2>2, <2>3, <2>7 DEF Undisturbed, OneReportingSession
    <2>8. \A e \in Callers : cpc'[e] = "start" /\ e \in current' =>
              cpc[e] = "start" /\ e \in current /\ cjob'[e] = cjob[e]
      BY <2>1
    <2> QED
      BY <2>1, <2>4, <2>5, <2>6, <2>7, <2>8 DEF Undisturbed
  <1>2. CASE UNCHANGED vars
    BY <1>2 DEF UndisturbedOk, Undisturbed, vars, jobRow, caller, session
  <1> QED
    BY <1>1, <1>2, UndisturbedCaller, UndisturbedSession DEF Next

LEMMA UndisturbedAlways == Spec /\ []NoStaleLookup => []UndisturbedOk
  <1>1. Init => Reporting
    BY ControlInit DEF Init, Reporting, OneReportingSession, Working
  <1>2. Init => Undisturbed
    BY DEF Init, Undisturbed, Working
  <1>3. Init => UndisturbedOk
    BY <1>1, <1>2 DEF UndisturbedOk
  <1> QED
    BY <1>3, UndisturbedNext, PTL DEF Spec

(* NeverTwoSessions holds as long as no request sits on a job it has found      *)
(* Running while another one starts a new session for that job: of all that     *)
(* runs, resets, page reads and crashes can do, that race alone lets a batch be *)
(* posted by two sessions (JobSessionMonitor.Codeunit:20-25,                    *)
(* JobSessionTests.Codeunit:110).                                               *)
THEOREM OneSessionUnlessStale == Spec /\ []NoStaleLookup => []NeverTwoSessions
  <1>1. UndisturbedOk => NeverTwoSessions
    BY DEF UndisturbedOk, Undisturbed, Reporting, OneReportingSession, NeverTwoSessions
  <1> QED
    BY <1>1, UndisturbedAlways, PTL
\* Every posted document has its row, committed or about to be; between two
\* documents, and before and after them, a session holds no row back.
Kept ==
    /\ crashes = 0
    /\ \A d \in posted : \E s \in Sessions : Row(d, TRUE, s) \in results \union slog[s]
    /\ \A s \in Sessions : spc[s] \in {"unused", "starting", "codeunit", "reread", "done"} => slog[s] = {}

KeptOk == UndisturbedOk /\ Kept

LEMMA KeptNext ==
  ASSUME MaxCrashes = 0, KeptOk, [Next]_vars
  PROVE  Kept'
  <1> USE DEF KeptOk, UndisturbedOk, Reporting, Control, Types
  <1>1. ASSUME UNCHANGED <<posted, results, slog, crashes>>,
               \A s \in Sessions : \/ spc'[s] = spc[s]
                                   \/ /\ spc'[s] # "unused"
                                      /\ spc[s] \in {"unused", "starting", "codeunit", "reread"}
                                   \/ spc[s] = "collect" /\ spc'[s] = "posting"
        PROVE  Kept'
    BY <1>1 DEF Kept
  <1>2. ASSUME NEW s \in Sessions, EndSession(s), slog[s] = {}, UNCHANGED <<posted, results, crashes>>
        PROVE  Kept'
    <2>1. slog' = slog
      BY <1>2 DEF EndSession
    <2> QED
      BY <1>2, <2>1 DEF EndSession, Goto, Kept
  <1>3. CASE \E c \in Callers, j \in Jobs, request \in {"poll", "run", "reset"} :
               OnOpenPage(c, request, j)
    BY <1>1, <1>3 DEF OnOpenPage, session
  <1>4. ASSUME NEW c \in Callers, CallerStep(c) PROVE Kept'
    <2>1. CASE poll(c) \/ refused(c) \/ run(c) \/ reset(c) \/ SessionNotStarted(c)
      BY <1>1, <2>1 DEF poll, refused, run, reset, SessionNotStarted, session
    <2>2. CASE \E s \in Sessions : StartSession(c, s)
      BY <1>1, <2>2 DEF StartSession
    <2> QED
      BY <1>4, <2>1, <2>2 DEF CallerStep
  <1>5. ASSUME NEW s \in Sessions, RunJob_blank(s) \/ RunJob_running(s) \/ PostBatch_collect(s)
                   \/ ShipAndReceive_shipped(s) \/ \E d \in Docs : PostBatch_skip(s, d)
        PROVE  Kept'
    BY <1>1, <1>5
    DEF RunJob_blank, RunJob_running, PostBatch_collect, ShipAndReceive_shipped, PostBatch_skip,
        At, Goto
  <1>6. ASSUME NEW s \in Sessions, RunJob_conflict(s) \/ SessionEnds(s) PROVE Kept'
    <2>1. spc[s] \notin Working
      BY <1>6 DEF RunJob_conflict, SessionEnds, At, Undisturbed, Working
    <2>2. spc[s] \in {"starting", "done"}
      BY <1>6, <2>1 DEF RunJob_conflict, SessionEnds, At, Working
    <2> QED
      BY <1>2, <1>6, <2>2 DEF RunJob_conflict, SessionEnds, Kept
  <1>7. ASSUME NEW s \in Sessions, ShipAndReceive_reread(s) PROVE Kept'
    <2>1. slog[s] = {} /\ UNCHANGED <<posted, results, crashes>>
      BY <1>7 DEF ShipAndReceive_reread, At, Kept
    <2>2. CASE EndSession(s)
      BY <1>2, <2>1, <2>2
    <2>3. CASE ~EndSession(s)
      BY <1>1, <1>7, <2>3 DEF ShipAndReceive_reread, At, Goto
    <2> QED
      BY <2>2, <2>3
  <1>8. ASSUME NEW s \in Sessions, RunJob_completed(s) \/ \E d \in Docs : PostBatch_commit(s, d)
        PROVE  Kept'
    <2>1. /\ UNCHANGED <<posted, crashes>> /\ results' = results \union slog[s]
          /\ slog' = [slog EXCEPT ![s] = {}]
          /\ \A q \in Sessions \ {s} : spc'[q] = spc[q]
      BY <1>8 DEF RunJob_completed, PostBatch_commit, Goto
    <2>2. \A q \in Sessions : slog[q] \subseteq results' \union slog'[q]
      BY <2>1
    <2>3. \A d \in posted' : \E q \in Sessions : Row(d, TRUE, q) \in results' \union slog'[q]
      BY <2>1, <2>2 DEF Kept
    <2> QED
      BY <2>1, <2>3 DEF Kept
  <1>9. ASSUME NEW s \in Sessions, NEW ok \in BOOLEAN,
               IF ok THEN Codeunit_Run_true(s) ELSE Codeunit_Run_false(s)
        PROVE  Kept'
    <2> DEFINE row == Row(scur[s], ok, s)
    <2>1. /\ results' = results /\ crashes' = crashes
          /\ slog' = [slog EXCEPT ![s] = @ \union {row}]
          /\ spc' = [spc EXCEPT ![s] = "posting"]
          /\ posted' \subseteq posted \union (IF ok THEN {scur[s]} ELSE {})
      BY <1>9 DEF Codeunit_Run_true, Codeunit_Run_false, Goto
    <2>2. ok => Row(scur[s], TRUE, s) = row
      OBVIOUS
    <2> HIDE DEF row
    <2>3. \A q \in Sessions : slog[q] \subseteq slog'[q]
      BY <2>1
    <2>4. \A d \in posted : \E q \in Sessions : Row(d, TRUE, q) \in results' \union slog'[q]
      BY <2>1, <2>3 DEF Kept
    <2>5. row \in slog'[s]
      BY <2>1
    <2>6. \A d \in posted' : \E q \in Sessions : Row(d, TRUE, q) \in results' \union slog'[q]
      BY <2>1, <2>2, <2>4, <2>5
    <2>7. \A q \in Sessions : q # s => spc'[q] = spc[q] /\ slog'[q] = slog[q]
      BY <2>1
    <2> QED
      BY <2>1, <2>6, <2>7 DEF Kept
  <1>10. ASSUME NEW s \in Sessions, Crash(s) PROVE Kept'
    BY <1>10 DEF Crash, Kept
  <1>11. CASE UNCHANGED vars
    BY <1>1, <1>11 DEF vars, session
  <1>12. ASSUME NEW s \in Sessions, SessionStep(s) PROVE Kept'
    <2>1. CASE Codeunit_Run_true(s)
      BY <1>9, <2>1
    <2>2. CASE Codeunit_Run_false(s)
      BY <1>9, <2>2
    <2> QED
      BY <1>5, <1>6, <1>7, <1>8, <1>12, <2>1, <2>2 DEF SessionStep
  <1> QED
    BY <1>3, <1>4, <1>10, <1>11, <1>12 DEF Next

(* PostedIsReported holds as long as no session crashes and no request fails a  *)
(* job by a session it looked up too late: the Commit before each document and  *)
(* the end of the session lose no row on their own (docs/architecture.md:63,    *)
(* SalesPoster.Codeunit:20-38).                                                 *)
THEOREM ReportedUnlessStale ==
  ASSUME MaxCrashes = 0
  PROVE  Spec /\ []NoStaleLookup => []PostedIsReported
  <1>1. Init => Kept
    BY DEF Init, Kept
  <1>2. KeptOk /\ UndisturbedOk' /\ [Next]_vars => KeptOk'
    BY KeptNext DEF KeptOk
  <1>3. KeptOk => PostedIsReported
    BY DEF KeptOk, Kept, PostedIsReported, Unreported
  <1>4. UndisturbedOk /\ Kept => KeptOk
    BY DEF KeptOk
  <1> QED
    BY <1>1, <1>2, <1>3, <1>4, UndisturbedAlways, PTL DEF Spec

===============================================================================

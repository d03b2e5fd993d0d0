------------------------------- MODULE BatchPost -------------------------------
(* bc-extension/src: the server-side batch posting of Business Central.         *)
(*                                                                              *)
(* API callers read a job, run it or reset it (BatchPostJob.Page); a run starts *)
(* a background session (BatchPostRunner, BatchPost.RunJob) that posts the      *)
(* documents tagged with the job's batch code one by one (the PostBatch of the  *)
(* posters) and writes a result row for each (PostLog).  JobSessionMonitor      *)
(* fails the jobs whose session is gone.                                        *)
(*                                                                              *)
(* What the platform contributes (not under src/): a Modify is refused when the *)
(* row has changed since the record was read; writes are committed by Commit    *)
(* and at the end of a request or of a session, and lost with an error or a     *)
(* crash; Codeunit.Run commits the document it posts or rolls it back; a        *)
(* session is in Active Session from its start until it ends.                   *)
EXTENDS Integers, FiniteSets

CONSTANTS
    Jobs,        \* rows of BIF Batch Post Job
    Docs,        \* unposted documents of the kind, tagged or entered by hand
    Transfers,   \* the documents that are transfer orders
    Callers,     \* API requests in progress at once
    Sessions,    \* background sessions that may be started; bounds the runs
    Batch,       \* Batch[j]: the batch code of a job
    Tag,         \* Tag[d]: the batch code of a document
    Blank,       \* the blank batch code
    NoJob,
    NoDoc,
    NoSession,   \* session id 0
    MaxCrashes   \* bound of the model: how many sessions may crash

ASSUME SetsAssumption ==
    IsFiniteSet(Jobs) /\ IsFiniteSet(Docs) /\ IsFiniteSet(Sessions)
ASSUME TransfersAssumption == Transfers \subseteq Docs
ASSUME HoldersAssumption == Callers \intersect Sessions = {}
ASSUME NoneAssumption ==
    NoJob \notin Jobs /\ NoDoc \notin Docs /\ NoSession \notin Sessions
ASSUME CrashAssumption == MaxCrashes \in Nat

VARIABLES
    \* Database, committed
    status,      \* Status of each job
    owner,       \* Session Id of each job
    postedCount, failedCount,
    posted,      \* documents posted: their unposted header is gone
    toShip,      \* transfer orders with a quantity to ship, in part or in whole
    results,     \* rows of BIF Post Result, with the session that wrote them
    \* Which records in memory still have the version of the row they were read from
    current,     \* subset of Callers \union Sessions
    \* API requests
    cpc, cjob,
    cseen,       \* what FindSet read: the Running jobs and their session
    \* Background sessions
    spc, sjob, stodo, scur, sposted, sfailed,
    slog,        \* result rows inserted and not yet committed
    crashes

jobRow  == <<status, owner, postedCount, failedCount>>
caller  == <<cpc, cjob, cseen>>
session == <<spc, sjob, stodo, scur, sposted, sfailed, slog>>
vars == <<jobRow, posted, toShip, results, current, caller, session, crashes>>

Statuses == {"Pending", "Running", "Completed", "Failed"}

Row(d, ok, s) == [doc |-> d, success |-> ok, by |-> s]
Rows == [doc : Docs, success : BOOLEAN, by : Sessions]

Init ==
    /\ status = [j \in Jobs |-> "Pending"]
    /\ owner = [j \in Jobs |-> NoSession]
    /\ postedCount = [j \in Jobs |-> 0]
    /\ failedCount = [j \in Jobs |-> 0]
    /\ posted = {}
    /\ toShip \in SUBSET Transfers
    /\ results = {}
    /\ current = {}
    /\ cpc = [c \in Callers |-> "idle"]
    /\ cjob = [c \in Callers |-> NoJob]
    /\ cseen = [c \in Callers |-> {}]
    /\ spc = [s \in Sessions |-> "unused"]
    /\ sjob = [s \in Sessions |-> NoJob]
    /\ stodo = [s \in Sessions |-> {}]
    /\ scur = [s \in Sessions |-> NoDoc]
    /\ sposted = [s \in Sessions |-> 0]
    /\ sfailed = [s \in Sessions |-> 0]
    /\ slog = [s \in Sessions |-> {}]
    /\ crashes = 0

-------------------------------------------------------------------------------
(* Records and the rows they are read from                                     *)

\* The record of job j that a request or a session has in memory.
Copies(j) == {c \in Callers : cjob[c] = j} \union {s \in Sessions : sjob[s] = j}

\* MUTANT of Outdated: the last writer wins, no record ever gets old.
Outdated_None(js) == {}

\* A Modify of the rows js makes every record read from them old.
Outdated(js) == UNION {Copies(j) : j \in js}

\* x has modified the row of job j: its record, and no other, is up to date.
Modified(x, j) == (current \ Outdated({j})) \union {x}

IsSessionAlive(s) == s \in Sessions /\ spc[s] \notin {"unused", "ended"}

\* Jobs that MarkStaleJobsFailed fails: read as Running by FindSet, and their
\* session is gone when it is looked up.  The row is read again (StaleJob.Get),
\* but its status is not looked at again.
Stale(c) == {p \in cseen[c] : ~IsSessionAlive(p.session)}
StaleJobs(c) == {p.job : p \in Stale(c)}

\* CheckCanStart refuses a job that is Running in a live session.
CanStart(j) == ~(status[j] = "Running" /\ IsSessionAlive(owner[j]))

\* The record of a job that opening the page has failed is read as Failed, and
\* whoever has made it Running in the meantime is not noticed.
MayStart(c) == cjob[c] \in StaleJobs(c) \/ CanStart(cjob[c])

-------------------------------------------------------------------------------
(* BatchPostJob.Page: the requests                                             *)

\* Opening the page runs MarkStaleJobsFailed: its FindSet reads the Running jobs.
\* run and reset are bound to a job; a GET writes nothing of its own.
OnOpenPage(c, request, j) ==
    /\ cpc[c] = "idle"
    /\ cpc' = [cpc EXCEPT ![c] = request]
    /\ cjob' = [cjob EXCEPT ![c] = IF request = "poll" THEN NoJob ELSE j]
    /\ cseen' = [cseen EXCEPT ![c] =
         {[job |-> k, session |-> owner[k]] : k \in {k \in Jobs : status[k] = "Running"}}]
    /\ UNCHANGED <<jobRow, posted, toShip, results, current, session, crashes>>

Respond(c) ==
    /\ cpc' = [cpc EXCEPT ![c] = "idle"]
    /\ cjob' = [cjob EXCEPT ![c] = NoJob]
    /\ cseen' = [cseen EXCEPT ![c] = {}]

\* MUTANT of poll: reading the page does not look for stale jobs.
poll_NoMonitor(c) ==
    /\ cpc[c] = "poll"
    /\ Respond(c)
    /\ UNCHANGED <<jobRow, posted, toShip, results, current, session, crashes>>

\* A GET: the stale jobs found on opening are failed.
poll(c) ==
    /\ cpc[c] = "poll"
    /\ status' = [j \in Jobs |-> IF j \in StaleJobs(c) THEN "Failed" ELSE status[j]]
    /\ current' = current \ Outdated(StaleJobs(c))
    /\ Respond(c)
    /\ UNCHANGED <<owner, postedCount, failedCount, posted, toShip, results, session, crashes>>

\* An error ends the request: CheckCanStart refuses, or the row changes between
\* the reading of the record and its Modify.  The transaction, stale jobs
\* included, is undone.
refused(c) ==
    /\ cpc[c] \in {"run", "reset"}
    /\ Respond(c)
    /\ UNCHANGED <<jobRow, posted, toShip, results, current, session, crashes>>

\* The status after a run or a reset of j by c, in one transaction with the
\* stale jobs that opening the page has failed.
BackToPending(c, j) ==
    status' = [k \in Jobs |-> IF k = j THEN "Pending"
                              ELSE IF k \in StaleJobs(c) THEN "Failed" ELSE status[k]]

\* run, up to its Commit: the page is open, so the stale jobs are failed first and
\* the record is read afterwards; its Modify succeeds if the row has not changed
\* since, so that reading and writing are one step.
run(c) ==
    /\ cpc[c] = "run"
    /\ MayStart(c)
    /\ BackToPending(c, cjob[c])
    /\ current' = (current \ Outdated(StaleJobs(c) \union {cjob[c]})) \union {c}
    /\ cpc' = [cpc EXCEPT ![c] = "start"]
    /\ UNCHANGED <<owner, postedCount, failedCount, posted, toShip, results, cjob, cseen, session, crashes>>

\* StartSession: the session gets a copy of the record.
StartSession(c, s) ==
    /\ cpc[c] = "start"
    /\ spc[s] = "unused"
    /\ spc' = [spc EXCEPT ![s] = "starting"]
    /\ sjob' = [sjob EXCEPT ![s] = cjob[c]]
    /\ current' = (current \ {c}) \union (IF c \in current THEN {s} ELSE {})
    /\ Respond(c)
    /\ UNCHANGED <<jobRow, posted, toShip, results, stodo, scur, sposted, sfailed, slog, crashes>>

\* StartSession fails: the job is failed, unless its row has changed meanwhile.
SessionNotStarted(c) ==
    /\ cpc[c] = "start"
    /\ \/ /\ c \in current
          /\ status' = [status EXCEPT ![cjob[c]] = "Failed"]
          /\ current' = Modified(c, cjob[c]) \ {c}
       \/ /\ c \notin current
          /\ UNCHANGED <<status, current>>
    /\ Respond(c)
    /\ UNCHANGED <<owner, postedCount, failedCount, posted, toShip, results, session, crashes>>

\* reset: the same, with cleared counters.
reset(c) ==
    /\ cpc[c] = "reset"
    /\ MayStart(c)
    /\ BackToPending(c, cjob[c])
    /\ current' = current \ Outdated(StaleJobs(c) \union {cjob[c]})
    /\ owner' = [owner EXCEPT ![cjob[c]] = NoSession]
    /\ postedCount' = [postedCount EXCEPT ![cjob[c]] = 0]
    /\ failedCount' = [failedCount EXCEPT ![cjob[c]] = 0]
    /\ Respond(c)
    /\ UNCHANGED <<posted, toShip, results, session, crashes>>

-------------------------------------------------------------------------------
(* BatchPost.RunJob and the PostBatch of a poster, in a background session      *)

Working == {"collect", "posting", "codeunit", "reread"}
At(s, label) == spc[s] = label
Goto(s, label) == spc' = [spc EXCEPT ![s] = label]

\* The session is gone, and with it its memory and what it had not committed.
EndSession(s) ==
    /\ Goto(s, "ended")
    /\ sjob' = [sjob EXCEPT ![s] = NoJob]
    /\ stodo' = [stodo EXCEPT ![s] = {}]
    /\ scur' = [scur EXCEPT ![s] = NoDoc]
    /\ sposted' = [sposted EXCEPT ![s] = 0]
    /\ sfailed' = [sfailed EXCEPT ![s] = 0]
    /\ slog' = [slog EXCEPT ![s] = {}]
    /\ current' = current \ {s}

\* A blank batch code would match every document entered by hand.
RunJob_blank(s) ==
    /\ At(s, "starting")
    /\ s \in current
    /\ Batch[sjob[s]] = Blank
    /\ status' = [status EXCEPT ![sjob[s]] = "Failed"]
    /\ current' = Modified(s, sjob[s])
    /\ Goto(s, "done")
    /\ UNCHANGED <<owner, postedCount, failedCount, posted, toShip, results, caller,
                   sjob, stodo, scur, sposted, sfailed, slog, crashes>>

\* MUTANT of RunJob_running: a blank batch code is not refused.
RunJob_running_AnyCode(s) ==
    /\ At(s, "starting")
    /\ s \in current
    /\ status' = [status EXCEPT ![sjob[s]] = "Running"]
    /\ owner' = [owner EXCEPT ![sjob[s]] = s]
    /\ current' = Modified(s, sjob[s])
    /\ Goto(s, "collect")
    /\ UNCHANGED <<postedCount, failedCount, posted, toShip, results, caller,
                   sjob, stodo, scur, sposted, sfailed, slog, crashes>>

\* Running is committed before anything is posted.
RunJob_running(s) ==
    /\ At(s, "starting")
    /\ s \in current
    /\ Batch[sjob[s]] # Blank
    /\ status' = [status EXCEPT ![sjob[s]] = "Running"]
    /\ owner' = [owner EXCEPT ![sjob[s]] = s]
    /\ postedCount' = [postedCount EXCEPT ![sjob[s]] = 0]
    /\ failedCount' = [failedCount EXCEPT ![sjob[s]] = 0]
    /\ current' = Modified(s, sjob[s])
    /\ Goto(s, "collect")
    /\ UNCHANGED <<posted, toShip, results, caller, sjob, stodo, scur, sposted, sfailed, slog, crashes>>

\* A Modify of the record refused because the row has changed.
RunJob_conflict(s) ==
    /\ s \notin current
    /\ At(s, "starting") \/ (At(s, "posting") /\ stodo[s] = {})
    /\ EndSession(s)
    /\ UNCHANGED <<jobRow, posted, toShip, results, caller, crashes>>

\* PostBatch collects the documents of its batch code before it posts any.
PostBatch_collect(s) ==
    /\ At(s, "collect")
    /\ stodo' = [stodo EXCEPT ![s] = {d \in Docs \ posted : Tag[d] = Batch[sjob[s]]}]
    /\ Goto(s, "posting")
    /\ UNCHANGED <<jobRow, posted, toShip, results, current, caller,
                   sjob, scur, sposted, sfailed, slog, crashes>>

\* Get fails: somebody else has posted the document since it was collected.
PostBatch_skip(s, d) ==
    /\ At(s, "posting")
    /\ d \in stodo[s] \intersect posted
    /\ stodo' = [stodo EXCEPT ![s] = @ \ {d}]
    /\ UNCHANGED <<jobRow, posted, toShip, results, current, caller,
                   spc, sjob, scur, sposted, sfailed, slog, crashes>>

\* MUTANTS of PostBatch_commit: the row of the document before is overwritten
\* instead of committed; nothing is committed until the session ends.
PostBatch_commit_Overwrite(s, d) ==
    /\ At(s, "posting")
    /\ d \in stodo[s] \ posted
    /\ stodo' = [stodo EXCEPT ![s] = @ \ {d}]
    /\ scur' = [scur EXCEPT ![s] = d]
    /\ slog' = [slog EXCEPT ![s] = {}]
    /\ Goto(s, "codeunit")
    /\ UNCHANGED <<jobRow, posted, toShip, results, current, caller, sjob, sposted, sfailed, crashes>>

PostBatch_commit_AtEnd(s, d) ==
    /\ At(s, "posting")
    /\ d \in stodo[s] \ posted
    /\ stodo' = [stodo EXCEPT ![s] = @ \ {d}]
    /\ scur' = [scur EXCEPT ![s] = d]
    /\ Goto(s, "codeunit")
    /\ UNCHANGED <<jobRow, posted, toShip, results, current, caller, sjob, sposted, sfailed, slog, crashes>>

\* Get, then the Commit that Codeunit.Run needs: it commits the result row of
\* the document before.
PostBatch_commit(s, d) ==
    /\ At(s, "posting")
    /\ d \in stodo[s] \ posted
    /\ stodo' = [stodo EXCEPT ![s] = @ \ {d}]
    /\ scur' = [scur EXCEPT ![s] = d]
    /\ results' = results \union slog[s]
    /\ slog' = [slog EXCEPT ![s] = {}]
    /\ Goto(s, "codeunit")
    /\ UNCHANGED <<jobRow, posted, toShip, current, caller, sjob, sposted, sfailed, crashes>>

\* MUTANT of HasQtyToShip: a transfer order is received as it is.
HasQtyToShip_Never(d) == FALSE

HasQtyToShip(d) == d \in toShip

\* A transfer order is shipped before it is received; the shipment commits.
ShipAndReceive_shipped(s) ==
    /\ At(s, "codeunit")
    /\ HasQtyToShip(scur[s])
    /\ scur[s] \notin posted
    /\ toShip' = toShip \ {scur[s]}
    /\ Goto(s, "reread")
    /\ UNCHANGED <<jobRow, posted, results, current, caller,
                   sjob, stodo, scur, sposted, sfailed, slog, crashes>>

\* Its header is read again, an error when another session has received it in
\* the meantime, and the receipt follows.
ShipAndReceive_reread(s) ==
    /\ At(s, "reread")
    /\ \/ /\ scur[s] \notin posted
          /\ Goto(s, "codeunit")
          /\ UNCHANGED <<current, sjob, stodo, scur, sposted, sfailed, slog>>
       \/ /\ scur[s] \in posted
          /\ EndSession(s)
    /\ UNCHANGED <<jobRow, posted, toShip, results, caller, crashes>>

\* MUTANT of Codeunit_Run_true: a document already posted is posted again.
Codeunit_Run_true_Again(s) ==
    /\ At(s, "codeunit")
    /\ posted' = posted \union {scur[s]}
    /\ sposted' = [sposted EXCEPT ![s] = @ + 1]
    /\ slog' = [slog EXCEPT ![s] = @ \union {Row(scur[s], TRUE, s)}]
    /\ scur' = [scur EXCEPT ![s] = NoDoc]
    /\ Goto(s, "posting")
    /\ UNCHANGED <<jobRow, toShip, results, current, caller, sjob, stodo, sfailed, crashes>>

\* Codeunit.Run posts the document and commits; its result row is inserted.  A
\* receipt takes what is in transit: an order with more to ship would stay.
Codeunit_Run_true(s) ==
    /\ At(s, "codeunit")
    /\ scur[s] \notin posted
    /\ ~HasQtyToShip(scur[s])
    /\ posted' = posted \union ({scur[s]} \ toShip)
    /\ sposted' = [sposted EXCEPT ![s] = @ + 1]
    /\ slog' = [slog EXCEPT ![s] = @ \union {Row(scur[s], TRUE, s)}]
    /\ scur' = [scur EXCEPT ![s] = NoDoc]
    /\ Goto(s, "posting")
    /\ UNCHANGED <<jobRow, toShip, results, current, caller, sjob, stodo, sfailed, crashes>>

\* MUTANT of Codeunit_Run_false: the live set is iterated, so the document that
\* failed comes round again.
Codeunit_Run_false_Retry(s) ==
    /\ At(s, "codeunit")
    /\ sfailed' = [sfailed EXCEPT ![s] = @ + 1]
    /\ slog' = [slog EXCEPT ![s] = @ \union {Row(scur[s], FALSE, s)}]
    /\ stodo' = [stodo EXCEPT ![s] = @ \union {scur[s]}]
    /\ scur' = [scur EXCEPT ![s] = NoDoc]
    /\ Goto(s, "posting")
    /\ UNCHANGED <<jobRow, posted, toShip, results, current, caller, sjob, sposted, crashes>>

\* It fails and rolls back; it always does when the header is gone by now.
Codeunit_Run_false(s) ==
    /\ At(s, "codeunit")
    /\ sfailed' = [sfailed EXCEPT ![s] = @ + 1]
    /\ slog' = [slog EXCEPT ![s] = @ \union {Row(scur[s], FALSE, s)}]
    /\ scur' = [scur EXCEPT ![s] = NoDoc]
    /\ Goto(s, "posting")
    /\ UNCHANGED <<jobRow, posted, toShip, results, current, caller, sjob, stodo, sposted, crashes>>

\* MUTANT of RunJob_completed: Completed is written over whatever the row says.
RunJob_completed_Blind(s) ==
    /\ At(s, "posting")
    /\ stodo[s] = {}
    /\ status' = [status EXCEPT ![sjob[s]] = "Completed"]
    /\ postedCount' = [postedCount EXCEPT ![sjob[s]] = sposted[s]]
    /\ failedCount' = [failedCount EXCEPT ![sjob[s]] = sfailed[s]]
    /\ results' = results \union slog[s]
    /\ slog' = [slog EXCEPT ![s] = {}]
    /\ current' = Modified(s, sjob[s])
    /\ Goto(s, "done")
    /\ UNCHANGED <<owner, posted, toShip, caller, sjob, stodo, scur, sposted, sfailed, crashes>>

\* The end of RunJob, committed with the last result row as the session ends.
RunJob_completed(s) ==
    /\ At(s, "posting")
    /\ stodo[s] = {}
    /\ s \in current
    /\ status' = [status EXCEPT ![sjob[s]] = "Completed"]
    /\ postedCount' = [postedCount EXCEPT ![sjob[s]] = sposted[s]]
    /\ failedCount' = [failedCount EXCEPT ![sjob[s]] = sfailed[s]]
    /\ results' = results \union slog[s]
    /\ slog' = [slog EXCEPT ![s] = {}]
    /\ current' = Modified(s, sjob[s])
    /\ Goto(s, "done")
    /\ UNCHANGED <<owner, posted, toShip, caller, sjob, stodo, scur, sposted, sfailed, crashes>>

\* The platform takes the session out of Active Session.
SessionEnds(s) ==
    /\ At(s, "done")
    /\ EndSession(s)
    /\ UNCHANGED <<jobRow, posted, toShip, results, caller, crashes>>

\* A session crashes, or the server restarts: what it had not committed is lost.
Crash(s) ==
    /\ crashes < MaxCrashes
    /\ IsSessionAlive(s)
    /\ crashes' = crashes + 1
    /\ EndSession(s)
    /\ UNCHANGED <<jobRow, posted, toShip, results, caller>>

-------------------------------------------------------------------------------
CallerStep(c) ==
    \/ poll(c) \/ refused(c) \/ run(c) \/ reset(c)
    \/ SessionNotStarted(c)
    \/ \E s \in Sessions : StartSession(c, s)

SessionStep(s) ==
    \/ RunJob_blank(s) \/ RunJob_running(s) \/ RunJob_conflict(s)
    \/ PostBatch_collect(s)
    \/ \E d \in Docs : PostBatch_skip(s, d) \/ PostBatch_commit(s, d)
    \/ ShipAndReceive_shipped(s) \/ ShipAndReceive_reread(s)
    \/ Codeunit_Run_true(s) \/ Codeunit_Run_false(s)
    \/ RunJob_completed(s) \/ SessionEnds(s)

Next ==
    \/ \E c \in Callers, j \in Jobs, request \in {"poll", "run", "reset"} :
          OnOpenPage(c, request, j)
    \/ \E c \in Callers : CallerStep(c)
    \/ \E s \in Sessions : SessionStep(s) \/ Crash(s)

Spec == Init /\ [][Next]_vars

\* Requests and sessions run on; somebody keeps reading the job page, as the
\* orchestrator does while it polls (reconcile.rs:54-72).
Fairness ==
    /\ \A c \in Callers : WF_vars(CallerStep(c))
    /\ \A c \in Callers : SF_vars(\E j \in Jobs : OnOpenPage(c, "poll", j))
    /\ \A s \in Sessions : WF_vars(SessionStep(s))

FairSpec == Spec /\ Fairness

-------------------------------------------------------------------------------
(* Properties                                                                  *)

(* Every variable keeps its type; a run never counts a document twice.         *)
TypeOK ==
    /\ status \in [Jobs -> Statuses]
    /\ owner \in [Jobs -> Sessions \union {NoSession}]
    /\ postedCount \in [Jobs -> 0 .. Cardinality(Docs)]
    /\ failedCount \in [Jobs -> 0 .. Cardinality(Docs)]
    /\ posted \subseteq Docs
    /\ toShip \subseteq Transfers
    /\ results \subseteq Rows
    /\ current \subseteq Callers \union Sessions
    /\ cpc \in [Callers -> {"idle", "poll", "run", "reset", "start"}]
    /\ cjob \in [Callers -> Jobs \union {NoJob}]
    /\ cseen \in [Callers -> SUBSET [job : Jobs, session : Sessions \union {NoSession}]]
    /\ spc \in [Sessions -> {"unused", "starting", "done", "ended"} \union Working]
    /\ sjob \in [Sessions -> Jobs \union {NoJob}]
    /\ stodo \in [Sessions -> SUBSET Docs]
    /\ scur \in [Sessions -> Docs \union {NoDoc}]
    /\ sposted \in [Sessions -> 0 .. Cardinality(Docs)]
    /\ sfailed \in [Sessions -> 0 .. Cardinality(Docs)]
    /\ slog \in [Sessions -> SUBSET Rows]
    /\ crashes \in 0 .. MaxCrashes

RowsBy(s, ok) == {r \in results : r.by = s /\ r.success = ok}

(* However runs, resets, crashes and stale-job checks interleave, at most one  *)
(* of the sessions that post a job's documents still holds a record that can   *)
(* be written back (BatchPost.Codeunit:39, :49), and the job names it: a run   *)
(* that has been overtaken cannot report for the one that overtook it.         *)
OneReportingSession ==
    \A s \in Sessions :
        spc[s] \in Working /\ s \in current =>
            status[sjob[s]] = "Running" /\ owner[sjob[s]] = s

(* A Completed job reports exactly the rows its own run has written: the       *)
(* counters the orchestrator polls and the rows it reads afterwards agree      *)
(* (BatchPost.Codeunit:45-49, PostLog).                                        *)
CompletedCountsMatch ==
    \A j \in Jobs : status[j] = "Completed" =>
        /\ postedCount[j] = Cardinality(RowsBy(owner[j], TRUE))
        /\ failedCount[j] = Cardinality(RowsBy(owner[j], FALSE))

(* A Completed job leaves no document of its batch unexplained: each is posted *)
(* or has a failure row of that very run.                                      *)
CompletedAccounts ==
    \A j \in Jobs, d \in Docs :
        status[j] = "Completed" /\ Tag[d] = Batch[j] =>
            d \in posted \/ Row(d, FALSE, owner[j]) \in results

(* A success row is true and there is one at most for a document, although     *)
(* sessions may collect the same documents (SalesPoster.Codeunit:20-38).       *)
SuccessRowsTrue ==
    \A r \in results : r.success =>
        /\ r.doc \in posted
        /\ \A q \in results : q.success /\ q.doc = r.doc => q = r

(* A document nobody tagged is never posted, whatever jobs are created and run *)
(* (BatchPost.Codeunit:19-27).                                                 *)
UntaggedNeverPosted == \A d \in Docs : Tag[d] = Blank => d \notin posted

\* Posted documents of which no result row tells, nor is about to.
Unreported ==
    {d \in posted : \A s \in Sessions : Row(d, TRUE, s) \notin results \union slog[s]}

(* A session that dies takes the result row of one posted document with it at  *)
(* most: the Commit before each document saves the others (SalesPoster:30).    *)
LossBounded == Cardinality(Unreported) <= Cardinality({s \in Sessions : spc[s] = "ended"})

(* "so it never stays `Running`" (bc-extension/README.md:36-37): a job is not  *)
(* Running for ever, whether its session finishes or dies, while its page is   *)
(* read from time to time.                                                     *)
RunningEnds == \A j \in Jobs : status[j] = "Running" ~> status[j] # "Running"

(* "refused, so a batch is never posted by two sessions at once"               *)
(* (JobSessionTests.Codeunit:110).                                             *)
NeverTwoSessions ==
    \A s1, s2 \in Sessions :
        spc[s1] \in Working /\ spc[s2] \in Working /\ sjob[s1] = sjob[s2] => s1 = s2

(* "records per-document outcome" (docs/architecture.md:63): when no session   *)
(* is left, every posted document has its result row.                          *)
PostedIsReported ==
    (\A s \in Sessions : ~IsSessionAlive(s)) => Unreported = {}
===============================================================================

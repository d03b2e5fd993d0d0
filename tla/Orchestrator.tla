----------------------------- MODULE Orchestrator -----------------------------
(* orchestrator/src/main.rs with reconcile.rs and post.rs, over the staging     *)
(* store (ingestion/src/staging.rs): the run that drains the validated backlog  *)
(* in chunks, imports each chunk into Business Central as drafts, and posts and *)
(* reconciles it in a background task while the next chunk is imported.         *)
(*                                                                              *)
(* Business Central is reduced to what the orchestrator sees of it: drafts with *)
(* a batch code, jobs that post the drafts of a batch, and result rows.  The    *)
(* module BatchPost has its detail.                                             *)
EXTENDS Integers, Sequences, FiniteSets, Drafts

CONSTANTS
    Docs,         \* staged documents, by idempotency key
    Age,          \* Age[d]: order of created_at
    Kinds,        \* document types
    Kind,         \* Kind[d]
    InlineKinds,  \* kinds whose batch code is set on creation: service and orders
    HeaderKinds,  \* those of them that are a header and nothing else
    Exts,         \* external document numbers
    Ext,          \* Ext[d], as the source file spells it
    BcCode,       \* BcCode[x]: x as a Code[35] field holds it, in upper case
    ChunkSize,    \* IMPORT_CHUNK_SIZE
    MaxInflight,  \* MAX_CONCURRENT_CHUNKS.max(1)
    Stuck,        \* documents whose rows the staging store always fails to write
    Faults,       \* the kinds of fault that may happen
    MaxFaults,    \* bound of the model: how many of them
    MaxRuns       \* bound of the model: how many times the program is started

FaultKinds == {"crash", "staging", "reply", "retry", "rerun", "slow", "session"}

ASSUME DocsAssumption  == IsFiniteSet(Docs) /\ Age \in [Docs -> Nat]
ASSUME KindAssumption  ==
    /\ IsFiniteSet(Kinds) /\ Kind \in [Docs -> Kinds]
    /\ HeaderKinds \subseteq InlineKinds /\ InlineKinds \subseteq Kinds
ASSUME ExtAssumption   == Ext \in [Docs -> Exts] /\ BcCode \in [Exts -> Exts]
ASSUME SizeAssumption  == ChunkSize \in Nat /\ MaxInflight \in Nat \ {0}
ASSUME FaultAssumption == Stuck \subseteq Docs /\ Faults \subseteq FaultKinds
ASSUME BoundAssumption == MaxFaults \in Nat /\ MaxRuns \in Nat

VARIABLES
    \* Staging database
    status,      \* invoice.status
    errors,      \* documents with rows in document_error
    bcNo,        \* documents with a bc_document_no
    \* Business Central
    drafts,      \* documents created, posted or not
    jobs,        \* batch-post jobs in progress, with the drafts left to post
    results,     \* rows of BIF Post Result, numbered in order of entry
    \* The process
    run,         \* number of the run: its run_code
    main,        \* where the main task is
    seen, chunkIdx,
    imp,         \* where the import future of each document is
    tasks,       \* post_tasks, oldest first
    lastEnd,     \* how the last run ended, until the next
    faults

staging == <<status, errors, bcNo>>
bc      == <<drafts, jobs, results>>
memory  == <<seen, chunkIdx, imp, tasks>>
vars    == <<staging, bc, run, main, memory, lastEnd, faults>>

Statuses == {"validated", "invalid", "imported", "posting", "posted", "failed"}
ImpPCs == {"none", "validate", "errors", "invalid", "import", "number", "imported",
           "reject", "failed", "yes", "no", "err"}
TaskPCs == {"flip", "trigger", "poll", "apply", "done"}

NoBatch == <<0, 0>>
ChunkCode == <<run, chunkIdx>>

\* What ingestion has rejected it has staged as failed, without an error row.
Init ==
    /\ status \in [Docs -> {"validated", "failed"}]
    /\ errors = {}
    /\ bcNo = {}
    /\ drafts = {}
    /\ jobs = {}
    /\ results = {}
    /\ run = 0
    /\ main = "down"
    /\ seen = {}
    /\ chunkIdx = 0
    /\ imp = [d \in Docs |-> "none"]
    /\ tasks = <<>>
    /\ lastEnd = "none"
    /\ faults = 0

DraftsOf(d) == {x \in drafts : x.doc = d}

\* How import_one creates a document.
Way(d) == IF Kind[d] \in HeaderKinds THEN "header"
          ELSE IF Kind[d] \in InlineKinds THEN "inline" ELSE "tagged"

\* New drafts of a document, unposted, in the batch of the chunk or in none.
Drafted(d, new) ==
    {[id |-> <<d, Cardinality(DraftsOf(d)) + n>>, doc |-> d, posted |-> FALSE,
      batch |-> IF new[n].coded THEN ChunkCode ELSE NoBatch, postable |-> new[n].postable]
     : n \in DOMAIN new}

Importing == {d \in Docs : main = "import" /\ imp[d] = "import"}

Fault(kind) == kind \in Faults /\ faults < MaxFaults /\ faults' = faults + 1
NoFault == UNCHANGED faults

\* A write of a row of the staging store: it succeeds, it fails, or it is
\* committed and the answer is lost, which is an error as well.
Writes(d) == d \notin Stuck /\ NoFault
WriteFails(d) == (d \in Stuck /\ NoFault) \/ Fault("staging")
WriteLost(d) == d \notin Stuck /\ Fault("reply")

-------------------------------------------------------------------------------
(* The main task                                                                *)

\* MUTANT of Requeueable: everything that is not validated.
Requeueable_All == {d \in Docs : status[d] # "validated"}

Requeueable == {d \in Docs : status[d] \in {"invalid", "failed"}}

\* The program starts, plainly or as `reprocess`: then what was invalid or
\* failed is validated again and its errors deleted, in one transaction.
Start(reprocess) ==
    /\ main = "down"
    /\ run < MaxRuns
    /\ run' = run + 1
    /\ main' = "fetch"
    /\ IF reprocess
       THEN /\ status' = [d \in Docs |-> IF d \in Requeueable THEN "validated" ELSE status[d]]
            /\ errors' = errors \ Requeueable
       ELSE UNCHANGED <<status, errors>>
    /\ seen' = {}
    /\ chunkIdx' = 0
    /\ lastEnd' = "none"
    /\ UNCHANGED <<bcNo, bc, imp, tasks, faults>>

Validated == {d \in Docs : status[d] = "validated"}

\* fetch_by_status: the oldest ChunkSize validated documents.
Page == {d \in Validated : Cardinality({e \in Validated : Age[e] < Age[d]}) < ChunkSize}

\* MUTANT of Fresh: what this run has attempted is not left out.
Fresh_All == Page

Fresh == Page \ seen

\* The next chunk; with nothing left, or nothing but documents this run has
\* already attempted, the import is over.
FetchChunk ==
    /\ main = "fetch"
    /\ IF Fresh = {}
       THEN main' = "join" /\ UNCHANGED <<seen, imp>>
       ELSE /\ main' = "import"
            /\ seen' = seen \union Fresh
            /\ imp' = [d \in Docs |-> IF d \in Fresh THEN "validate" ELSE "none"]
    /\ UNCHANGED <<staging, bc, run, chunkIdx, tasks, lastEnd, faults>>

Chunk == {d \in Docs : imp[d] # "none"}
Imported == {d \in Chunk : imp[d] = "yes"}

\* chunk_map keeps one document for each external number.
ChunkMaps ==
    {m \in [{Ext[d] : d \in Imported} -> Imported] : \A x \in DOMAIN m : Ext[m[x]] = x}

\* MUTANT of NewTask: keys and external numbers the wrong way round.
NewTask_Swapped(m) ==
    [batch |-> ChunkCode, map |-> [d \in {m[x] : x \in DOMAIN m} |-> Ext[d]], pc |-> "flip",
     flip |-> {m[x] : x \in DOMAIN m}, flipped |-> TRUE, kinds |-> {Kind[d] : d \in Imported},
     polling |-> {}, rows |-> {}]

NewTask(m) ==
    [batch |-> ChunkCode, map |-> m, pc |-> "flip", flip |-> {m[x] : x \in DOMAIN m},
     flipped |-> TRUE, kinds |-> {Kind[d] : d \in Imported}, polling |-> {}, rows |-> {}]

\* All the futures of the chunk are done: its post task is spawned.
ChunkImported ==
    /\ main = "import"
    /\ \A d \in Chunk : imp[d] \in {"yes", "no", "err"}
    /\ IF Imported = {}
       THEN main' = "fetch" /\ UNCHANGED tasks
       ELSE /\ main' = "wait"
            /\ \E m \in ChunkMaps : tasks' = Append(tasks, NewTask(m))
    /\ chunkIdx' = chunkIdx + 1
    /\ imp' = [d \in Docs |-> "none"]
    /\ UNCHANGED <<staging, bc, run, seen, lastEnd, faults>>

\* MUTANT of TooMany: one chunk more than configured.
TooMany_OneMore == Len(tasks) > MaxInflight

TooMany == Len(tasks) >= MaxInflight

\* Backpressure: the oldest post task is awaited while too many are in flight.
Backpressure ==
    /\ main = "wait"
    /\ IF TooMany
       THEN Head(tasks).pc = "done" /\ tasks' = Tail(tasks) /\ UNCHANGED main
       ELSE main' = "fetch" /\ UNCHANGED tasks
    /\ UNCHANGED <<staging, bc, run, seen, chunkIdx, imp, lastEnd, faults>>

\* The process is gone; what it had in memory goes with it.
Exit(how) ==
    /\ main' = "down"
    /\ lastEnd' = how
    /\ tasks' = <<>>
    /\ imp' = [d \in Docs |-> "none"]
    /\ UNCHANGED <<staging, jobs, results, run, seen, chunkIdx>>

\* MUTANT of Join: the program returns without awaiting the post tasks.
Join_NoAwait == main = "join" /\ Exit("complete") /\ UNCHANGED drafts /\ NoFault

\* The remaining post tasks are awaited; then the run is complete, if staging
\* can be read for its summary.
Join ==
    /\ main = "join"
    /\ IF tasks = <<>>
       THEN /\ (NoFault /\ Exit("complete")) \/ (Fault("staging") /\ Exit("error"))
            /\ UNCHANGED drafts
       ELSE /\ Head(tasks).pc = "done"
            /\ tasks' = Tail(tasks)
            /\ NoFault
            /\ UNCHANGED <<staging, bc, run, main, seen, chunkIdx, imp, lastEnd>>

\* main returns the error of the fetch; the runtime drops the post tasks.
FetchFails == main = "fetch" /\ Fault("staging") /\ Exit("error") /\ UNCHANGED drafts

\* A call to BC that was under way may leave what it got to.
Crash ==
    /\ main # "down"
    /\ Fault("crash")
    /\ \E cut \in [Importing -> UNION {CutShort(Way(d)) : d \in Importing}] :
           /\ \A d \in Importing : cut[d] \in CutShort(Way(d))
           /\ drafts' = drafts \union UNION {Drafted(d, cut[d]) : d \in Importing}
    /\ Exit("crash")

-------------------------------------------------------------------------------
(* The import future of a document (import_batch)                              *)

NextImp(d, label) == imp' = [imp EXCEPT ![d] = label]
Future(d, label) == main = "import" /\ imp[d] = label
RestOfImport == <<run, main, seen, chunkIdx, tasks, lastEnd>>

\* Party and item mapping and validation against the reference data of the
\* moment: any verdict.  A lookup that fails ends the future with the error.
Validate(d) ==
    /\ Future(d, "validate")
    /\ \/ NoFault /\ \E verdict \in {"import", "errors"} : NextImp(d, verdict)
       \/ Fault("staging") /\ NextImp(d, "err")
    /\ UNCHANGED <<staging, bc, RestOfImport>>

\* record_errors, before the status is changed.
RecordErrors(d, label, then) ==
    /\ Future(d, label)
    /\ \/ Writes(d) /\ errors' = errors \union {d} /\ NextImp(d, then)
       \/ WriteLost(d) /\ errors' = errors \union {d} /\ NextImp(d, "err")
       \/ WriteFails(d) /\ NextImp(d, "err") /\ UNCHANGED errors
    /\ UNCHANGED <<status, bcNo, bc, RestOfImport>>

\* update_status, the last write of a future.
SetStatus(d, label, new, outcome) ==
    /\ Future(d, label)
    /\ \/ Writes(d) /\ status' = [status EXCEPT ![d] = new] /\ NextImp(d, outcome)
       \/ WriteLost(d) /\ status' = [status EXCEPT ![d] = new] /\ NextImp(d, "err")
       \/ WriteFails(d) /\ NextImp(d, "err") /\ UNCHANGED status
    /\ UNCHANGED <<errors, bcNo, bc, RestOfImport>>

(* import_one, one step: no job of the chunk's batch code exists before all of *)
(* its futures are done, so nobody sees the drafts on the way.                 *)
ImportOne(d) ==
    /\ Future(d, "import")
    /\ \E ok \in BOOLEAN : \E left \in Leftovers(Way(d), ok) :
           /\ left.faults \subseteq Faults
           /\ faults' = faults + Cardinality(left.faults)
           /\ faults' <= MaxFaults
           /\ drafts' = drafts \union Drafted(d, left.drafts)
           /\ NextImp(d, IF ok THEN "number" ELSE "reject")
    /\ UNCHANGED <<staging, jobs, results, RestOfImport>>

\* MUTANT of SetBcDocumentNo: a write that fails is passed over.
SetBcDocumentNo_Ignored(d) ==
    /\ Future(d, "number")
    /\ \/ Writes(d) /\ bcNo' = bcNo \union {d}
       \/ WriteFails(d) /\ UNCHANGED bcNo
    /\ NextImp(d, "imported")
    /\ UNCHANGED <<status, errors, bc, RestOfImport>>

\* MUTANT of SetBcDocumentNo: a write that fails is repeated until it succeeds.
SetBcDocumentNo_Retried(d) ==
    /\ Future(d, "number")
    /\ \/ Writes(d) /\ bcNo' = bcNo \union {d} /\ NextImp(d, "imported")
       \/ WriteFails(d) /\ UNCHANGED <<imp, bcNo>>
    /\ UNCHANGED <<status, errors, bc, RestOfImport>>

SetBcDocumentNo(d) ==
    /\ Future(d, "number")
    /\ \/ Writes(d) /\ bcNo' = bcNo \union {d} /\ NextImp(d, "imported")
       \/ WriteLost(d) /\ bcNo' = bcNo \union {d} /\ NextImp(d, "err")
       \/ WriteFails(d) /\ NextImp(d, "err") /\ UNCHANGED bcNo
    /\ UNCHANGED <<status, errors, bc, RestOfImport>>

\* MUTANT of RejectImport: the status is changed before the error is recorded.
RejectImport_StatusFirst(d) ==
    \/ SetStatus(d, "reject", "failed", "failed")
    \/ RecordErrors(d, "failed", "no")

RejectImport(d) ==
    \/ RecordErrors(d, "reject", "failed")
    \/ SetStatus(d, "failed", "failed", "no")

ImportStep(d) ==
    \/ Validate(d)
    \/ RecordErrors(d, "errors", "invalid")
    \/ SetStatus(d, "invalid", "invalid", "no")
    \/ ImportOne(d)
    \/ SetBcDocumentNo(d)
    \/ SetStatus(d, "imported", "imported", "yes")
    \/ RejectImport(d)

-------------------------------------------------------------------------------
(* The post task of a chunk (post_and_reconcile_chunk, reconcile)              *)

RestOfTask == <<run, main, seen, chunkIdx, imp, lastEnd>>
Task(i, label) == main # "down" /\ i \in DOMAIN tasks /\ tasks[i].pc = label
Abort(i) == tasks' = [tasks EXCEPT ![i].pc = "done"]

\* The flips to `posting` run concurrently and all of them, failures included.
Flip(i, d) ==
    /\ Task(i, "flip")
    /\ d \in tasks[i].flip
    /\ \/ /\ Writes(d)
          /\ status' = [status EXCEPT ![d] = "posting"]
          /\ tasks' = [tasks EXCEPT ![i].flip = @ \ {d}]
       \/ /\ \/ WriteFails(d) /\ UNCHANGED status
             \/ WriteLost(d) /\ status' = [status EXCEPT ![d] = "posting"]
          /\ tasks' = [tasks EXCEPT ![i].flip = @ \ {d}, ![i].flipped = FALSE]
    /\ UNCHANGED <<errors, bcNo, bc, RestOfTask>>

\* One that failed ends the task before anything is triggered.
Flipped(i) ==
    /\ Task(i, "flip")
    /\ tasks[i].flip = {}
    /\ tasks' = [tasks EXCEPT ![i].pc = IF tasks[i].flipped THEN "trigger" ELSE "done"]
    /\ UNCHANGED <<staging, bc, RestOfTask, faults>>

\* The session of a job collects the drafts of its kind and batch code.
Collected(batch, k) ==
    {x.id : x \in {x \in drafts : x.batch = batch /\ Kind[x.doc] = k /\ ~x.posted}}

Started(i, k) ==
    jobs \union {[batch |-> tasks[i].batch, kind |-> k, todo |-> Collected(tasks[i].batch, k)]}
Triggered(i, k) ==
    tasks' = [tasks EXCEPT ![i].kinds = @ \ {k}, ![i].polling = @ \union {k},
                           ![i].pc = IF @ = "trigger" /\ tasks[i].kinds = {k} THEN "poll" ELSE @]

\* The kinds whose `run` has been answered with a 5xx and is sent again.
Repeating(t) == t.kinds \intersect t.polling

\* trigger_batch_post: one job for each kind; an error ends the task, although
\* the job may be running and the jobs before it are.  After a 5xx the job is
\* created again, which leaves a row nobody runs, or `run` is sent again.
Trigger(i, k) ==
    /\ Task(i, "trigger")
    /\ k \in tasks[i].kinds
    /\ Repeating(tasks[i]) = {}
    /\ \/ NoFault /\ jobs' = Started(i, k) /\ Triggered(i, k)
       \/ Fault("reply") /\ Abort(i) /\ jobs' \in {jobs, Started(i, k)}
       \/ Fault("rerun") /\ jobs' = Started(i, k) /\ tasks' = [tasks EXCEPT ![i].polling = @ \union {k}]
    /\ UNCHANGED <<staging, drafts, results, RestOfTask>>

\* `run` sent again: refused while the session is Running, which ends the task;
\* a session that has not begun is replaced, and one that has ended followed by
\* another, which collects what is still to post.
Rerun(i, k) ==
    LET session == {j \in jobs : j.batch = tasks[i].batch /\ j.kind = k}
        runs == IF session = {} THEN Started(i, k) ELSE jobs
    IN /\ Task(i, "trigger")
       /\ k \in Repeating(tasks[i])
       /\ \/ /\ NoFault
             /\ \A j \in session : j.todo = Collected(j.batch, k)
             /\ jobs' = runs
             /\ Triggered(i, k)
          \/ NoFault /\ session # {} /\ Abort(i) /\ UNCHANGED jobs
          \/ Fault("reply") /\ Abort(i) /\ jobs' \in {jobs, runs}
       /\ UNCHANGED <<staging, drafts, results, RestOfTask>>

\* A job is polled until it is Completed or Failed, or 30 times.
Poll(i, k) ==
    /\ Task(i, "poll")
    /\ k \in tasks[i].polling
    /\ \/ /\ \A j \in jobs : ~(j.batch = tasks[i].batch /\ j.kind = k)
          /\ NoFault
          /\ tasks' = [tasks EXCEPT ![i].polling = @ \ {k}]
       \/ Fault("slow") /\ tasks' = [tasks EXCEPT ![i].polling = @ \ {k}]
       \/ Fault("reply") /\ Abort(i)
    /\ UNCHANGED <<staging, bc, RestOfTask>>

\* list_post_results, once for all the jobs of the batch code.
ListPostResults(i) ==
    /\ Task(i, "poll")
    /\ tasks[i].polling = {}
    /\ \/ /\ NoFault
          /\ tasks' = [tasks EXCEPT ![i].pc = "apply",
                         ![i].rows = {r \in results : r.batch = tasks[i].batch}]
       \/ Fault("reply") /\ Abort(i)
    /\ UNCHANGED <<staging, bc, RestOfTask>>

RowApplied(i, r) == tasks' = [tasks EXCEPT ![i].rows = @ \ {r}]

\* MUTANT of Posts: success is not looked at.
Posts_Any(r) == TRUE

Posts(r) == r.success

Applied(d, r) ==
    /\ status' = [status EXCEPT ![d] = IF Posts(r) THEN "posted" ELSE "failed"]
    /\ errors' = IF Posts(r) THEN errors ELSE errors \union {d}

\* A result row.  A failure is two writes; the second may fail alone.
ApplyRow(i, r) ==
    LET map == tasks[i].map
        d == map[r.ext]
    IN \/ /\ r.ext \notin DOMAIN map
          /\ RowApplied(i, r)
          /\ UNCHANGED <<status, errors, faults>>
       \/ /\ r.ext \in DOMAIN map
          /\ Writes(d)
          /\ Applied(d, r)
          /\ RowApplied(i, r)
       \/ /\ r.ext \in DOMAIN map
          /\ WriteLost(d)
          /\ Applied(d, r)
          /\ Abort(i)
       \/ /\ r.ext \in DOMAIN map
          /\ WriteFails(d)
          /\ errors' \in IF Posts(r) \/ d \in Stuck THEN {errors} ELSE {errors, errors \union {d}}
          /\ Abort(i)
          /\ UNCHANGED status

\* The rows are applied in order of entry.
ApplyNext(i) ==
    /\ Task(i, "apply")
    /\ \E r \in tasks[i].rows :
           /\ \A s \in tasks[i].rows : r.entry <= s.entry
           /\ ApplyRow(i, r)
    /\ UNCHANGED <<bcNo, bc, RestOfTask>>

Reconciled(i) ==
    /\ Task(i, "apply")
    /\ tasks[i].rows = {}
    /\ Abort(i)
    /\ UNCHANGED <<staging, bc, RestOfTask, faults>>

TaskStep(i) ==
    \/ \E d \in Docs : Flip(i, d)
    \/ Flipped(i)
    \/ \E k \in Kinds : Trigger(i, k) \/ Rerun(i, k) \/ Poll(i, k)
    \/ ListPostResults(i) \/ ApplyNext(i) \/ Reconciled(i)

-------------------------------------------------------------------------------
(* Business Central: the sessions of the jobs, which outlive the process        *)

Outcome(x, ok) ==
    results \union {[entry |-> Cardinality(results) + 1, batch |-> x.batch,
                     ext |-> BcCode[Ext[x.doc]], success |-> ok]}
WithoutDraft(j, x) == (jobs \ {j}) \union {[j EXCEPT !.todo = @ \ {x.id}]}

\* The next draft of a job is posted, or it is not: BC's rules decide, and
\* there is nothing to post in a draft without lines.
PostDraft(j, x) ==
    /\ x.id \in j.todo
    /\ jobs' = WithoutDraft(j, x)
    /\ \/ /\ x.postable
          /\ drafts' = (drafts \ {x}) \union {[x EXCEPT !.posted = TRUE]}
          /\ results' = Outcome(x, TRUE)
       \/ /\ results' = Outcome(x, FALSE)
          /\ UNCHANGED drafts
    /\ UNCHANGED <<staging, run, main, memory, lastEnd, faults>>

JobEnds(j) ==
    /\ j.todo = {}
    /\ jobs' = jobs \ {j}
    /\ UNCHANGED <<staging, drafts, results, run, main, memory, lastEnd, faults>>

\* The session of a job dies: what is left is not posted, and the row of a
\* document it has just posted may be lost.
SessionDies(j) ==
    /\ Fault("session")
    /\ jobs' = jobs \ {j}
    /\ \/ UNCHANGED drafts
       \/ \E x \in drafts : /\ x.id \in j.todo /\ x.postable
                            /\ drafts' = (drafts \ {x}) \union {[x EXCEPT !.posted = TRUE]}
    /\ UNCHANGED <<staging, results, run, main, memory, lastEnd>>

JobStep(j) == JobEnds(j) \/ \E x \in drafts : PostDraft(j, x)

-------------------------------------------------------------------------------
MainStep == FetchChunk \/ ChunkImported \/ Backpressure \/ Join

Next ==
    \/ \E reprocess \in BOOLEAN : Start(reprocess)
    \/ MainStep \/ FetchFails \/ Crash
    \/ \E d \in Docs : ImportStep(d)
    \/ \E i \in DOMAIN tasks : TaskStep(i)
    \/ \E j \in jobs : JobStep(j) \/ SessionDies(j)

Spec == Init /\ [][Next]_vars

\* Once started, the process runs on, and so do the sessions of BC.
Fairness ==
    /\ WF_vars(MainStep)
    /\ \A d \in Docs : WF_vars(ImportStep(d))
    /\ \A i \in 1 .. MaxInflight : WF_vars(i \in DOMAIN tasks /\ TaskStep(i))
    /\ WF_vars(\E j \in jobs : JobStep(j))

FairSpec == Spec /\ Fairness

-------------------------------------------------------------------------------
(* Properties                                                                   *)

TaskType(k) ==
    /\ k.pc \in TaskPCs
    /\ DOMAIN k.map \subseteq Exts /\ \A x \in DOMAIN k.map : k.map[x] \in Docs
    /\ k.flip \subseteq Docs
    /\ k.kinds \subseteq Kinds /\ k.polling \subseteq Kinds

(* Every variable keeps its type.                                               *)
TypeOK ==
    /\ status \in [Docs -> Statuses]
    /\ errors \subseteq Docs /\ bcNo \subseteq Docs /\ seen \subseteq Docs
    /\ \A x \in drafts : x.doc \in Docs /\ x.postable \in BOOLEAN /\ x.posted \in BOOLEAN
    /\ \A j \in jobs : j.kind \in Kinds
    /\ run \in 0 .. MaxRuns /\ chunkIdx \in Nat /\ faults \in 0 .. MaxFaults
    /\ main \in {"down", "fetch", "import", "wait", "join"}
    /\ imp \in [Docs -> ImpPCs]
    /\ \A i \in DOMAIN tasks : TaskType(tasks[i])
    /\ lastEnd \in {"none", "complete", "error", "crash"}

(* A document the orchestrator makes invalid or failed has its errors stored by *)
(* then, and keeps them as long as it is, whatever write or process fails on    *)
(* the way ("error(s) in `document_error`", staging.rs:22-27).  Those ingestion *)
(* has rejected are failed and have none (ingestion/src/lib.rs:61-66).          *)
FailureExplained ==
    [][\A d \in Docs :
          status'[d] \in {"invalid", "failed"} /\ (status'[d] # status[d] \/ d \in errors)
              => d \in errors']_vars

(* A document is `posted` in staging only if Business Central has posted a      *)
(* draft of it: result rows are never applied to another document, or read the  *)
(* wrong way (main.rs:132, reconcile.rs:80-87).                                 *)
PostedIsTrue == \A d \in Docs : status[d] = "posted" => \E x \in DraftsOf(d) : x.posted

(* A draft that its import completed has its document number recorded by the    *)
(* time staging says so.                                                        *)
ImportedHasNumber == \A d \in Docs : status[d] \in {"imported", "posting", "posted"} => d \in bcNo

(* No more than max_concurrent_chunks chunks are posting, and one fewer while   *)
(* another is imported (main.rs:69-72, :157-162).                               *)
InflightBounded ==
    /\ Len(tasks) <= MaxInflight
    /\ main \in {"fetch", "import"} => Len(tasks) < MaxInflight

(* One run imports a document once, even if its row never leaves `validated`    *)
(* (main.rs:75-77, :93-104).                                                    *)
ImportedOncePerRun ==
    \A x, y \in drafts :
        x.doc = y.doc /\ x.postable /\ y.postable /\ x # y /\ x.batch # NoBatch
            => x.batch[1] # y.batch[1]

(* A run that completes without a fault has settled every document: all the     *)
(* chunks are posted and reconciled before it ends (main.rs:168-171).           *)
CleanRunSettles ==
    lastEnd = "complete" /\ faults = 0 /\ main = "down" =>
        \A d \in Docs : status[d] \in {"invalid", "failed", "posted"}

\* A retried header has left two drafts of the document in one batch.
CreatedTwice(d) ==
    \E x, y \in DraftsOf(d) : x # y /\ x.batch = y.batch /\ x.batch # NoBatch

(* What is posted stays posted in staging: no requeue, late row or later run    *)
(* takes it back.  The exception is a document that one import has created      *)
(* twice: the failure of its second draft comes after the success of the first. *)
PostedIsFinal ==
    [][\A d \in Docs : status[d] = "posted" /\ ~CreatedTwice(d) => status'[d] = "posted"]_vars

(* Each run ends, although rows may never leave `validated` (main.rs:75-77) and *)
(* post tasks fail at any point.                                                *)
RunEnds == main # "down" ~> main = "down"

(* "Every invoice carries an idempotency key so reruns never double-post"       *)
(* (README.md:88).                                                              *)
NeverPostedTwice ==
    \A d \in Docs : Cardinality({x \in DraftsOf(d) : x.posted}) <= 1

(* "Everything is resumable [...] A crash, a 429 storm, or a bad batch must     *)
(* [...] be safe to rerun" (docs/architecture.md:12): once a run completes,     *)
(* no document is left between import and posting by this run or an earlier.    *)
CrashIsResumable ==
    lastEnd = "complete" /\ main = "down" =>
        \A d \in Docs : status[d] \notin {"imported", "posting"}
===============================================================================

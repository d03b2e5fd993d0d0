# Verification of bc-invoice-forge

TLA+ models of the import-and-post pipeline of this repository, the TLC runs that
check them and the TLAPS proofs of their central invariants. Paths below are
relative to the repository.

## 1. The system

Invoices are parsed and staged by `ingestion/`, pushed into Business Central (BC)
as drafts by `orchestrator/`, and posted *inside* BC by the AL extension
`bc-extension/`; the orchestrator polls the results and writes them back to the
staging database.

| Component | State | Operations | Talks to | What is hard | What makes it correct |
|---|---|---|---|---|---|
| Adaptive limiter `orchestrator/src/throttle.rs` | two atomics (`target`, `since_change`), a semaphore, removal tasks | `acquire`, `report_ok`, `report_throttled` | import futures and post tasks | lock-free loops of several tasks; permits that are in use when they are withdrawn | permits are neither lost nor invented; the back-off takes effect; nobody starves |
| Batch-post jobs `BatchPost`, `BatchPostRunner`, `BatchPostJob.Page/Table`, `JobSessionMonitor` | job rows (status, session, counters), background sessions | read, `run`, `reset`; `RunJob`; `MarkStaleJobsFailed` | API callers, posters | several requests and sessions on one row, stale reads, optimistic row versions, sessions that die | one session reports for a job; a Completed job tells the truth; no job stays Running |
| Posters and result log `*Poster.Codeunit.al`, `PostLog`, `PostResult` | documents, rows of BIF Post Result | `PostBatch`, `Log` | RunJob, BC posting | each `Codeunit.Run` commits; rows are committed later | success rows are true and unique; what is untagged stays untouched |
| Transfer poster `TransferPoster.Codeunit.al` | what an order still has to ship | ship, then receive | RunJob | two postings, each commits; the header is read again between them | a rerun ships the rest and no more; a success row means nothing is left |
| Orchestrator run `orchestrator/src/main.rs` | `seen`, chunk index, import futures, `post_tasks` | drain loop, `import_batch`, backpressure, `reprocess`, `sync-refs` | staging, BC, post tasks | pipelined chunks, failed writes between two writes, crashes | every document is settled once, the run ends |
| Posting and reconciliation `post.rs`, `reconcile.rs` | the chunk map, rows read | trigger, poll, apply results | BC jobs and results, staging | jobs that outlive polling, lost answers, rows matched by number | `posted` means posted |
| Staging store `ingestion/src/staging.rs` | `invoice`, `document_error`, maps | status writes, page reads, requeue, upsert | ingestion, orchestrator | status and errors are separate writes | a failure is explained; posted is final |
| BC client `bc_client.rs`, `retry.rs` | token, drafts it created | create, lines, tag, jobs, results, reference lists | BC | a POST that is repeated after an unknown outcome; lists that come in pages | no duplicate but of an unknown outcome; no part of an invoice is ever posted |
| Ingestion `ingestion/src/lib.rs`, `validation.rs`, `canonical.rs`, `errors.rs` | the report of a file, an open transaction | parse, dedup, validate, stage each document once per key | staging | several processes with one key, an error or a lost answer in the middle of a file | once-only staging; reports that add up |
| Validation and mapping `orchestrator/src/validate.rs` | maps, reference table | party and item mapping, field and reference checks | staging | the tables change between two queries of one document; spelling and paging of numbers | what is sent has passed every check; what BC has is not called unknown |
| Parsers `ingestion/src/parsers/` | stack, flags, the line in progress | file to canonical model | ingestion | order and nesting of elements, delimiters, which of two identifiers counts | a file is read as its sender wrote it |

API pages that only declare fields, permission sets, the AL tests, examples and
scripts have no behaviour of their own and are left out.

## 2. Modules

| Module | Role |
|---|---|
| `Throttle` | the limiter, operation by operation |
| `BatchPost` | jobs, requests and sessions of BC, and the posters |
| `Orchestrator` | a run of the program on a staging database and a BC, both reduced to what a chunk can tell apart |
| `ImportDocument` | what `Orchestrator` has as the import future of one document, call by call and query by query |
| `ImportOutcome` | that future as `Orchestrator` sees it: the abstract specification `ImportDocument` implements |
| `Drafts` | the drafts the calls may leave, used by both |
| `Ingest` | processes that ingest files, on the staging store |
| `OnceStaged` | what ingestion promises: the abstract specification `Ingest` implements |
| `Parsers`, `Edi`, `Xml` | the parsers, operators of `Ingest` |
| `Documents` | the canonical document, its key, dedup and field checks; used by `Ingest` and `ImportDocument` |
| `MC...` | instances for TLC |
| `...Proofs` | proofs about `Throttle`, `BatchPost`, `Orchestrator`, `ImportDocument` (`ImportProofs`) and `Ingest` |
| `OrchestratorRuns` | proofs about whole runs of `Orchestrator`: what a clean run leaves, what stays posted, that invoices are posted once, and what is left behind |
| `ImportVerdict`, `ImportExact` | proofs about the checks of `ImportDocument`, and about the drafts it leaves, with the refinement of `ImportOutcome` |

`Throttle` stands alone. `Orchestrator` has an abstract BC of its own (drafts,
jobs in progress, result rows); `BatchPost` is the detail behind it.

### Throttle

One action per atomic operation of `report_ok` and `report_throttled`: the
`fetch_add`, the reset, the load, each round of the `compare_exchange_weak` loop
and `add_permits`. `pc[r]` is the next operation of a reporter and `t[r]` its
last reading of `target`. The main task is one reporter: it polls all the import
futures of a chunk, so no future acquires or drops a permit while it is inside a
report (`Polled`), and it reports only for a future that holds a permit. Post
tasks are the other reporters and hold none. `forget` is one round of a spawned
removal task. A spurious failure of the weak exchange changes nothing and is a
stuttering step. `MaxOwed` is the bound of the model: no 429 arrives while more
than that many permits are to be collected.

### BatchPost

Requests (`Callers`) go through the page as the code does: `OnOpenPage` reads the
Running jobs (`FindSet`), and the request itself - a `poll`, a `run` or a `reset` -
looks the sessions up, fails the stale jobs, reads the bound record and goes on, all
in one transaction. `MayStart` is `CheckCanStart` on that record: a job which this
same request has just failed as stale may start. The record is read after the
monitor's writes, and its `Modify` is refused when the row has changed since, so
reading, checking and writing count as one step; the conflict, like every other error,
is `refused`, which undoes the transaction. `run` commits
`Pending`, then `StartSession` starts a session that has a *copy* of the record.
Sessions go through `RunJob` and the `PostBatch` loop that all the posters of
this kind share: collect, `Commit`, `Codeunit.Run`, log.

Transfer orders are posted twice: `ShipAndReceive_shipped` is the shipment, which
commits, `ShipAndReceive_reread` the `Get` after it, which is an error when
another session has received the order meanwhile. `toShip` holds the orders with
a quantity left to ship; an order that somebody has shipped by hand before starts
outside it, one shipped in part inside it. `Codeunit_Run_true` is then the
receipt, and `Codeunit_Run_false` a refusal of either posting.

Two things about the platform carry the weight, and neither is under `src/`:

* A `Modify` is refused when the row has changed since the record was read. The
  set `current` holds the actors whose record is up to date: a write of a row
  takes every other copy of it out of the set (`Outdated`, `Modified`), and a
  Modify without being in it is an error (`refused`, `RunJob_conflict`).
* What is not committed is lost with an error or a crash. `slog` holds the result
  rows inserted and not yet committed.

Jobs exist from the start. A session is used once, so `Sessions` bounds the runs;
`MaxCrashes` bounds the crashes. Which documents BC accepts is open: each
`Codeunit.Run` may return either answer.

### Orchestrator

`main` is where the main task is (`fetch`, `import`, `wait`, `join`, or `down`),
`imp[d]` is the import future of a document with one step for each staging write
and each BC conversation, and `tasks` is the queue of post tasks, each a record
with its own `pc`, the chunk map, the flips still to do, the kinds to trigger and
to poll and the rows to apply. `Start(reprocess)` is a start of the program with
or without `requeue`.

Faults are explicit, bounded by `MaxFaults`, and every configuration says which
kinds it allows: `crash` (the process dies; BC and staging go on), `staging` (a
query or a write fails and has no effect), `reply` (a write or a call has its
effect and its answer is lost: `WriteLost`, and the `Leftovers` that take it),
`retry` (the header was created and `post_json` has sent it again), `rerun` (the same
of the two POSTs of a job: the job is created again, which leaves a row nobody runs,
or `run` is sent again - `Repeating`, `Rerun` - and is refused, replaces a session that
has not begun, or starts one that follows the first), `slow`
(polling gives up after 30 rounds), `session` (the session of a job dies).
`Stuck` documents are those whose row never can be written. `Init` has every document
validated or failed: what ingestion rejects it stages as failed, without an error row.

Abstractions: `ImportOne` is one step with all the drafts the calls may leave
(`Leftovers` of module `Drafts`), as no job of the chunk's batch code exists before
all of its futures are done; lookups and validation are one step with any
verdict. Both are justified by `ImportDocument`. Run codes are the run number; the
stamps of a chunk are `<<run, chunk index>>`. All runs shown give the documents
different external numbers (when two documents of a chunk share one, `ext_to_key`
keeps one of them; `docs/verification.md:122-124` notes that they could be mis-mapped).

### ImportDocument

One document from `import_batch` to its last write. `ResolveParty`, `ResolveItem`,
`ValidateFields` and `ValidateReference` are one query each, so the maps
(`UpsertMap`) and the reference table (`ListReference`, `RefUpsert`: `sync-refs` in
another process) may change between any two of them. `Verdict` builds the calls of
`import_one` for the document's way: header, lines, tag for sales and purchase
invoices; header with the batch code and lines for service invoices, purchase and
transfer orders; a header that carries its first line for assembly and production
orders. `CallBc` is one attempt of `post_json`: answered, throttled (429 or 5xx,
sent again once; a 5xx may come after the effect), refused, or lost after its
effect. Then come the writes of the outcome, each of which may fail, or be
committed with its answer lost.

`ImplementsOutcome` maps all of this to `ImportOutcome`: `at` is the pc with the
queries and the calls merged, `left` the drafts once the calls are over. The
drafts `Orchestrator` works with are therefore the ones the calls can leave.

### Ingest

A process goes through `ingest_file`: `Parse`, then for each document that is left
after dedup `Insert` (`ON CONFLICT DO NOTHING`; it waits for a transaction that has
inserted the same key), `InsertLine`, `Commit`. `tx[p]` is what its open transaction
has inserted. An error of the store ends the file, a crash the process; either
rolls back. A commit may be done and its answer lost. The orchestrator moves
statuses meanwhile: `UpdateStatus` sets any of `NewStatuses`, `Requeue` takes invalid
and failed ones back.

`StagesOnce` maps the committed tables to `OnceStaged`: a key is staged whole and
once, and from then on only its status changes.

### Parsers, Edi, Xml, Documents

A text is a sequence of atoms - a word, a delimiter, a blank - and an XML file a
sequence of events, as quick_xml gives them. A parse is the set of its results:
one sequence of documents, or nothing for an error. `Edi` has the tokenizers with
their delimiters and release character and the segments of EDIFACT and X12; `Xml`
the tables of paths that set a field of the header or of the line, over a stack of
open elements; `Parsers` the grouping of CSV rows, JSON, the choice of the
attachment of a PDF, and the choice of a parser by suffix and content.

`MCIngest` is the reference definition: it writes documents down as a sender would,
in every format and with what may vary (own delimiters, BOM, line breaks between
segments, elements in either order, the identifiers and dates of other parties,
quoted delimiters, rows of two documents in turn). `ParsedAsWritten` says that reading
gives back what was written. The date of a CII file is in format 102, as senders write
it, and comes out as it went in (`Raw`). Files that are damaged, that have one bad row
or object beside good ones, a BOM before the JSON or two EDIFACT messages are read too
(`Unclaimed`), and take part in everything else, but `ParsedAsWritten` says nothing of
them: what becomes of them is under "Noticed while modelling" below.

## 3. Runs

| Run | Instance | What it shows |
|---|---|---|
| `throttle` | 3 import futures, main + 1 post task, window 2, `MaxOwed` 1 | types; `PermitsBalance`, `CounterBounded`, `TargetMoves`; with fairness `TargetRespected` and `WaiterServed` |
| `batch` | 2 jobs for one batch code, 2 transfer orders each shipped before or not, 2 requests, 2 sessions, 1 crash | types; `OneReportingSession`, `CompletedAccounts`, `CompletedCountsMatch`, `SuccessRowsTrue`, `LossBounded` |
| `batch_live` | a job for the code and one with a blank code, a tagged transfer order and a document entered by hand, 1 request, 2 sessions, 1 crash | `UntaggedNeverPosted`, and `RunningEnds` under fairness |
| `batch_two_sessions` | 1 job, 2 callers, 3 sessions, no crash | `NeverTwoSessions` is **violated** |
| `batch_lost_row` | 1 job, 2 callers, 2 sessions, 1 crash | `PostedIsReported` is **violated** |
| `orchestrator_faults` | 2 documents, validated or rejected by ingestion, in chunks of 1, 2 chunks in flight, 2 runs, 2 faults of any kind | types; `FailureExplained`, `ImportedHasNumber`, `ImportedOncePerRun`, `InflightBounded`, `CleanRunSettles`, `PostedIsFinal` |
| `orchestrator_live` | 3 documents in chunks of 2, one of them stuck, 1 run, 1 fault of any kind but `crash` | `PostedIsTrue`, and `RunEnds` under fairness |
| `orchestrator_double_post` | 2 orders in a chunk, no fault, 2 runs | `NeverPostedTwice` is **violated** |
| `orchestrator_crash` | 1 document, 1 crash, 2 runs | `CrashIsResumable` is **violated** |
| `orchestrator_lower_case` | a number in lower case, no fault | `CleanRunSettles` is **violated** |
| `ingest` | 2 processes, one with any of the files of `MCFiles`, one with a batch of three documents of which two have one key and one no number; statuses set to imported, posted or failed; 1 store error, lost answer or crash | types; `ParsedAsWritten`, `ReportsTrue`, `DoneIsStaged`; `StagesOnce` (refinement), and `IngestEnds` under fairness |
| `import` | a document of each way and three with a fault in a field, every configuration, maps empty or filled and one change of them, references in two pages, 2 faults of any kind | types; `VerdictSound`, `IncompleteNeverTagged`, `ExactDraft`; `ImplementsOutcome` (refinement) |

Bounds. Three futures are the fewest for which a decrease can meet a permit that
is held, one that is free and one that is queued for, and `max` 3 has a target
at the floor, one at the ceiling and one between; two reporters race in every loop (more of them are
covered by the proofs). In `batch`, two sessions and two requests are what a
monitor with an outdated reading, a second run and the run it overtakes need,
and two jobs of one batch code let both sessions collect the same documents;
two documents separate "the row before" from "this row" and "last". In
`orchestrator_faults`, chunks of one make two post tasks run at once beside the
import of another chunk, two faults allow a failing write and the failure that
follows it, and two runs a requeue or a restart after either. `orchestrator_live`
has chunks of two so that a chunk's documents differ in kind, and a stuck row so
that a page can come back unchanged. In `batch` an order that is shipped already
behaves as a document of any other kind does, so the run covers those as well. In
`ingest` two processes are what a conflict of keys needs, and three documents let
one fail after one and before another; two lines separate the first, the last and
the one in progress. Of the statuses the orchestrator sets, three are enough: one a
requeue takes back, one it does not, and one that is final; invalid behaves as failed
does, and posting as imported. In `import` two faults allow a repeated call and the failure
after it, two lines a call between header and last line, and two pages a number
that the first does not have.

Deadlock is checked for `Throttle` and `BatchPost`. It is off for `Orchestrator`,
`Ingest` and `ImportDocument`, which really stop: all runs are used up, the process
is down and BC is idle; every file, or the document, is done.

### Fairness

* `Throttle`: a report that has begun runs on (weak). Tokio's semaphore is first
  in, first out, so a waiter for which permits come free again and again is
  served; that is strong fairness of `acquire`/`release` of each future and of
  `forget`. An exchange does not fail for ever: for another failure some other
  task has to finish whole BC calls between two instructions of this one
  (strong fairness of `Exchanged(r)`).
* `BatchPost`: requests and sessions run on (weak), and somebody reads the job
  page again and again, as `reconcile.rs:54-72` does. Without a reader a job whose
  session died does stay Running: the monitor only runs when the page is opened.
* `Orchestrator`: the main task, each import future, each post task and the
  sessions of BC run on (weak). Nothing is assumed of faults, or of the verdicts.
* `Ingest`: a process runs on until its file is done (weak). A lock it waits for is
  held by a transaction of another process, which runs on too, or is rolled back.

## 4. Proofs

The theorems hold for all values of the constants that the `ASSUME`s admit: finite
sets, a reporter called `Main`, a window of at least one, sessions and callers
distinct, "no job", "no document", "no session" and "no row" outside their sets,
and documents that are built from their fields. Some theorems assume more, as
named hypotheses of their own (`ReadsDocuments`, `NumbersDistinct`,
`NoHeaderKinds`, `CleanData`, `Careful`), or that a race does not happen
(`NoStaleLookup`), which the paragraphs below explain. TLC finds each of those of
`Careful` necessary: see finding 3.

**Throttle.** `IInv` is the type invariant, `PermitsBalance`, `CounterBounded`
and `BelowMax`. `BelowMax` is what makes it inductive: a reporter at `ok_cas` has
read a target below the ceiling, so the exchange that succeeds cannot pass it.
`PermitsBalance` counts reporters between the exchange and `add_permits`;
`LabelCount` says how the number of reporters at a label changes when one moves.
Theorems: `TypeCorrect`, `PermitsConserved`, `CounterContained`,
`TargetMovesByRule` (an action property). That the documents in progress exceed the
target by no more than what is still to be collected follows from the balance, as
permits and reporters about to add are not negative.

**BatchPost.** `Control` (the types of control, documents and rows, and that an
actor at work has a job, or a document) carries the rest.

* `OneReporting`: `OneReportingSession` is inductive with `Control`: any write of
  the row takes other copies out of `current`, so whoever made another session
  the owner, or the job anything but Running, has made this one's record old.
* `SuccessIsTrue`: rows are committed or pending in `slog`. `TrueRows` says of
  both that a success row is about a posted document, and that two success rows
  for a document are the same; a document is posted from unposted only once, and
  a transfer order is received only when nothing is left to ship.
* `UntaggedStay`: `Tagged` says that what a session has collected, or is posting,
  carries a batch code that is not blank, since a job with a blank code never
  gets past `starting`.
* `CountsMatch`, `BatchAccounted`, `LossIsBounded` have one invariant, `AccountsOk`.
  A session that has not ended counts what its rows say,
  committed or in its log (`Tallied`); what it has still to post has no row of it
  (`Ahead`); and each document of its batch is posted, still to be posted, the one at
  hand, or failed (`Covered`). Its log holds rows of one document, and none while a
  document is posted (`OneRow`), which is why a session that dies loses one row at
  most. `Settled` keeps the rows of a Completed job from changing: its reporting
  session is done. Each needs the others: without `OneReporting` another session's
  counters could be written into the row.
* `OneSessionUnlessStale`, `ReportedUnlessStale`: what the runs `batch_two_sessions`
  and `batch_lost_row` refute holds as long as `NoStaleLookup` does: no request that has
  found a job Running has its session still to look up when another one starts a new
  session for that job. `Undisturbed` says that then the record of a session that posts
  is the row as it is, that a session about to begin belongs to a Pending job, which
  nobody has found Running, and that whoever has found a job Running knows the session
  that posts it. So the monitor fails a job only if its session is dead, and a job
  that can be run has none (`StartableHasNoWorker`). `Kept` adds, for sessions that do
  not crash, that a posted document has its row, committed or in the log of a session
  that still runs. Resets, repeated runs, other jobs of the same batch code and, in the
  first theorem, crashes are all there.
* `TypeCorrect`: the counters need `Counted(s)`: the number of documents posted,
  failed and still to post never exceeds the number of documents, which the
  cardinality theorems give as each step takes a document out of `stodo`.

**Ingest.** `StagedOnce` is the refinement of `OnceStaged`. Its invariant says of the
tables that every row is whole: it is a document of the files without its lines,
and its lines are all there (`WholeStore`); and of open transactions that the lines
inserted so far are the first ones of their document (`FirstLines`), that their key
is not staged, and that no two have the same key, which is what the lock on the
unique index gives. The commit is then `Stage`, an update of statuses is `Move`, and
everything else a stutter. `TypeCorrect` comes from the same invariant.
`ReadsDocuments`, that a parse returns a sequence of members of `Documents`, is a
hypothesis: the parsers are folds over their input, out of the prover's reach. It is
true of all the files of `MCFiles`, the unclaimed ones included: `MCDocuments` has all
that their parses return, `TwoInOne` for the two messages among them.

* `DedupKeepsKeys`, a lemma: `dedup` returns documents of the file and loses no key.
  `Kept` is a recursive function, so the induction is on the number of documents seen,
  by the least one for which the claim would fail (`Least`); `KeptFollows` shows in the
  same way that the function is what its equation says.
* `DoneStaged`: `Seen` says of each document of a file that is read that its key is
  staged or that of an entry still ahead, and of an open transaction that it is for the
  next entry. An entry leaves the queue only when its key is staged: a conflict shows a
  committed row, since `Locked` makes the insert wait for one that is not, and no step
  takes a row away (`KeysStaged`).
* `ReportsAddUp`: a report and what is still to be staged add up to the documents of
  the file (`Balanced`), and every accepted row has one process that counted it
  (`EachCountedOnce`), unless it is one of the rows whose commit was not answered, of
  which there are no more than faults.

**Orchestrator.** All eleven theorems rest on `Types`, the inductive form of `TypeOK`,
which adds that import futures exist only while a chunk is imported, and post tasks
only while the run is up.

* `FailuresExplained`: `Explained` says of the future that is about to write `invalid` or
  `failed` that the errors of its document are stored; a requeue deletes errors only of
  documents whose status it changes in the same transaction. It is an action property,
  as the documents that ingestion rejected are failed without errors from the start.
* `NumbersRecorded`: `Numbered` covers what a post task holds, since the flip and the
  rows it applies change the status of documents that the chunk imported earlier.
* `InflightIsBounded` is inductive with `Types`.
* `PostedMeansPosted`: `TrueRows` relates three things: result rows are about posted
  documents, the rows a task has read are rows of BC, and its map takes a number to
  the document that has it. `NumbersDistinct` says that no number as BC stores it is
  the source number of another document. It cannot be left out: the map is keyed
  by number alone (`main.rs:132`), and with two documents of one number the row of one
  marks the other.
* `OneImport`: a draft with a batch code is of an earlier run, or its document has
  been attempted in this one (`OfRuns`), and one attempt leaves one draft with
  something to post at most (`OnePostable`). `NoHeaderKinds` excludes the kinds whose
  header carries the whole document, as assembly orders do: a header that is sent
  again after a 5xx is a second one, complete.
* `CleanRunsSettle` (module `OrchestratorRuns`): `Settling` says, as long as no fault
  has happened, who is to see to each document that is not settled. A document that is
  `posting` is `Pending` in some post task: in the draft, the job or the row of its
  batch that the task has still to trigger, wait for or read (`PostingClean`). One that is
  `imported` is its chunk's, or still to be flipped. One that is `validated` has not
  been attempted (`ImportClean`), so the page that ends the loop has none of them
  (`RunClean`). `Identified` tells the drafts apart, without which a job could end
  before the draft of a document is posted. `CleanData` is what the code needs: numbers that BC
  keeps as they are (the run `orchestrator_lower_case` shows what happens otherwise),
  no two alike, rows that can be written, and chunks that are not empty.
* `PostedStaysPosted` (module `OrchestratorRuns`): only a row that says the document
  has failed could take it back (`RowPosts`, `PostedStep`). A job leaves out
  what is posted already, so a document that was not created twice has no row of a
  batch after its success row (`SuccessLast`, with `JobsApart`), even if `run` was sent
  again and a second session followed the first; a task reads rows of its own batch only, and no other live task has its
  documents (`Owned`); a document is not posted while its import runs or before its
  task has read the rows, and once it is, the task has no row of it left (`Unposted`).
  It needs `NumbersDistinct` and nothing else: the fault-free case plays no part.
* `InvoicesPostedOnce`, `NoDoublePost` (module `OrchestratorRuns`): a draft is `Armed`
  if it is posted, or a job may still post it: one has it to do, its task has still to
  trigger one, or its chunk is being imported. `OncePosted` says of the documents that get
  their code last (`Tagged`) that one draft at most is armed (`OneArmed`); none while
  the document may be fetched or requeued (`Retryable`); and that the one there is has the
  batch of the chunk or task that has the document (`ChunkArmed`, `TaskArmed`). A
  document becomes `failed` after its import only by a failure row, and no draft with the
  batch and number of such a row is armed (`RowsDead`): a job posts a draft once, and no
  second job of the batch is triggered, as no POST of a job is repeated
  (`NoneRepeated`). A crash leaves drafts of the chunk that no job
  will ever post (`DraftsBatched`). `Careful` assumes that numbers are distinct, that
  staging can be written, and that answers arrive; crashes, sessions that die, slow jobs
  and repeated headers are allowed.
* `LeftBehindForGood` (module `OrchestratorRuns`): a document is `Stranded` if it is past
  its import and every post task that has it is done. Only a task that has a document
  changes it after its import (`Owned`, `TrueRows`), a fetch takes validated documents
  only, and a requeue invalid and failed ones; when the process ends its tasks are gone.

**ImportDocument.** `TaggedLast`: until the verdict there is no draft; from then on
the calls that are left are the header, the lines and the tag from some `m` on, and
the last draft has the lines of the calls before `m` (`AtCall`, `HasLines`). A call
whose effect is there without its answer is either repeated, which changes none of
that, or the last. The drafts of repeated headers never get the code.

* `OnlyChecked` and `TypeCorrect` (module `ImportVerdict`): `VInv` is about two
  processes. `SyncOk` says how far `sync-refs` has got: the table has all that the
  finished entities list, the rows read so far have all earlier pages, and a number
  that is not yet in the table is among the rows still to be written. `FutureOk` says
  what the future has checked so far: the lines before `at_line` are resolved and
  known, an error of a field is among the errors, and a reference error was true when
  it was found. Maps and table only grow, so what was found there stays there; this
  is why the verdict holds although it rests on several moments.
* `ExactlyOnce` (module `ImportExact`): `EInv` adds `DraftsOk`: at call `m` the calls
  left are the plan from `m` on, the last draft has the first lines of the document
  and those only (`Built`), and what there is besides is at most the number of repeats.
* `RefinesOutcome`: each step of `ImportDocument` is a step of `ImportOutcome` or a
  stutter. `RInv` adds to `EInv` that `errors` is reached with an error, and what the
  drafts look like in the middle of the calls (`Pieces`): bare headers before the
  last, and a last draft whose batch code is there as the way of import says. The
  calls that end the future then leave a member of `Leftovers`, and a crash one of
  `CutShort`.

`ImportVerdict` and `ImportExact` assume of the pages that there is one at least for
each entity (`PagesAssumption`), and of a source that its type is one of the document
types (`SourcesAssumption`).

**Model-checked only.** Liveness (`TargetRespected`, `WaiterServed`,
`RunningEnds`, `RunEnds`, `IngestEnds`): temporal reasoning under fairness is beyond
the prover used. `ParsedAsWritten`: the parsers are folds over their input, defined in
the library by operators that the prover cannot instantiate, and the property is about
the files that `MCContent` writes, format by format.

## 5. Findings

1. **Two sessions post one batch** (`batch_two_sessions`).
   `MarkStaleJobsFailed` (`JobSessionMonitor.Codeunit.al:18-24`) looks up sessions
   for rows it read earlier, reads the row again and fails it without looking at
   the status again. If the job was run again in between it is failed although
   its session lives, and `run` accepts it once more.
   `JobSessionTests.Codeunit.al:110` says it is refused, "so a batch is never
   posted by two sessions at once". The damage is limited: `SuccessIsTrue` and
   `OneReporting` are proved with this behaviour in the model. There is no other way
   to it: `OneSessionUnlessStale`.
2. **A posted document without a row** (`batch_lost_row`). The posting commits, its
   row waits for the next `Commit`. `docs/architecture.md:63` has `BatchPost`
   record the outcome per document. `LossBounded` shows the loss is one row per
   session, `ReportedUnlessStale` that it takes a crash or the race of finding 1.
3. **Double posting** (`orchestrator_double_post`). Kinds that carry the batch code
   from their header on leave a draft in the batch when a line is refused; the
   job posts it with the lines it has, the row matches no imported document, and
   a reprocess run posts the document again. `README.md:88` promises that reruns
   never do. For sales and purchase invoices the promise is kept through crashes,
   sessions that die and repeated headers (`InvoicesPostedOnce`), not without its
   hypotheses: with two sales invoices TLC finds one posted twice with a single
   answer lost, with a single write that fails, with rows that cannot be written, and
   without any fault when their external numbers are alike; and a single one twice when
   its `run` was answered with a 5xx and sent again, and the process then crashed.
4. **A crash is not resumed** (`orchestrator_crash`). Nothing takes up documents
   left `imported` or `posting`; `docs/architecture.md:12` says everything is
   resumable. No later run does either, nor after a poll that was given up
   (`LeftBehindForGood`); without a fault nothing is left (`CleanRunsSettle`).
5. **Lower-case numbers never match** (`orchestrator_lower_case`).
   `reconcile.rs:81` looks a Code field, upper case in BC, up in a map keyed by
   the source's spelling: documents stay `posting`.

Noticed while modelling, without a run:

* Two increases may fall into one window (`throttle.rs:13` speaks of one).
* An existing `bc_document_no` is not skipped (`docs/architecture.md:100`).
* The drain loop ends as soon as one page has only documents it has already tried,
  although more may be validated behind them (`main.rs:98` against `main.rs:63`).
* The stale monitor can also turn a Completed job into Failed
  (`JobSessionMonitor.Codeunit.al:22`).
* A header answered with a 5xx after it was created is created again, and so is a
  line; `ExactDraft` bounds the surplus by the number of such answers. Two drafts of
  one document in a batch give two result rows, and the later one may take the
  document from posted to failed (`reconcile.rs:80`).
* Assembly and production orders with several lines send only the first
  (`bc_client.rs:319`); a created document without a `number` is imported with an
  empty one (`bc_client.rs:283-287`).
* A document that ingestion rejects is staged as failed without a row in
  `document_error` (`lib.rs:61-66`), where `staging.rs:26-27` says its errors are, and
  its key is taken: the corrected file counts as a duplicate. `FailureExplained` is
  therefore about what the orchestrator does, and says nothing of these documents. A requeue leaves no row in
  `event_log` (`0001_init.sql:35`).
* Kinds without a party are rejected for their empty partner; only the first
  unmapped item of a document is reported (`main.rs:251-252`).
* Several messages of one EDIFACT interchange are read as one document, with the number
  of the last and the lines of all (`edi.rs:135-199`). One CSV row or JSON object that
  cannot be read refuses the whole file, where `docs/architecture.md:13` wants to "Fail
  per-document, not per-batch". An XML file of another kind has no invoices and no error
  (`xml.rs:130`). JSON with a BOM is recognised (`parsers/mod.rs:61`) and then refused
  (`json.rs:61`). The date of a CII file stays as it is written, in format 102, where
  `canonical.rs:108` has an ISO date.
* The creation of a job and its `run` are sent again after a 5xx (`bc_client.rs:98-120`)
  that may come after their effect. A second creation leaves a Pending job for good. A
  second `run` is refused while the first session is Running, which ends the post task
  and leaves the documents of the chunk posting.
* `list_post_results` reads one page of rows (`bc_client.rs:461-468`), unlike the
  reference lists. `IMPORT_CONCURRENCY=0` stops every chunk at its flips to posting.

## 6. Limits and what is not modelled

* `PostedIsFinal` leaves out documents that one import has created twice.
* Parsing is modelled above characters and tokens: quoting in CSV, JSON syntax, XML
  well-formedness and encodings, the object structure of a PDF and number syntax are
  what their libraries and `Numbers` make of them. Amounts are classes (positive,
  zero, not a number).
* Configuration, the token cache, the JSON of requests and the wording of errors are
  left out; a token that cannot be had is a refused call.
* Summaries, lists and exports of the staging store only read.
* A second orchestrator process on the same database is not modelled, nor are two
  runs that start within one second.
* What each posting codeunit does with its document belongs to BC.

## 7. Plan

1. Proofs: the parsers as recursive functions where that is possible, so that
   `ReadsDocuments` can be proved for every file, and with it `ParsedAsWritten`.
2. An abstract BC that both `Orchestrator` uses and `BatchPost` implements.
3. A second orchestrator process on one staging database.

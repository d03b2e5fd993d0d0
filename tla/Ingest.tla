-------------------------------- MODULE Ingest --------------------------------
(* ingestion/src/lib.rs over the Postgres store of staging.rs: processes that   *)
(* each ingest a file at the same time, one transaction for each document,      *)
(* while the orchestrator changes the status of what is staged.                 *)
EXTENDS Parsers

CONSTANTS
    Procs,      \* processes that ingest a file each
    Inbox,      \* Inbox[p]: the files p may be given
    Content(_), \* Content(f): suffix and content of the file f
    Wrote(_),   \* Wrote(f): the documents its sender has put into it, in order, if
                \* the file is one that the parsers claim to read
    Documents,  \* all of those
    None,       \* no row, no document
    NewStatuses,  \* bound of the model: the statuses that the orchestrator sets
    Faults,     \* the kinds of fault that may happen
    MaxFaults   \* bound of the model: how many of them

\* A document without its lines.
Header(d) == [d EXCEPT !.lines = <<>>]

Files == UNION {Inbox[p] : p \in Procs}
FaultKinds == {"staging", "reply", "crash"}
Statuses == {"validated", "invalid", "imported", "posting", "posted", "failed"}

ASSUME ProcsAssumption == IsFiniteSet(Procs)
ASSUME FilesAssumption == \A f \in Files : Wrote(f) \subseteq Seq(Documents)
ASSUME DocumentsAssumption ==
    \A d \in Documents : /\ d = Doc(d.type, d.ext, d.partner, d.date, d.currency, d.lines)
                         /\ d.lines \in Seq(ToSet(d.lines))
ASSUME NoneAssumption ==
    \A d \in Documents, s \in Statuses :
        None # [header |-> Header(d), status |-> s] /\ None # [doc |-> d, status |-> s]
ASSUME NewStatusesAssumption == NewStatuses \subseteq Statuses
ASSUME FaultAssumption == Faults \subseteq FaultKinds /\ MaxFaults \in Nat

VARIABLES
    \* Staging database, as it is committed
    invoice,        \* invoice[k]: the header of the document with key k, and its status
    invoice_line,   \* invoice_line[k]: its rows, by id
    \* The processes
    pc,         \* where each is
    source,     \* the file it was given
    parsed,     \* what its parser returned
    todo,       \* the documents still to be staged
    tx,         \* its open transaction, if any, with what it has inserted
    report,     \* its IngestReport
    faults

store == <<invoice, invoice_line>>
procs == <<pc, source, parsed, todo, tx, report>>
vars == <<store, procs, faults>>

PCs == {"start", "doc", "lines", "done", "error", "crash"}
Ended == {"done", "error", "crash"}

Keys == {Key(d) : d \in Documents}

\* A document that is left after dedup, with its key.
Entry(d) == [key |-> Key(d), doc |-> d]
AllEntries == {Entry(d) : d \in Documents}
ToStage(ds) == LET kept == Dedup(ds) IN [i \in DOMAIN kept |-> Entry(kept[i])]

\* parse_file of each file: the documents, and what of them is to be staged.
Parses ==
    UNION {{[of |-> f, docs |-> ds, todo |-> ToStage(ds)] : ds \in ParseFile(Content(f))}
           : f \in Files}

NoReport == [parsed |-> 0, staged |-> 0, duplicates |-> 0, rejected |-> 0]

Init ==
    /\ invoice = [k \in Keys |-> None]
    /\ invoice_line = [k \in Keys |-> <<>>]
    /\ pc = [p \in Procs |-> "start"]
    /\ source \in [Procs -> Files] /\ \A p \in Procs : source[p] \in Inbox[p]
    /\ parsed = [p \in Procs |-> {}]
    /\ todo = [p \in Procs |-> <<>>]
    /\ tx = [p \in Procs |-> <<>>]
    /\ report = [p \in Procs |-> NoReport]
    /\ faults = 0

Fault(kind) == kind \in Faults /\ faults < MaxFaults /\ faults' = faults + 1
NoFault == UNCHANGED faults

GoTo(p, label) == pc' = [pc EXCEPT ![p] = label]

-------------------------------------------------------------------------------
(* ingest_file                                                                  *)

\* parse_file fails on a file without a parse; dedup.
Parse(p) ==
    /\ pc[p] = "start"
    /\ \/ /\ \A parse \in Parses : parse.of # source[p]
          /\ GoTo(p, "error")
          /\ UNCHANGED <<parsed, todo, report>>
       \/ \E parse \in Parses :
              /\ parse.of = source[p]
              /\ GoTo(p, "doc")
              /\ parsed' = [parsed EXCEPT ![p] = {parse.docs}]
              /\ todo' = [todo EXCEPT ![p] = parse.todo]
              /\ report' = [report EXCEPT ![p].parsed = Len(parse.docs),
                                          ![p].duplicates = Len(parse.docs) - Len(parse.todo)]
    /\ UNCHANGED <<store, source, tx, faults>>

\* MUTANT of Counted: a document that was there already counts as staged.
Counted_AlwaysStaged(r, d, inserted) ==
    IF Accepted(d) THEN [r EXCEPT !.staged = @ + 1] ELSE [r EXCEPT !.rejected = @ + 1]

\* The report after a document: a rejected one counts as such, even if it was
\* there already.
Counted(r, d, inserted) ==
    CASE ~Accepted(d) -> [r EXCEPT !.rejected = @ + 1]
      [] Accepted(d) /\ inserted -> [r EXCEPT !.staged = @ + 1]
      [] Accepted(d) /\ ~inserted -> [r EXCEPT !.duplicates = @ + 1]

Upserted(p, inserted) ==
    /\ report' = [report EXCEPT ![p] = Counted(@, Head(todo[p]).doc, inserted)]
    /\ todo' = [todo EXCEPT ![p] = Tail(@)]

\* The INSERT of a key that another transaction has inserted waits for its end.
Locked(p, k) == \E q \in Procs \ {p} : tx[q] # <<>> /\ tx[q][1].key = k

Transaction(e) ==
    [key |-> e.key, doc |-> e.doc, lines |-> <<>>,
     status |-> IF Accepted(e.doc) THEN "validated" ELSE "failed"]

\* MUTANT of Exists: ON CONFLICT DO UPDATE.
Exists_Never(k) == FALSE

Exists(k) == invoice[k] # None

\* upsert, its first statement: on a conflict it does nothing.
Insert(p) ==
    /\ pc[p] = "doc"
    /\ todo[p] # <<>>
    /\ LET k == Head(todo[p]).key
       IN /\ ~Locked(p, k)
          /\ IF Exists(k)
             THEN Upserted(p, FALSE) /\ UNCHANGED <<pc, tx>>
             ELSE /\ tx' = [tx EXCEPT ![p] = <<Transaction(Head(todo[p]))>>]
                  /\ GoTo(p, "lines")
                  /\ UNCHANGED <<todo, report>>
    /\ UNCHANGED <<store, source, parsed, faults>>

AllInserted(p) == Len(tx[p][1].lines) = Len(tx[p][1].doc.lines)

InsertLine(p) ==
    /\ pc[p] = "lines"
    /\ ~AllInserted(p)
    /\ tx' = [tx EXCEPT ![p][1].lines = Append(@, tx[p][1].doc.lines[Len(@) + 1])]
    /\ UNCHANGED <<store, pc, source, parsed, todo, report, faults>>

Visible(p) ==
    LET t == tx[p][1]
    IN /\ invoice' = [invoice EXCEPT ![t.key] = [header |-> Header(t.doc), status |-> t.status]]
       /\ invoice_line' = [invoice_line EXCEPT ![t.key] = t.lines]

\* The event_log row and the commit.
Commit(p) ==
    /\ pc[p] = "lines"
    /\ AllInserted(p)
    /\ Visible(p)
    /\ tx' = [tx EXCEPT ![p] = <<>>]
    /\ \/ NoFault /\ Upserted(p, TRUE) /\ GoTo(p, "doc")
       \/ Fault("reply") /\ GoTo(p, "error") /\ UNCHANGED <<todo, report>>
    /\ UNCHANGED <<source, parsed>>

\* MUTANT of RolledBack: the transaction stays open, its keys locked.
RolledBack_Never(p) == UNCHANGED tx

RolledBack(p) == tx' = [tx EXCEPT ![p] = <<>>]

\* MUTANT of Fails: an error of the store ends the document, not the file.
Fails_PassedOver(p) ==
    /\ pc[p] \in {"doc", "lines"}
    /\ todo[p] # <<>>
    /\ Fault("staging")
    /\ GoTo(p, "doc")
    /\ todo' = [todo EXCEPT ![p] = Tail(@)]
    /\ RolledBack(p)
    /\ UNCHANGED <<store, source, parsed, report>>

\* An error of the store ends the file: what was not staged yet is not.
Fails(p) ==
    /\ pc[p] \in {"doc", "lines"}
    /\ \/ Fault("staging") /\ GoTo(p, "error")
       \/ Fault("crash") /\ GoTo(p, "crash")
    /\ RolledBack(p)
    /\ UNCHANGED <<store, source, parsed, todo, report>>

Finish(p) ==
    /\ pc[p] = "doc"
    /\ todo[p] = <<>>
    /\ GoTo(p, "done")
    /\ UNCHANGED <<store, source, parsed, todo, tx, report, faults>>

Step(p) == Parse(p) \/ Insert(p) \/ InsertLine(p) \/ Commit(p) \/ Finish(p)

-------------------------------------------------------------------------------
(* The orchestrator                                                             *)

\* update_status, whatever the status was before.
UpdateStatus(k, status) ==
    /\ invoice[k] # None
    /\ invoice' = [invoice EXCEPT ![k].status = status]
    /\ UNCHANGED <<invoice_line, procs, faults>>

\* requeue_invalid_and_failed, of rejected documents as well.
Requeue ==
    /\ invoice' = [k \in Keys |-> IF invoice[k] # None /\ invoice[k].status \in {"invalid", "failed"}
                                  THEN [invoice[k] EXCEPT !.status = "validated"] ELSE invoice[k]]
    /\ UNCHANGED <<invoice_line, procs, faults>>

Next ==
    \/ \E p \in Procs : Step(p) \/ Fails(p)
    \/ \E k \in Keys, status \in NewStatuses : UpdateStatus(k, status)
    \/ Requeue

Spec == Init /\ [][Next]_vars

\* A process runs on until its file is done.
FairSpec == Spec /\ \A p \in Procs : WF_vars(Step(p))

-------------------------------------------------------------------------------
(* Properties                                                                   *)

(* Every variable keeps its type.                                               *)
TypeOK ==
    /\ \A k \in Keys : invoice[k] # None => invoice[k].status \in Statuses
    /\ pc \in [Procs -> PCs] /\ faults \in 0 .. MaxFaults
    /\ \A p \in Procs : tx[p] # <<>> <=> pc[p] = "lines"
    /\ source \in [Procs -> Files]

(* The staging store only ever stages a document whole, once, and then moves    *)
(* its status, whatever processes ingest the same keys at once, fail or crash   *)
(* ("a safe no-op - the basis for idempotent reruns", staging.rs:51-53).        *)
Staged ==
    [k \in Keys |-> IF invoice[k] = None THEN None
                    ELSE [doc |-> [invoice[k].header EXCEPT !.lines = invoice_line[k]],
                          status |-> invoice[k].status]]

Promise == INSTANCE OnceStaged WITH Entries <- AllEntries, staged <- Staged

StagesOnce == Promise!Spec

AcceptedRows == {k \in Keys : invoice[k] # None /\ Accepted(Staged[k].doc)}

\* Each process has counted as staged what it has staged, and no two the same row.
EachCountedOnce ==
    \E uncounted \in SUBSET AcceptedRows :
        /\ Cardinality(uncounted) <= faults
        /\ \E countedBy \in [AcceptedRows \ uncounted -> Procs] : \A p \in Procs :
               report[p].staged = Cardinality({k \in AcceptedRows \ uncounted : countedBy[k] = p})

(* The reports of all the processes add up to what is staged: no two of them    *)
(* count one document as staged, and each accounts for every document of its    *)
(* file (lib.rs:24-31).  A lost answer to a commit may leave one uncounted.     *)
ReportsTrue ==
    /\ \A p \in Procs : pc[p] = "done" =>
           report[p].parsed = report[p].staged + report[p].duplicates + report[p].rejected
    /\ EachCountedOnce

(* When a process is done, every document of its file is staged, by itself or   *)
(* by another, whatever became of the other.                                    *)
DoneIsStaged ==
    \A p \in Procs : pc[p] = "done" =>
        \A ds \in parsed[p] : \A i \in DOMAIN ds : invoice[Key(ds[i])] # None

(* What a parser makes of a well-formed file is what its sender has put into    *)
(* it, whatever the format, its variants, delimiters and order of elements      *)
(* (parsers/*.rs), the date of a CII file as it is written.  Nothing is claimed *)
(* of any other file: a bad row or object takes the good ones with it, which    *)
(* docs/architecture.md:13 does not want, and only the last of several EDIFACT  *)
(* messages leaves its number.                                                  *)
ParsedAsWritten ==
    \A p \in Procs : pc[p] # "start" /\ Wrote(source[p]) # {} => parsed[p] = Wrote(source[p])

(* Each process comes to an end: waiting for the transactions of the others     *)
(* never stops them all (staging.rs:433-476, one transaction per document).     *)
IngestEnds == \A p \in Procs : pc[p] = "start" ~> pc[p] \in Ended
===============================================================================

--------------------------- MODULE OrchestratorProofs ---------------------------
(* Proofs of the safety of Orchestrator, for any number of documents, chunks,   *)
(* post tasks, runs and faults: types, failures that are explained, document    *)
(* numbers that are recorded, chunks in flight, documents that count as posted, *)
(* documents imported once, and drafts that are told apart.                     *)
EXTENDS Orchestrator, FiniteSetTheorems, TLAPS

-------------------------------------------------------------------------------
(* The type invariant                                                           *)

Batches == Nat \X Nat
Rows == [entry : Nat, batch : Batches, ext : Exts, success : BOOLEAN]
Maps == UNION {[S -> Docs] : S \in SUBSET Exts}

TaskRecords ==
    [batch : Batches, map : Maps, pc : TaskPCs, flip : SUBSET Docs, flipped : BOOLEAN,
     kinds : SUBSET Kinds, polling : SUBSET Kinds, rows : SUBSET Rows]

NewDrafts == [coded : BOOLEAN, postable : BOOLEAN]

IsDraft(x) ==
    /\ DOMAIN x = {"id", "doc", "posted", "batch", "postable"}
    /\ x.doc \in Docs /\ x.batch \in Batches /\ x.posted \in BOOLEAN /\ x.postable \in BOOLEAN

IsJob(j) == DOMAIN j = {"batch", "kind", "todo"} /\ j.kind \in Kinds

StagingTypes == status \in [Docs -> Statuses] /\ errors \subseteq Docs /\ bcNo \subseteq Docs

BcTypes ==
    /\ \A x \in drafts : IsDraft(x)
    /\ \A j \in jobs : IsJob(j)
    /\ results \subseteq Rows /\ IsFiniteSet(results)

MainTypes ==
    /\ run \in 0 .. MaxRuns /\ chunkIdx \in Nat /\ seen \subseteq Docs
    /\ main \in {"down", "fetch", "import", "wait", "join"}
    /\ imp \in [Docs -> ImpPCs]
    /\ tasks \in Seq(TaskRecords)
    /\ lastEnd \in {"none", "complete", "error", "crash"}

FaultTypes == faults \in 0 .. MaxFaults

\* Import futures run only while their chunk is imported; post tasks are those
\* of a process that runs.
Idle ==
    /\ main # "import" => imp = [d \in Docs |-> "none"]
    /\ main = "down" => tasks = <<>>

Types == StagingTypes /\ BcTypes /\ MainTypes /\ FaultTypes /\ Idle

(* A fault is one more of at most MaxFaults.                                    *)
LEMMA FaultStep ==
  ASSUME FaultTypes, NoFault \/ \E kind \in FaultKinds : Fault(kind)
  PROVE  FaultTypes'
  BY BoundAssumption DEF FaultTypes, NoFault, Fault

(* A write, of whatever outcome, takes a fault or none.                         *)
LEMMA WriteStep ==
  ASSUME FaultTypes, NEW d, Writes(d) \/ WriteFails(d) \/ WriteLost(d)
  PROVE  FaultTypes'
  BY FaultStep DEF Writes, WriteFails, WriteLost, FaultKinds

(* The Leftovers of an import: a sequence of drafts, and a few faults.          *)
LEMMA LeftoversType ==
  ASSUME NEW way, NEW ok \in BOOLEAN, NEW left \in Leftovers(way, ok)
  PROVE  /\ left.drafts \in Seq(NewDrafts)
         /\ left.faults \subseteq {"reply", "retry"}
  <1>1. Bare(way) \in NewDrafts /\ Partial(way) \in NewDrafts /\ Whole \in NewDrafts
    BY DEF Bare, Partial, Whole, Draft, NewDrafts
  <1>2. \A l \in Rejected(way) \union {Left(<<Whole>>, {})} :
            l.drafts \in Seq(NewDrafts) /\ l.faults \subseteq {"reply"}
    <2> SUFFICES ASSUME NEW l \in Rejected(way) \union {Left(<<Whole>>, {})}
                 PROVE  l.drafts \in Seq(NewDrafts) /\ l.faults \subseteq {"reply"}
      OBVIOUS
    <2>1. PICK made \in {<<>>, <<Bare(way)>>, <<Partial(way)>>, <<Whole>>},
               took \in {{}, {"reply"}} : l = Left(made, took)
      BY DEF Rejected
    <2>2. \A m \in {<<>>, <<Bare(way)>>, <<Partial(way)>>, <<Whole>>} : m \in Seq(NewDrafts)
      <3>1. \A x \in NewDrafts : <<x>> \in Seq(NewDrafts)
        OBVIOUS
      <3>2. <<>> \in Seq(NewDrafts)
        OBVIOUS
      <3> QED
        BY <1>1, <3>1, <3>2
    <2>3. l.drafts = made /\ l.faults = took
      BY <2>1 DEF Left
    <2> QED
      BY <2>2, <2>3
  <1>3. PICK l \in Rejected(way) \union {Left(<<Whole>>, {})} :
            left = l \/ left = Left(<<Bare(way)>> \o l.drafts, l.faults \union {"retry"})
    BY DEF Leftovers
  <1>4. l.drafts \in Seq(NewDrafts) /\ l.faults \subseteq {"reply"}
    BY <1>2, <1>3
  <1>5. <<Bare(way)>> \o l.drafts \in Seq(NewDrafts)
    BY <1>1, <1>4
  <1>6. CASE left = l
    BY <1>4, <1>6
  <1>7. CASE left = Left(<<Bare(way)>> \o l.drafts, l.faults \union {"retry"})
    <2>1. left.drafts = <<Bare(way)>> \o l.drafts /\ left.faults = l.faults \union {"retry"}
      BY <1>7 DEF Left
    <2> QED
      BY <1>4, <1>5, <2>1
  <1> QED
    BY <1>3, <1>6, <1>7

(* New drafts are drafts.                                                       *)
LEMMA DraftedType ==
  ASSUME MainTypes, NEW d \in Docs, NEW new \in Seq(NewDrafts)
  PROVE  \A x \in Drafted(d, new) : IsDraft(x) /\ x.doc = d /\ ~x.posted
  <1> SUFFICES ASSUME NEW n \in DOMAIN new
               PROVE  LET x == [id |-> <<d, Cardinality(DraftsOf(d)) + n>>, doc |-> d, posted |-> FALSE,
                                batch |-> IF new[n].coded THEN ChunkCode ELSE NoBatch,
                                postable |-> new[n].postable]
                      IN IsDraft(x) /\ x.doc = d /\ ~x.posted
    BY DEF Drafted
  <1>1. new[n].postable \in BOOLEAN /\ new[n].coded \in BOOLEAN
    <2>1. new[n] \in NewDrafts
      OBVIOUS
    <2> QED
      BY <2>1 DEF NewDrafts
  <1>2. ChunkCode \in Batches /\ NoBatch \in Batches
    BY BoundAssumption DEF MainTypes, ChunkCode, NoBatch, Batches
  <1> QED
    BY <1>1, <1>2 DEF IsDraft

(* What a crash may leave of each import that was under way.                    *)
LEMMA CutShortType ==
  ASSUME NEW way, NEW cut \in CutShort(way)
  PROVE  cut \in Seq(NewDrafts)
  BY LeftoversType DEF CutShort

(* The process starts with nothing staged attempted, and nothing in flight.     *)
LEMMA TypesInit == Init => Types
  <1> SUFFICES ASSUME Init PROVE Types
    OBVIOUS
  <1>1. IsFiniteSet(results)
    BY FS_EmptySet DEF Init
  <1> QED
    BY <1>1, BoundAssumption DEF Init, Types, StagingTypes, BcTypes, MainTypes, FaultTypes, Idle,
                                 Statuses, ImpPCs

(* The main task keeps the types.                                               *)
LEMMA TypesMain ==
  ASSUME Types,
         (\E reprocess \in BOOLEAN : Start(reprocess)) \/ MainStep \/ FetchFails \/ Crash
  PROVE  Types'
  <1> USE DEF Types, StagingTypes, MainTypes, FaultTypes, Idle, staging, bc, memory
  <1>0. UNCHANGED bc => BcTypes'
    BY DEF BcTypes
  <1>1. CASE \E reprocess \in BOOLEAN : Start(reprocess)
    <2>1. StagingTypes'
      BY <1>1 DEF Start, Statuses
    <2>2. MainTypes'
      BY <1>1, BoundAssumption DEF Start
    <2> QED
      BY <1>1, <1>0, <2>1, <2>2 DEF Start
  <1>2. CASE FetchChunk
    <2>1. Fresh \subseteq Docs
      BY DEF Fresh, Page, Validated
    <2>2. MainTypes'
      BY <1>2, <2>1 DEF FetchChunk, ImpPCs
    <2> QED
      BY <1>2, <1>0, <2>2 DEF FetchChunk
  <1>3. CASE ChunkImported
    <2>1. ASSUME NEW m \in ChunkMaps PROVE NewTask(m) \in TaskRecords
      <3>1. Imported \subseteq Docs
        BY DEF Imported, Chunk
      <3>2. {Ext[d] : d \in Imported} \subseteq Exts
        BY <3>1, ExtAssumption
      <3>3. m \in [{Ext[d] : d \in Imported} -> Docs]
        BY <3>1 DEF ChunkMaps
      <3>4. m \in Maps /\ {m[x] : x \in DOMAIN m} \subseteq Docs
        BY <3>2, <3>3 DEF Maps
      <3>5. {Kind[d] : d \in Imported} \subseteq Kinds
        BY <3>1, KindAssumption
      <3>6. ChunkCode \in Batches
        BY BoundAssumption DEF ChunkCode, Batches
      <3> QED
        BY <3>4, <3>5, <3>6 DEF NewTask, TaskRecords, TaskPCs
    <2>2. tasks' \in Seq(TaskRecords)
      BY <1>3, <2>1 DEF ChunkImported
    <2>3. MainTypes'
      BY <1>3, <2>2 DEF ChunkImported, ImpPCs
    <2> QED
      BY <1>3, <1>0, <2>3 DEF ChunkImported
  <1>4. CASE Backpressure
    <2>1. TooMany => Tail(tasks) \in Seq(TaskRecords)
      BY SizeAssumption DEF TooMany
    <2> QED
      BY <1>4, <1>0, <2>1 DEF Backpressure
  <1>5. CASE Join
    <2>1. FaultTypes'
      BY <1>5, FaultStep DEF Join, FaultKinds
    <2> QED
      <3>1. CASE tasks = <<>>
        BY <1>5, <1>0, <2>1, <3>1 DEF Join, Exit, ImpPCs
      <3>2. CASE tasks # <<>>
        <4>1. Tail(tasks) \in Seq(TaskRecords) /\ tasks' = Tail(tasks)
          BY <1>5, <3>2 DEF Join
        <4> QED
          BY <1>5, <1>0, <2>1, <3>2, <4>1 DEF Join
      <3> QED
        BY <3>1, <3>2
  <1>6. CASE FetchFails
    BY <1>6, <1>0, FaultStep DEF FetchFails, Exit, FaultKinds, ImpPCs
  <1>7. CASE Crash
    <2>1. \A x \in drafts' : IsDraft(x)
      <3>1. PICK cut \in [Importing -> UNION {CutShort(Way(d)) : d \in Importing}] :
                /\ \A d \in Importing : cut[d] \in CutShort(Way(d))
                /\ drafts' = drafts \union UNION {Drafted(d, cut[d]) : d \in Importing}
        BY <1>7 DEF Crash
      <3>2. \A d \in Importing : d \in Docs /\ cut[d] \in Seq(NewDrafts)
        BY <3>1, CutShortType DEF Importing
      <3>3. \A d \in Importing : \A x \in Drafted(d, cut[d]) : IsDraft(x)
        BY <3>2, DraftedType
      <3> QED
        BY <3>1, <3>3 DEF BcTypes
    <2>2. BcTypes'
      BY <1>7, <2>1 DEF Crash, Exit, BcTypes
    <2>3. FaultTypes'
      BY <1>7, FaultStep DEF Crash, FaultKinds
    <2> QED
      BY <1>7, <2>2, <2>3 DEF Crash, Exit, ImpPCs
  <1> QED
    BY <1>1, <1>2, <1>3, <1>4, <1>5, <1>6, <1>7 DEF MainStep

(* The import futures keep them.                                                *)
LEMMA TypesImport ==
  ASSUME Types, NEW d \in Docs, ImportStep(d)
  PROVE  Types'
  <1> USE DEF Types, StagingTypes, MainTypes, FaultTypes, Idle, staging, bc, memory, RestOfImport
  <1>0. UNCHANGED bc => BcTypes'
    BY DEF BcTypes
  <1>1. CASE Validate(d)
    <2>1. FaultTypes'
      BY <1>1, FaultStep DEF Validate, FaultKinds
    <2> QED
      BY <1>1, <1>0, <2>1 DEF Validate, Future, NextImp, ImpPCs
  <1>2. ASSUME NEW label, NEW then \in ImpPCs, RecordErrors(d, label, then) PROVE Types'
    <2>1. FaultTypes'
      BY <1>2, WriteStep DEF RecordErrors
    <2> QED
      BY <1>2, <1>0, <2>1 DEF RecordErrors, Future, NextImp, ImpPCs
  <1>3. ASSUME NEW label, NEW new \in Statuses, NEW outcome \in ImpPCs, SetStatus(d, label, new, outcome)
        PROVE  Types'
    <2>1. FaultTypes'
      BY <1>3, WriteStep DEF SetStatus
    <2> QED
      BY <1>3, <1>0, <2>1 DEF SetStatus, Future, NextImp, ImpPCs
  <1>4. CASE ImportOne(d)
    <2>0. PICK ok \in BOOLEAN : \E left \in Leftovers(Way(d), ok) :
              /\ faults' = faults + Cardinality(left.faults) /\ faults' <= MaxFaults
              /\ drafts' = drafts \union Drafted(d, left.drafts)
              /\ NextImp(d, IF ok THEN "number" ELSE "reject")
      BY <1>4 DEF ImportOne
    <2>1. PICK left \in Leftovers(Way(d), ok) :
              /\ faults' = faults + Cardinality(left.faults) /\ faults' <= MaxFaults
              /\ drafts' = drafts \union Drafted(d, left.drafts)
              /\ NextImp(d, IF ok THEN "number" ELSE "reject")
      BY <2>0
    <2>2. left.drafts \in Seq(NewDrafts) /\ left.faults \subseteq {"reply", "retry"}
      BY <2>1, LeftoversType
    <2>3. Cardinality(left.faults) \in Nat
      <3>1. IsFiniteSet({"reply"} \union {"retry"})
        BY FS_Singleton, FS_Union
      <3>2. {"reply"} \union {"retry"} = {"reply", "retry"}
        OBVIOUS
      <3>3. IsFiniteSet(left.faults)
        BY <2>2, <3>1, <3>2, FS_Subset
      <3> QED
        BY <3>3, FS_CardinalityType
    <2>4. FaultTypes'
      BY <2>1, <2>3, BoundAssumption
    <2>5. \A x \in drafts' : IsDraft(x)
      BY <2>1, <2>2, DraftedType DEF BcTypes
    <2>6. BcTypes'
      BY <1>4, <2>5 DEF ImportOne, BcTypes
    <2> QED
      BY <1>4, <2>1, <2>4, <2>6 DEF ImportOne, Future, NextImp, ImpPCs
  <1>5. CASE SetBcDocumentNo(d)
    <2>1. FaultTypes'
      BY <1>5, WriteStep DEF SetBcDocumentNo
    <2> QED
      BY <1>5, <1>0, <2>1 DEF SetBcDocumentNo, Future, NextImp, ImpPCs
  <1> QED
    BY <1>1, <1>2, <1>3, <1>4, <1>5 DEF ImportStep, RejectImport, ImpPCs, Statuses

(* A task record keeps its type under the changes that steps make to it.        *)
LEMMA TaskChanges ==
  ASSUME Types, NEW i \in DOMAIN tasks, NEW t \in TaskRecords,
         tasks' = [tasks EXCEPT ![i] = t]
  PROVE  tasks' \in Seq(TaskRecords) /\ Len(tasks') = Len(tasks) /\ DOMAIN tasks' = DOMAIN tasks
  BY DEF Types, MainTypes

(* A trigger, or `run` sent again, ends the task, or moves a kind of it on to   *)
(* the polling; it starts one job or none.                                      *)
LEMMA TriggerMoves ==
  ASSUME Types, NEW i \in DOMAIN tasks, NEW k \in Kinds, Trigger(i, k) \/ Rerun(i, k)
  PROVE  /\ \E u \in TaskRecords :
                /\ tasks' = [tasks EXCEPT ![i] = u]
                /\ u.map = tasks[i].map /\ u.flip = tasks[i].flip /\ u.rows = tasks[i].rows
         /\ jobs' \in {jobs, Started(i, k)}
         /\ NoFault \/ \E kind \in FaultKinds : Fault(kind)
  <1> DEFINE t == tasks[i]
             Moved == {[t EXCEPT !.pc = "done"],
                       [t EXCEPT !.polling = @ \union {k}],
                       [t EXCEPT !.kinds = @ \ {k}, !.polling = @ \union {k},
                                 !.pc = IF @ = "trigger" /\ t.kinds = {k} THEN "poll" ELSE @]}
  <1>1. t \in TaskRecords
    BY DEF Types, MainTypes
  <1>2. \A u \in Moved : u \in TaskRecords /\ u.map = t.map /\ u.flip = t.flip /\ u.rows = t.rows
    <2> DEFINE Same(u) == u \in TaskRecords /\ u.map = t.map /\ u.flip = t.flip /\ u.rows = t.rows
    <2>1. Same([t EXCEPT !.pc = "done"])
      BY <1>1 DEF TaskRecords, TaskPCs
    <2>2. Same([t EXCEPT !.polling = @ \union {k}])
      BY <1>1 DEF TaskRecords
    <2>3. Same([t EXCEPT !.kinds = @ \ {k}, !.polling = @ \union {k},
                         !.pc = IF @ = "trigger" /\ t.kinds = {k} THEN "poll" ELSE @])
      BY <1>1 DEF TaskRecords, TaskPCs
    <2> HIDE DEF Same
    <2>4. \A u \in Moved : Same(u)
      BY <2>1, <2>2, <2>3
    <2> QED
      BY <2>4 DEF Same
  <1>3. \E u \in Moved : tasks' = [tasks EXCEPT ![i] = u]
    BY DEF Trigger, Rerun, Triggered, Abort
  <1> HIDE DEF Moved
  <1>4. jobs' \in {jobs, Started(i, k)}
    BY DEF Trigger, Rerun
  <1>5. NoFault \/ \E kind \in FaultKinds : Fault(kind)
    BY DEF Trigger, Rerun, FaultKinds
  <1> QED
    BY <1>2, <1>3, <1>4, <1>5

(* The post tasks keep the types.                                               *)
LEMMA TypesTask ==
  ASSUME Types, NEW i \in DOMAIN tasks, TaskStep(i)
  PROVE  Types'
  <1> USE DEF StagingTypes, MainTypes, FaultTypes, Idle, staging, bc, memory, RestOfTask
  <1>0. UNCHANGED bc => BcTypes'
    BY DEF BcTypes, Types
  <1> DEFINE t == tasks[i]
  <1>00. t \in TaskRecords
    BY DEF Types
  <1>000. t.map \in Maps /\ \A x \in DOMAIN t.map : t.map[x] \in Docs
    BY <1>00 DEF TaskRecords, Maps
  <1>1. ASSUME NEW u \in TaskRecords, tasks' = [tasks EXCEPT ![i] = u],
               StagingTypes', BcTypes', FaultTypes',
               main # "down", UNCHANGED RestOfTask
        PROVE  Types'
    BY <1>1, TaskChanges DEF Types
  <1> HIDE DEF Idle
  <1>2. [t EXCEPT !.pc = "done"] \in TaskRecords
    BY <1>00 DEF TaskRecords, TaskPCs
  <1>3. ASSUME NEW d \in Docs, Flip(i, d) PROVE Types'
    <2>1. FaultTypes'
      BY <1>3, WriteStep DEF Flip, Types
    <2>2. StagingTypes'
      BY <1>3 DEF Flip, Types, Statuses
    <2>3. \E u \in {[t EXCEPT !.flip = @ \ {d}], [t EXCEPT !.flip = @ \ {d}, !.flipped = FALSE]} :
              tasks' = [tasks EXCEPT ![i] = u]
      BY <1>3 DEF Flip
    <2>4. \A u \in {[t EXCEPT !.flip = @ \ {d}], [t EXCEPT !.flip = @ \ {d}, !.flipped = FALSE]} :
              u \in TaskRecords
      BY <1>00 DEF TaskRecords
    <2> QED
      BY <1>3, <1>0, <1>1, <2>1, <2>2, <2>3, <2>4 DEF Flip, Task
  <1>4. CASE Flipped(i)
    <2>1. [t EXCEPT !.pc = IF t.flipped THEN "trigger" ELSE "done"] \in TaskRecords
      BY <1>00 DEF TaskRecords, TaskPCs
    <2> QED
      BY <1>4, <1>0, <1>1, <2>1 DEF Flipped, Task, Types
  <1>5. ASSUME NEW k \in Kinds, Trigger(i, k) \/ Rerun(i, k) PROVE Types'
    <2>1. /\ \E u \in TaskRecords : tasks' = [tasks EXCEPT ![i] = u]
          /\ jobs' \in {jobs, Started(i, k)}
          /\ NoFault \/ \E kind \in FaultKinds : Fault(kind)
      BY <1>5, TriggerMoves
    <2>2. \A j \in Started(i, k) : IsJob(j)
      BY DEF Started, IsJob, Types, BcTypes
    <2>3. BcTypes'
      BY <1>5, <2>1, <2>2 DEF Trigger, Rerun, Types, BcTypes
    <2>4. FaultTypes'
      BY <2>1, FaultStep DEF Types
    <2>5. StagingTypes' /\ main # "down" /\ UNCHANGED RestOfTask
      BY <1>5 DEF Trigger, Rerun, Task, Types
    <2> QED
      BY <1>1, <2>1, <2>3, <2>4, <2>5
  <1>6. ASSUME NEW k \in Kinds, Poll(i, k) PROVE Types'
    <2>1. [t EXCEPT !.polling = @ \ {k}] \in TaskRecords
      BY <1>00 DEF TaskRecords
    <2>2. \/ tasks' = [tasks EXCEPT ![i] = [t EXCEPT !.polling = @ \ {k}]]
          \/ tasks' = [tasks EXCEPT ![i] = [t EXCEPT !.pc = "done"]]
      BY <1>6 DEF Poll, Abort
    <2>3. FaultTypes'
      BY <1>6, FaultStep DEF Poll, FaultKinds, Types
    <2>4. StagingTypes' /\ BcTypes' /\ main # "down" /\ UNCHANGED RestOfTask
      BY <1>6, <1>0 DEF Poll, Task, Types
    <2> QED
      BY <1>1, <1>2, <2>1, <2>2, <2>3, <2>4
  <1>7. CASE ListPostResults(i)
    <2> DEFINE u == [t EXCEPT !.pc = "apply", !.rows = {r \in results : r.batch = t.batch}]
    <2>1. u \in TaskRecords
      BY <1>00 DEF TaskRecords, TaskPCs, Types, BcTypes
    <2>2. tasks' = [tasks EXCEPT ![i] = u] \/ tasks' = [tasks EXCEPT ![i] = [t EXCEPT !.pc = "done"]]
      BY <1>7 DEF ListPostResults, Abort
    <2>3. FaultTypes'
      BY <1>7, FaultStep DEF ListPostResults, FaultKinds, Types
    <2>4. StagingTypes' /\ BcTypes' /\ main # "down" /\ UNCHANGED RestOfTask
      BY <1>7, <1>0 DEF ListPostResults, Task, Types
    <2> QED
      BY <1>1, <1>2, <2>1, <2>2, <2>3, <2>4
  <1>8. ASSUME NEW r \in tasks[i].rows, ApplyRow(i, r), main # "down", UNCHANGED <<bcNo, bc, RestOfTask>>
        PROVE  Types'
    <2> DEFINE d == t.map[r.ext]
    <2>1. [t EXCEPT !.rows = @ \ {r}] \in TaskRecords
      BY <1>00 DEF TaskRecords
    <2>2. \/ tasks' = [tasks EXCEPT ![i] = [t EXCEPT !.rows = @ \ {r}]]
          \/ tasks' = [tasks EXCEPT ![i] = [t EXCEPT !.pc = "done"]]
      BY <1>8 DEF ApplyRow, RowApplied, Abort
    <2>3. FaultTypes'
      BY <1>8, WriteStep DEF ApplyRow, Types
    <2>4. \/ UNCHANGED <<status, errors>>
          \/ d \in Docs /\ Applied(d, r)
          \/ d \in Docs /\ UNCHANGED status /\ errors' \in {errors, errors \union {d}}
      BY <1>8, <1>000 DEF ApplyRow
    <2>5. StagingTypes'
      BY <1>8, <2>4 DEF Applied, Types, Statuses
    <2> QED
      BY <1>0, <1>1, <1>2, <1>8, <2>1, <2>2, <2>3, <2>5
  <1>9. CASE Reconciled(i)
    BY <1>9, <1>0, <1>1, <1>2 DEF Reconciled, Abort, Task, Types
  <1> QED
    BY <1>3, <1>4, <1>5, <1>6, <1>7, <1>8, <1>9 DEF TaskStep, ApplyNext, Task

(* The sessions of the jobs keep them.                                          *)
LEMMA TypesJob ==
  ASSUME Types, NEW j \in jobs, JobStep(j) \/ SessionDies(j)
  PROVE  Types'
  <1> USE DEF StagingTypes, MainTypes, Idle, staging, memory
  <1>1. ASSUME BcTypes', FaultTypes', UNCHANGED <<staging, run, main, memory, lastEnd>>
        PROVE  Types'
    BY <1>1 DEF Types
  <1>2. ASSUME NEW x \in drafts PROVE IsDraft([x EXCEPT !.posted = TRUE])
    BY DEF IsDraft, Types, BcTypes
  <1>3. \A S : IsJob([j EXCEPT !.todo = S])
    BY DEF IsJob, Types, BcTypes
  <1>4. CASE JobEnds(j)
    BY <1>1, <1>4 DEF JobEnds, Types, BcTypes, FaultTypes
  <1>5. ASSUME NEW x \in drafts, PostDraft(j, x) PROVE Types'
    <2>1. \A ok \in BOOLEAN : Outcome(x, ok) \subseteq Rows /\ IsFiniteSet(Outcome(x, ok))
      <3>1. Cardinality(results) + 1 \in Nat
        BY FS_CardinalityType DEF Types, BcTypes
      <3>2. x.batch \in Batches /\ BcCode[Ext[x.doc]] \in Exts
        BY ExtAssumption DEF Types, BcTypes, IsDraft
      <3> QED
        <4> SUFFICES ASSUME NEW ok \in BOOLEAN
                     PROVE  Outcome(x, ok) \subseteq Rows /\ IsFiniteSet(Outcome(x, ok))
          OBVIOUS
        <4>1. PICK row \in Rows : Outcome(x, ok) = results \union {row}
          BY <3>1, <3>2 DEF Outcome, Rows
        <4> QED
          BY <4>1, FS_AddElement DEF Types, BcTypes
    <2>2. BcTypes'
      BY <1>2, <1>3, <1>5, <2>1 DEF PostDraft, WithoutDraft, Types, BcTypes
    <2> QED
      BY <1>1, <1>5, <2>2 DEF PostDraft, Types, FaultTypes
  <1>6. CASE SessionDies(j)
    <2>1. FaultTypes'
      BY <1>6, FaultStep DEF SessionDies, FaultKinds, Types
    <2>2. BcTypes'
      BY <1>2, <1>6 DEF SessionDies, Types, BcTypes
    <2> QED
      BY <1>1, <1>6, <2>1, <2>2 DEF SessionDies
  <1> QED
    BY <1>4, <1>5, <1>6 DEF JobStep

(* Every step keeps the types.                                                  *)
LEMMA TypesNext == Types /\ [Next]_vars => Types'
  <1> SUFFICES ASSUME Types, [Next]_vars PROVE Types'
    OBVIOUS
  <1>1. CASE UNCHANGED vars
    BY <1>1 DEF vars, staging, bc, memory, Types, StagingTypes, BcTypes, MainTypes, FaultTypes, Idle
  <1> QED
    BY <1>1, TypesMain, TypesImport, TypesTask, TypesJob DEF Next

(* Every variable keeps its type, however many documents, runs and faults there *)
(* are.                                                                         *)
THEOREM TypeCorrect == Spec => []TypeOK
  <1>1. Types => TypeOK
    <2>1. ASSUME NEW t \in TaskRecords PROVE TaskType(t)
      <3>1. t.map \in Maps
        BY DEF TaskRecords
      <3>2. DOMAIN t.map \subseteq Exts /\ \A x \in DOMAIN t.map : t.map[x] \in Docs
        BY <3>1 DEF Maps
      <3> QED
        BY <3>2 DEF TaskRecords, TaskType
    <2> QED
      BY <2>1 DEF Types, StagingTypes, BcTypes, MainTypes, FaultTypes, TypeOK, IsDraft, IsJob
  <1> QED
    BY <1>1, TypesInit, TypesNext, PTL DEF Spec
-------------------------------------------------------------------------------
(* Failures are explained                                                       *)

\* The errors of a document are stored before its future changes the status.
Explained == \A d \in Docs : imp[d] \in {"invalid", "failed"} => d \in errors

(* Every step keeps that: errors are deleted only when nothing is imported.     *)
LEMMA ExplainedNext == Types /\ Explained /\ [Next]_vars => Explained'
  <1> SUFFICES ASSUME Types, Explained, [Next]_vars PROVE Explained'
    OBVIOUS
  <1> USE DEF Types, StagingTypes, MainTypes, Idle, staging, memory
  <1>1. ASSUME UNCHANGED <<status, errors>>,
               \A d \in Docs : imp'[d] \in {"invalid", "failed"} => imp[d] = imp'[d]
        PROVE  Explained'
    BY <1>1 DEF Explained
  <1>2. ASSUME NEW reprocess \in BOOLEAN, Start(reprocess) PROVE Explained'
    BY <1>2 DEF Start, Requeueable, Explained
  <1>3. CASE MainStep \/ FetchFails \/ Crash
    BY <1>1, <1>3 DEF MainStep, FetchFails, Crash, FetchChunk, ChunkImported, Backpressure, Join, Exit
  <1>4. ASSUME NEW d \in Docs, ImportStep(d) PROVE Explained'
    <2>1. CASE Validate(d) \/ ImportOne(d) \/ SetBcDocumentNo(d)
      BY <1>1, <2>1 DEF Validate, ImportOne, SetBcDocumentNo, NextImp
    <2>2. ASSUME NEW label, NEW then, RecordErrors(d, label, then) PROVE Explained'
      BY <2>2 DEF RecordErrors, NextImp, Explained
    <2>3. CASE SetStatus(d, "imported", "imported", "yes")
      BY <2>3 DEF SetStatus, NextImp, Explained
    <2>4. CASE SetStatus(d, "invalid", "invalid", "no") \/ SetStatus(d, "failed", "failed", "no")
      <3>1. d \in errors
        BY <2>4 DEF SetStatus, Future, Explained
      <3> QED
        BY <2>4, <3>1 DEF SetStatus, NextImp, Explained
    <2> QED
      BY <1>4, <2>1, <2>2, <2>3, <2>4 DEF ImportStep, RejectImport
  <1>5. ASSUME NEW i \in DOMAIN tasks, TaskStep(i) PROVE Explained'
    <2> USE DEF RestOfTask
    <2>1. ASSUME NEW d \in Docs, Flip(i, d) PROVE Explained'
      BY <2>1 DEF Flip, Explained
    <2>2. CASE ApplyNext(i)
      <3>1. PICK r \in tasks[i].rows : ApplyRow(i, r)
        BY <2>2 DEF ApplyNext
      <3>2. PICK d : \/ UNCHANGED <<status, errors>>
                     \/ Applied(d, r)
                     \/ UNCHANGED status /\ errors' \in {errors, errors \union {d}}
        BY <3>1 DEF ApplyRow
      <3> QED
        BY <2>2, <3>2 DEF ApplyNext, Applied, Explained
    <2>3. CASE Flipped(i) \/ ListPostResults(i) \/ Reconciled(i) \/ \E k \in Kinds : Trigger(i, k) \/ Rerun(i, k) \/ Poll(i, k)
      BY <1>1, <2>3 DEF Flipped, ListPostResults, Reconciled, Trigger, Rerun, Poll
    <2> QED
      BY <1>5, <2>1, <2>2, <2>3 DEF TaskStep
  <1>6. ASSUME NEW j \in jobs, JobStep(j) \/ SessionDies(j) PROVE Explained'
    BY <1>1, <1>6 DEF JobStep, JobEnds, PostDraft, SessionDies
  <1>7. CASE UNCHANGED vars
    BY <1>1, <1>7 DEF vars
  <1> QED
    BY <1>2, <1>3, <1>4, <1>5, <1>6, <1>7 DEF Next

(* A step that makes a document invalid or failed leaves it with errors, and no *)
(* step takes them away from one that stays so.                                 *)
LEMMA ExplainedStep ==
  ASSUME Types, Explained, [Next]_vars
  PROVE  \A d \in Docs :
             status'[d] \in {"invalid", "failed"} /\ (status'[d] # status[d] \/ d \in errors)
                 => d \in errors'
  <1> DEFINE Keeps(d) == status'[d] \in {"invalid", "failed"} /\ (status'[d] # status[d] \/ d \in errors)
                             => d \in errors'
  <1> SUFFICES \A d \in Docs : Keeps(d)
    OBVIOUS
  <1> USE DEF Types, StagingTypes, MainTypes, Idle, staging, memory
  <1>1. ASSUME UNCHANGED status, errors \subseteq errors' PROVE \A d \in Docs : Keeps(d)
    BY <1>1
  <1>2. ASSUME NEW reprocess \in BOOLEAN, Start(reprocess) PROVE \A d \in Docs : Keeps(d)
    BY <1>2 DEF Start, Requeueable
  <1>3. CASE MainStep \/ FetchFails \/ Crash
    BY <1>1, <1>3 DEF MainStep, FetchFails, Crash, FetchChunk, ChunkImported, Backpressure, Join, Exit
  <1>4. ASSUME NEW d \in Docs, ImportStep(d) PROVE \A e \in Docs : Keeps(e)
    <2>1. CASE Validate(d) \/ ImportOne(d) \/ SetBcDocumentNo(d)
      BY <1>1, <2>1 DEF Validate, ImportOne, SetBcDocumentNo
    <2>2. ASSUME NEW label, NEW then, RecordErrors(d, label, then) PROVE \A e \in Docs : Keeps(e)
      BY <1>1, <2>2 DEF RecordErrors
    <2>3. CASE SetStatus(d, "imported", "imported", "yes")
      BY <2>3 DEF SetStatus
    <2>4. CASE SetStatus(d, "invalid", "invalid", "no") \/ SetStatus(d, "failed", "failed", "no")
      <3>1. d \in errors
        BY <2>4 DEF SetStatus, Future, Explained
      <3> QED
        BY <2>4, <3>1 DEF SetStatus
    <2> QED
      BY <1>4, <2>1, <2>2, <2>3, <2>4 DEF ImportStep, RejectImport
  <1>5. ASSUME NEW i \in DOMAIN tasks, TaskStep(i) PROVE \A d \in Docs : Keeps(d)
    <2>1. ASSUME NEW d \in Docs, Flip(i, d) PROVE \A e \in Docs : Keeps(e)
      BY <2>1 DEF Flip
    <2>2. CASE ApplyNext(i)
      <3>1. PICK r \in tasks[i].rows : ApplyRow(i, r)
        BY <2>2 DEF ApplyNext
      <3>2. PICK d : \/ UNCHANGED <<status, errors>>
                     \/ Applied(d, r)
                     \/ UNCHANGED status /\ errors' \in {errors, errors \union {d}}
        BY <3>1 DEF ApplyRow
      <3>3. CASE Applied(d, r)
        <4>1. CASE Posts(r)
          BY <3>3, <4>1 DEF Applied
        <4>2. CASE ~Posts(r)
          BY <3>3, <4>2 DEF Applied
        <4> QED
          BY <4>1, <4>2
      <3> QED
        BY <3>2, <3>3
    <2>3. CASE Flipped(i) \/ ListPostResults(i) \/ Reconciled(i)
               \/ \E k \in Kinds : Trigger(i, k) \/ Rerun(i, k) \/ Poll(i, k)
      BY <1>1, <2>3 DEF Flipped, ListPostResults, Reconciled, Trigger, Rerun, Poll
    <2> QED
      BY <1>5, <2>1, <2>2, <2>3 DEF TaskStep
  <1>6. ASSUME NEW j \in jobs, JobStep(j) \/ SessionDies(j) PROVE \A d \in Docs : Keeps(d)
    BY <1>1, <1>6 DEF JobStep, JobEnds, PostDraft, SessionDies
  <1>7. CASE UNCHANGED vars
    BY <1>1, <1>7 DEF vars
  <1> QED
    BY <1>2, <1>3, <1>4, <1>5, <1>6, <1>7 DEF Next

(* A document the orchestrator makes invalid or failed has its errors stored by *)
(* then, and keeps them as long as it is, whatever write or process fails on    *)
(* the way (staging.rs:22-27, main.rs:283-300, reconcile.rs:88-94).   *)
THEOREM FailuresExplained == Spec => FailureExplained
  <1>1. Init => Explained
    BY DEF Init, Explained
  <1>2. Types /\ Explained /\ [Next]_vars =>
            [\A d \in Docs :
                 status'[d] \in {"invalid", "failed"} /\ (status'[d] # status[d] \/ d \in errors)
                     => d \in errors']_vars
    BY ExplainedStep
  <1> QED
    BY <1>1, <1>2, TypesInit, TypesNext, ExplainedNext, PTL DEF Spec, FailureExplained

-------------------------------------------------------------------------------
(* Document numbers are recorded                                                *)

\* The number is stored before the status says imported, and a post task has
\* only documents that have one.
Numbered ==
    /\ \A d \in Docs : \/ status[d] \in {"imported", "posting", "posted"}
                       \/ imp[d] \in {"imported", "yes"}
                       => d \in bcNo
    /\ \A i \in DOMAIN tasks : /\ tasks[i].flip \subseteq bcNo
                               /\ \A x \in DOMAIN tasks[i].map : tasks[i].map[x] \in bcNo

(* Every step keeps that.                                                       *)
LEMMA NumberedNext == Types /\ Numbered /\ [Next]_vars => Numbered'
  <1> SUFFICES ASSUME Types, Numbered, [Next]_vars PROVE Numbered'
    OBVIOUS
  <1> USE DEF Types, StagingTypes, MainTypes, Idle, staging, memory
  <1>1. ASSUME UNCHANGED <<status, bcNo, tasks>>,
               \A d \in Docs : imp'[d] \in {"imported", "yes"} => imp[d] \in {"imported", "yes"}
        PROVE  Numbered'
    BY <1>1 DEF Numbered
  <1>2. ASSUME NEW reprocess \in BOOLEAN, Start(reprocess) PROVE Numbered'
    BY <1>2 DEF Start, Requeueable, Numbered
  <1>3. CASE MainStep \/ FetchFails \/ Crash
    <2>1. CASE FetchChunk
      BY <1>1, <2>1 DEF FetchChunk
    <2>2. CASE ChunkImported
      <3>1. Imported \subseteq bcNo
        BY DEF Imported, Chunk, Numbered
      <3>2. \A m \in ChunkMaps : /\ NewTask(m).flip \subseteq bcNo
                                 /\ \A x \in DOMAIN NewTask(m).map : NewTask(m).map[x] \in bcNo
        BY <3>1 DEF ChunkMaps, NewTask
      <3>3. tasks' = tasks \/ \E m \in ChunkMaps : tasks' = Append(tasks, NewTask(m))
        BY <2>2 DEF ChunkImported
      <3>4. \A i \in DOMAIN tasks' : /\ tasks'[i].flip \subseteq bcNo
                                     /\ \A x \in DOMAIN tasks'[i].map : tasks'[i].map[x] \in bcNo
        BY <3>2, <3>3 DEF Numbered
      <3> QED
        BY <2>2, <3>4 DEF ChunkImported, Numbered
    <2>3. CASE Backpressure \/ Join \/ FetchFails \/ Crash
      <3>1. /\ UNCHANGED <<status, bcNo>>
            /\ imp' = imp \/ imp' = [d \in Docs |-> "none"]
            /\ tasks' \in {tasks, <<>>} \/ (tasks # <<>> /\ tasks' = Tail(tasks))
        BY <2>3, SizeAssumption DEF Backpressure, Join, FetchFails, Crash, Exit, TooMany
      <3>2. \A i \in DOMAIN tasks' : \E n \in DOMAIN tasks : tasks'[i] = tasks[n]
        BY <3>1
      <3> QED
        BY <3>1, <3>2 DEF Numbered
    <2> QED
      BY <1>3, <2>1, <2>2, <2>3 DEF MainStep
  <1>4. ASSUME NEW d \in Docs, ImportStep(d) PROVE Numbered'
    <2> USE DEF RestOfImport
    <2>1. CASE Validate(d) \/ ImportOne(d)
      BY <1>1, <2>1 DEF Validate, ImportOne, NextImp
    <2>2. CASE RecordErrors(d, "errors", "invalid") \/ RecordErrors(d, "reject", "failed")
      BY <1>1, <2>2 DEF RecordErrors, NextImp
    <2>3. CASE SetStatus(d, "invalid", "invalid", "no") \/ SetStatus(d, "failed", "failed", "no")
      BY <2>3 DEF SetStatus, NextImp, Numbered
    <2>4. CASE SetStatus(d, "imported", "imported", "yes")
      <3>1. d \in bcNo
        BY <2>4 DEF SetStatus, Future, Numbered
      <3> QED
        BY <2>4, <3>1 DEF SetStatus, NextImp, Numbered
    <2>5. CASE SetBcDocumentNo(d)
      BY <2>5 DEF SetBcDocumentNo, NextImp, Numbered
    <2> QED
      BY <1>4, <2>1, <2>2, <2>3, <2>4, <2>5 DEF ImportStep, RejectImport
  <1>5. ASSUME NEW i \in DOMAIN tasks, TaskStep(i) PROVE Numbered'
    <2> USE DEF RestOfTask
    <2> DEFINE t == tasks[i]
    <2>1. t \in TaskRecords
      OBVIOUS
    <2>2. ASSUME NEW u \in TaskRecords, tasks' = [tasks EXCEPT ![i] = u],
                 u.flip \subseteq t.flip, u.map = t.map, UNCHANGED <<bcNo, imp>>,
                 \A d \in Docs : status'[d] \in {"imported", "posting", "posted"}
                                     => status'[d] = status[d] \/ d \in bcNo
          PROVE  Numbered'
      <3>1. \A n \in DOMAIN tasks' : tasks'[n] = IF n = i THEN u ELSE tasks[n]
        BY <2>2
      <3> QED
        BY <2>2, <3>1 DEF Numbered
    <2> DEFINE aborted == [t EXCEPT !.pc = "done"]
    <2>3. aborted \in TaskRecords /\ aborted.flip = t.flip /\ aborted.map = t.map
      BY <2>1 DEF TaskRecords, TaskPCs
    <2>4. ASSUME NEW d \in Docs, Flip(i, d) PROVE Numbered'
      <3>1. d \in bcNo
        BY <2>4 DEF Flip, Numbered
      <3>2. PICK u \in {[t EXCEPT !.flip = @ \ {d}], [t EXCEPT !.flip = @ \ {d}, !.flipped = FALSE]} :
                tasks' = [tasks EXCEPT ![i] = u]
        BY <2>4 DEF Flip
      <3>3. u \in TaskRecords /\ u.flip \subseteq t.flip /\ u.map = t.map
        <4>1. CASE u = [t EXCEPT !.flip = @ \ {d}]
          BY <2>1, <4>1 DEF TaskRecords
        <4>2. CASE u = [t EXCEPT !.flip = @ \ {d}, !.flipped = FALSE]
          BY <2>1, <4>2 DEF TaskRecords
        <4> QED
          BY <3>2, <4>1, <4>2
      <3>4. status' \in {status, [status EXCEPT ![d] = "posting"]} /\ UNCHANGED <<bcNo, imp>>
        BY <2>4 DEF Flip
      <3> QED
        BY <2>2, <3>1, <3>2, <3>3, <3>4
    <2>5. CASE Flipped(i)
      <3> DEFINE u == [t EXCEPT !.pc = IF t.flipped THEN "trigger" ELSE "done"]
      <3>1. u \in TaskRecords /\ u.flip = t.flip /\ u.map = t.map
        BY <2>1 DEF TaskRecords, TaskPCs
      <3> QED
        BY <2>2, <2>5, <3>1 DEF Flipped
    <2>6. ASSUME NEW k \in Kinds, Trigger(i, k) \/ Rerun(i, k) PROVE Numbered'
      <3>1. PICK u \in TaskRecords : tasks' = [tasks EXCEPT ![i] = u] /\ u.flip = t.flip /\ u.map = t.map
        BY <2>6, TriggerMoves
      <3>2. UNCHANGED <<status, bcNo, imp>>
        BY <2>6 DEF Trigger, Rerun
      <3> QED
        BY <2>2, <3>1, <3>2
    <2>7. ASSUME NEW k \in Kinds, Poll(i, k) PROVE Numbered'
      <3> DEFINE u == [t EXCEPT !.polling = @ \ {k}]
      <3>1. u \in TaskRecords /\ u.flip = t.flip /\ u.map = t.map
        BY <2>1 DEF TaskRecords
      <3>2. tasks' = [tasks EXCEPT ![i] = u] \/ tasks' = [tasks EXCEPT ![i] = aborted]
        BY <2>7 DEF Poll, Abort
      <3>3. UNCHANGED <<status, bcNo, imp>>
        BY <2>7 DEF Poll
      <3> QED
        BY <2>2, <2>3, <3>1, <3>2, <3>3
    <2>8. CASE ListPostResults(i)
      <3> DEFINE u == [t EXCEPT !.pc = "apply", !.rows = {r \in results : r.batch = t.batch}]
      <3>1. u \in TaskRecords /\ u.flip = t.flip /\ u.map = t.map
        BY <2>1 DEF TaskRecords, TaskPCs, BcTypes
      <3>2. tasks' = [tasks EXCEPT ![i] = u] \/ tasks' = [tasks EXCEPT ![i] = aborted]
        BY <2>8 DEF ListPostResults, Abort
      <3>3. UNCHANGED <<status, bcNo, imp>>
        BY <2>8 DEF ListPostResults
      <3> QED
        BY <2>2, <2>3, <3>1, <3>2, <3>3
    <2>9. CASE ApplyNext(i)
      <3>1. PICK r \in t.rows : ApplyRow(i, r)
        BY <2>9 DEF ApplyNext
      <3> DEFINE u == [t EXCEPT !.rows = @ \ {r}]
      <3>2. u \in TaskRecords /\ u.flip = t.flip /\ u.map = t.map
        BY <2>1 DEF TaskRecords
      <3>3. tasks' = [tasks EXCEPT ![i] = u] \/ tasks' = [tasks EXCEPT ![i] = aborted]
        BY <3>1 DEF ApplyRow, RowApplied, Abort
      <3>4. UNCHANGED status \/ (r.ext \in DOMAIN t.map /\ Applied(t.map[r.ext], r))
        BY <3>1 DEF ApplyRow
      <3>5. r.ext \in DOMAIN t.map => t.map[r.ext] \in bcNo
        BY DEF Numbered
      <3>6. \A d \in Docs : status'[d] \in {"imported", "posting", "posted"}
                                => status'[d] = status[d] \/ d \in bcNo
        BY <3>4, <3>5 DEF Applied
      <3>7. UNCHANGED <<bcNo, imp>>
        BY <2>9 DEF ApplyNext
      <3> QED
        BY <2>2, <2>3, <3>2, <3>3, <3>6, <3>7
    <2>10. CASE Reconciled(i)
      BY <2>2, <2>3, <2>10 DEF Reconciled, Abort
    <2> QED
      BY <1>5, <2>4, <2>5, <2>6, <2>7, <2>8, <2>9, <2>10 DEF TaskStep
  <1>6. ASSUME NEW j \in jobs, JobStep(j) \/ SessionDies(j) PROVE Numbered'
    BY <1>1, <1>6 DEF JobStep, JobEnds, PostDraft, SessionDies
  <1>7. CASE UNCHANGED vars
    BY <1>1, <1>7 DEF vars
  <1> QED
    BY <1>2, <1>3, <1>4, <1>5, <1>6, <1>7 DEF Next

(* A draft that its import completed has its document number recorded by the    *)
(* time staging says so (main.rs:290-296).                                      *)
THEOREM NumbersRecorded == Spec => []ImportedHasNumber
  <1>1. Init => Numbered
    BY DEF Init, Numbered
  <1>2. Numbered => ImportedHasNumber
    BY DEF Numbered, ImportedHasNumber
  <1> QED
    BY <1>1, <1>2, TypesInit, TypesNext, NumberedNext, PTL DEF Spec

-------------------------------------------------------------------------------
(* Chunks in flight                                                             *)

(* Every step keeps the bound: a task is added while one is missing, and the    *)
(* next chunk waits until one is missing again.                                 *)
LEMMA InFlightNext == Types /\ InflightBounded /\ [Next]_vars => InflightBounded'
  <1> SUFFICES ASSUME Types, InflightBounded, [Next]_vars PROVE InflightBounded'
    OBVIOUS
  <1> USE SizeAssumption DEF Types, MainTypes, Idle, InflightBounded, memory
  <1>1. ASSUME NEW reprocess \in BOOLEAN, Start(reprocess) PROVE InflightBounded'
    BY <1>1 DEF Start
  <1>2. CASE FetchChunk
    BY <1>2 DEF FetchChunk
  <1>3. CASE ChunkImported
    BY <1>3 DEF ChunkImported
  <1>4. CASE Backpressure
    BY <1>4 DEF Backpressure, TooMany
  <1>5. CASE Join \/ FetchFails \/ Crash
    BY <1>5 DEF Join, FetchFails, Crash, Exit
  <1>6. ASSUME NEW d \in Docs, ImportStep(d) PROVE InflightBounded'
    BY <1>6 DEF ImportStep, Validate, RecordErrors, SetStatus, ImportOne, SetBcDocumentNo, RejectImport,
                RestOfImport
  <1>7. ASSUME NEW i \in DOMAIN tasks, TaskStep(i) PROVE InflightBounded'
    <2>1. main' = main
      BY <1>7 DEF TaskStep, Flip, Flipped, Trigger, Rerun, Poll, ListPostResults, ApplyNext, Reconciled, RestOfTask
    <2>2. \E u : tasks' = [tasks EXCEPT ![i] = u]
      <3>1. ASSUME NEW d \in Docs, Flip(i, d) PROVE \E u : tasks' = [tasks EXCEPT ![i] = u]
        BY <3>1 DEF Flip
      <3>2. ASSUME NEW k \in Kinds, Trigger(i, k) \/ Rerun(i, k) PROVE \E u : tasks' = [tasks EXCEPT ![i] = u]
        BY <3>2, TriggerMoves DEF Types, MainTypes
      <3>3. ASSUME NEW k \in Kinds, Poll(i, k) PROVE \E u : tasks' = [tasks EXCEPT ![i] = u]
        BY <3>3 DEF Poll, Abort
      <3>4. CASE Flipped(i) \/ ListPostResults(i) \/ Reconciled(i)
        BY <3>4 DEF Flipped, ListPostResults, Reconciled, Abort
      <3>5. CASE ApplyNext(i)
        BY <3>5 DEF ApplyNext, ApplyRow, RowApplied, Abort
      <3> QED
        BY <1>7, <3>1, <3>2, <3>3, <3>4, <3>5 DEF TaskStep
    <2>3. Types'
      BY TypesNext
    <2> QED
      BY <2>1, <2>2, <2>3
  <1>8. ASSUME NEW j \in jobs, JobStep(j) \/ SessionDies(j) PROVE InflightBounded'
    BY <1>8 DEF JobStep, JobEnds, PostDraft, SessionDies
  <1>9. CASE UNCHANGED vars
    BY <1>9 DEF vars
  <1> QED
    BY <1>1, <1>2, <1>3, <1>4, <1>5, <1>6, <1>7, <1>8, <1>9 DEF Next, MainStep

(* No more chunks are posting than configured, and one fewer while another is   *)
(* imported (main.rs:69-72, :157-162).                                          *)
THEOREM InflightIsBounded == Spec => []InflightBounded
  <1>1. Init => InflightBounded
    BY SizeAssumption DEF Init, InflightBounded
  <1> QED
    BY <1>1, TypesInit, TypesNext, InFlightNext, PTL DEF Spec

-------------------------------------------------------------------------------
(* What counts as posted                                                        *)

\* What the theorem assumes of the documents: the number that BC stores for one
\* is the source number of no other.
NumbersDistinct == \A d, e \in Docs : BcCode[Ext[d]] = Ext[e] => d = e

Posted(d) == \E x \in drafts : x.doc = d /\ x.posted

\* A success row is about a document that is posted; a post task holds rows of
\* BC, and finds a document under its own number.
TrueRows ==
    /\ \A r \in results : r.success => \E d \in Docs : Posted(d) /\ r.ext = BcCode[Ext[d]]
    /\ \A i \in DOMAIN tasks : /\ tasks[i].rows \subseteq results
                               /\ \A x \in DOMAIN tasks[i].map : Ext[tasks[i].map[x]] = x
    /\ \A d \in Docs : status[d] = "posted" => Posted(d)

(* No step takes the posting of a draft back, or loses a result row.            *)
LEMMA PostedStays ==
  ASSUME Types, [Next]_vars
  PROVE  /\ \A d \in Docs : Posted(d) => Posted(d)'
         /\ results \subseteq results'
  <1> USE DEF bc, Types, BcTypes
  <1>1. ASSUME drafts \subseteq drafts', UNCHANGED results
        PROVE  (\A d \in Docs : Posted(d) => Posted(d)') /\ results \subseteq results'
    BY <1>1 DEF Posted
  <1>2. ASSUME NEW x \in drafts, drafts' = (drafts \ {x}) \union {[x EXCEPT !.posted = TRUE]}
        PROVE  \A d \in Docs : Posted(d) => Posted(d)'
    <2>1. [x EXCEPT !.posted = TRUE].doc = x.doc /\ [x EXCEPT !.posted = TRUE].posted
      BY DEF IsDraft
    <2> QED
      BY <1>2, <2>1 DEF Posted
  <1>3. ASSUME NEW reprocess \in BOOLEAN, Start(reprocess)
        PROVE  (\A d \in Docs : Posted(d) => Posted(d)') /\ results \subseteq results'
    BY <1>1, <1>3 DEF Start
  <1>4. CASE MainStep \/ FetchFails \/ Crash
    BY <1>1, <1>4 DEF MainStep, FetchChunk, ChunkImported, Backpressure, Join, FetchFails, Crash, Exit
  <1>5. ASSUME NEW d \in Docs, ImportStep(d)
        PROVE  (\A e \in Docs : Posted(e) => Posted(e)') /\ results \subseteq results'
    BY <1>1, <1>5 DEF ImportStep, Validate, RecordErrors, SetStatus, ImportOne, SetBcDocumentNo, RejectImport
  <1>6. ASSUME NEW i \in DOMAIN tasks, TaskStep(i)
        PROVE  (\A d \in Docs : Posted(d) => Posted(d)') /\ results \subseteq results'
    BY <1>1, <1>6 DEF TaskStep, Flip, Flipped, Trigger, Rerun, Poll, ListPostResults, ApplyNext, Reconciled
  <1>7. ASSUME NEW j \in jobs, JobStep(j) \/ SessionDies(j)
        PROVE  (\A d \in Docs : Posted(d) => Posted(d)') /\ results \subseteq results'
    BY <1>1, <1>2, <1>7 DEF JobStep, JobEnds, PostDraft, SessionDies, Outcome, Posted
  <1>8. CASE UNCHANGED vars
    BY <1>1, <1>8 DEF vars
  <1> QED
    BY <1>3, <1>4, <1>5, <1>6, <1>7, <1>8 DEF Next

(* Every step keeps TrueRows: a row is made with the posting it is about, and   *)
(* the document a task finds for it is that one.                                *)
LEMMA TrueRowsNext ==
  ASSUME NumbersDistinct, Types, TrueRows, [Next]_vars
  PROVE  TrueRows'
  <1> DEFINE Stays == (\A d \in Docs : Posted(d) => Posted(d)') /\ results \subseteq results'
             TaskRows(t) == t.rows \subseteq results' /\ \A x \in DOMAIN t.map : Ext[t.map[x]] = x
  <1>0. Stays
    BY PostedStays
  <1>00. \A i \in DOMAIN tasks : TaskRows(tasks[i])
    BY <1>0 DEF TrueRows
  <1> USE DEF Types, StagingTypes, MainTypes, staging, bc, memory
  <1>1. ASSUME results' = results \/ \E r : results' = results \union {r} /\ ~r.success,
               \A i \in DOMAIN tasks' : TaskRows(tasks'[i]),
               \A d \in Docs : status'[d] = "posted" => status[d] = "posted"
        PROVE  TrueRows'
    <2>1. \A r \in results' : r.success => r \in results
      BY <1>1
    <2>2. ASSUME NEW r \in results', r.success
          PROVE  \E d \in Docs : Posted(d)' /\ r.ext = BcCode[Ext[d]]
      BY <2>1, <2>2, <1>0 DEF TrueRows
    <2>3. \A d \in Docs : status'[d] = "posted" => Posted(d)'
      BY <1>0, <1>1 DEF TrueRows
    <2> QED
      BY <1>1, <2>2, <2>3 DEF TrueRows
  <1>2. ASSUME NEW reprocess \in BOOLEAN, Start(reprocess) PROVE TrueRows'
    BY <1>00, <1>1, <1>2 DEF Start
  <1>3. CASE MainStep \/ FetchFails \/ Crash
    <2>1. UNCHANGED <<status, results>>
      BY <1>3 DEF MainStep, FetchChunk, ChunkImported, Backpressure, Join, FetchFails, Crash, Exit
    <2>2. CASE ChunkImported
      <3>1. \A m \in ChunkMaps : TaskRows(NewTask(m))
        BY DEF ChunkMaps, NewTask
      <3>2. tasks' = tasks \/ \E m \in ChunkMaps : tasks' = Append(tasks, NewTask(m))
        BY <2>2 DEF ChunkImported
      <3> HIDE DEF TaskRows
      <3>3. \A i \in DOMAIN tasks' : TaskRows(tasks'[i])
        BY <1>00, <3>1, <3>2
      <3> QED
        BY <1>1, <2>1, <3>3
    <2>3. CASE ~ChunkImported
      <3>1. tasks' \in {tasks, <<>>} \/ (tasks # <<>> /\ tasks' = Tail(tasks))
        BY <1>3, <2>3, SizeAssumption
           DEF MainStep, FetchChunk, Backpressure, Join, FetchFails, Crash, Exit, TooMany
      <3>2. \A i \in DOMAIN tasks' : \E n \in DOMAIN tasks : tasks'[i] = tasks[n]
        BY <3>1
      <3> HIDE DEF TaskRows
      <3>3. \A i \in DOMAIN tasks' : TaskRows(tasks'[i])
        BY <1>00, <3>2
      <3> QED
        BY <1>1, <2>1, <3>3
    <2> QED
      BY <2>2, <2>3
  <1>4. ASSUME NEW d \in Docs, ImportStep(d) PROVE TrueRows'
    <2>1. UNCHANGED <<tasks, results>>
      BY <1>4 DEF ImportStep, Validate, RecordErrors, SetStatus, ImportOne, SetBcDocumentNo, RejectImport,
                  RestOfImport
    <2>2. \A e \in Docs : status'[e] = "posted" => status[e] = "posted"
      BY <1>4 DEF ImportStep, Validate, RecordErrors, SetStatus, ImportOne, SetBcDocumentNo, RejectImport
    <2> QED
      BY <1>00, <1>1, <2>1, <2>2
  <1>5. ASSUME NEW i \in DOMAIN tasks, TaskStep(i) PROVE TrueRows'
    <2> DEFINE t == tasks[i]
    <2>0. t \in TaskRecords
      OBVIOUS
    <2>1. UNCHANGED results
      BY <1>5 DEF TaskStep, Flip, Flipped, Trigger, Rerun, Poll, ListPostResults, ApplyNext, Reconciled
    <2>2. ASSUME NEW u, tasks' = [tasks EXCEPT ![i] = u], u.map = t.map,
                 u.rows \subseteq t.rows \/ u.rows \subseteq results
          PROVE  \A n \in DOMAIN tasks' : TaskRows(tasks'[n])
      <3>1. TaskRows(u)
        BY <1>00, <2>1, <2>2
      <3>2. \A n \in DOMAIN tasks' : n \in DOMAIN tasks /\ tasks'[n] = IF n = i THEN u ELSE tasks[n]
        BY <2>2
      <3> HIDE DEF TaskRows
      <3> QED
        BY <1>00, <3>1, <3>2
    <2>3. \A n \in DOMAIN tasks' : TaskRows(tasks'[n])
      <3> DEFINE Same(u) == u.map = t.map /\ (u.rows \subseteq t.rows \/ u.rows \subseteq results)
      <3>1. \E u : tasks' = [tasks EXCEPT ![i] = u] /\ Same(u)
        <4>1. ASSUME NEW d \in Docs, Flip(i, d) PROVE \E u : tasks' = [tasks EXCEPT ![i] = u] /\ Same(u)
          <5>1. /\ Same([t EXCEPT !.flip = @ \ {d}])
                /\ Same([t EXCEPT !.flip = @ \ {d}, !.flipped = FALSE])
            BY <2>0 DEF TaskRecords
          <5> QED
            BY <4>1, <5>1 DEF Flip
        <4>2. Same([t EXCEPT !.pc = "done"])
          BY <2>0 DEF TaskRecords
        <4>3. CASE Flipped(i)
          <5>1. Same([t EXCEPT !.pc = IF t.flipped THEN "trigger" ELSE "done"])
            BY <2>0 DEF TaskRecords
          <5> QED
            BY <4>3, <5>1 DEF Flipped
        <4>4. ASSUME NEW k \in Kinds, Trigger(i, k) \/ Rerun(i, k)
              PROVE  \E u : tasks' = [tasks EXCEPT ![i] = u] /\ Same(u)
          <5>1. PICK u \in TaskRecords : tasks' = [tasks EXCEPT ![i] = u] /\ u.map = t.map /\ u.rows = t.rows
            BY <4>4, TriggerMoves
          <5>2. Same(u)
            BY <5>1
          <5> HIDE DEF Same
          <5> QED
            BY <5>1, <5>2
        <4>5. ASSUME NEW k \in Kinds, Poll(i, k) PROVE \E u : tasks' = [tasks EXCEPT ![i] = u] /\ Same(u)
          <5>1. Same([t EXCEPT !.polling = @ \ {k}])
            BY <2>0 DEF TaskRecords
          <5> QED
            BY <4>2, <4>5, <5>1 DEF Poll, Abort
        <4>6. CASE ListPostResults(i)
          <5>1. Same([t EXCEPT !.pc = "apply", !.rows = {r \in results : r.batch = t.batch}])
            BY <2>0 DEF TaskRecords
          <5> QED
            BY <4>2, <4>6, <5>1 DEF ListPostResults, Abort
        <4>7. CASE ApplyNext(i)
          <5>1. PICK r \in t.rows : ApplyRow(i, r)
            BY <4>7 DEF ApplyNext
          <5>2. Same([t EXCEPT !.rows = @ \ {r}])
            BY <2>0 DEF TaskRecords
          <5> QED
            BY <4>2, <5>1, <5>2 DEF ApplyRow, RowApplied, Abort
        <4>8. CASE Reconciled(i)
          BY <4>2, <4>8 DEF Reconciled, Abort
        <4> HIDE DEF Same
        <4> QED
          BY <1>5, <4>1, <4>3, <4>4, <4>5, <4>6, <4>7, <4>8 DEF TaskStep
      <3> QED
        BY <2>2, <3>1
    <2>4. CASE ~ApplyNext(i)
      <3>1. \A d \in Docs : status'[d] = "posted" => status[d] = "posted"
        BY <1>5, <2>4 DEF TaskStep, Flip, Flipped, Trigger, Rerun, Poll, ListPostResults, Reconciled
      <3> QED
        BY <1>1, <2>1, <2>3, <3>1
    <2>5. CASE ApplyNext(i)
      <3>1. PICK r \in t.rows : ApplyRow(i, r)
        BY <2>5 DEF ApplyNext
      <3> DEFINE d == t.map[r.ext]
      <3>2. UNCHANGED status \/ (r.ext \in DOMAIN t.map /\ Applied(d, r))
        BY <3>1 DEF ApplyRow
      <3>3. UNCHANGED drafts
        BY <2>5 DEF ApplyNext
      <3>4. ASSUME NEW e \in Docs, status'[e] = "posted", status[e] # "posted" PROVE Posted(e)
        <4>1. r.ext \in DOMAIN t.map /\ e = d /\ r.success
          BY <3>2, <3>4 DEF Applied, Posts
        <4>2. Ext[e] = r.ext /\ r \in results
          BY <3>1, <4>1 DEF TrueRows
        <4>3. PICK f \in Docs : Posted(f) /\ r.ext = BcCode[Ext[f]]
          BY <4>1, <4>2 DEF TrueRows
        <4>4. f = e
          BY <4>2, <4>3 DEF NumbersDistinct
        <4> QED
          BY <4>3, <4>4
      <3>5. \A e \in Docs : status'[e] = "posted" => Posted(e)'
        BY <3>4, <1>0 DEF TrueRows
      <3>6. \A row \in results' : row.success => \E f \in Docs : Posted(f)' /\ row.ext = BcCode[Ext[f]]
        BY <1>0, <2>1 DEF TrueRows
      <3> QED
        BY <2>3, <3>5, <3>6 DEF TrueRows
    <2> QED
      BY <2>4, <2>5
  <1>6. ASSUME NEW j \in jobs, JobStep(j) \/ SessionDies(j) PROVE TrueRows'
    <2>1. UNCHANGED <<tasks, status>>
      BY <1>6 DEF JobStep, JobEnds, PostDraft, SessionDies
    <2>2. ASSUME NEW r \in results', r.success
          PROVE  \E d \in Docs : Posted(d)' /\ r.ext = BcCode[Ext[d]]
      <3>1. CASE r \in results
        BY <1>0, <2>2, <3>1 DEF TrueRows
      <3>2. CASE r \notin results
        <4>1. PICK x \in drafts : PostDraft(j, x)
          BY <1>6, <3>2 DEF JobStep, JobEnds, SessionDies
        <4>2. r.ext = BcCode[Ext[x.doc]]
          BY <3>2, <4>1 DEF PostDraft, Outcome
        <4>3. results' # Outcome(x, FALSE)
          BY <2>2, <3>2 DEF Outcome
        <4>4. drafts' = (drafts \ {x}) \union {[x EXCEPT !.posted = TRUE]}
          BY <4>1, <4>3 DEF PostDraft
        <4>5. x.doc \in Docs /\ [x EXCEPT !.posted = TRUE].doc = x.doc /\ [x EXCEPT !.posted = TRUE].posted
          BY DEF BcTypes, IsDraft
        <4>6. Posted(x.doc)'
          BY <4>4, <4>5 DEF Posted
        <4> QED
          BY <4>2, <4>5, <4>6
      <3> QED
        BY <3>1, <3>2
    <2>3. \A d \in Docs : status'[d] = "posted" => Posted(d)'
      BY <1>0, <2>1 DEF TrueRows
    <2>4. \A i \in DOMAIN tasks' : TaskRows(tasks'[i])
      BY <1>00, <2>1
    <2> QED
      BY <2>2, <2>3, <2>4 DEF TrueRows
  <1>7. CASE UNCHANGED vars
    BY <1>00, <1>1, <1>7 DEF vars
  <1> QED
    BY <1>2, <1>3, <1>4, <1>5, <1>6, <1>7 DEF Next

(* A document is posted in staging only if Business Central has posted a draft  *)
(* of it (main.rs:132, reconcile.rs:80-87).                                     *)
THEOREM PostedMeansPosted == ASSUME NumbersDistinct PROVE Spec => []PostedIsTrue
  <1>1. Init => TrueRows
    BY DEF Init, TrueRows
  <1>2. TrueRows => PostedIsTrue
    BY DEF TrueRows, PostedIsTrue, Posted, DraftsOf
  <1>3. NumbersDistinct
    OBVIOUS
  <1>4. Types /\ TrueRows /\ [Next]_vars => TrueRows'
    BY <1>3, TrueRowsNext
  <1> QED
    BY <1>1, <1>2, <1>4, TypesInit, TypesNext, PTL DEF Spec
-------------------------------------------------------------------------------
(* One import in a run                                                          *)

\* What the theorem assumes of the kinds: none is created with its line in the
\* header, where a header that is sent again is a second complete draft.
NoHeaderKinds == HeaderKinds = {}

Attempted(d) == d \in seen /\ imp[d] \notin {"validate", "import"}

\* A coded draft is of a run that has been, or of this one, and then this run
\* has attempted its document and is past the import.
OfRuns(S) ==
    \A x \in S : x.batch # NoBatch =>
        /\ x.batch[1] \in 1 .. run
        /\ x.batch[1] = run => main = "down" \/ Attempted(x.doc)

OncePerRun ==
    /\ main # "down" => run >= 1
    /\ \A d \in Docs : imp[d] # "none" => d \in seen
    /\ OfRuns(drafts)
    /\ ImportedOncePerRun

(* Of the drafts that one import leaves, one at most has anything to post.      *)
LEMMA OnePostable ==
  ASSUME NEW way, way # "header", NEW ok \in BOOLEAN, NEW left \in Leftovers(way, ok)
  PROVE  \A m, n \in DOMAIN left.drafts :
             left.drafts[m].postable /\ left.drafts[n].postable => m = n
  <1>1. PICK l \in Rejected(way) \union {Left(<<Whole>>, {})} :
            left = l \/ left = Left(<<Bare(way)>> \o l.drafts, l.faults \union {"retry"})
    BY DEF Leftovers
  <1>2. l.drafts \in Seq(NewDrafts) /\ Len(l.drafts) <= 1
    <2>1. PICK made \in {<<>>, <<Bare(way)>>, <<Partial(way)>>, <<Whole>>},
               took \in {{}, {"reply"}} : l = Left(made, took)
      BY <1>1 DEF Rejected
    <2>2. l.drafts = made
      BY <2>1 DEF Left
    <2>3. l \in Leftovers(way, TRUE) \/ l \in Leftovers(way, FALSE)
      BY <1>1 DEF Leftovers
    <2>4. l.drafts \in Seq(NewDrafts)
      BY <2>3, LeftoversType
    <2>5. Len(<<>>) = 0 /\ \A x : Len(<<x>>) = 1
      OBVIOUS
    <2>6. Len(made) \in {0, 1}
      BY <2>5
    <2> QED
      BY <2>2, <2>4, <2>6
  <1>3. ~Bare(way).postable /\ Bare(way) \in NewDrafts
    BY DEF Bare, Draft, NewDrafts
  <1>4. CASE left = l
    BY <1>2, <1>4
  <1>5. CASE left = Left(<<Bare(way)>> \o l.drafts, l.faults \union {"retry"})
    <2> DEFINE both == <<Bare(way)>> \o l.drafts
    <2>1. left.drafts = both
      BY <1>5 DEF Left
    <2>2. both[1] = Bare(way) /\ Len(both) <= 2 /\ both \in Seq(NewDrafts)
      BY <1>2, <1>3
    <2> HIDE DEF both
    <2> QED
      BY <1>3, <2>1, <2>2
  <1> QED
    BY <1>1, <1>4, <1>5

(* New drafts of a document that this run has not imported before are no second *)
(* import of the run.                                                           *)
LEMMA OnceMore ==
  ASSUME Types, OncePerRun, main = "import",
         NEW D \in SUBSET Docs, \A d \in D : imp[d] = "import",
         NEW new, \A d \in D : /\ new[d] \in Seq(NewDrafts)
                               /\ \A m, n \in DOMAIN new[d] :
                                      new[d][m].postable /\ new[d][n].postable => m = n,
         drafts' = drafts \union UNION {Drafted(d, new[d]) : d \in D}
  PROVE  /\ ImportedOncePerRun'
         /\ \A x \in drafts' : /\ x.batch # NoBatch => x.batch[1] \in 1 .. run
                               /\ x \in drafts \/ x.doc \in D
  <1>1. ASSUME NEW d \in D, NEW x \in Drafted(d, new[d])
        PROVE  x.doc = d /\ x.batch \in {NoBatch, ChunkCode} /\ IsDraft(x)
    BY <1>1, DraftedType DEF Drafted, Types
  <1>2. NoBatch[1] = 0 /\ ChunkCode[1] = run /\ run \in Nat \ {0}
    BY BoundAssumption DEF NoBatch, ChunkCode, OncePerRun, Types, MainTypes
  <1>3. ASSUME NEW x \in drafts, x.batch # NoBatch, x.doc \in D PROVE x.batch[1] \in 1 .. run - 1
    BY <1>2, <1>3 DEF OncePerRun, OfRuns, Attempted
  <1>4. ASSUME NEW d \in D, NEW x \in Drafted(d, new[d]), NEW y \in Drafted(d, new[d]),
               x.postable, y.postable
        PROVE  x = y
    <2> DEFINE Made(n) == [id |-> <<d, Cardinality(DraftsOf(d)) + n>>, doc |-> d, posted |-> FALSE,
                           batch |-> IF new[d][n].coded THEN ChunkCode ELSE NoBatch,
                           postable |-> new[d][n].postable]
    <2>1. PICK m \in DOMAIN new[d] : x = Made(m)
      BY <1>4 DEF Drafted
    <2>2. PICK n \in DOMAIN new[d] : y = Made(n)
      BY <1>4 DEF Drafted
    <2>3. x.postable = new[d][m].postable /\ y.postable = new[d][n].postable
      BY <2>1, <2>2
    <2>4. m = n
      BY <1>4, <2>3
    <2> QED
      BY <2>1, <2>2, <2>4
  <1>5. \A x \in drafts' : x \in drafts \/ \E d \in D : x \in Drafted(d, new[d])
    OBVIOUS
  <1>6. \A x \in drafts' : x.batch # NoBatch => x.batch[1] \in 1 .. run
    BY <1>1, <1>2, <1>5 DEF OncePerRun, OfRuns
  <1>7. ASSUME NEW x \in drafts', NEW y \in drafts', x.doc = y.doc, x.postable, y.postable, x # y,
               x.batch # NoBatch
        PROVE  x.batch[1] # y.batch[1]
    <2>1. CASE x \in drafts /\ y \in drafts
      BY <1>7, <2>1 DEF OncePerRun, ImportedOncePerRun
    <2>2. CASE x \in drafts /\ \E d \in D : y \in Drafted(d, new[d])
      <3>1. y.doc \in D /\ y.batch[1] \in {0, run}
        BY <1>1, <1>2, <2>2
      <3> QED
        BY <1>2, <1>3, <1>7, <2>2, <3>1
    <2>3. CASE y \in drafts /\ \E d \in D : x \in Drafted(d, new[d])
      <3>1. x.doc \in D /\ x.batch[1] = run
        BY <1>1, <1>2, <1>7, <2>3
      <3>2. y.batch = NoBatch \/ y.batch[1] \in 1 .. run - 1
        BY <1>3, <1>7, <2>3, <3>1
      <3> QED
        BY <1>2, <3>1, <3>2
    <2>4. CASE (\E d \in D : x \in Drafted(d, new[d])) /\ (\E d \in D : y \in Drafted(d, new[d]))
      <3>1. PICK d \in D : x \in Drafted(d, new[d])
        BY <2>4
      <3>2. y \in Drafted(d, new[d])
        BY <1>1, <1>7, <2>4, <3>1
      <3> QED
        BY <1>4, <1>7, <3>1, <3>2
    <2> QED
      BY <1>5, <2>1, <2>2, <2>3, <2>4
  <1> QED
    BY <1>1, <1>5, <1>6, <1>7 DEF ImportedOncePerRun

(* Every step keeps it: what a run has attempted it does not fetch again.       *)
LEMMA OnceNext ==
  ASSUME NoHeaderKinds, Types, OncePerRun, [Next]_vars
  PROVE  OncePerRun'
  <1> USE DEF Types, StagingTypes, MainTypes, Idle, staging, bc, memory
  <1>0. \A d \in Docs : Way(d) # "header"
    BY DEF Way, NoHeaderKinds
  <1>1. ASSUME UNCHANGED <<drafts, run, main, seen>>,
               \A d \in Docs : /\ imp'[d] # "none" => imp[d] # "none"
                               /\ imp'[d] \in {"validate", "import"} => imp[d] \in {"validate", "import"}
        PROVE  OncePerRun'
    BY <1>1 DEF OncePerRun, OfRuns, Attempted, ImportedOncePerRun, BcTypes, IsDraft
  <1>2. ASSUME NEW reprocess \in BOOLEAN, Start(reprocess) PROVE OncePerRun'
    BY <1>2 DEF Start, OncePerRun, OfRuns, ImportedOncePerRun, BcTypes, IsDraft
  <1>3. CASE FetchChunk
    <2>1. Fresh \subseteq Docs /\ Fresh \intersect seen = {}
      BY DEF Fresh, Page, Validated
    <2> QED
      BY <1>3, <2>1 DEF FetchChunk, OncePerRun, OfRuns, Attempted, ImportedOncePerRun, BcTypes, IsDraft
  <1>4. CASE ChunkImported \/ Backpressure
    <2>1. UNCHANGED <<drafts, run, seen>> /\ main # "down" /\ main' # "down"
      BY <1>4 DEF ChunkImported, Backpressure
    <2>2. imp' = imp \/ imp' = [d \in Docs |-> "none"]
      BY <1>4 DEF ChunkImported, Backpressure
    <2> QED
      BY <2>1, <2>2 DEF OncePerRun, OfRuns, Attempted, ImportedOncePerRun, BcTypes, IsDraft
  <1>5. CASE Join \/ FetchFails
    <2>1. UNCHANGED <<drafts, run, seen>>
      BY <1>5 DEF Join, FetchFails, Exit
    <2>2. \/ UNCHANGED <<imp, main>>
          \/ imp' = [d \in Docs |-> "none"] /\ main' = "down"
      BY <1>5 DEF Join, FetchFails, Exit
    <2> QED
      BY <2>1, <2>2 DEF OncePerRun, OfRuns, Attempted, ImportedOncePerRun, BcTypes, IsDraft
  <1>6. CASE Crash
    <2>1. PICK cut \in [Importing -> UNION {CutShort(Way(d)) : d \in Importing}] :
              /\ \A d \in Importing : cut[d] \in CutShort(Way(d))
              /\ drafts' = drafts \union UNION {Drafted(d, cut[d]) : d \in Importing}
      BY <1>6 DEF Crash
    <2>2. main' = "down" /\ UNCHANGED <<run, seen>> /\ imp' = [d \in Docs |-> "none"]
      BY <1>6 DEF Crash, Exit
    <2>3. ASSUME NEW d \in Importing
          PROVE  /\ cut[d] \in Seq(NewDrafts)
                 /\ \A m, n \in DOMAIN cut[d] : cut[d][m].postable /\ cut[d][n].postable => m = n
      <3>1. PICK left \in Leftovers(Way(d), FALSE) : cut[d] = left.drafts
        BY <2>1, <2>3 DEF CutShort
      <3>2. d \in Docs
        BY DEF Importing
      <3> QED
        BY <1>0, <3>1, <3>2, LeftoversType, OnePostable
    <2>4. CASE Importing = {}
      <3>1. UNCHANGED drafts
        BY <2>1, <2>4
      <3> QED
        BY <2>2, <3>1 DEF OncePerRun, OfRuns, ImportedOncePerRun
    <2>5. CASE Importing # {}
      <3>1. main = "import" /\ Importing \subseteq Docs /\ \A d \in Importing : imp[d] = "import"
        BY <2>5 DEF Importing
      <3>2. /\ ImportedOncePerRun'
            /\ \A x \in drafts' : x.batch # NoBatch => x.batch[1] \in 1 .. run
        BY <2>1, <2>3, <3>1, OnceMore
      <3> QED
        BY <2>2, <3>2 DEF OncePerRun, OfRuns
    <2> QED
      BY <2>4, <2>5
  <1>7. ASSUME NEW d \in Docs, ImportStep(d) PROVE OncePerRun'
    <2> USE DEF RestOfImport
    <2>1. CASE ImportOne(d)
      <3>1. PICK ok \in BOOLEAN : \E left \in Leftovers(Way(d), ok) :
                drafts' = drafts \union Drafted(d, left.drafts)
        BY <2>1 DEF ImportOne
      <3>2. PICK left \in Leftovers(Way(d), ok) : drafts' = drafts \union Drafted(d, left.drafts)
        BY <3>1
      <3> DEFINE new == [e \in {d} |-> left.drafts]
      <3>3. drafts' = drafts \union UNION {Drafted(e, new[e]) : e \in {d}}
        BY <3>2
      <3>4. \A e \in {d} : /\ new[e] \in Seq(NewDrafts)
                           /\ \A m, n \in DOMAIN new[e] :
                                  new[e][m].postable /\ new[e][n].postable => m = n
        BY <1>0, LeftoversType, OnePostable
      <3>5. main = "import" /\ imp[d] = "import" /\ UNCHANGED <<main, run, seen>>
        BY <2>1 DEF ImportOne, Future
      <3>6. \E label \in {"number", "reject"} : imp' = [imp EXCEPT ![d] = label]
        BY <2>1 DEF ImportOne, NextImp
      <3> HIDE DEF new
      <3>7. /\ ImportedOncePerRun'
            /\ \A x \in drafts' : /\ x.batch # NoBatch => x.batch[1] \in 1 .. run
                                  /\ x \in drafts \/ x.doc = d
        <4>1. {d} \in SUBSET Docs /\ \A e \in {d} : imp[e] = "import"
          BY <3>5
        <4> QED
          BY <3>3, <3>4, <3>5, <4>1, OnceMore
      <3>8. d \in seen
        BY <3>5 DEF OncePerRun
      <3> QED
        BY <3>5, <3>6, <3>7, <3>8 DEF OncePerRun, OfRuns, Attempted, BcTypes, IsDraft
    <2>2. CASE ~ImportOne(d)
      <3>1. UNCHANGED <<drafts, run, main, seen>>
        BY <1>7, <2>2 DEF ImportStep, Validate, RecordErrors, SetStatus, SetBcDocumentNo, RejectImport
      <3>2. \/ /\ imp[d] # "none"
               /\ \E label \in {"errors", "err", "invalid", "failed", "yes", "no", "imported"} :
                      imp' = [imp EXCEPT ![d] = label]
            \/ imp[d] = "validate" /\ imp' = [imp EXCEPT ![d] = "import"]
        BY <1>7, <2>2 DEF ImportStep, Validate, RecordErrors, SetStatus, SetBcDocumentNo, RejectImport,
                          Future, NextImp
      <3> QED
        BY <1>1, <3>1, <3>2
    <2> QED
      BY <2>1, <2>2
  <1>8. ASSUME NEW i \in DOMAIN tasks, TaskStep(i) PROVE OncePerRun'
    BY <1>1, <1>8 DEF TaskStep, Flip, Flipped, Trigger, Rerun, Poll, ListPostResults, ApplyNext, Reconciled, RestOfTask
  <1>9. ASSUME NEW j \in jobs, JobStep(j) \/ SessionDies(j) PROVE OncePerRun'
    <2>1. UNCHANGED <<run, main, seen, imp>>
      BY <1>9 DEF JobStep, JobEnds, PostDraft, SessionDies
    <2>2. CASE UNCHANGED drafts
      BY <1>1, <2>1, <2>2
    <2>3. ASSUME NEW x \in drafts, drafts' = (drafts \ {x}) \union {[x EXCEPT !.posted = TRUE]}
          PROVE  OncePerRun'
      <3> DEFINE w == [x EXCEPT !.posted = TRUE]
      <3>1. w.doc = x.doc /\ w.batch = x.batch /\ w.postable = x.postable
        BY DEF BcTypes, IsDraft
      <3>2. ImportedOncePerRun'
        <4> SUFFICES ASSUME NEW y \in drafts', NEW z \in drafts', y.doc = z.doc,
                            y.postable, z.postable, y # z, y.batch # NoBatch
                     PROVE  y.batch[1] # z.batch[1]
          BY DEF ImportedOncePerRun
        <4>1. \A a \in drafts' : (a \in drafts /\ a # x) \/ a = w
          BY <2>3
        <4> HIDE DEF w
        <4>2. CASE y = w
          BY <3>1, <4>1, <4>2 DEF OncePerRun, ImportedOncePerRun
        <4>3. CASE z = w
          BY <3>1, <4>1, <4>3 DEF OncePerRun, ImportedOncePerRun
        <4>4. CASE y # w /\ z # w
          BY <4>1, <4>4 DEF OncePerRun, ImportedOncePerRun
        <4> QED
          BY <4>2, <4>3, <4>4
      <3>3. OfRuns(drafts)'
        BY <2>1, <2>3, <3>1 DEF OncePerRun, OfRuns, Attempted
      <3> QED
        BY <2>1, <3>2, <3>3 DEF OncePerRun
    <2> QED
      BY <1>9, <2>2, <2>3 DEF JobStep, JobEnds, PostDraft, SessionDies
  <1>10. CASE UNCHANGED vars
    BY <1>1, <1>10 DEF vars
  <1> QED
    BY <1>2, <1>3, <1>4, <1>5, <1>6, <1>7, <1>8, <1>9, <1>10 DEF Next, MainStep

(* One run imports a document once, even if its row never leaves `validated`    *)
(* (main.rs:75-77, :93-104).                                                    *)
THEOREM OneImport == ASSUME NoHeaderKinds PROVE Spec => []ImportedOncePerRun
  <1>1. Init => OncePerRun
    BY DEF Init, OncePerRun, OfRuns, ImportedOncePerRun
  <1>2. OncePerRun => ImportedOncePerRun
    BY DEF OncePerRun
  <1>3. NoHeaderKinds
    OBVIOUS
  <1>4. Types /\ OncePerRun /\ [Next]_vars => OncePerRun'
    BY <1>3, OnceNext
  <1> QED
    BY <1>1, <1>2, <1>4, TypesInit, TypesNext, PTL DEF Spec

-------------------------------------------------------------------------------
(* Drafts are told apart                                                        *)

\* The drafts of a document are numbered.
Identified ==
    /\ \A d \in Docs : IsFiniteSet(DraftsOf(d))
    /\ \A x \in drafts : \E n \in 1 .. Cardinality(DraftsOf(x.doc)) : x.id = <<x.doc, n>>
    /\ \A x, y \in drafts : x.id = y.id => x = y

(* New drafts of a document take the numbers that follow.                       *)
LEMMA NextNumbers ==
  ASSUME Types, Identified, NEW d \in Docs, NEW new \in Seq(NewDrafts)
  PROVE  /\ IsFiniteSet(DraftsOf(d) \union Drafted(d, new))
         /\ Cardinality(DraftsOf(d) \union Drafted(d, new)) = Cardinality(DraftsOf(d)) + Len(new)
         /\ \A x \in Drafted(d, new) : \E n \in 1 .. Len(new) : x.id = <<d, Cardinality(DraftsOf(d)) + n>>
         /\ \A x, y \in Drafted(d, new) : x.id = y.id => x = y
  <1> DEFINE K == Cardinality(DraftsOf(d))
             Made(n) == [id |-> <<d, K + n>>, doc |-> d, posted |-> FALSE,
                         batch |-> IF new[n].coded THEN ChunkCode ELSE NoBatch,
                         postable |-> new[n].postable]
             f == [n \in 1 .. Len(new) |-> Made(n)]
  <1>1. K \in Nat /\ Len(new) \in Nat /\ DOMAIN new = 1 .. Len(new)
    BY FS_CardinalityType DEF Identified
  <1>2. Drafted(d, new) = {Made(n) : n \in 1 .. Len(new)}
    BY <1>1 DEF Drafted
  <1>3. \A n : Made(n).id = <<d, K + n>> /\ Made(n).doc = d
    OBVIOUS
  <1> HIDE DEF Made, K
  <1>4. \A m, n \in 1 .. Len(new) : Made(m).id = Made(n).id => m = n
    BY <1>1, <1>3
  <1>5. f \in Bijection(1 .. Len(new), Drafted(d, new))
    <2>1. f \in [1 .. Len(new) -> Drafted(d, new)] /\ \A n \in 1 .. Len(new) : f[n] = Made(n)
      BY <1>2
    <2>2. \A m, n \in 1 .. Len(new) : f[m] = f[n] => m = n
      BY <1>4, <2>1
    <2>3. \A x \in Drafted(d, new) : \E n \in 1 .. Len(new) : f[n] = x
      BY <1>2, <2>1
    <2> HIDE DEF f
    <2>4. f \in Injection(1 .. Len(new), Drafted(d, new))
      BY <2>1, <2>2 DEF Injection, IsInjective
    <2>5. f \in Surjection(1 .. Len(new), Drafted(d, new))
      BY <2>1, <2>3 DEF Surjection
    <2> QED
      BY <2>4, <2>5 DEF Bijection
  <1>6. IsFiniteSet(1 .. Len(new)) /\ Cardinality(1 .. Len(new)) = Len(new)
    BY <1>1, FS_Interval
  <1>7. IsFiniteSet(Drafted(d, new)) /\ Cardinality(Drafted(d, new)) = Len(new)
    BY <1>5, <1>6, FS_Bijection DEF ExistsBijection
  <1>8. DraftsOf(d) \intersect Drafted(d, new) = {}
    <2> SUFFICES ASSUME NEW n \in 1 .. Len(new), Made(n) \in DraftsOf(d) PROVE FALSE
      BY <1>2
    <2>1. Made(n) \in drafts /\ Made(n).doc = d
      BY <1>3 DEF DraftsOf
    <2>2. \E m \in 1 .. Cardinality(DraftsOf(Made(n).doc)) : Made(n).id = <<Made(n).doc, m>>
      BY <2>1 DEF Identified
    <2>3. PICK m \in 1 .. K : Made(n).id = <<d, m>>
      BY <2>1, <2>2 DEF K
    <2> QED
      BY <1>1, <1>3, <2>3
  <1>9. Cardinality({}) = 0 /\ IsFiniteSet(DraftsOf(d))
    BY FS_EmptySet DEF Identified
  <1>10. /\ IsFiniteSet(DraftsOf(d) \union Drafted(d, new))
         /\ Cardinality(DraftsOf(d) \union Drafted(d, new)) = K + Len(new)
    <2> DEFINE D == DraftsOf(d)
               N == Drafted(d, new)
    <2>1. IsFiniteSet(D) /\ IsFiniteSet(N) /\ Cardinality(D \intersect N) = 0
      BY <1>7, <1>8, <1>9
    <2>2. Cardinality(D) = K /\ Cardinality(N) = Len(new)
      BY <1>7 DEF K
    <2> HIDE DEF D, N
    <2>3. IsFiniteSet(D \union N) /\ Cardinality(D \union N) = Cardinality(D) + Cardinality(N) - 0
      BY <2>1, FS_Union
    <2>4. IsFiniteSet(D \union N) /\ Cardinality(D \union N) = K + Len(new)
      BY <1>1, <2>2, <2>3
    <2> QED
      BY <2>4 DEF D, N
  <1>11. \A x \in Drafted(d, new) : \E n \in 1 .. Len(new) : x = Made(n)
    BY <1>2
  <1>12. \A x, y \in Drafted(d, new) : x.id = y.id => x = y
    BY <1>4, <1>11
  <1> QED
    BY <1>3, <1>10, <1>11, <1>12 DEF K

(* Drafts of imports that end, or are cut short, are numbered.                  *)
LEMMA AddedIdentified ==
  ASSUME Types, Identified, NEW D \in SUBSET Docs, NEW new, \A d \in D : new[d] \in Seq(NewDrafts),
         drafts' = drafts \union UNION {Drafted(d, new[d]) : d \in D}
  PROVE  Identified'
  <1> DEFINE K(d) == Cardinality(DraftsOf(d))
  <1>1. ASSUME NEW d \in D
        PROVE  /\ IsFiniteSet(DraftsOf(d) \union Drafted(d, new[d]))
               /\ Cardinality(DraftsOf(d) \union Drafted(d, new[d])) = K(d) + Len(new[d])
               /\ \A x \in Drafted(d, new[d]) : \E n \in 1 .. Len(new[d]) : x.id = <<d, K(d) + n>>
               /\ \A x, y \in Drafted(d, new[d]) : x.id = y.id => x = y
    BY NextNumbers
  <1>2. \A d \in D : \A x \in Drafted(d, new[d]) : x.doc = d
    BY DraftedType DEF Types
  <1>3. \A d \in Docs : DraftsOf(d)' = IF d \in D THEN DraftsOf(d) \union Drafted(d, new[d])
                                       ELSE DraftsOf(d)
    BY <1>2 DEF DraftsOf
  <1>4. \A d \in Docs : K(d) \in Nat /\ IsFiniteSet(DraftsOf(d))
    BY FS_CardinalityType DEF Identified
  <1>5. \A d \in D : Len(new[d]) \in Nat
    OBVIOUS
  <1>6. \A x \in drafts : x.doc \in Docs
    BY DEF Types, BcTypes, IsDraft
  <1>7. \A x \in drafts : \E n \in 1 .. K(x.doc) : x.id = <<x.doc, n>>
    BY DEF Identified
  <1>8. \A d \in Docs : Cardinality(DraftsOf(d)') = IF d \in D THEN K(d) + Len(new[d]) ELSE K(d)
    BY <1>1, <1>3
  <1>9. \A d \in Docs : IsFiniteSet(DraftsOf(d)')
    BY <1>1, <1>3, <1>4
  <1>10. \A x \in drafts' : x \in drafts \/ \E d \in D : x \in Drafted(d, new[d])
    OBVIOUS
  <1> HIDE DEF K
  <1>11. ASSUME NEW x \in drafts'
         PROVE  \E n \in 1 .. Cardinality(DraftsOf(x.doc)') : x.id = <<x.doc, n>>
    <2>1. CASE x \in drafts
      <3>1. K(x.doc) \in Nat /\ Cardinality(DraftsOf(x.doc)') \in Nat
            /\ K(x.doc) <= Cardinality(DraftsOf(x.doc)')
        BY <1>4, <1>5, <1>6, <1>8, <2>1
      <3>2. PICK n \in 1 .. K(x.doc) : x.id = <<x.doc, n>>
        BY <1>7, <2>1
      <3> QED
        BY <3>1, <3>2
    <2>2. CASE \E d \in D : x \in Drafted(d, new[d])
      <3>1. PICK d \in D : x \in Drafted(d, new[d])
        BY <2>2
      <3>2. x.doc = d /\ Cardinality(DraftsOf(d)') = K(d) + Len(new[d])
        BY <1>2, <1>8, <3>1
      <3>3. PICK n \in 1 .. Len(new[d]) : x.id = <<d, K(d) + n>>
        BY <1>1, <3>1
      <3>4. K(d) + n \in 1 .. K(d) + Len(new[d])
        BY <1>4, <1>5
      <3> QED
        BY <3>2, <3>3, <3>4
    <2> QED
      BY <1>10, <2>1, <2>2
  <1>12. ASSUME NEW x \in drafts, NEW d \in D, NEW y \in Drafted(d, new[d]) PROVE x.id # y.id
    <2>1. PICK m \in 1 .. K(x.doc) : x.id = <<x.doc, m>>
      BY <1>7
    <2>2. PICK n \in 1 .. Len(new[d]) : y.id = <<d, K(d) + n>>
      BY <1>1
    <2> QED
      BY <1>4, <1>5, <1>6, <2>1, <2>2
  <1>13. ASSUME NEW d \in D, NEW e \in D, NEW x \in Drafted(d, new[d]), NEW y \in Drafted(e, new[e]), x.id = y.id
         PROVE  x = y
    <2>1. PICK m \in 1 .. Len(new[d]) : x.id = <<d, K(d) + m>>
      BY <1>1
    <2>2. PICK n \in 1 .. Len(new[e]) : y.id = <<e, K(e) + n>>
      BY <1>1
    <2>3. <<d, K(d) + m>> = <<e, K(e) + n>>
      BY <1>13, <2>1, <2>2, Zenon
    <2>4. d = e
      BY <2>3
    <2> QED
      BY <1>1, <1>13, <2>4
  <1>14. \A x, y \in drafts' : x.id = y.id => x = y
    <2> SUFFICES ASSUME NEW x \in drafts', NEW y \in drafts', x.id = y.id PROVE x = y
      OBVIOUS
    <2>1. CASE x \in drafts /\ y \in drafts
      BY <2>1 DEF Identified
    <2>2. CASE ~(x \in drafts /\ y \in drafts)
      BY <1>10, <1>12, <1>13, <2>2
    <2> QED
      BY <2>1, <2>2
  <1> QED
    BY <1>9, <1>11, <1>14 DEF Identified

(* A draft that is posted keeps its number.                                     *)
LEMMA PostedIdentified ==
  ASSUME Types, Identified, NEW x \in drafts, drafts' = (drafts \ {x}) \union {[x EXCEPT !.posted = TRUE]}
  PROVE  Identified'
  <1> DEFINE w == [x EXCEPT !.posted = TRUE]
  <1>1. w.id = x.id /\ w.doc = x.doc /\ x.doc \in Docs
    BY DEF Types, BcTypes, IsDraft
  <1> HIDE DEF w
  <1>2. drafts' = (drafts \ {x}) \union {w}
    BY DEF w
  <1>3. \A d \in Docs : DraftsOf(d)' = IF d = x.doc THEN (DraftsOf(d) \ {x}) \union {w} ELSE DraftsOf(d)
    BY <1>1, <1>2 DEF DraftsOf
  <1>4. w \notin DraftsOf(x.doc) \ {x}
    BY <1>1 DEF Identified, DraftsOf
  <1>5. /\ IsFiniteSet((DraftsOf(x.doc) \ {x}) \union {w})
        /\ Cardinality((DraftsOf(x.doc) \ {x}) \union {w}) = Cardinality(DraftsOf(x.doc))
    <2>1. x \in DraftsOf(x.doc) /\ IsFiniteSet(DraftsOf(x.doc))
      BY <1>1 DEF DraftsOf, Identified
    <2>2. /\ IsFiniteSet(DraftsOf(x.doc) \ {x}) /\ Cardinality(DraftsOf(x.doc)) \in Nat
          /\ Cardinality(DraftsOf(x.doc) \ {x}) = Cardinality(DraftsOf(x.doc)) - 1
      BY <2>1, FS_RemoveElement, FS_CardinalityType
    <2> DEFINE R == DraftsOf(x.doc) \ {x}
    <2>3. IsFiniteSet(R) /\ w \notin R
      BY <1>4, <2>2
    <2> HIDE DEF R
    <2>4. IsFiniteSet(R \union {w}) /\ Cardinality(R \union {w}) = Cardinality(R) + 1
      BY <2>3, FS_AddElement
    <2> QED
      BY <2>2, <2>4 DEF R
  <1>6. \A d \in Docs : IsFiniteSet(DraftsOf(d)') /\ Cardinality(DraftsOf(d)') = Cardinality(DraftsOf(d))
    BY <1>3, <1>5 DEF Identified
  <1>7. \A y \in drafts' : \E z \in drafts : y.id = z.id /\ y.doc = z.doc /\ z.doc \in Docs
    BY <1>1, <1>2 DEF Types, BcTypes, IsDraft
  <1>8. \A y \in drafts' : \E n \in 1 .. Cardinality(DraftsOf(y.doc)') : y.id = <<y.doc, n>>
    BY <1>6, <1>7 DEF Identified
  <1>9. \A y, z \in drafts' : y.id = z.id => y = z
    BY <1>1, <1>2 DEF Identified
  <1> QED
    BY <1>6, <1>8, <1>9 DEF Identified

(* Every step keeps them told apart.                                            *)
LEMMA IdentifiedNext == Types /\ Identified /\ [Next]_vars => Identified'
  <1> SUFFICES ASSUME Types, Identified, [Next]_vars PROVE Identified'
    OBVIOUS
  <1> USE DEF bc
  <1>1. ASSUME UNCHANGED drafts PROVE Identified'
    BY <1>1 DEF Identified, DraftsOf
  <1>2. ASSUME NEW reprocess \in BOOLEAN, Start(reprocess) PROVE Identified'
    BY <1>1, <1>2 DEF Start
  <1>3. CASE MainStep \/ FetchFails
    BY <1>1, <1>3 DEF MainStep, FetchChunk, ChunkImported, Backpressure, Join, FetchFails, Exit
  <1>4. CASE Crash
    <2>1. PICK cut \in [Importing -> UNION {CutShort(Way(d)) : d \in Importing}] :
              /\ \A d \in Importing : cut[d] \in CutShort(Way(d))
              /\ drafts' = drafts \union UNION {Drafted(d, cut[d]) : d \in Importing}
      BY <1>4 DEF Crash
    <2>2. Importing \in SUBSET Docs
      BY DEF Importing
    <2>3. \A d \in Importing : cut[d] \in Seq(NewDrafts)
      BY <2>1, CutShortType
    <2> QED
      BY <2>1, <2>2, <2>3, AddedIdentified
  <1>5. ASSUME NEW d \in Docs, ImportStep(d) PROVE Identified'
    <2>1. CASE ImportOne(d)
      <3>1. PICK ok \in BOOLEAN : \E left \in Leftovers(Way(d), ok) :
                drafts' = drafts \union Drafted(d, left.drafts)
        BY <2>1 DEF ImportOne
      <3>2. PICK left \in Leftovers(Way(d), ok) : drafts' = drafts \union Drafted(d, left.drafts)
        BY <3>1
      <3> DEFINE new == [e \in {d} |-> left.drafts]
      <3>3. drafts' = drafts \union UNION {Drafted(e, new[e]) : e \in {d}}
        BY <3>2
      <3>4. \A e \in {d} : new[e] \in Seq(NewDrafts)
        BY LeftoversType
      <3>5. {d} \in SUBSET Docs
        OBVIOUS
      <3> HIDE DEF new
      <3> QED
        BY <3>3, <3>4, <3>5, AddedIdentified
    <2>2. CASE ~ImportOne(d)
      BY <1>1, <1>5, <2>2 DEF ImportStep, Validate, RecordErrors, SetStatus, SetBcDocumentNo, RejectImport
    <2> QED
      BY <2>1, <2>2
  <1>6. ASSUME NEW i \in DOMAIN tasks, TaskStep(i) PROVE Identified'
    BY <1>1, <1>6 DEF TaskStep, Flip, Flipped, Trigger, Rerun, Poll, ListPostResults, ApplyNext, Reconciled
  <1>7. ASSUME NEW j \in jobs, JobStep(j) \/ SessionDies(j) PROVE Identified'
    BY <1>1, <1>7, PostedIdentified DEF JobStep, JobEnds, PostDraft, SessionDies
  <1>8. CASE UNCHANGED vars
    BY <1>1, <1>8 DEF vars
  <1> QED
    BY <1>2, <1>3, <1>4, <1>5, <1>6, <1>7, <1>8 DEF Next
===============================================================================

--------------------------- MODULE OrchestratorRuns ---------------------------
(* Proofs about whole runs of Orchestrator, for any number of documents, chunks *)
(* and post tasks: a run that meets no fault settles every document, what is    *)
(* posted stays posted through every fault, requeue and later run, and a        *)
(* document that gets its batch code last is posted once, however often it is   *)
(* run again, as long as every answer arrives; what is left behind imported or  *)
(* posting stays so.                                                            *)
EXTENDS OrchestratorProofs, WellFoundedInduction

\* A post task finds the document under its external number.
Mine(t, d) == Ext[d] \in DOMAIN t.map /\ t.map[Ext[d]] = d

-------------------------------------------------------------------------------
(* A run without a fault                                                        *)

\* What the theorem assumes: numbers that BC keeps as they are, and no two alike;
\* rows that can be written; chunks that are not empty.
CodesKept == \A d \in Docs : BcCode[Ext[d]] = Ext[d]
CleanData == NumbersDistinct /\ CodesKept /\ Stuck = {} /\ ChunkSize # 0

Open(b, d) == \E x \in drafts : x.doc = d /\ x.batch = b /\ ~x.posted
InJob(b, d) ==
    \E j \in jobs : /\ j.batch = b /\ j.kind = Kind[d]
                    /\ \E x \in drafts : x.doc = d /\ x.batch = b /\ x.id \in j.todo
Reported(b, d) == \E r \in results : r.batch = b /\ r.ext = BcCode[Ext[d]]

\* A task has still to learn what has become of a document.
Pending(t, d) ==
    /\ Mine(t, d)
    /\ \/ /\ t.pc \in {"flip", "trigger"} /\ Kind[d] \in t.kinds
          /\ Open(t.batch, d) \/ Reported(t.batch, d)
       \/ /\ t.pc \in {"trigger", "poll"} /\ Kind[d] \notin t.kinds
          /\ (Kind[d] \in t.polling /\ InJob(t.batch, d)) \/ Reported(t.batch, d)
       \/ t.pc = "apply" /\ \E r \in t.rows : r.ext = BcCode[Ext[d]]

TasksClean ==
    \A i \in DOMAIN tasks : /\ tasks[i].flipped
                            /\ Repeating(tasks[i]) = {}
                            /\ \A d \in tasks[i].flip : tasks[i].pc = "flip" /\ Pending(tasks[i], d)

\* Nothing is left between import and posting that no task will see to.
PostingClean ==
    \A d \in Docs :
        /\ status[d] = "posting" => \E i \in DOMAIN tasks : Pending(tasks[i], d)
        /\ status[d] = "imported" => imp[d] = "yes" \/ \E i \in DOMAIN tasks : d \in tasks[i].flip

\* What an import future ends with is in the chunk's batch; no document is
\* validated that the run has attempted.
ImportClean ==
    \A d \in Docs :
        /\ imp[d] # "err"
        /\ imp[d] \in {"number", "imported", "yes"} => Open(ChunkCode, d) \/ Reported(ChunkCode, d)
        /\ imp[d] \in {"yes", "no"} => status[d] # "validated"
        /\ d \in seen /\ status[d] = "validated" => main = "down" \/ imp[d] # "none"

RunClean == main = "join" \/ (main = "down" /\ lastEnd = "complete") => Validated = {}

Settling == TasksClean /\ PostingClean /\ ImportClean /\ RunClean
Clean == faults = 0 => Settling

(* A set of numbers has a least.                                                *)
LEMMA Least ==
  ASSUME NEW T \in SUBSET Nat, T # {}
  PROVE  \E n \in T : \A m \in T : n <= m
  <1> DEFINE R == {p \in Nat \X Nat : p[1] < p[2]}
  <1>1. IsWellFoundedOn(R, Nat)
    BY NatLessThanWellFounded, Zenon DEF OpToRel
  <1>2. PICK n \in T : \A m \in T : ~(<<m, n>> \in R)
    BY <1>1, WFMin, Zenon
  <1>3. \A m \in T : ~(m < n)
    BY <1>2
  <1> QED
    BY <1>3

(* A page of something is not nothing.                                          *)
LEMMA PageNotEmpty ==
  ASSUME ChunkSize # 0, Validated # {}
  PROVE  Page # {}
  <1>1. {Age[d] : d \in Validated} \in SUBSET Nat /\ {Age[d] : d \in Validated} # {}
    BY DocsAssumption DEF Validated
  <1>2. PICK n \in {Age[d] : d \in Validated} : \A m \in {Age[d] : d \in Validated} : n <= m
    BY <1>1, Least
  <1>3. PICK d \in Validated : Age[d] = n
    BY <1>2
  <1>4. \A e \in Validated : Age[e] \in Nat /\ Age[d] \in Nat
    BY DocsAssumption DEF Validated
  <1>5. {e \in Validated : Age[e] < Age[d]} = {}
    BY <1>2, <1>3, <1>4
  <1>6. Cardinality({e \in Validated : Age[e] < Age[d]}) = 0
    BY <1>5, FS_EmptySet
  <1> QED
    BY <1>3, <1>6, SizeAssumption DEF Page

(* Faults are counted: as long as there has been none, no step takes one.       *)
LEMMA Quiet ==
  ASSUME Types, [Next]_vars, faults' = 0
  PROVE  faults = 0 /\ \A kind : ~Fault(kind)
  <1>1. faults \in Nat
    BY BoundAssumption DEF Types, FaultTypes
  <1>2. \A kind : ~Fault(kind)
    BY <1>1 DEF Fault
  <1>3. \A d : Writes(d) \/ WriteFails(d) \/ WriteLost(d) => faults = 0
    BY <1>2 DEF Writes, WriteFails, WriteLost, NoFault
  <1>4. ASSUME NEW reprocess \in BOOLEAN, Start(reprocess) PROVE faults = 0
    BY <1>4 DEF Start
  <1>5. CASE MainStep \/ FetchFails \/ Crash
    BY <1>2, <1>5 DEF MainStep, FetchChunk, ChunkImported, Backpressure, Join, NoFault, FetchFails, Crash
  <1>6. ASSUME NEW d \in Docs, ImportStep(d) PROVE faults = 0
    <2>1. CASE ImportOne(d)
      <3>1. PICK ok \in BOOLEAN : \E left \in Leftovers(Way(d), ok) :
                faults' = faults + Cardinality(left.faults)
        BY <2>1 DEF ImportOne
      <3>2. PICK left \in Leftovers(Way(d), ok) : faults' = faults + Cardinality(left.faults)
        BY <3>1
      <3>3. left.faults \subseteq {"reply", "retry"}
        BY LeftoversType
      <3>4. IsFiniteSet({"reply"} \union {"retry"}) /\ {"reply"} \union {"retry"} = {"reply", "retry"}
        BY FS_Singleton, FS_Union
      <3>5. Cardinality(left.faults) \in Nat
        BY <3>3, <3>4, FS_Subset, FS_CardinalityType
      <3> QED
        BY <1>1, <3>2, <3>5
    <2>2. CASE ~ImportOne(d)
      BY <1>2, <1>3, <1>6, <2>2
         DEF ImportStep, Validate, RecordErrors, SetStatus, SetBcDocumentNo, RejectImport, NoFault
    <2> QED
      BY <2>1, <2>2
  <1>7. ASSUME NEW i \in DOMAIN tasks, TaskStep(i) PROVE faults = 0
    BY <1>2, <1>3, <1>7
       DEF TaskStep, Flip, Flipped, Trigger, Rerun, Poll, ListPostResults, ApplyNext, ApplyRow, Reconciled, NoFault
  <1>8. ASSUME NEW j \in jobs, JobStep(j) \/ SessionDies(j) PROVE faults = 0
    BY <1>2, <1>8 DEF JobStep, JobEnds, PostDraft, SessionDies
  <1>9. CASE UNCHANGED vars
    BY <1>2, <1>9 DEF vars
  <1> QED
    BY <1>2, <1>4, <1>5, <1>6, <1>7, <1>8, <1>9 DEF Next

(* What is in a batch is posted, or reported; what a job has to post stays in   *)
(* it until it is reported.                                                     *)
LEMMA NothingLost ==
  ASSUME Types, Identified, [Next]_vars, faults' = 0
  PROVE  \A b, d : /\ Open(b, d) => Open(b, d)' \/ Reported(b, d)'
                   /\ InJob(b, d) => InJob(b, d)' \/ Reported(b, d)'
                   /\ Reported(b, d) => Reported(b, d)'
  <1> DEFINE Goal == \A b, d : /\ Open(b, d) => Open(b, d)' \/ Reported(b, d)'
                               /\ InJob(b, d) => InJob(b, d)' \/ Reported(b, d)'
                               /\ Reported(b, d) => Reported(b, d)'
  <1> SUFFICES Goal
    OBVIOUS
  <1> USE DEF bc
  <1>1. ASSUME drafts \subseteq drafts', jobs \subseteq jobs', results \subseteq results' PROVE Goal
    BY <1>1 DEF Open, InJob, Reported
  <1> HIDE DEF Goal
  <1>2. ASSUME NEW reprocess \in BOOLEAN, Start(reprocess) PROVE Goal
    BY <1>1, <1>2 DEF Start
  <1>3. CASE MainStep
    BY <1>1, <1>3 DEF MainStep, FetchChunk, ChunkImported, Backpressure, Join, Exit
  <1>30. CASE FetchFails \/ Crash
    BY <1>30, Quiet DEF FetchFails, Crash
  <1>4. ASSUME NEW d \in Docs, ImportStep(d) PROVE Goal
    BY <1>1, <1>4 DEF ImportStep, Validate, RecordErrors, SetStatus, ImportOne, SetBcDocumentNo, RejectImport
  <1>5. ASSUME NEW i \in DOMAIN tasks, TaskStep(i) PROVE Goal
    BY <1>1, <1>5 DEF TaskStep, Flip, Flipped, Trigger, Rerun, Started, Poll, ListPostResults, ApplyNext, Reconciled
  <1>6. ASSUME NEW j \in jobs, JobEnds(j) PROVE Goal
    BY <1>6 DEF JobEnds, Goal, Open, InJob, Reported
  <1>7. ASSUME NEW j \in jobs, NEW x \in drafts, PostDraft(j, x) PROVE Goal
    <2>1. results \subseteq results' /\ Reported(x.batch, x.doc)'
      <3>1. PICK ok \in BOOLEAN : results' = Outcome(x, ok)
        BY <1>7 DEF PostDraft
      <3> DEFINE r == [entry |-> Cardinality(results) + 1, batch |-> x.batch,
                       ext |-> BcCode[Ext[x.doc]], success |-> ok]
      <3>2. results' = results \union {r}
        BY <3>1 DEF Outcome
      <3>3. r.batch = x.batch /\ r.ext = BcCode[Ext[x.doc]]
        OBVIOUS
      <3> HIDE DEF r
      <3>4. \E q \in results' : q.batch = x.batch /\ q.ext = BcCode[Ext[x.doc]]
        BY <3>2, <3>3
      <3> QED
        BY <3>2, <3>4 DEF Reported
    <2>2. \A y \in drafts : y # x => y \in drafts'
      BY <1>7 DEF PostDraft
    <2>3. \A y \in drafts : y.id = x.id => y = x
      BY DEF Identified
    <2>4. \A i \in jobs : \E k \in jobs' : /\ k.batch = i.batch /\ k.kind = i.kind
                                           /\ \A id \in i.todo : id # x.id => id \in k.todo
      <3>1. jobs' = (jobs \ {j}) \union {[j EXCEPT !.todo = @ \ {x.id}]}
        BY <1>7 DEF PostDraft, WithoutDraft
      <3>2. DOMAIN j = {"batch", "kind", "todo"}
        BY DEF Types, BcTypes, IsJob
      <3> DEFINE k == [j EXCEPT !.todo = @ \ {x.id}]
      <3>3. k.batch = j.batch /\ k.kind = j.kind /\ k.todo = j.todo \ {x.id}
        BY <3>2
      <3> HIDE DEF k
      <3>4. jobs' = (jobs \ {j}) \union {k}
        BY <3>1 DEF k
      <3> QED
        BY <3>3, <3>4
    <2>5. ASSUME NEW b, NEW d, Open(b, d) PROVE Open(b, d)' \/ Reported(b, d)'
      BY <2>1, <2>2, <2>5 DEF Open
    <2>6. ASSUME NEW b, NEW d, InJob(b, d) PROVE InJob(b, d)' \/ Reported(b, d)'
      <3>1. PICK i \in jobs : /\ i.batch = b /\ i.kind = Kind[d]
                              /\ \E y \in drafts : y.doc = d /\ y.batch = b /\ y.id \in i.todo
        BY <2>6 DEF InJob
      <3>2. PICK y \in drafts : y.doc = d /\ y.batch = b /\ y.id \in i.todo
        BY <3>1
      <3>3. CASE y = x
        BY <2>1, <3>2, <3>3
      <3>4. CASE y # x
        <4>1. y \in drafts' /\ y.id # x.id
          BY <2>2, <2>3, <3>4
        <4>2. PICK k \in jobs' : k.batch = b /\ k.kind = Kind[d] /\ y.id \in k.todo
          BY <2>4, <3>1, <3>2, <4>1
        <4> QED
          BY <3>2, <4>1, <4>2 DEF InJob
      <3> QED
        BY <3>3, <3>4
    <2>7. ASSUME NEW b, NEW d, Reported(b, d) PROVE Reported(b, d)'
      BY <2>1, <2>7 DEF Reported
    <2> QED
      BY <2>5, <2>6, <2>7 DEF Goal
  <1>8. ASSUME NEW j \in jobs, SessionDies(j) PROVE Goal
    BY <1>8, Quiet DEF SessionDies
  <1>9. CASE UNCHANGED vars
    BY <1>1, <1>9 DEF vars
  <1> QED
    BY <1>2, <1>3, <1>30, <1>4, <1>5, <1>6, <1>7, <1>8, <1>9 DEF Next, JobStep, Goal

(* What is pending for a task stays so, as long as the task stays where it is.  *)
LEMMA PendingStays ==
  ASSUME Types, Identified, [Next]_vars, faults' = 0
  PROVE  \A t, d : Pending(t, d) => Pending(t, d)'
  <1> SUFFICES ASSUME NEW t, NEW d, Pending(t, d) PROVE Pending(t, d)'
    OBVIOUS
  <1> DEFINE b == t.batch
  <1>1. /\ Open(b, d) => Open(b, d)' \/ Reported(b, d)'
        /\ InJob(b, d) => InJob(b, d)' \/ Reported(b, d)'
        /\ Reported(b, d) => Reported(b, d)'
    BY NothingLost
  <1> QED
    BY <1>1 DEF Pending, Mine

(* An import future and what is attempted are in order as long as no document   *)
(* becomes validated, and the main task stays where it is.                      *)
LEMMA ImportStays ==
  ASSUME Types, Identified, Settling, [Next]_vars, faults' = 0,
         UNCHANGED <<run, seen, chunkIdx, imp>>,
         UNCHANGED <<main, lastEnd>> \/ (main # "down" /\ main' = "fetch"),
         \A d \in Docs : status'[d] = "validated" => status[d] = "validated"
  PROVE  ImportClean' /\ RunClean'
  <1>1. ChunkCode' = ChunkCode
    BY DEF ChunkCode
  <1>2. \A b, d : Open(b, d) \/ Reported(b, d) => Open(b, d)' \/ Reported(b, d)'
    BY NothingLost
  <1>3. PICK c : c = ChunkCode
    OBVIOUS
  <1>4. \A d \in Docs : imp[d] \in {"number", "imported", "yes"} => Open(c, d)' \/ Reported(c, d)'
    BY <1>2, <1>3 DEF Settling, ImportClean
  <1>5. ASSUME NEW d \in Docs, imp'[d] \in {"number", "imported", "yes"}
        PROVE  (Open(ChunkCode, d) \/ Reported(ChunkCode, d))'
    <2>1. Open(c, d)' \/ Reported(c, d)'
      BY <1>4, <1>5
    <2> QED
      BY <1>1, <1>3, <2>1 DEF Open, Reported
  <1>6. ImportClean'
    BY <1>5 DEF Settling, ImportClean
  <1>7. Validated' \subseteq Validated
    BY DEF Validated
  <1> QED
    BY <1>6, <1>7 DEF Settling, RunClean

(* A post task is in order after a step if it still sees to every document, or  *)
(* has settled it.                                                              *)
LEMMA TaskStays ==
  ASSUME Types, Identified, Settling, [Next]_vars, faults' = 0,
         NEW i \in DOMAIN tasks, NEW t, t = tasks[i], NEW u, tasks' = [tasks EXCEPT ![i] = u],
         UNCHANGED imp,
         u.flipped, Repeating(u) = {}, \A d \in u.flip : u.pc = "flip" /\ Pending(u, d)',
         \A d \in Docs : Pending(t, d) => Pending(u, d)' \/ status'[d] # "posting",
         \A d \in Docs : status'[d] = "posting" => status[d] = "posting" \/ Pending(u, d)',
         \A d \in Docs : status'[d] = "imported" => status[d] = "imported" /\ (d \in t.flip => d \in u.flip)
  PROVE  TasksClean' /\ PostingClean'
  <1>1. /\ DOMAIN tasks' = DOMAIN tasks /\ tasks'[i] = u
        /\ \A n \in DOMAIN tasks : n # i => tasks'[n] = tasks[n]
    OBVIOUS
  <1>2. \A n \in DOMAIN tasks : \E v : v = tasks'[n]
    OBVIOUS
  <1>3. \A v, d : v = u => (Pending(v, d)' <=> Pending(u, d)')
    OBVIOUS
  <1>4. ASSUME NEW n \in DOMAIN tasks', NEW d, n = i, Pending(u, d)' PROVE Pending(tasks[n], d)'
    <2>1. tasks'[n] = u
      BY <1>1, <1>4
    <2> QED
      BY <1>4, <2>1 DEF Pending, Mine
  <1>5. ASSUME NEW n \in DOMAIN tasks', NEW d, n # i, Pending(tasks[n], d) PROVE Pending(tasks[n], d)'
    <2>1. PICK v : v = tasks[n]
      OBVIOUS
    <2>2. tasks'[n] = v
      BY <1>1, <1>5, <2>1
    <2>3. Pending(v, d)
      BY <1>5, <2>1
    <2>4. Pending(v, d)'
      BY <2>3, PendingStays
    <2> QED
      BY <2>2, <2>4 DEF Pending, Mine
  <1>6. TasksClean'
    <2> SUFFICES ASSUME NEW n \in DOMAIN tasks'
                 PROVE  /\ tasks'[n].flipped /\ Repeating(tasks'[n]) = {}
                        /\ \A d \in tasks'[n].flip : tasks'[n].pc = "flip" /\ Pending(tasks[n], d)'
      BY DEF TasksClean
    <2>1. CASE n = i
      BY <1>1, <1>4, <2>1
    <2>2. CASE n # i
      BY <1>1, <1>5, <2>2 DEF Settling, TasksClean
    <2> QED
      BY <2>1, <2>2
  <1>7. ASSUME NEW d \in Docs, status'[d] = "posting" PROVE \E n \in DOMAIN tasks' : Pending(tasks[n], d)'
    <2>1. CASE Pending(u, d)'
      BY <1>1, <1>4, <2>1
    <2>2. CASE ~Pending(u, d)'
      <3>1. status[d] = "posting" /\ ~Pending(t, d)
        BY <1>7, <2>2
      <3>2. PICK n \in DOMAIN tasks : Pending(tasks[n], d)
        BY <3>1 DEF Settling, PostingClean
      <3>3. n # i
        BY <3>1, <3>2
      <3> QED
        BY <1>1, <1>5, <3>2, <3>3
    <2> QED
      BY <2>1, <2>2
  <1>8. ASSUME NEW d \in Docs, status'[d] = "imported"
        PROVE  imp'[d] = "yes" \/ \E n \in DOMAIN tasks' : d \in tasks'[n].flip
    BY <1>1, <1>8 DEF Settling, PostingClean
  <1> QED
    BY <1>6, <1>7, <1>8 DEF PostingClean

(* The post tasks see to their documents.                                       *)
LEMMA SettlingTask ==
  ASSUME CleanData, Types, Identified, Settling, [Next]_vars, faults' = 0,
         NEW i \in DOMAIN tasks, TaskStep(i)
  PROVE  Settling'
  <1>1. PICK t : t = tasks[i]
    OBVIOUS
  <1>2. t \in TaskRecords
    BY <1>1 DEF Types, MainTypes
  <1>3. t.flipped /\ \A d \in t.flip : t.pc = "flip" /\ Pending(t, d)
    BY <1>1 DEF Settling, TasksClean
  <1>30. Repeating(t) = {}
    BY <1>1 DEF Settling, TasksClean
  <1>4. faults = 0 /\ \A kind : ~Fault(kind)
    BY Quiet
  <1>5. \A d : ~WriteFails(d) /\ ~WriteLost(d)
    BY <1>4 DEF WriteFails, WriteLost, CleanData
  <1>6. UNCHANGED RestOfTask
    BY DEF TaskStep, Flip, Flipped, Trigger, Rerun, Poll, ListPostResults, ApplyNext, Reconciled
  <1>7. UNCHANGED <<run, main, seen, chunkIdx, imp, lastEnd>>
    BY <1>6 DEF RestOfTask
  <1>8. ASSUME \A d \in Docs : status'[d] = "validated" => status[d] = "validated", TasksClean', PostingClean'
        PROVE  Settling'
    BY <1>7, <1>8, ImportStays DEF Settling
  <1>9. \A v, d : Pending(v, d) => Pending(v, d)'
    BY PendingStays
  <1>10. ASSUME UNCHANGED bc PROVE \A v, d : Pending(v, d)' <=> Pending(v, d)
    BY <1>10 DEF bc, Pending, Mine, Open, InJob, Reported
  <1>11. status \in [Docs -> Statuses]
    BY DEF Types, StagingTypes
  <1>12. ASSUME NEW d \in Docs, Flip(i, d) PROVE Settling'
    <2>1. PICK u : u = [t EXCEPT !.flip = @ \ {d}]
      OBVIOUS
    <2>2. /\ d \in t.flip /\ t.pc = "flip" /\ UNCHANGED bc
          /\ status' = [status EXCEPT ![d] = "posting"] /\ tasks' = [tasks EXCEPT ![i] = u]
      BY <1>1, <1>5, <1>12, <2>1 DEF Flip, Task
    <2>3. /\ u.flip = t.flip \ {d} /\ u.flipped = t.flipped /\ u.pc = t.pc /\ u.map = t.map
          /\ u.kinds = t.kinds /\ u.batch = t.batch /\ u.polling = t.polling /\ u.rows = t.rows
      BY <1>2, <2>1 DEF TaskRecords
    <2>4. \A e : Pending(u, e) <=> Pending(t, e)
      BY <2>3 DEF Pending, Mine
    <2>5. \A e : Pending(u, e)' <=> Pending(t, e)
      BY <1>10, <2>2, <2>4
    <2>6. TasksClean' /\ PostingClean'
      <3>1. \A e \in Docs : status'[e] = "posting" => status[e] = "posting" \/ Pending(u, e)'
        BY <1>3, <1>11, <2>2, <2>5
      <3>2. \A e \in Docs : status'[e] = "imported" => status[e] = "imported" /\ (e \in t.flip => e \in u.flip)
        BY <1>11, <2>2, <2>3
      <3>3. u.flipped /\ Repeating(u) = {} /\ \A e \in u.flip : u.pc = "flip" /\ Pending(u, e)'
        BY <1>3, <1>30, <2>3, <2>5 DEF Repeating
      <3> QED
        BY <1>1, <1>7, <2>2, <2>5, <3>1, <3>2, <3>3, TaskStays
    <2> QED
      BY <1>8, <1>11, <2>2, <2>6
  <1>13. ASSUME UNCHANGED status, NEW u, tasks' = [tasks EXCEPT ![i] = u], u.flipped, u.flip = {}, t.flip = {},
                u.kinds \subseteq t.kinds, u.polling \subseteq t.polling \/ u.kinds \intersect u.polling = {},
                \A d \in Docs : Pending(t, d) => Pending(u, d)'
         PROVE  Settling'
    <2>0. Repeating(u) = {}
      BY <1>13, <1>30 DEF Repeating
    <2>1. TasksClean' /\ PostingClean'
      BY <1>1, <1>7, <1>13, <2>0, TaskStays
    <2> QED
      BY <1>8, <1>13, <2>1
  <1>14. CASE Flipped(i)
    <2>1. PICK u : u = [t EXCEPT !.pc = "trigger"]
      OBVIOUS
    <2>2. t.pc = "flip" /\ t.flip = {} /\ UNCHANGED <<status, bc>> /\ tasks' = [tasks EXCEPT ![i] = u]
      BY <1>1, <1>3, <1>14, <2>1 DEF Flipped, Task, staging
    <2>3. /\ u.flip = t.flip /\ u.flipped = t.flipped /\ u.pc = "trigger" /\ u.map = t.map
          /\ u.kinds = t.kinds /\ u.batch = t.batch /\ u.polling = t.polling
      BY <1>2, <2>1 DEF TaskRecords
    <2>4. \A e : Pending(t, e) => Pending(u, e)
      BY <2>2, <2>3 DEF Pending, Mine
    <2>5. \A e : Pending(t, e) => Pending(u, e)'
      BY <1>10, <2>2, <2>4
    <2> QED
      BY <1>3, <1>13, <2>2, <2>3, <2>5
  <1>15. ASSUME NEW k \in Kinds, Trigger(i, k) PROVE Settling'
    <2>1. PICK u : u = [t EXCEPT !.kinds = @ \ {k}, !.polling = @ \union {k},
                                 !.pc = IF @ = "trigger" /\ t.kinds = {k} THEN "poll" ELSE @]
      OBVIOUS
    <2> DEFINE job == [batch |-> t.batch, kind |-> k, todo |-> Collected(t.batch, k)]
    <2>2. /\ t.pc = "trigger" /\ k \in t.kinds /\ UNCHANGED <<status, drafts, results>>
          /\ tasks' = [tasks EXCEPT ![i] = u] /\ jobs' = jobs \union {job}
      BY <1>1, <1>4, <1>15, <2>1 DEF Trigger, Started, Triggered, Task, staging
    <2>3. /\ u.flip = t.flip /\ u.flipped = t.flipped /\ u.map = t.map /\ u.batch = t.batch
          /\ u.kinds = t.kinds \ {k} /\ u.polling = t.polling \union {k}
          /\ u.pc = IF t.kinds = {k} THEN "poll" ELSE "trigger"
      BY <1>2, <2>1, <2>2 DEF TaskRecords
    <2>30. u.kinds \subseteq t.kinds /\ u.kinds \intersect u.polling = {}
      BY <1>30, <2>3 DEF Repeating
    <2>4. t.flip = {}
      BY <1>3, <2>2
    <2>5. ASSUME NEW d \in Docs, Pending(t, d) PROVE Pending(u, d)'
      <3>1. Mine(u, d) /\ Mine(t, d)
        BY <2>3, <2>5 DEF Pending, Mine
      <3>2. /\ Open(t.batch, d) => Open(t.batch, d)' \/ Reported(t.batch, d)'
            /\ InJob(t.batch, d) => InJob(t.batch, d)' \/ Reported(t.batch, d)'
            /\ Reported(t.batch, d) => Reported(t.batch, d)'
        BY NothingLost
      <3>3. CASE Kind[d] = k
        <4>1. Kind[d] \in t.kinds /\ (Open(t.batch, d) \/ Reported(t.batch, d))
          BY <2>2, <2>5, <3>3 DEF Pending
        <4>2. Open(t.batch, d) => InJob(t.batch, d)'
          <5> SUFFICES ASSUME NEW x \in drafts, x.doc = d, x.batch = t.batch, ~x.posted
                       PROVE  InJob(t.batch, d)'
            BY DEF Open
          <5>1. x.id \in job.todo /\ job.batch = t.batch /\ job.kind = Kind[d]
            BY <3>3 DEF Collected
          <5>2. x \in drafts' /\ job \in jobs'
            BY <2>2
          <5> HIDE DEF job
          <5> QED
            BY <5>1, <5>2 DEF InJob
        <4>3. Kind[d] \notin u.kinds /\ Kind[d] \in u.polling /\ u.pc \in {"trigger", "poll"}
          BY <2>3, <3>3
        <4>4. InJob(u.batch, d)' \/ Reported(u.batch, d)'
          BY <2>3, <3>2, <4>1, <4>2
        <4> QED
          BY <3>1, <4>3, <4>4 DEF Pending, Mine
      <3>4. CASE Kind[d] # k /\ Kind[d] \in t.kinds
        <4>1. Open(u.batch, d)' \/ Reported(u.batch, d)'
          <5>1. Open(t.batch, d) \/ Reported(t.batch, d)
            BY <2>2, <2>5, <3>4 DEF Pending
          <5>2. Open(t.batch, d)' \/ Reported(t.batch, d)'
            BY <3>2, <5>1
          <5> QED
            BY <2>3, <5>2
        <4>2. u.pc = "trigger" /\ Kind[d] \in u.kinds
          BY <2>3, <3>4
        <4> QED
          BY <3>1, <4>1, <4>2 DEF Pending, Mine
      <3>5. CASE Kind[d] # k /\ Kind[d] \notin t.kinds
        <4>1. (Kind[d] \in t.polling /\ InJob(t.batch, d)) \/ Reported(t.batch, d)
          BY <2>2, <2>5, <3>5 DEF Pending
        <4>2. (Kind[d] \in u.polling /\ InJob(u.batch, d)') \/ Reported(u.batch, d)'
          BY <2>3, <3>2, <4>1
        <4>3. u.pc \in {"trigger", "poll"} /\ Kind[d] \notin u.kinds
          BY <2>3, <3>5
        <4> QED
          BY <3>1, <4>2, <4>3 DEF Pending, Mine
      <3> QED
        BY <3>3, <3>4, <3>5
    <2> QED
      BY <1>3, <1>13, <2>2, <2>3, <2>30, <2>4, <2>5
  <1>150. ASSUME NEW k \in Kinds PROVE ~Rerun(i, k)
    BY <1>1, <1>30 DEF Rerun
  <1>16. ASSUME NEW k \in Kinds, Poll(i, k) PROVE Settling'
    <2>1. PICK u : u = [t EXCEPT !.polling = @ \ {k}]
      OBVIOUS
    <2>2. /\ t.pc = "poll" /\ UNCHANGED <<status, bc>> /\ tasks' = [tasks EXCEPT ![i] = u]
          /\ \A j \in jobs : ~(j.batch = t.batch /\ j.kind = k)
      BY <1>1, <1>4, <1>16, <2>1 DEF Poll, Task, staging
    <2>3. /\ u.flip = t.flip /\ u.flipped = t.flipped /\ u.map = t.map /\ u.batch = t.batch
          /\ u.kinds = t.kinds /\ u.polling = t.polling \ {k} /\ u.pc = "poll"
      BY <1>2, <2>1, <2>2 DEF TaskRecords
    <2>4. t.flip = {}
      BY <1>3, <2>2
    <2>5. ASSUME NEW d \in Docs, Pending(t, d) PROVE Pending(u, d)
      <3>1. Kind[d] = k => ~InJob(t.batch, d)
        BY <2>2 DEF InJob
      <3>2. Mine(u, d) /\ Kind[d] \notin t.kinds
        BY <2>2, <2>3, <2>5 DEF Pending, Mine
      <3>3. (Kind[d] \in t.polling /\ InJob(t.batch, d)) \/ Reported(t.batch, d)
        BY <2>2, <2>5 DEF Pending
      <3> QED
        BY <2>3, <3>1, <3>2, <3>3 DEF Pending
    <2>6. \A d \in Docs : Pending(t, d) => Pending(u, d)'
      BY <1>10, <2>2, <2>5
    <2> QED
      BY <1>3, <1>13, <2>2, <2>3, <2>4, <2>6
  <1>17. CASE ListPostResults(i)
    <2>1. PICK u : u = [t EXCEPT !.pc = "apply", !.rows = {r \in results : r.batch = t.batch}]
      OBVIOUS
    <2>2. t.pc = "poll" /\ t.polling = {} /\ UNCHANGED <<status, bc>> /\ tasks' = [tasks EXCEPT ![i] = u]
      BY <1>1, <1>4, <1>17, <2>1 DEF ListPostResults, Task, staging
    <2>3. /\ u.flip = t.flip /\ u.flipped = t.flipped /\ u.map = t.map
          /\ u.kinds = t.kinds /\ u.polling = t.polling
          /\ u.pc = "apply" /\ u.rows = {r \in results : r.batch = t.batch}
      BY <1>2, <2>1 DEF TaskRecords
    <2>4. t.flip = {}
      BY <1>3, <2>2
    <2>5. ASSUME NEW d \in Docs, Pending(t, d) PROVE Pending(u, d)
      <3>1. Mine(u, d) /\ Reported(t.batch, d)
        BY <2>2, <2>3, <2>5 DEF Pending, Mine
      <3> QED
        BY <2>3, <3>1 DEF Pending, Reported
    <2>6. \A d \in Docs : Pending(t, d) => Pending(u, d)'
      BY <1>10, <2>2, <2>5
    <2> QED
      BY <1>3, <1>13, <2>2, <2>3, <2>4, <2>6
  <1>18. CASE ApplyNext(i)
    <2>1. PICK r \in t.rows : ApplyRow(i, r) /\ UNCHANGED bc /\ t.pc = "apply"
      BY <1>1, <1>18 DEF ApplyNext, Task
    <2>2. PICK u : u = [t EXCEPT !.rows = @ \ {r}]
      OBVIOUS
    <2>3. tasks' = [tasks EXCEPT ![i] = u]
      BY <1>1, <1>5, <2>1, <2>2 DEF ApplyRow, RowApplied
    <2>4. /\ u.flip = t.flip /\ u.flipped = t.flipped /\ u.map = t.map
          /\ u.kinds = t.kinds /\ u.polling = t.polling
          /\ u.pc = "apply" /\ u.rows = t.rows \ {r}
      BY <1>2, <2>1, <2>2 DEF TaskRecords
    <2>5. t.flip = {}
      BY <1>3, <2>1
    <2>6. \/ r.ext \notin DOMAIN t.map /\ UNCHANGED status
          \/ r.ext \in DOMAIN t.map /\ Applied(t.map[r.ext], r)
      BY <1>1, <1>5, <2>1 DEF ApplyRow
    <2>7. \A d \in Docs : status'[d] \in {"posted", "failed", status[d]}
      BY <1>11, <2>6 DEF Applied
    <2>8. ASSUME NEW d \in Docs, Pending(t, d), status'[d] = "posting" PROVE Pending(u, d)
      <3>1. Mine(t, d) /\ \E s \in t.rows : s.ext = BcCode[Ext[d]]
        BY <2>1, <2>8 DEF Pending
      <3>2. PICK s \in t.rows : s.ext = Ext[d]
        BY <3>1 DEF CleanData, CodesKept
      <3>3. s # r
        <4> SUFFICES ASSUME s = r PROVE FALSE
          OBVIOUS
        <4>1. r.ext \in DOMAIN t.map /\ t.map[r.ext] = d
          BY <3>1, <3>2 DEF Mine
        <4>2. status'[d] \in {"posted", "failed"}
          BY <1>11, <2>6, <4>1 DEF Applied
        <4> QED
          BY <2>8, <4>2
      <3>4. s \in u.rows /\ s.ext = BcCode[Ext[d]]
        BY <2>4, <3>2, <3>3 DEF CleanData, CodesKept
      <3>5. Mine(u, d)
        BY <2>4, <3>1 DEF Mine
      <3> QED
        BY <2>4, <3>4, <3>5 DEF Pending
    <2>9. \A d \in Docs : Pending(t, d) => Pending(u, d)' \/ status'[d] # "posting"
      BY <1>10, <2>1, <2>8
    <2>10. TasksClean' /\ PostingClean'
      <3>1. /\ \A d \in Docs : status'[d] = "posting" => status[d] = "posting"
            /\ \A d \in Docs : status'[d] = "imported" => status[d] = "imported"
        BY <2>7
      <3>2. Repeating(u) = {}
        BY <1>30, <2>4 DEF Repeating
      <3> QED
        BY <1>1, <1>3, <1>7, <2>3, <2>4, <2>5, <2>9, <3>1, <3>2, TaskStays
    <2>11. \A d \in Docs : status'[d] = "validated" => status[d] = "validated"
      BY <2>7
    <2> QED
      BY <1>8, <2>10, <2>11
  <1>19. CASE Reconciled(i)
    <2>1. PICK u : u = [t EXCEPT !.pc = "done"]
      OBVIOUS
    <2>2. t.pc = "apply" /\ t.rows = {} /\ UNCHANGED status /\ tasks' = [tasks EXCEPT ![i] = u]
      BY <1>1, <1>19, <2>1 DEF Reconciled, Abort, Task, staging
    <2>3. u.flip = t.flip /\ u.flipped = t.flipped /\ u.kinds = t.kinds /\ u.polling = t.polling
      BY <1>2, <2>1 DEF TaskRecords
    <2>4. t.flip = {} /\ \A d : ~Pending(t, d)
      BY <1>3, <2>2 DEF Pending
    <2> QED
      BY <1>3, <1>13, <2>2, <2>3, <2>4
  <1> QED
    BY <1>12, <1>14, <1>15, <1>150, <1>16, <1>17, <1>18, <1>19 DEF TaskStep

(* So they do when they stay as they are, those that are done leave, and a task *)
(* that joins them is in order.                                                 *)
LEMMA TasksStay ==
  ASSUME Types, Identified, Settling, [Next]_vars, faults' = 0, NEW added,
         \A n \in DOMAIN tasks' : tasks'[n] \in added \/ \E m \in DOMAIN tasks : tasks'[n] = tasks[m],
         \A m \in DOMAIN tasks : tasks[m].pc = "done" \/ \E n \in DOMAIN tasks' : tasks'[n] = tasks[m],
         \A v \in added : v.flipped /\ Repeating(v) = {} /\ \A d \in v.flip : v.pc = "flip" /\ Pending(v, d)',
         \A d \in Docs : status'[d] = "posting" => status[d] = "posting",
         \A d \in Docs : status'[d] = "imported" =>
             \/ imp'[d] = "yes"
             \/ status[d] = "imported" /\ imp[d] # "yes"
             \/ \E n \in DOMAIN tasks' : tasks'[n] \in added /\ d \in tasks'[n].flip
  PROVE  TasksClean' /\ PostingClean'
  <1>1. ASSUME NEW n \in DOMAIN tasks', NEW m \in DOMAIN tasks, NEW d, tasks'[n] = tasks[m], Pending(tasks[m], d)
        PROVE  Pending(tasks[n], d)'
    <2>1. PICK v : v = tasks[m]
      OBVIOUS
    <2>2. tasks'[n] = v /\ Pending(v, d)
      BY <1>1, <2>1
    <2>3. Pending(v, d)'
      BY <2>2, PendingStays
    <2> QED
      BY <2>2, <2>3 DEF Pending, Mine
  <1>2. ASSUME NEW n \in DOMAIN tasks', NEW d, NEW v, tasks'[n] = v, Pending(v, d)'
        PROVE  Pending(tasks[n], d)'
    BY <1>2 DEF Pending, Mine
  <1>3. TasksClean'
    <2> SUFFICES ASSUME NEW n \in DOMAIN tasks'
                 PROVE  /\ tasks'[n].flipped /\ Repeating(tasks'[n]) = {}
                        /\ \A d \in tasks'[n].flip : tasks'[n].pc = "flip" /\ Pending(tasks[n], d)'
      BY DEF TasksClean
    <2>1. ASSUME NEW v \in added, tasks'[n] = v
          PROVE  /\ tasks'[n].flipped /\ Repeating(tasks'[n]) = {}
                 /\ \A d \in tasks'[n].flip : tasks'[n].pc = "flip" /\ Pending(tasks[n], d)'
      BY <1>2, <2>1
    <2>2. CASE \E m \in DOMAIN tasks : tasks'[n] = tasks[m]
      BY <1>1, <2>2 DEF Settling, TasksClean
    <2> QED
      BY <2>1, <2>2
  <1>4. ASSUME NEW d \in Docs, status'[d] = "posting" PROVE \E n \in DOMAIN tasks' : Pending(tasks[n], d)'
    <2>1. PICK m \in DOMAIN tasks : Pending(tasks[m], d)
      BY <1>4 DEF Settling, PostingClean
    <2>2. tasks[m].pc # "done"
      BY <2>1 DEF Pending
    <2> QED
      BY <1>1, <2>1, <2>2
  <1>5. ASSUME NEW d \in Docs, status'[d] = "imported"
        PROVE  imp'[d] = "yes" \/ \E n \in DOMAIN tasks' : d \in tasks'[n].flip
    <2>1. CASE status[d] = "imported" /\ imp[d] # "yes"
      <3>1. PICK m \in DOMAIN tasks : d \in tasks[m].flip
        BY <2>1 DEF Settling, PostingClean
      <3>2. tasks[m].pc = "flip"
        BY <3>1 DEF Settling, TasksClean
      <3> QED
        BY <3>1, <3>2
    <2> QED
      BY <1>5, <2>1
  <1> QED
    BY <1>3, <1>4, <1>5 DEF PostingClean

(* The same where no task joins.                                                *)
LEMMA OldTasksStay ==
  ASSUME Types, Identified, Settling, [Next]_vars, faults' = 0,
         \A n \in DOMAIN tasks' : \E m \in DOMAIN tasks : tasks'[n] = tasks[m],
         \A m \in DOMAIN tasks : tasks[m].pc = "done" \/ \E n \in DOMAIN tasks' : tasks'[n] = tasks[m],
         \A d \in Docs : status'[d] = "posting" => status[d] = "posting",
         \A d \in Docs : status'[d] = "imported" =>
             imp'[d] = "yes" \/ (status[d] = "imported" /\ imp[d] # "yes")
  PROVE  TasksClean' /\ PostingClean'
  <1>1. PICK added : added = {}
    OBVIOUS
  <1> QED
    BY <1>1, TasksStay

(* Sessions of jobs take nothing back.                                          *)
LEMMA SettlingJob ==
  ASSUME Types, Identified, Settling, [Next]_vars, faults' = 0,
         NEW j \in jobs, JobStep(j) \/ SessionDies(j)
  PROVE  Settling'
  <1>1. UNCHANGED <<run, main, seen, chunkIdx, imp, lastEnd, tasks, status>>
    BY DEF JobStep, JobEnds, PostDraft, SessionDies, memory, staging
  <1>2. ImportClean' /\ RunClean'
    BY <1>1, ImportStays
  <1>3. TasksClean' /\ PostingClean'
    BY <1>1, OldTasksStay DEF Settling, PostingClean
  <1> QED
    BY <1>2, <1>3 DEF Settling

(* A future that goes on keeps the run in order, if it has a draft in the batch *)
(* once it has a number, and has left `validated` when it ends.                 *)
LEMMA FutureStays ==
  ASSUME Types, Identified, Settling, [Next]_vars, faults' = 0, NEW d \in Docs, NEW label,
         main = "import", UNCHANGED <<run, main, seen, chunkIdx, tasks, lastEnd>>,
         imp' = [imp EXCEPT ![d] = label], imp[d] # "yes", label \notin {"err", "none"},
         label \in {"number", "imported", "yes"} => (Open(ChunkCode, d) \/ Reported(ChunkCode, d))',
         label \in {"yes", "no"} => status'[d] # "validated",
         \A e \in Docs : e # d => status'[e] = status[e],
         \/ status'[d] \in {status[d], "invalid", "failed"}
         \/ status'[d] = "imported" /\ label = "yes"
  PROVE  Settling'
  <1>1. imp \in [Docs -> ImpPCs]
    BY DEF Types, MainTypes
  <1>2. TasksClean' /\ PostingClean'
    <2>1. /\ \A e \in Docs : status'[e] = "posting" => status[e] = "posting"
          /\ \A e \in Docs : status'[e] = "imported" =>
                 imp'[e] = "yes" \/ (status[e] = "imported" /\ imp[e] # "yes")
      BY <1>1
    <2> QED
      BY <2>1, OldTasksStay
  <1>3. ImportClean'
    <2>1. ChunkCode' = ChunkCode
      BY DEF ChunkCode
    <2>2. PICK c : c = ChunkCode
      OBVIOUS
    <2>3. \A b, e : Open(b, e) \/ Reported(b, e) => Open(b, e)' \/ Reported(b, e)'
      BY NothingLost
    <2>4. \A e \in Docs : imp[e] \in {"number", "imported", "yes"} => Open(c, e)' \/ Reported(c, e)'
      BY <2>2, <2>3 DEF Settling, ImportClean
    <2>5. ASSUME NEW e \in Docs, Open(c, e)' \/ Reported(c, e)'
          PROVE  (Open(ChunkCode, e) \/ Reported(ChunkCode, e))'
      BY <2>1, <2>2, <2>5 DEF Open, Reported
    <2>6. \A e \in Docs : imp'[e] = IF e = d THEN label ELSE imp[e]
      BY <1>1
    <2>7. ASSUME NEW e \in Docs, imp'[e] \in {"number", "imported", "yes"}
          PROVE  (Open(ChunkCode, e) \/ Reported(ChunkCode, e))'
      <3>1. CASE e = d
        <4>1. label \in {"number", "imported", "yes"}
          BY <2>6, <2>7, <3>1
        <4> QED
          BY <3>1, <4>1
      <3>2. CASE e # d
        BY <2>4, <2>5, <2>6, <2>7, <3>2
      <3> QED
        BY <3>1, <3>2
    <2>8. \A e \in Docs :
              /\ imp'[e] # "err"
              /\ imp'[e] \in {"yes", "no"} => status'[e] # "validated"
              /\ e \in seen' /\ status'[e] = "validated" => main' = "down" \/ imp'[e] # "none"
      BY <2>6 DEF Settling, ImportClean
    <2> QED
      BY <2>7, <2>8 DEF ImportClean
  <1>4. RunClean'
    BY DEF RunClean
  <1> QED
    BY <1>2, <1>3, <1>4 DEF Settling

(* The import futures keep the run in order.                                    *)
LEMMA SettlingImport ==
  ASSUME CleanData, Types, Identified, Settling, [Next]_vars, faults' = 0,
         NEW d \in Docs, ImportStep(d)
  PROVE  Settling'
  <1>1. faults = 0 /\ \A kind : ~Fault(kind)
    BY Quiet
  <1>2. \A e : ~WriteFails(e) /\ ~WriteLost(e)
    BY <1>1 DEF WriteFails, WriteLost, CleanData
  <1>3. UNCHANGED <<run, main, seen, chunkIdx, tasks, lastEnd>> /\ main = "import"
    BY DEF ImportStep, Validate, RecordErrors, SetStatus, ImportOne, SetBcDocumentNo, RejectImport, Future,
           RestOfImport
  <1>4. status \in [Docs -> Statuses]
    BY DEF Types, StagingTypes
  <1>5. ASSUME imp[d] \in {"number", "imported"} PROVE (Open(ChunkCode, d) \/ Reported(ChunkCode, d))'
    <2>1. PICK c : c = ChunkCode
      OBVIOUS
    <2>2. Open(c, d) \/ Reported(c, d)
      BY <1>5, <2>1 DEF Settling, ImportClean
    <2>3. Open(c, d)' \/ Reported(c, d)'
      BY <2>2, NothingLost
    <2>4. c = ChunkCode'
      BY <1>3, <2>1 DEF ChunkCode
    <2> QED
      BY <2>3, <2>4 DEF Open, Reported
  <1>6. CASE Validate(d)
    <2>1. /\ imp[d] = "validate" /\ UNCHANGED status
          /\ \E verdict \in {"import", "errors"} : imp' = [imp EXCEPT ![d] = verdict]
      BY <1>1, <1>6 DEF Validate, Future, NextImp, staging
    <2> QED
      BY <1>3, <2>1, FutureStays
  <1>7. ASSUME NEW label \in {"errors", "reject"}, NEW then \in {"invalid", "failed"}, RecordErrors(d, label, then)
        PROVE  Settling'
    <2>1. imp[d] = label /\ UNCHANGED status /\ imp' = [imp EXCEPT ![d] = then]
      BY <1>2, <1>7 DEF RecordErrors, Future, NextImp
    <2> QED
      BY <1>3, <1>7, <2>1, FutureStays
  <1>8. ASSUME NEW label \in {"invalid", "failed"}, SetStatus(d, label, label, "no") PROVE Settling'
    <2>1. imp[d] = label /\ status' = [status EXCEPT ![d] = label] /\ imp' = [imp EXCEPT ![d] = "no"]
      BY <1>2, <1>8 DEF SetStatus, Future, NextImp
    <2>2. status'[d] = label /\ \A e \in Docs : e # d => status'[e] = status[e]
      BY <1>4, <2>1
    <2>3. imp[d] # "yes" /\ status'[d] # "validated" /\ status'[d] \in {status[d], "invalid", "failed"}
      BY <1>8, <2>1, <2>2
    <2>4. "no" \notin {"err", "none", "number", "imported", "yes"}
      OBVIOUS
    <2> QED
      BY <1>3, <2>1, <2>2, <2>3, <2>4, FutureStays
  <1>9. CASE SetStatus(d, "imported", "imported", "yes")
    <2>1. imp[d] = "imported" /\ status' = [status EXCEPT ![d] = "imported"] /\ imp' = [imp EXCEPT ![d] = "yes"]
      BY <1>2, <1>9 DEF SetStatus, Future, NextImp
    <2>2. status'[d] = "imported" /\ \A e \in Docs : e # d => status'[e] = status[e]
      BY <1>4, <2>1
    <2> QED
      BY <1>3, <1>5, <2>1, <2>2, FutureStays
  <1>10. CASE SetBcDocumentNo(d)
    <2>1. imp[d] = "number" /\ UNCHANGED status /\ imp' = [imp EXCEPT ![d] = "imported"]
      BY <1>2, <1>10 DEF SetBcDocumentNo, Future, NextImp
    <2>2. imp[d] # "yes" /\ status'[d] \in {status[d], "invalid", "failed"}
      BY <2>1
    <2>3. \A e \in Docs : e # d => status'[e] = status[e]
      BY <2>1
    <2>4. "imported" \notin {"err", "none", "yes", "no"}
      OBVIOUS
    <2> QED
      BY <1>3, <1>5, <2>1, <2>2, <2>3, <2>4, FutureStays
  <1>11. CASE ImportOne(d)
    <2>1. PICK ok \in BOOLEAN : \E left \in Leftovers(Way(d), ok) :
              /\ faults' = faults + Cardinality(left.faults)
              /\ drafts' = drafts \union Drafted(d, left.drafts)
              /\ NextImp(d, IF ok THEN "number" ELSE "reject")
      BY <1>11 DEF ImportOne
    <2>2. PICK left \in Leftovers(Way(d), ok) :
              /\ faults' = faults + Cardinality(left.faults)
              /\ drafts' = drafts \union Drafted(d, left.drafts)
              /\ NextImp(d, IF ok THEN "number" ELSE "reject")
      BY <2>1
    <2>3. imp[d] = "import" /\ UNCHANGED status
      BY <1>11 DEF ImportOne, Future, staging
    <2>4. CASE ok
      <3>1. left.faults = {}
        <4>1. left.faults \subseteq {"reply", "retry"}
          BY LeftoversType
        <4>2. IsFiniteSet({"reply"} \union {"retry"}) /\ {"reply"} \union {"retry"} = {"reply", "retry"}
          BY FS_Singleton, FS_Union
        <4>3. IsFiniteSet(left.faults)
          BY <4>1, <4>2, FS_Subset
        <4>4. Cardinality(left.faults) = 0
          BY <1>1, <2>2, <4>3, FS_CardinalityType
        <4> QED
          BY <4>3, <4>4, FS_EmptySet
      <3>2. left.drafts = <<Whole>>
        <4>1. \/ left = Left(<<Whole>>, {})
              \/ \E l : left = Left(<<Bare(Way(d))>> \o l.drafts, l.faults \union {"retry"})
          BY <2>4 DEF Leftovers
        <4>2. ASSUME NEW l, left = Left(<<Bare(Way(d))>> \o l.drafts, l.faults \union {"retry"}) PROVE FALSE
          <5>1. left.faults = l.faults \union {"retry"}
            BY <4>2 DEF Left
          <5> QED
            BY <3>1, <5>1
        <4>3. left = Left(<<Whole>>, {})
          BY <4>1, <4>2
        <4> QED
          BY <4>3 DEF Left
      <3> DEFINE x == [id |-> <<d, Cardinality(DraftsOf(d)) + 1>>, doc |-> d, posted |-> FALSE,
                       batch |-> ChunkCode, postable |-> TRUE]
      <3>3. x \in Drafted(d, left.drafts)
        <4>1. 1 \in DOMAIN left.drafts /\ left.drafts[1] = Whole
          BY <3>2
        <4>2. Whole.coded = TRUE /\ Whole.postable = TRUE
          BY DEF Whole, Draft
        <4>3. x = [id |-> <<d, Cardinality(DraftsOf(d)) + 1>>, doc |-> d, posted |-> FALSE,
                   batch |-> IF left.drafts[1].coded THEN ChunkCode ELSE NoBatch,
                   postable |-> left.drafts[1].postable]
          BY <4>1, <4>2
        <4> HIDE DEF x
        <4> QED
          BY <4>1, <4>3, Zenon DEF Drafted
      <3>4. x \in drafts' /\ x.doc = d /\ x.batch = ChunkCode /\ ~x.posted
        BY <2>2, <3>3
      <3>5. ChunkCode' = ChunkCode
        BY <1>3 DEF ChunkCode
      <3>6. Open(ChunkCode, d)'
        <4> HIDE DEF x
        <4> QED
          BY <3>4, <3>5 DEF Open
      <3>7. imp' = [imp EXCEPT ![d] = "number"]
        BY <2>2, <2>4 DEF NextImp
      <3> QED
        <4>1. imp[d] # "yes" /\ status'[d] \in {status[d], "invalid", "failed"}
          BY <2>3
        <4>2. \A e \in Docs : e # d => status'[e] = status[e]
          BY <2>3
        <4>3. "number" \notin {"err", "none", "yes", "no"}
          OBVIOUS
        <4> QED
          BY <1>3, <3>6, <3>7, <4>1, <4>2, <4>3, FutureStays
    <2>5. CASE ~ok
      <3>1. imp' = [imp EXCEPT ![d] = "reject"]
        BY <2>2, <2>5 DEF NextImp
      <3> QED
        <4>1. imp[d] # "yes" /\ status'[d] \in {status[d], "invalid", "failed"}
          BY <2>3
        <4>2. \A e \in Docs : e # d => status'[e] = status[e]
          BY <2>3
        <4>3. "reject" \notin {"err", "none", "number", "imported", "yes", "no"}
          OBVIOUS
        <4> QED
          BY <1>3, <3>1, <4>1, <4>2, <4>3, FutureStays
    <2> QED
      BY <2>4, <2>5
  <1> QED
    BY <1>6, <1>7, <1>8, <1>9, <1>10, <1>11 DEF ImportStep, RejectImport

(* The main task settles what it leaves behind.                                 *)
LEMMA SettlingMain ==
  ASSUME CleanData, Types, Identified, Settling, [Next]_vars, faults' = 0,
         (\E reprocess \in BOOLEAN : Start(reprocess)) \/ MainStep \/ FetchFails \/ Crash
  PROVE  Settling'
  <1>1. faults = 0 /\ \A kind : ~Fault(kind)
    BY Quiet
  <1> USE DEF Types, MainTypes, Idle
  <1>2. CASE \E reprocess \in BOOLEAN : Start(reprocess)
    <2>1. PICK reprocess \in BOOLEAN : Start(reprocess)
      BY <1>2
    <2>2. /\ main = "down" /\ main' = "fetch" /\ seen' = {} /\ UNCHANGED <<imp, tasks>>
          /\ imp = [d \in Docs |-> "none"] /\ tasks = <<>>
      BY <2>1 DEF Start
    <2>3. \A d \in Docs : status'[d] \in {"posting", "imported"} => status'[d] = status[d]
      BY <2>1 DEF Start, StagingTypes
    <2>4. TasksClean' /\ PostingClean'
      BY <2>2, <2>3, OldTasksStay
    <2>5. ImportClean' /\ RunClean'
      BY <2>2 DEF ImportClean, RunClean
    <2> QED
      BY <2>4, <2>5 DEF Settling
  <1>3. CASE FetchChunk
    <2>1. main = "fetch" /\ UNCHANGED <<status, tasks>> /\ imp = [d \in Docs |-> "none"]
      BY <1>3 DEF FetchChunk, staging
    <2>2. TasksClean' /\ PostingClean'
      BY <2>1, OldTasksStay
    <2>3. \A d \in seen : status[d] # "validated"
      BY <2>1 DEF Settling, ImportClean
    <2>4. CASE Fresh = {}
      <3>1. main' = "join" /\ UNCHANGED <<seen, imp>>
        BY <1>3, <2>4 DEF FetchChunk
      <3>2. Validated = {}
        <4>1. Page = {}
          BY <2>3, <2>4 DEF Fresh, Page, Validated
        <4> QED
          BY <4>1, PageNotEmpty DEF CleanData
      <3>3. ImportClean' /\ RunClean'
        BY <2>1, <3>1, <3>2 DEF Settling, ImportClean, RunClean, Validated
      <3> QED
        BY <2>2, <3>3 DEF Settling
    <2>5. CASE Fresh # {}
      <3>1. /\ main' = "import" /\ seen' = seen \union Fresh
            /\ imp' = [d \in Docs |-> IF d \in Fresh THEN "validate" ELSE "none"]
        BY <1>3, <2>5 DEF FetchChunk
      <3>2. ImportClean' /\ RunClean'
        BY <2>1, <2>3, <3>1 DEF ImportClean, RunClean
      <3> QED
        BY <2>2, <3>2 DEF Settling
    <2> QED
      BY <2>4, <2>5
  <1>4. CASE ChunkImported
    <2>1. /\ main = "import" /\ main' \in {"fetch", "wait"} /\ UNCHANGED <<status, seen>>
          /\ \A d \in Chunk : imp[d] \in {"yes", "no", "err"}
          /\ imp' = [d \in Docs |-> "none"] /\ UNCHANGED bc
      BY <1>4 DEF ChunkImported, staging
    <2>2. \A d \in Docs : d \in seen => status[d] # "validated"
      BY <2>1 DEF Settling, ImportClean, Chunk
    <2>3. ImportClean' /\ RunClean'
      BY <2>1, <2>2 DEF ImportClean, RunClean
    <2>4. CASE Imported = {}
      <3>1. UNCHANGED tasks
        BY <1>4, <2>4 DEF ChunkImported
      <3>2. \A d \in Docs : imp[d] # "yes"
        BY <2>4 DEF Imported, Chunk
      <3>3. TasksClean' /\ PostingClean'
        BY <2>1, <3>1, <3>2, OldTasksStay
      <3> QED
        BY <2>3, <3>3 DEF Settling
    <2>5. CASE Imported # {}
      <3>1. PICK m \in ChunkMaps : tasks' = Append(tasks, NewTask(m))
        BY <1>4, <2>5 DEF ChunkImported
      <3>2. PICK new : new = NewTask(m)
        OBVIOUS
      <3>3. /\ new.batch = ChunkCode /\ new.map = m /\ new.pc = "flip" /\ new.flipped
            /\ new.flip = {m[x] : x \in DOMAIN m} /\ new.kinds = {Kind[d] : d \in Imported}
            /\ Repeating(new) = {}
        BY <3>2 DEF NewTask, Repeating
      <3>4. \A d \in Imported : Mine(new, d) /\ d \in new.flip
        <4>1. /\ m \in [{Ext[d] : d \in Imported} -> Imported] /\ Imported \subseteq Docs
              /\ \A x \in {Ext[d] : d \in Imported} : Ext[m[x]] = x
          BY DEF ChunkMaps, Imported, Chunk
        <4>2. \A d, e \in Docs : Ext[d] = Ext[e] => d = e
          BY DEF CleanData, NumbersDistinct, CodesKept
        <4>3. \A d \in Imported : Ext[d] \in DOMAIN m /\ m[Ext[d]] = d
          BY <4>1, <4>2
        <4> QED
          BY <3>3, <4>3 DEF Mine
      <3>5. new.flip \subseteq Imported
        BY <3>3 DEF ChunkMaps
      <3>6. \A d \in Imported : Pending(new, d)'
        <4> SUFFICES ASSUME NEW d \in Imported PROVE Pending(new, d)'
          OBVIOUS
        <4>1. d \in Docs /\ imp[d] = "yes"
          BY DEF Imported, Chunk
        <4>2. PICK c : c = ChunkCode
          OBVIOUS
        <4>3. Open(c, d) \/ Reported(c, d)
          BY <4>1, <4>2 DEF Settling, ImportClean
        <4>4. new.batch = c
          BY <3>3, <4>2
        <4>5. Pending(new, d)
          BY <3>3, <3>4, <4>3, <4>4 DEF Pending
        <4> QED
          BY <4>5, PendingStays
      <3>7. PICK added : added = {new}
        OBVIOUS
      <3>8. /\ DOMAIN tasks' = 1 .. Len(tasks) + 1 /\ tasks'[Len(tasks) + 1] = new
            /\ \A n \in 1 .. Len(tasks) : tasks'[n] = tasks[n]
            /\ DOMAIN tasks = 1 .. Len(tasks) /\ Len(tasks) \in Nat
        BY <3>1, <3>2
      <3>9. Len(tasks) + 1 \in DOMAIN tasks' /\ \A n \in DOMAIN tasks : n \in DOMAIN tasks'
        BY <3>8
      <3>10. \A n \in DOMAIN tasks' : n = Len(tasks) + 1 \/ n \in DOMAIN tasks
        BY <3>8
      <3>11. \A n \in DOMAIN tasks' : tasks'[n] \in added \/ \E k \in DOMAIN tasks : tasks'[n] = tasks[k]
        BY <3>7, <3>8, <3>10
      <3>12. \A k \in DOMAIN tasks : tasks[k].pc = "done" \/ \E n \in DOMAIN tasks' : tasks'[n] = tasks[k]
        BY <3>8, <3>9
      <3>13. \A v \in added : v.flipped /\ Repeating(v) = {} /\ \A d \in v.flip : v.pc = "flip" /\ Pending(v, d)'
        BY <3>3, <3>5, <3>6, <3>7
      <3>14. \A d \in Docs : status'[d] = "imported" =>
                 \/ status[d] = "imported" /\ imp[d] # "yes"
                 \/ \E n \in DOMAIN tasks' : tasks'[n] \in added /\ d \in tasks'[n].flip
        <4>1. \A d \in Docs : imp[d] = "yes" => d \in Imported
          BY DEF Imported, Chunk
        <4> QED
          BY <2>1, <3>4, <3>7, <3>8, <3>9, <4>1
      <3>15. /\ \A d \in Docs : status'[d] = "posting" => status[d] = "posting"
             /\ \A d \in Docs : status'[d] = "imported" =>
                    \/ imp'[d] = "yes"
                    \/ status[d] = "imported" /\ imp[d] # "yes"
                    \/ \E n \in DOMAIN tasks' : tasks'[n] \in added /\ d \in tasks'[n].flip
        BY <2>1, <3>14
      <3>16. TasksClean' /\ PostingClean'
        BY <3>11, <3>12, <3>13, <3>15, TasksStay
      <3> QED
        BY <2>3, <3>16 DEF Settling
    <2> QED
      BY <2>4, <2>5
  <1>5. ASSUME UNCHANGED <<status, run, seen, chunkIdx, imp, lastEnd>>, main' \in {main, "fetch"}, main # "down",
               tasks' = tasks \/ (tasks # <<>> /\ Head(tasks).pc = "done" /\ tasks' = Tail(tasks))
        PROVE  Settling'
    <2>1. /\ \A n \in DOMAIN tasks' : \E m \in DOMAIN tasks : tasks'[n] = tasks[m]
          /\ \A m \in DOMAIN tasks : tasks[m].pc = "done" \/ \E n \in DOMAIN tasks' : tasks'[n] = tasks[m]
      <3>1. CASE tasks' = tasks
        BY <3>1
      <3>2. CASE tasks # <<>> /\ Head(tasks).pc = "done" /\ tasks' = Tail(tasks)
        <4>1. /\ DOMAIN tasks' = 1 .. Len(tasks) - 1 /\ DOMAIN tasks = 1 .. Len(tasks) /\ Len(tasks) \in Nat
              /\ \A n \in 1 .. Len(tasks) - 1 : tasks'[n] = tasks[n + 1]
              /\ tasks[1].pc = "done"
          BY <3>2
        <4>2. \A m \in 1 .. Len(tasks) : m = 1 \/ (m - 1 \in 1 .. Len(tasks) - 1 /\ (m - 1) + 1 = m)
          BY <4>1
        <4>3. \A n \in 1 .. Len(tasks) - 1 : n + 1 \in 1 .. Len(tasks)
          BY <4>1
        <4>4. ASSUME NEW m \in 1 .. Len(tasks), m # 1 PROVE m - 1 \in DOMAIN tasks' /\ tasks'[m - 1] = tasks[m]
          BY <4>1, <4>2, <4>4
        <4> QED
          BY <4>1, <4>3, <4>4
      <3> QED
        BY <1>5, <3>1, <3>2
    <2>2. TasksClean' /\ PostingClean'
      BY <1>5, <2>1, OldTasksStay DEF Settling, PostingClean
    <2>3. UNCHANGED <<main, lastEnd>> \/ (main # "down" /\ main' = "fetch")
      BY <1>5
    <2>4. ImportClean' /\ RunClean'
      BY <1>5, <2>3, ImportStays
    <2> QED
      BY <2>2, <2>4 DEF Settling
  <1>6. CASE Backpressure
    <2>1. TooMany => tasks # <<>>
      BY SizeAssumption DEF TooMany
    <2>2. /\ UNCHANGED <<status, run, seen, chunkIdx, imp, lastEnd>> /\ main # "down" /\ main' \in {main, "fetch"}
          /\ tasks' = tasks \/ (tasks # <<>> /\ Head(tasks).pc = "done" /\ tasks' = Tail(tasks))
      BY <1>6, <2>1 DEF Backpressure, staging
    <2> QED
      BY <1>5, <2>2
  <1>7. CASE Join
    <2>1. CASE tasks # <<>>
      <3>1. /\ UNCHANGED <<status, run, seen, chunkIdx, imp, lastEnd>> /\ main # "down" /\ main' = main
            /\ Head(tasks).pc = "done" /\ tasks' = Tail(tasks)
        BY <1>7, <2>1 DEF Join, staging
      <3> QED
        BY <1>5, <2>1, <3>1
    <2>2. CASE tasks = <<>>
      <3>1. /\ main = "join" /\ main' = "down" /\ tasks' = <<>> /\ UNCHANGED status
            /\ imp' = [d \in Docs |-> "none"] /\ imp = [d \in Docs |-> "none"]
        BY <1>7, <2>2 DEF Join, Exit, staging
      <3>2. \A d \in Docs : status[d] \notin {"posting", "imported"}
        BY <2>2, <3>1 DEF Settling, PostingClean
      <3>3. TasksClean' /\ PostingClean'
        BY <3>1, <3>2 DEF TasksClean, PostingClean
      <3>4. Validated = {}
        BY <3>1 DEF Settling, RunClean
      <3>5. ImportClean' /\ RunClean'
        BY <3>1, <3>4 DEF ImportClean, RunClean, Validated
      <3> QED
        BY <3>3, <3>5 DEF Settling
    <2> QED
      BY <2>1, <2>2
  <1>8. CASE FetchFails \/ Crash
    BY <1>1, <1>8 DEF FetchFails, Crash
  <1> QED
    BY <1>2, <1>3, <1>4, <1>6, <1>7, <1>8 DEF MainStep

(* Every step of a run without a fault keeps it in order.                       *)
LEMMA CleanNext ==
  ASSUME CleanData, Types, Identified, Clean, [Next]_vars
  PROVE  Clean'
  <1> SUFFICES ASSUME faults' = 0 PROVE Settling'
    BY DEF Clean
  <1>1. Settling
    BY Quiet DEF Clean
  <1>2. CASE UNCHANGED vars
    <2>1. UNCHANGED <<status, drafts, jobs, results, run, main, seen, chunkIdx, imp, tasks, lastEnd>>
      BY <1>2 DEF vars, staging, bc, memory
    <2>2. ImportClean' /\ RunClean'
      BY <1>1, <2>1, ImportStays
    <2>3. TasksClean' /\ PostingClean'
      BY <1>1, <2>1, OldTasksStay DEF Settling, PostingClean
    <2> QED
      BY <2>2, <2>3 DEF Settling
  <1>3. CASE (\E reprocess \in BOOLEAN : Start(reprocess)) \/ MainStep \/ FetchFails \/ Crash
    BY <1>1, <1>3, SettlingMain
  <1>4. ASSUME NEW d \in Docs, ImportStep(d) PROVE Settling'
    BY <1>1, <1>4, SettlingImport
  <1>5. ASSUME NEW i \in DOMAIN tasks, TaskStep(i) PROVE Settling'
    BY <1>1, <1>5, SettlingTask
  <1>6. ASSUME NEW j \in jobs, JobStep(j) \/ SessionDies(j) PROVE Settling'
    BY <1>1, <1>6, SettlingJob
  <1> QED
    BY <1>2, <1>3, <1>4, <1>5, <1>6 DEF Next

(* CleanRunSettles holds for any number of documents, chunks and earlier runs:  *)
(* a run that completes without a fault has settled every document, since it    *)
(* ends only once each of its post tasks has read and applied the rows of its   *)
(* batch (main.rs:168-171), and no job of a batch ends before each of its       *)
(* drafts has a row.                                                            *)
THEOREM CleanRunsSettle == ASSUME CleanData PROVE Spec => []CleanRunSettles
  <1>1. Init => Identified /\ Clean
    <2> SUFFICES ASSUME Init PROVE Identified /\ Clean
      OBVIOUS
    <2>1. \A d \in Docs : DraftsOf(d) = {}
      BY DEF Init, DraftsOf
    <2>2. Identified
      BY <2>1, FS_EmptySet DEF Init, Identified
    <2>3. Settling
      BY DEF Init, Settling, TasksClean, PostingClean, ImportClean, RunClean
    <2> QED
      BY <2>2, <2>3 DEF Clean
  <1>2. CleanData
    OBVIOUS
  <1>3. Types /\ Identified /\ Clean /\ [Next]_vars => Clean'
    BY <1>2, CleanNext
  <1>4. Types /\ Clean => CleanRunSettles
    <2> SUFFICES ASSUME Types, Clean, lastEnd = "complete", faults = 0, main = "down", NEW d \in Docs
                 PROVE  status[d] \in {"invalid", "failed", "posted"}
      BY DEF CleanRunSettles
    <2>1. status[d] \in Statuses /\ tasks = <<>> /\ imp = [e \in Docs |-> "none"]
      BY DEF Types, StagingTypes, Idle
    <2>2. status[d] # "validated"
      BY DEF Clean, Settling, RunClean, Validated
    <2>3. status[d] \notin {"imported", "posting"}
      BY <2>1 DEF Clean, Settling, PostingClean
    <2> QED
      BY <2>1, <2>2, <2>3 DEF Statuses
  <1> QED
    BY <1>1, <1>3, <1>4, TypesInit, TypesNext, IdentifiedNext, PTL DEF Spec

-------------------------------------------------------------------------------
(* What is posted stays posted                                                  *)

\* The batch of a chunk of an earlier run, or of an earlier chunk of this one.
Old(b) == b[1] < run \/ (b[1] = run /\ b[2] < chunkIdx)

\* Jobs and rows are about earlier chunks, and each post task has a batch of its own.
Batched ==
    /\ main # "down" => run >= 1
    /\ \A j \in jobs : j.batch \in Batches /\ j.batch # NoBatch /\ Old(j.batch)
    /\ \A r \in results : Old(r.batch)
    /\ \A i \in DOMAIN tasks : tasks[i].batch[1] = run /\ tasks[i].batch[2] < chunkIdx
    /\ \A i, k \in DOMAIN tasks : tasks[i].batch = tasks[k].batch => i = k

\* A job has drafts of its batch and kind to post, and no other job has.
JobsApart ==
    /\ \A j \in jobs : \A id \in j.todo :
           \E x \in drafts : x.id = id /\ x.batch = j.batch /\ Kind[x.doc] = j.kind
    /\ \A j, k \in jobs : j.batch = k.batch /\ j.kind = k.kind => j = k

RowOf(r, b, d) == r.batch = b /\ r.ext = Ext[d]

\* A job has no draft to post that is posted.  A success row is about a posted
\* draft of its batch, and the last row of the document in it.
SuccessLast ==
    /\ \A j \in jobs : \A x \in drafts : x.id \in j.todo => ~x.posted
    /\ \A r \in results :
           /\ r.entry <= Cardinality(results)
           /\ r.success => \E x \in drafts : x.posted /\ x.batch = r.batch /\ r.ext = BcCode[Ext[x.doc]]
    /\ \A d \in Docs : ~CreatedTwice(d) =>
           \A r, s \in results : r.success /\ RowOf(r, s.batch, d) /\ s.ext = Ext[d] =>
               s = r \/ s.entry < r.entry

Untriggered(t, k) ==
    /\ \A j \in jobs : ~(j.batch = t.batch /\ j.kind = k)
    /\ \A d \in Docs : Kind[d] = k => \A r \in results : ~RowOf(r, t.batch, d)

TriggersAhead ==
    \A i \in DOMAIN tasks : tasks[i].pc \in {"flip", "trigger"} =>
        \A k \in tasks[i].kinds \ tasks[i].polling : Untriggered(tasks[i], k)

\* How a post task changes.
Later(t, u) ==
    /\ u.batch = t.batch /\ u.map = t.map
    /\ u.kinds \subseteq t.kinds /\ u.flip \subseteq t.flip
    /\ t.pc = "flip" \/ t.flip = {} => u.pc = "flip" \/ u.flip = {}
    /\ u.pc \in {"flip", "trigger"} =>
           t.pc \in {"flip", "trigger"} /\ u.kinds \ u.polling \subseteq t.kinds \ t.polling
    /\ "rerun" \notin Faults => Repeating(u) \subseteq Repeating(t)
    /\ u.pc = "poll" => t.pc \in {"flip", "trigger", "poll"}
    /\ u.pc = "apply" => \/ t.pc = "apply" /\ u.rows \subseteq t.rows
                         \/ t.pc = "poll"
    /\ u.rows \subseteq t.rows \/ u.rows = {r \in results : r.batch = t.batch}

(* A step of a post task takes it further and leaves the others alone.          *)
LEMMA TaskMoves ==
  ASSUME Types, NEW i \in DOMAIN tasks, TaskStep(i)
  PROVE  \E u : tasks' = [tasks EXCEPT ![i] = u] /\ Later(tasks[i], u)
  <1>1. PICK t : t = tasks[i]
    OBVIOUS
  <1>2. t \in TaskRecords
    BY <1>1 DEF Types, MainTypes
  <1> SUFFICES \E u : tasks' = [tasks EXCEPT ![i] = u] /\ Later(t, u)
    BY <1>1
  <1>3. t.pc # "flip" => Later(t, [t EXCEPT !.pc = "done"])
    BY <1>2 DEF TaskRecords, Later, Repeating
  <1>4. ASSUME NEW d \in Docs, Flip(i, d) PROVE \E u : tasks' = [tasks EXCEPT ![i] = u] /\ Later(t, u)
    <2>1. t.pc = "flip"
      BY <1>1, <1>4 DEF Flip, Task
    <2>2. Later(t, [t EXCEPT !.flip = @ \ {d}]) /\ Later(t, [t EXCEPT !.flip = @ \ {d}, !.flipped = FALSE])
      BY <1>2, <2>1 DEF TaskRecords, Later, Repeating
    <2> HIDE DEF Later
    <2> QED
      BY <1>1, <1>4, <2>2 DEF Flip
  <1>5. CASE Flipped(i)
    <2>1. t.pc = "flip" /\ t.flip = {}
      BY <1>1, <1>5 DEF Flipped, Task
    <2>2. Later(t, [t EXCEPT !.pc = IF t.flipped THEN "trigger" ELSE "done"])
      BY <1>2, <2>1 DEF TaskRecords, Later, Repeating
    <2> QED
      BY <1>1, <1>5, <2>2 DEF Flipped
  <1>6. ASSUME NEW k \in Kinds, Trigger(i, k) \/ Rerun(i, k)
        PROVE  \E u : tasks' = [tasks EXCEPT ![i] = u] /\ Later(t, u)
    <2> DEFINE repeated == [t EXCEPT !.polling = @ \union {k}]
    <2>1. t.pc = "trigger"
      BY <1>1, <1>6 DEF Trigger, Rerun, Task
    <2>2. Later(t, [t EXCEPT !.kinds = @ \ {k}, !.polling = @ \union {k},
                             !.pc = IF @ = "trigger" /\ t.kinds = {k} THEN "poll" ELSE @])
      BY <1>2, <2>1 DEF TaskRecords, Later, Repeating
    <2>3. "rerun" \in Faults => Later(t, repeated)
      BY <1>2, <2>1 DEF TaskRecords, Later, Repeating
    <2>4. tasks' = [tasks EXCEPT ![i] = repeated] => "rerun" \in Faults \/ \E u : tasks' = [tasks EXCEPT ![i] = u] /\ Later(t, u)
      BY <1>1, <1>3, <1>6, <2>1, <2>2 DEF Trigger, Rerun, Triggered, Abort, Fault
    <2>5. \/ tasks' = [tasks EXCEPT ![i] = repeated]
          \/ \E u : tasks' = [tasks EXCEPT ![i] = u] /\ Later(t, u)
      BY <1>1, <1>3, <1>6, <2>1, <2>2 DEF Trigger, Rerun, Triggered, Abort
    <2> HIDE DEF repeated, Later
    <2> QED
      BY <2>3, <2>4, <2>5
  <1>7. ASSUME NEW k \in Kinds, Poll(i, k) PROVE \E u : tasks' = [tasks EXCEPT ![i] = u] /\ Later(t, u)
    <2>1. t.pc = "poll"
      BY <1>1, <1>7 DEF Poll, Task
    <2>2. Later(t, [t EXCEPT !.polling = @ \ {k}])
      BY <1>2, <2>1 DEF TaskRecords, Later, Repeating
    <2> QED
      BY <1>1, <1>3, <1>7, <2>1, <2>2 DEF Poll, Abort
  <1>8. CASE ListPostResults(i)
    <2>1. t.pc = "poll"
      BY <1>1, <1>8 DEF ListPostResults, Task
    <2>2. Later(t, [t EXCEPT !.pc = "apply", !.rows = {r \in results : r.batch = t.batch}])
      BY <1>2, <2>1 DEF TaskRecords, Later, Repeating
    <2> QED
      BY <1>1, <1>3, <1>8, <2>1, <2>2 DEF ListPostResults, Abort
  <1>9. CASE ApplyNext(i)
    <2>1. PICK r \in t.rows : ApplyRow(i, r)
      BY <1>1, <1>9 DEF ApplyNext
    <2>2. t.pc = "apply"
      BY <1>1, <1>9 DEF ApplyNext, Task
    <2>3. Later(t, [t EXCEPT !.rows = @ \ {r}])
      BY <1>2, <2>2 DEF TaskRecords, Later, Repeating
    <2> QED
      BY <1>1, <1>3, <2>1, <2>2, <2>3 DEF ApplyRow, RowApplied, Abort
  <1>10. CASE Reconciled(i)
    BY <1>1, <1>3, <1>10 DEF Reconciled, Task, Abort
  <1> QED
    BY <1>4, <1>5, <1>6, <1>7, <1>8, <1>9, <1>10 DEF TaskStep

(* The post tasks after a step: those there were, without the oldest, or with   *)
(* the task of the chunk just imported.                                         *)
LEMMA TasksFrom ==
  ASSUME Types, [Next]_vars
  PROVE  \/ \E shift \in {0, 1} : \A n \in DOMAIN tasks' :
                n + shift \in DOMAIN tasks /\ Later(tasks[n + shift], tasks'[n])
         \/ ChunkImported /\ \E m \in ChunkMaps : tasks' = Append(tasks, NewTask(m))
  <1> DEFINE Goal == \/ \E shift \in {0, 1} : \A n \in DOMAIN tasks' :
                            n + shift \in DOMAIN tasks /\ Later(tasks[n + shift], tasks'[n])
                     \/ ChunkImported /\ \E m \in ChunkMaps : tasks' = Append(tasks, NewTask(m))
  <1> SUFFICES Goal
    OBVIOUS
  <1>1. \A t : Later(t, t)
    BY DEF Later
  <1>2. tasks \in Seq(TaskRecords)
    BY DEF Types, MainTypes
  <1>3. ASSUME tasks' = tasks \/ tasks' = <<>> PROVE Goal
    <2>1. \A n \in DOMAIN tasks' : n + 0 \in DOMAIN tasks /\ tasks'[n] = tasks[n + 0]
      BY <1>2, <1>3
    <2> QED
      BY <1>1, <2>1
  <1>4. ASSUME tasks # <<>>, tasks' = Tail(tasks) PROVE Goal
    <2>1. \A n \in DOMAIN tasks' : n + 1 \in DOMAIN tasks /\ tasks'[n] = tasks[n + 1]
      BY <1>2, <1>4
    <2> QED
      BY <1>1, <2>1
  <1>5. ASSUME NEW i \in DOMAIN tasks, TaskStep(i) PROVE Goal
    <2>1. PICK u : tasks' = [tasks EXCEPT ![i] = u] /\ Later(tasks[i], u)
      BY <1>5, TaskMoves
    <2>2. \A n \in DOMAIN tasks' : n + 0 \in DOMAIN tasks /\ tasks'[n] = IF n = i THEN u ELSE tasks[n + 0]
      BY <1>2, <2>1
    <2>3. \A n \in DOMAIN tasks' : n + 0 \in DOMAIN tasks /\ Later(tasks[n + 0], tasks'[n])
      BY <1>1, <1>2, <2>1, <2>2
    <2> QED
      BY <2>3
  <1>6. CASE ChunkImported
    BY <1>3, <1>6 DEF ChunkImported
  <1> HIDE DEF Goal
  <1> USE DEF memory
  <1>7. ASSUME NEW reprocess \in BOOLEAN, Start(reprocess) PROVE Goal
    BY <1>3, <1>7 DEF Start
  <1>8. CASE FetchChunk \/ Backpressure \/ Join
    BY <1>3, <1>4, <1>8, SizeAssumption DEF FetchChunk, Backpressure, Join, Exit, TooMany
  <1>9. CASE FetchFails \/ Crash
    BY <1>3, <1>9 DEF FetchFails, Crash, Exit
  <1>10. ASSUME NEW d \in Docs, ImportStep(d) PROVE Goal
    BY <1>3, <1>10 DEF ImportStep, Validate, RecordErrors, SetStatus, ImportOne, SetBcDocumentNo, RejectImport,
                       RestOfImport
  <1>11. ASSUME NEW j \in jobs, JobStep(j) \/ SessionDies(j) PROVE Goal
    BY <1>3, <1>11 DEF JobStep, JobEnds, PostDraft, SessionDies
  <1>12. CASE UNCHANGED vars
    BY <1>3, <1>12 DEF vars
  <1> QED
    BY <1>5, <1>6, <1>7, <1>8, <1>9, <1>10, <1>11, <1>12 DEF Next, MainStep

(* Jobs after a step: those there were, with no more to post, or one just       *)
(* triggered.                                                                   *)
LEMMA JobsFrom ==
  ASSUME Types, [Next]_vars, NEW k \in jobs'
  PROVE  \/ \E j \in jobs : k.batch = j.batch /\ k.kind = j.kind /\ k.todo \subseteq j.todo
         \/ \E i \in DOMAIN tasks : \E kind \in Kinds :
                /\ Trigger(i, kind) \/ Rerun(i, kind)
                /\ k = [batch |-> tasks[i].batch, kind |-> kind, todo |-> Collected(tasks[i].batch, kind)]
  <1> DEFINE Was == \E j \in jobs : k.batch = j.batch /\ k.kind = j.kind /\ k.todo \subseteq j.todo
  <1> USE DEF bc
  <1>1. CASE k \in jobs
    BY <1>1
  <1>2. ASSUME NEW i \in DOMAIN tasks, NEW kind \in Kinds, Trigger(i, kind) \/ Rerun(i, kind), k \notin jobs
        PROVE  k = [batch |-> tasks[i].batch, kind |-> kind, todo |-> Collected(tasks[i].batch, kind)]
    BY <1>2 DEF Trigger, Rerun, Started
  <1>3. ASSUME NEW j \in jobs, JobStep(j) \/ SessionDies(j) PROVE Was
    <2>1. CASE JobEnds(j) \/ SessionDies(j)
      BY <2>1 DEF JobEnds, SessionDies
    <2>2. ASSUME NEW x \in drafts, PostDraft(j, x) PROVE Was
      <3>1. k \in jobs \/ k = [j EXCEPT !.todo = @ \ {x.id}]
        BY <2>2 DEF PostDraft, WithoutDraft
      <3>2. DOMAIN j = {"batch", "kind", "todo"}
        BY DEF Types, BcTypes, IsJob
      <3> QED
        BY <3>1, <3>2
    <2> QED
      BY <1>3, <2>1, <2>2 DEF JobStep
  <1>4. CASE UNCHANGED jobs
    BY <1>4
  <1>5. ASSUME NEW reprocess \in BOOLEAN, Start(reprocess) PROVE UNCHANGED jobs
    BY <1>5 DEF Start
  <1>6. CASE MainStep \/ FetchFails \/ Crash
    BY <1>4, <1>6 DEF MainStep, FetchChunk, ChunkImported, Backpressure, Join, Exit, FetchFails, Crash
  <1>7. ASSUME NEW d \in Docs, ImportStep(d) PROVE UNCHANGED jobs
    BY <1>7 DEF ImportStep, Validate, RecordErrors, SetStatus, ImportOne, SetBcDocumentNo, RejectImport
  <1>8. ASSUME NEW i \in DOMAIN tasks, TaskStep(i), k \notin jobs
        PROVE  \E kind \in Kinds : Trigger(i, kind) \/ Rerun(i, kind)
    BY <1>8 DEF TaskStep, Flip, Flipped, Poll, ListPostResults, ApplyNext, Reconciled
  <1>9. CASE UNCHANGED vars
    BY <1>4, <1>9 DEF vars
  <1> QED
    BY <1>1, <1>2, <1>3, <1>4, <1>5, <1>6, <1>7, <1>8, <1>9 DEF Next

(* A new result row is that of the draft just posted.                           *)
LEMMA RowsFrom ==
  ASSUME Types, [Next]_vars, NEW r \in results'
  PROVE  \/ r \in results
         \/ /\ r.entry = Cardinality(results) + 1 /\ results' = results \union {r}
            /\ \E j \in jobs : \E x \in drafts :
                   PostDraft(j, x) /\ r.batch = x.batch /\ r.ext = BcCode[Ext[x.doc]]
  <1> USE DEF bc
  <1>1. ASSUME NEW reprocess \in BOOLEAN, Start(reprocess) PROVE UNCHANGED results
    BY <1>1 DEF Start
  <1>2. CASE MainStep \/ FetchFails \/ Crash
    BY <1>2 DEF MainStep, FetchChunk, ChunkImported, Backpressure, Join, Exit, FetchFails, Crash
  <1>3. ASSUME NEW d \in Docs, ImportStep(d) PROVE UNCHANGED results
    BY <1>3 DEF ImportStep, Validate, RecordErrors, SetStatus, ImportOne, SetBcDocumentNo, RejectImport
  <1>4. ASSUME NEW i \in DOMAIN tasks, TaskStep(i) PROVE UNCHANGED results
    BY <1>4 DEF TaskStep, Flip, Flipped, Trigger, Rerun, Poll, ListPostResults, ApplyNext, Reconciled
  <1>5. ASSUME NEW j \in jobs, JobStep(j) \/ SessionDies(j), r \notin results
        PROVE  /\ r.entry = Cardinality(results) + 1 /\ results' = results \union {r}
               /\ \E x \in drafts : PostDraft(j, x) /\ r.batch = x.batch /\ r.ext = BcCode[Ext[x.doc]]
    <2>1. PICK x \in drafts : PostDraft(j, x)
      BY <1>5 DEF JobStep, JobEnds, SessionDies
    <2>2. PICK ok \in BOOLEAN : results' = Outcome(x, ok)
      BY <2>1 DEF PostDraft
    <2>3. /\ r.batch = x.batch /\ r.ext = BcCode[Ext[x.doc]]
          /\ r.entry = Cardinality(results) + 1 /\ results' = results \union {r}
      BY <1>5, <2>2 DEF Outcome
    <2> QED
      BY <2>1, <2>3
  <1>6. CASE UNCHANGED vars
    BY <1>6 DEF vars
  <1> QED
    BY <1>1, <1>2, <1>3, <1>4, <1>5, <1>6 DEF Next

(* Runs and chunks go forward; post tasks do not outlive their run.             *)
LEMMA Forward ==
  ASSUME Types, main # "down" => run >= 1, [Next]_vars
  PROVE  /\ main' # "down" => run' >= 1
         /\ \A b \in Batches : Old(b) => Old(b)'
         /\ tasks' # <<>> => run' = run /\ main # "down"
         /\ chunkIdx' = chunkIdx \/ chunkIdx' = chunkIdx + 1 \/ tasks' = <<>>
  <1> DEFINE Goal == /\ main' # "down" => run' >= 1
                     /\ \A b \in Batches : Old(b) => Old(b)'
                     /\ tasks' # <<>> => run' = run /\ main # "down"
                     /\ chunkIdx' = chunkIdx \/ chunkIdx' = chunkIdx + 1 \/ tasks' = <<>>
  <1> SUFFICES Goal
    OBVIOUS
  <1>1. run \in Nat /\ chunkIdx \in Nat /\ (main = "down" => tasks = <<>>)
    BY BoundAssumption DEF Types, MainTypes, Idle
  <1> USE DEF memory
  <1>2. ASSUME NEW reprocess \in BOOLEAN, Start(reprocess) PROVE Goal
    <2>1. main = "down" /\ run' = run + 1 /\ tasks' = <<>>
      BY <1>1, <1>2 DEF Start
    <2>2. \A b \in Batches : Old(b) => Old(b)'
      BY <1>1, <2>1 DEF Old, Batches
    <2> QED
      BY <1>1, <2>1, <2>2
  <1>3. ASSUME run' = run, chunkIdx' = chunkIdx \/ chunkIdx' = chunkIdx + 1,
               main # "down" \/ (UNCHANGED <<main, tasks>>)
        PROVE  Goal
    <2>1. \A b \in Batches : Old(b) => Old(b)'
      BY <1>1, <1>3 DEF Old, Batches
    <2> QED
      BY <1>1, <1>3, <2>1
  <1> HIDE DEF Goal
  <1>4. CASE MainStep \/ FetchFails \/ Crash
    BY <1>3, <1>4 DEF MainStep, FetchChunk, ChunkImported, Backpressure, Join, Exit, FetchFails, Crash
  <1>5. ASSUME NEW d \in Docs, ImportStep(d) PROVE Goal
    BY <1>3, <1>5 DEF ImportStep, Validate, RecordErrors, SetStatus, ImportOne, SetBcDocumentNo, RejectImport,
                      Future, RestOfImport
  <1>6. ASSUME NEW i \in DOMAIN tasks, TaskStep(i) PROVE Goal
    BY <1>3, <1>6 DEF TaskStep, Flip, Flipped, Trigger, Rerun, Poll, ListPostResults, ApplyNext, Reconciled, Task,
                      RestOfTask
  <1>7. ASSUME NEW j \in jobs, JobStep(j) \/ SessionDies(j) PROVE Goal
    BY <1>3, <1>7 DEF JobStep, JobEnds, PostDraft, SessionDies
  <1>8. CASE UNCHANGED vars
    BY <1>3, <1>8 DEF vars
  <1> QED
    BY <1>2, <1>4, <1>5, <1>6, <1>7, <1>8 DEF Next

(* A draft keeps its document and batch.                                        *)
LEMMA DraftsStay ==
  ASSUME Types, Identified, [Next]_vars
  PROVE  /\ \A x \in drafts : \E y \in drafts' : y.id = x.id /\ y.doc = x.doc /\ y.batch = x.batch
         /\ \A x \in drafts : \A y \in drafts' : y.id = x.id => y.doc = x.doc /\ y.batch = x.batch
         /\ \A d : CreatedTwice(d) => CreatedTwice(d)'
  <1> DEFINE Kept(x, y) == y.id = x.id /\ y.doc = x.doc /\ y.batch = x.batch
  <1> USE DEF bc
  <1>0. Identified'
    BY IdentifiedNext
  <1>1. ASSUME drafts \subseteq drafts' PROVE \A x \in drafts : \E y \in drafts' : Kept(x, y)
    BY <1>1
  <1>2. ASSUME NEW x \in drafts, drafts' = (drafts \ {x}) \union {[x EXCEPT !.posted = TRUE]}
        PROVE  \A z \in drafts : \E y \in drafts' : Kept(z, y)
    <2>1. Kept(x, [x EXCEPT !.posted = TRUE])
      BY DEF Types, BcTypes, IsDraft
    <2> QED
      BY <1>2, <2>1
  <1> HIDE DEF Kept
  <1>3. \A x \in drafts : \E y \in drafts' : Kept(x, y)
    <2>1. ASSUME NEW reprocess \in BOOLEAN, Start(reprocess) PROVE UNCHANGED drafts
      BY <2>1 DEF Start
    <2>2. CASE MainStep \/ FetchFails \/ Crash
      BY <1>1, <2>2 DEF MainStep, FetchChunk, ChunkImported, Backpressure, Join, Exit, FetchFails, Crash
    <2>3. ASSUME NEW d \in Docs, ImportStep(d) PROVE drafts \subseteq drafts'
      BY <2>3 DEF ImportStep, Validate, RecordErrors, SetStatus, ImportOne, SetBcDocumentNo, RejectImport
    <2>4. ASSUME NEW i \in DOMAIN tasks, TaskStep(i) PROVE UNCHANGED drafts
      BY <2>4 DEF TaskStep, Flip, Flipped, Trigger, Rerun, Poll, ListPostResults, ApplyNext, Reconciled
    <2>5. ASSUME NEW j \in jobs, JobStep(j) \/ SessionDies(j)
          PROVE  \A x \in drafts : \E y \in drafts' : Kept(x, y)
      BY <1>1, <1>2, <2>5 DEF JobStep, JobEnds, PostDraft, SessionDies
    <2>6. CASE UNCHANGED vars
      BY <1>1, <2>6 DEF vars
    <2> QED
      BY <1>1, <2>1, <2>2, <2>3, <2>4, <2>5, <2>6 DEF Next
  <1>4. \A x \in drafts : \A y \in drafts' : y.id = x.id => Kept(x, y)
    BY <1>0, <1>3 DEF Kept, Identified
  <1>5. ASSUME NEW d, CreatedTwice(d) PROVE CreatedTwice(d)'
    <2>1. PICK x \in drafts, y \in drafts : x # y /\ x.doc = d /\ y.doc = d /\ x.batch = y.batch /\ x.batch # NoBatch
      BY <1>5 DEF CreatedTwice, DraftsOf
    <2>2. x.id # y.id
      BY <2>1 DEF Identified
    <2>3. PICK v \in drafts', w \in drafts' : Kept(x, v) /\ Kept(y, w)
      BY <1>3
    <2>4. v # w /\ v.doc = d /\ w.doc = d /\ v.batch = w.batch /\ v.batch # NoBatch
      BY <2>1, <2>2, <2>3 DEF Kept
    <2> QED
      BY <2>4 DEF CreatedTwice, DraftsOf
  <1> QED
    BY <1>3, <1>4, <1>5 DEF Kept

(* A posted draft stays posted.                                                 *)
LEMMA StaysPosted ==
  ASSUME Types, Identified, [Next]_vars, NEW x \in drafts, x.posted, NEW y \in drafts', y.id = x.id
  PROVE  y.posted
  <1> USE DEF bc
  <1>1. Identified'
    BY IdentifiedNext
  <1>2. ASSUME x \in drafts' PROVE y.posted
    BY <1>1, <1>2 DEF Identified
  <1>3. ASSUME NEW reprocess \in BOOLEAN, Start(reprocess) PROVE x \in drafts'
    BY <1>3 DEF Start
  <1>4. CASE MainStep \/ FetchFails \/ Crash
    BY <1>2, <1>4 DEF MainStep, FetchChunk, ChunkImported, Backpressure, Join, Exit, FetchFails, Crash
  <1>5. ASSUME NEW d \in Docs, ImportStep(d) PROVE x \in drafts'
    BY <1>5 DEF ImportStep, Validate, RecordErrors, SetStatus, ImportOne, SetBcDocumentNo, RejectImport
  <1>6. ASSUME NEW i \in DOMAIN tasks, TaskStep(i) PROVE x \in drafts'
    BY <1>6 DEF TaskStep, Flip, Flipped, Trigger, Rerun, Poll, ListPostResults, ApplyNext, Reconciled
  <1>7. ASSUME NEW j \in jobs, JobStep(j) \/ SessionDies(j) PROVE y.posted
    <2>1. x \in drafts' \/ drafts' = (drafts \ {x}) \union {[x EXCEPT !.posted = TRUE]}
      BY <1>7 DEF JobStep, JobEnds, PostDraft, SessionDies
    <2>2. ASSUME drafts' = (drafts \ {x}) \union {[x EXCEPT !.posted = TRUE]} PROVE y.posted
      BY <2>2 DEF Identified, Types, BcTypes, IsDraft
    <2> QED
      BY <1>2, <2>1, <2>2
  <1>8. CASE UNCHANGED vars
    BY <1>2, <1>8 DEF vars
  <1> QED
    BY <1>2, <1>3, <1>4, <1>5, <1>6, <1>7, <1>8 DEF Next

(* Only a session posts a draft.                                                *)
LEMMA Unposting ==
  ASSUME Types, Identified, [Next]_vars,
         NEW x \in drafts, ~x.posted, NEW y \in drafts', y.id = x.id, y.posted
  PROVE  \E p \in jobs : JobStep(p) \/ SessionDies(p)
  <1> SUFFICES ASSUME ~\E p \in jobs : JobStep(p) \/ SessionDies(p) PROVE FALSE
    OBVIOUS
  <1> USE DEF bc
  <1>1. x \in drafts'
    <2>1. ASSUME NEW reprocess \in BOOLEAN, Start(reprocess) PROVE x \in drafts'
      BY <2>1 DEF Start
    <2>2. CASE MainStep \/ FetchFails \/ Crash
      BY <2>2 DEF MainStep, FetchChunk, ChunkImported, Backpressure, Join, Exit, FetchFails, Crash
    <2>3. ASSUME NEW d \in Docs, ImportStep(d) PROVE x \in drafts'
      BY <2>3 DEF ImportStep, Validate, RecordErrors, SetStatus, ImportOne, SetBcDocumentNo, RejectImport
    <2>4. ASSUME NEW i \in DOMAIN tasks, TaskStep(i) PROVE x \in drafts'
      BY <2>4 DEF TaskStep, Flip, Flipped, Trigger, Rerun, Poll, ListPostResults, ApplyNext, Reconciled
    <2>5. CASE UNCHANGED vars
      BY <2>5 DEF vars
    <2> QED
      BY <2>1, <2>2, <2>3, <2>4, <2>5 DEF Next
  <1> QED
    BY <1>1, IdentifiedNext DEF Identified

(* Jobs keep to drafts of their batch and kind, and apart.                      *)
LEMMA JobsApartNext ==
  ASSUME Types, Identified, Batched, JobsApart, TriggersAhead, [Next]_vars
  PROVE  JobsApart'
  <1>1. ASSUME NEW k \in jobs', NEW id \in k.todo
        PROVE  \E x \in drafts' : x.id = id /\ x.batch = k.batch /\ Kind[x.doc] = k.kind
    <2>1. \E x \in drafts : x.id = id /\ x.batch = k.batch /\ Kind[x.doc] = k.kind
      <3>1. CASE \E j \in jobs : k.batch = j.batch /\ k.kind = j.kind /\ k.todo \subseteq j.todo
        BY <1>1, <3>1 DEF JobsApart
      <3>2. ASSUME NEW b, NEW kind, k = [batch |-> b, kind |-> kind, todo |-> Collected(b, kind)]
            PROVE  \E x \in drafts : x.id = id /\ x.batch = k.batch /\ Kind[x.doc] = k.kind
        BY <1>1, <3>2 DEF Collected
      <3> QED
        BY <3>1, <3>2, JobsFrom
    <2> QED
      BY <2>1, DraftsStay
  <1>2. \A j, k \in jobs' : j.batch = k.batch /\ j.kind = k.kind => j = k
    <2>1. CASE \E i \in DOMAIN tasks : \E kind \in Kinds : Trigger(i, kind) \/ Rerun(i, kind)
      <3>1. PICK i \in DOMAIN tasks, kind \in Kinds : Trigger(i, kind) \/ Rerun(i, kind)
        BY <2>1
      <3> DEFINE job == [batch |-> tasks[i].batch, kind |-> kind, todo |-> Collected(tasks[i].batch, kind)]
      <3>2. job.batch = tasks[i].batch /\ job.kind = kind
        OBVIOUS
      <3>3. jobs' = jobs \/ jobs' = jobs \union {job}
        BY <3>1 DEF Trigger, Rerun, Started
      <3>4. jobs' # jobs => \A j \in jobs : ~(j.batch = tasks[i].batch /\ j.kind = kind)
        BY <3>1 DEF Trigger, Rerun, Task, TriggersAhead, Untriggered, Repeating
      <3> HIDE DEF job
      <3> QED
        BY <3>2, <3>3, <3>4 DEF JobsApart
    <2>2. CASE ~\E i \in DOMAIN tasks : \E kind \in Kinds : Trigger(i, kind) \/ Rerun(i, kind)
      <3>1. CASE jobs' \subseteq jobs
        BY <3>1 DEF JobsApart
      <3>2. CASE ~(jobs' \subseteq jobs)
        <4>1. PICK j \in jobs, x \in drafts : PostDraft(j, x)
          <5>1. ASSUME NEW j \in jobs, JobStep(j) \/ SessionDies(j) PROVE \E x \in drafts : PostDraft(j, x)
            BY <3>2, <5>1 DEF JobStep, JobEnds, SessionDies
          <5>2. ASSUME NEW reprocess \in BOOLEAN, Start(reprocess) PROVE jobs' \subseteq jobs
            BY <5>2 DEF Start, bc
          <5>3. CASE MainStep \/ FetchFails \/ Crash \/ UNCHANGED vars
            BY <3>2, <5>3 DEF MainStep, FetchChunk, ChunkImported, Backpressure, Join, Exit, FetchFails, Crash,
                              vars, bc
          <5>4. ASSUME NEW d \in Docs, ImportStep(d) PROVE jobs' \subseteq jobs
            BY <5>4 DEF ImportStep, Validate, RecordErrors, SetStatus, ImportOne, SetBcDocumentNo, RejectImport,
                        bc
          <5>5. ASSUME NEW i \in DOMAIN tasks, TaskStep(i) PROVE jobs' \subseteq jobs
            BY <2>2, <5>5 DEF TaskStep, Flip, Flipped, Poll, ListPostResults, ApplyNext, Reconciled, bc
          <5> QED
            BY <3>2, <5>1, <5>2, <5>3, <5>4, <5>5 DEF Next
        <4> DEFINE k == [j EXCEPT !.todo = @ \ {x.id}]
        <4>2. jobs' = (jobs \ {j}) \union {k}
          BY <4>1 DEF PostDraft, WithoutDraft
        <4>3. k.batch = j.batch /\ k.kind = j.kind
          BY DEF Types, BcTypes, IsJob
        <4> HIDE DEF k
        <4> QED
          BY <4>2, <4>3 DEF JobsApart
      <3> QED
        BY <3>1, <3>2
    <2> QED
      BY <2>1, <2>2
  <1> QED
    BY <1>1, <1>2 DEF JobsApart

(* Batches stay in order.                                                       *)
LEMMA BatchedNext ==
  ASSUME Types, Identified, Batched, JobsApart, [Next]_vars
  PROVE  Batched'
  <1>1. Types'
    BY TypesNext
  <1>2. /\ main' # "down" => run' >= 1
        /\ \A b \in Batches : Old(b) => Old(b)'
        /\ tasks' # <<>> => run' = run /\ main # "down"
        /\ chunkIdx' = chunkIdx \/ chunkIdx' = chunkIdx + 1 \/ tasks' = <<>>
    BY Forward DEF Batched
  <1>3. /\ run \in Nat /\ chunkIdx \in Nat /\ chunkIdx' \in Nat
        /\ tasks \in Seq(TaskRecords) /\ tasks' \in Seq(TaskRecords)
    BY <1>1, BoundAssumption DEF Types, MainTypes
  <1>4. \A i \in DOMAIN tasks : /\ tasks[i].batch \in Batches /\ tasks[i].batch # NoBatch
                                /\ Old(tasks[i].batch)
    <2>1. \A t \in TaskRecords : t.batch \in Batches
      BY DEF TaskRecords
    <2>2. ASSUME NEW i \in DOMAIN tasks PROVE run >= 1 /\ tasks[i] \in TaskRecords
      BY <1>3, <2>2 DEF Batched, Types, Idle
    <2> QED
      BY <1>3, <2>1, <2>2 DEF Batched, Old, NoBatch
  <1>5. ASSUME NEW k \in jobs' PROVE k.batch \in Batches /\ k.batch # NoBatch /\ Old(k.batch)
    <2>1. CASE \E j \in jobs : k.batch = j.batch /\ k.kind = j.kind /\ k.todo \subseteq j.todo
      BY <2>1 DEF Batched
    <2>2. ASSUME NEW i \in DOMAIN tasks, NEW kind,
                 k = [batch |-> tasks[i].batch, kind |-> kind, todo |-> Collected(tasks[i].batch, kind)]
          PROVE  k.batch \in Batches /\ k.batch # NoBatch /\ Old(k.batch)
      <3>1. k.batch = tasks[i].batch
        BY <2>2
      <3> QED
        BY <1>4, <3>1
    <2> QED
      BY <2>1, <2>2, JobsFrom
  <1>6. \A k \in jobs' : k.batch \in Batches /\ k.batch # NoBatch /\ Old(k.batch)'
    BY <1>2, <1>5
  <1>7. ASSUME NEW r \in results' PROVE r.batch \in Batches /\ Old(r.batch)
    <2>1. CASE r \in results
      BY <2>1 DEF Batched, Types, BcTypes, Rows
    <2>2. ASSUME NEW j \in jobs, NEW x \in drafts, PostDraft(j, x), r.batch = x.batch
          PROVE  r.batch \in Batches /\ Old(r.batch)
      <3>1. PICK y \in drafts : y.id = x.id /\ y.batch = j.batch
        BY <2>2 DEF PostDraft, JobsApart
      <3>2. x.batch = j.batch
        BY <3>1 DEF Identified
      <3> QED
        BY <2>2, <3>2 DEF Batched
    <2> QED
      BY <2>1, <2>2, RowsFrom
  <1>8. \A r \in results' : Old(r.batch)'
    BY <1>2, <1>7
  <1> DEFINE Apart == /\ \A i \in DOMAIN tasks' : tasks'[i].batch[1] = run' /\ tasks'[i].batch[2] < chunkIdx'
                      /\ \A i, k \in DOMAIN tasks' : tasks'[i].batch = tasks'[k].batch => i = k
  <1>9. Apart
    <2>1. CASE tasks' = <<>>
      BY <2>1
    <2>2. ASSUME tasks' # <<>>, NEW shift \in {0, 1},
                 \A n \in DOMAIN tasks' : n + shift \in DOMAIN tasks /\ Later(tasks[n + shift], tasks'[n])
          PROVE  Apart
      <3>1. \A n \in DOMAIN tasks' : n \in Nat /\ n + shift \in DOMAIN tasks
                                     /\ tasks'[n].batch = tasks[n + shift].batch
        BY <1>3, <2>2 DEF Later
      <3>2. \A n \in DOMAIN tasks : tasks[n].batch[2] \in Nat
        BY <1>4 DEF Batches
      <3>3. run' = run /\ (chunkIdx' = chunkIdx \/ chunkIdx' = chunkIdx + 1)
        BY <1>2, <2>2
      <3>4. ASSUME NEW n \in DOMAIN tasks' PROVE tasks'[n].batch[1] = run' /\ tasks'[n].batch[2] < chunkIdx'
        <4>1. PICK b : b = tasks[n + shift].batch /\ b = tasks'[n].batch
          BY <3>1
        <4>2. b[1] = run /\ b[2] < chunkIdx /\ b[2] \in Nat
          BY <3>1, <3>2, <4>1 DEF Batched
        <4> QED
          BY <1>3, <3>3, <4>1, <4>2
      <3>5. \A n, m \in DOMAIN tasks' : tasks'[n].batch = tasks'[m].batch => n + shift = m + shift
        BY <3>1 DEF Batched
      <3> QED
        BY <3>1, <3>4, <3>5
    <2>3. ASSUME ChunkImported, NEW m \in ChunkMaps, tasks' = Append(tasks, NewTask(m))
          PROVE  Apart
      <3>1. NewTask(m).batch = ChunkCode /\ ChunkCode[1] = run /\ ChunkCode[2] = chunkIdx
        BY DEF NewTask, ChunkCode
      <3>2. /\ DOMAIN tasks' = 1 .. Len(tasks) + 1 /\ DOMAIN tasks = 1 .. Len(tasks)
            /\ \A n \in DOMAIN tasks : tasks'[n] = tasks[n]
            /\ tasks'[Len(tasks) + 1] = NewTask(m)
        BY <1>3, <2>3
      <3>3. chunkIdx' = chunkIdx + 1 /\ run' = run
        BY <2>3 DEF ChunkImported
      <3>4. \A n \in DOMAIN tasks : /\ tasks[n].batch[1] = run /\ tasks[n].batch[2] \in Nat
                                    /\ tasks[n].batch[2] < chunkIdx
        BY <1>4 DEF Batches, Batched
      <3>5. \A n \in DOMAIN tasks : tasks[n].batch # ChunkCode
        BY <1>3, <3>1, <3>4
      <3>6. \A n \in DOMAIN tasks' : n \in DOMAIN tasks \/ n = Len(tasks) + 1
        BY <1>3, <3>2
      <3>7. \A n \in DOMAIN tasks' : tasks'[n].batch[1] = run' /\ tasks'[n].batch[2] < chunkIdx'
        BY <1>3, <3>1, <3>2, <3>3, <3>4, <3>6
      <3>8. \A n, k \in DOMAIN tasks' : tasks'[n].batch = tasks'[k].batch => n = k
        BY <3>1, <3>2, <3>5, <3>6 DEF Batched
      <3> QED
        BY <3>7, <3>8
    <2> QED
      BY <2>1, <2>2, <2>3, TasksFrom
  <1> QED
    BY <1>2, <1>6, <1>8, <1>9 DEF Batched

(* No job posts a draft again, so no row of a document comes after its success. *)
LEMMA SuccessLastNext ==
  ASSUME NumbersDistinct, Types, Identified, Batched, JobsApart, SuccessLast, [Next]_vars
  PROVE  SuccessLast'
  <1>1. Identified'
    BY IdentifiedNext
  <1>2. /\ \A x \in drafts : \E y \in drafts' : y.id = x.id /\ y.doc = x.doc /\ y.batch = x.batch
        /\ \A d : CreatedTwice(d) => CreatedTwice(d)'
    BY DraftsStay
  <1>3. \A x \in drafts : x.doc \in Docs
    BY DEF Types, BcTypes, IsDraft
  <1>4. IsFiniteSet(results) /\ Cardinality(results) \in Nat /\ \A r \in results : r.entry \in Nat
    BY FS_CardinalityType DEF Types, BcTypes, Rows
  <1>5. ASSUME NEW k \in jobs', NEW y \in drafts', y.id \in k.todo, y.posted PROVE FALSE
    <2>1. ASSUME NEW j \in jobs, k.batch = j.batch, k.kind = j.kind, k.todo \subseteq j.todo PROVE FALSE
      <3>1. PICK x \in drafts : x.id = y.id /\ x.batch = j.batch /\ Kind[x.doc] = j.kind /\ ~x.posted
        BY <1>5, <2>1 DEF JobsApart, SuccessLast
      <3>2. y # x /\ y \notin drafts
        BY <1>5, <3>1 DEF Identified
      <3>3. PICK p \in jobs : JobStep(p) \/ SessionDies(p)
        BY <1>5, <3>1, <3>2, Unposting
      <3>4. PICK w \in drafts : /\ w.id \in p.todo
                                /\ drafts' = (drafts \ {w}) \union {[w EXCEPT !.posted = TRUE]}
                                /\ jobs' = jobs \ {p} \/ jobs' = WithoutDraft(p, w)
        BY <3>2, <3>3 DEF JobStep, JobEnds, PostDraft, SessionDies
      <3>5. w.id = y.id
        BY <3>2, <3>4 DEF Types, BcTypes, IsDraft
      <3>6. w = x
        BY <3>1, <3>5 DEF Identified
      <3>7. p = j
        BY <3>1, <3>4, <3>6 DEF JobsApart, Identified
      <3> DEFINE q == [p EXCEPT !.todo = @ \ {w.id}]
      <3>8. jobs' = jobs \ {p} \/ jobs' = (jobs \ {p}) \union {q}
        BY <3>4 DEF WithoutDraft
      <3>9. y.id \notin q.todo
        BY <3>5 DEF Types, BcTypes, IsJob
      <3> HIDE DEF q
      <3>10. k \in jobs /\ k # p
        BY <1>5, <3>8, <3>9
      <3> QED
        BY <2>1, <3>7, <3>10 DEF JobsApart
    <2>2. ASSUME NEW i \in DOMAIN tasks, NEW kind \in Kinds, Trigger(i, kind) \/ Rerun(i, kind),
                 k = [batch |-> tasks[i].batch, kind |-> kind, todo |-> Collected(tasks[i].batch, kind)]
          PROVE  FALSE
      <3>1. drafts' = drafts
        BY <2>2 DEF Trigger, Rerun
      <3>2. PICK x \in drafts : x.id = y.id /\ ~x.posted
        BY <1>5, <2>2 DEF Collected
      <3> QED
        BY <1>5, <3>1, <3>2 DEF Identified
    <2> QED
      BY <2>1, <2>2, JobsFrom
  <1>6. ASSUME NEW r \in results' PROVE r \in results \/ (r.entry = Cardinality(results) + 1
                                                       /\ results' = results \union {r})
    BY RowsFrom
  <1>7. \A r \in results' : r.entry <= Cardinality(results')
    <2>1. CASE results' \subseteq results
      BY <2>1, PostedStays DEF SuccessLast
    <2>2. CASE ~(results' \subseteq results)
      <3>1. PICK new \in results' : new \notin results
        BY <2>2
      <3>2. new.entry = Cardinality(results) + 1 /\ results' = results \union {new}
        BY <1>6, <3>1
      <3>3. Cardinality(results') = Cardinality(results) + 1
        BY <1>4, <3>1, <3>2, FS_AddElement
      <3> QED
        BY <1>4, <3>2, <3>3 DEF SuccessLast
    <2> QED
      BY <2>1, <2>2
  <1>8. ASSUME NEW r \in results', r.success
        PROVE  \E x \in drafts' : x.posted /\ x.batch = r.batch /\ r.ext = BcCode[Ext[x.doc]]
    <2>1. CASE r \in results
      <3>1. PICK x \in drafts : x.posted /\ x.batch = r.batch /\ r.ext = BcCode[Ext[x.doc]]
        BY <1>8, <2>1 DEF SuccessLast
      <3>2. PICK y \in drafts' : y.id = x.id /\ y.doc = x.doc /\ y.batch = x.batch
        BY <1>2
      <3>3. y.posted
        BY <3>1, <3>2, StaysPosted
      <3> QED
        BY <3>1, <3>2, <3>3
    <2>2. CASE r \notin results
      <3>1. PICK j \in jobs, x \in drafts : PostDraft(j, x) /\ r.batch = x.batch /\ r.ext = BcCode[Ext[x.doc]]
        BY <2>2, RowsFrom
      <3> DEFINE w == [x EXCEPT !.posted = TRUE]
      <3>2. w.posted /\ w.batch = x.batch /\ w.doc = x.doc
        BY DEF Types, BcTypes, IsDraft
      <3>3. results' = Outcome(x, FALSE) => ~r.success
        BY <2>2 DEF Outcome
      <3>4. w \in drafts'
        BY <1>8, <3>1, <3>3 DEF PostDraft
      <3> HIDE DEF w
      <3> QED
        BY <3>1, <3>2, <3>4
    <2> QED
      BY <2>1, <2>2
  <1>9. ASSUME NEW d \in Docs, ~CreatedTwice(d)', NEW r \in results', NEW s \in results',
               r.success, RowOf(r, s.batch, d), s.ext = Ext[d]
        PROVE  s = r \/ s.entry < r.entry
    <2>1. ~CreatedTwice(d)
      BY <1>2, <1>9
    <2>2. CASE r \in results /\ s \in results
      BY <1>9, <2>1, <2>2 DEF SuccessLast
    <2>3. CASE r \notin results
      BY <1>4, <1>6, <2>3 DEF SuccessLast
    <2>4. CASE r \in results /\ s \notin results
      <3>1. PICK j \in jobs, x \in drafts : PostDraft(j, x) /\ s.batch = x.batch /\ s.ext = BcCode[Ext[x.doc]]
        BY <2>4, RowsFrom
      <3>2. PICK y \in drafts : y.posted /\ y.batch = r.batch /\ r.ext = BcCode[Ext[y.doc]]
        BY <1>9, <2>4 DEF SuccessLast
      <3>3. x.doc = d /\ y.doc = d /\ x.batch = y.batch
        <4>1. BcCode[Ext[x.doc]] = Ext[d] /\ BcCode[Ext[y.doc]] = Ext[d] /\ r.batch = s.batch
          BY <1>9, <3>1, <3>2 DEF RowOf
        <4>2. x.doc \in Docs /\ y.doc \in Docs
          BY <1>3
        <4>3. x.doc = d /\ y.doc = d
          BY <4>1, <4>2 DEF NumbersDistinct
        <4> QED
          BY <3>1, <3>2, <4>1, <4>3
      <3>4. x.id \in j.todo
        BY <3>1 DEF PostDraft
      <3>5. x # y
        BY <3>2, <3>4 DEF SuccessLast
      <3>6. x.batch = j.batch
        BY <3>4 DEF JobsApart, Identified
      <3>7. x.batch # NoBatch
        BY <3>6 DEF Batched
      <3> QED
        BY <2>1, <3>3, <3>5, <3>7 DEF CreatedTwice, DraftsOf
    <2> QED
      BY <2>2, <2>3, <2>4
  <1>10. \A k \in jobs' : \A y \in drafts' : y.id \in k.todo => ~y.posted
    BY <1>5
  <1>11. \A d \in Docs : ~CreatedTwice(d)' =>
             \A r, s \in results' : r.success /\ RowOf(r, s.batch, d) /\ s.ext = Ext[d] =>
                 s = r \/ s.entry < r.entry
    BY <1>9
  <1> QED
    BY <1>7, <1>8, <1>10, <1>11 DEF SuccessLast, RowOf

(* What a task has not triggered has no job and no rows yet.                    *)
LEMMA TriggersAheadNext ==
  ASSUME NumbersDistinct, Types, Identified, Batched, JobsApart, TriggersAhead, [Next]_vars
  PROVE  TriggersAhead'
  <1>1. ASSUME NEW b, NEW k,
               \A j \in jobs : ~(j.batch = b /\ j.kind = k),
               \A d \in Docs : Kind[d] = k => \A r \in results : ~RowOf(r, b, d),
               \A i \in DOMAIN tasks : ~(tasks[i].batch = b /\ (Trigger(i, k) \/ Rerun(i, k)))
        PROVE  /\ \A j \in jobs' : ~(j.batch = b /\ j.kind = k)
               /\ \A d \in Docs : Kind[d] = k => \A r \in results' : ~RowOf(r, b, d)
    <2>1. ASSUME NEW j \in jobs', j.batch = b, j.kind = k PROVE FALSE
      <3>1. CASE \E p \in jobs : j.batch = p.batch /\ j.kind = p.kind /\ j.todo \subseteq p.todo
        BY <1>1, <2>1, <3>1
      <3>2. ASSUME NEW i \in DOMAIN tasks, NEW kind \in Kinds, Trigger(i, kind) \/ Rerun(i, kind),
                   j = [batch |-> tasks[i].batch, kind |-> kind, todo |-> Collected(tasks[i].batch, kind)]
            PROVE  FALSE
        <4>1. j.batch = tasks[i].batch /\ j.kind = kind
          BY <3>2
        <4> QED
          BY <1>1, <2>1, <3>2, <4>1
      <3> QED
        BY <3>1, <3>2, JobsFrom
    <2>2. ASSUME NEW d \in Docs, Kind[d] = k, NEW r \in results', RowOf(r, b, d) PROVE FALSE
      <3>1. PICK j \in jobs, x \in drafts : PostDraft(j, x) /\ r.batch = x.batch /\ r.ext = BcCode[Ext[x.doc]]
        BY <1>1, <2>2, RowsFrom
      <3>2. x.doc = d
        BY <2>2, <3>1 DEF RowOf, NumbersDistinct, Types, BcTypes, IsDraft
      <3>3. x.batch = j.batch /\ Kind[x.doc] = j.kind
        BY <3>1 DEF PostDraft, JobsApart, Identified
      <3> QED
        BY <1>1, <2>2, <3>1, <3>2, <3>3 DEF RowOf
    <2> QED
      BY <2>1, <2>2
  <1> DEFINE Ahead(u, k) == /\ \A j \in jobs' : ~(j.batch = u.batch /\ j.kind = k)
                            /\ \A d \in Docs : Kind[d] = k => \A r \in results' : ~RowOf(r, u.batch, d)
  <1>2. SUFFICES ASSUME NEW n \in DOMAIN tasks', NEW u, u = tasks'[n], u.pc \in {"flip", "trigger"},
                        NEW k \in u.kinds \ u.polling
                 PROVE  Ahead(u, k)
    BY DEF TriggersAhead, Untriggered, RowOf
  <1>3. ASSUME NEW m \in DOMAIN tasks, Later(tasks[m], u) PROVE Ahead(u, k)
    <2>1. /\ u.batch = tasks[m].batch /\ k \in tasks[m].kinds \ tasks[m].polling
          /\ tasks[m].pc \in {"flip", "trigger"}
      BY <1>2, <1>3 DEF Later
    <2>2. Untriggered(tasks[m], k)
      BY <2>1 DEF TriggersAhead
    <2>3. ASSUME NEW i \in DOMAIN tasks, tasks[i].batch = u.batch, Trigger(i, k) \/ Rerun(i, k) PROVE FALSE
      <3>1. PICK t : t = tasks[i]
        OBVIOUS
      <3>2. t \in TaskRecords
        BY <3>1 DEF Types, MainTypes
      <3> DEFINE ended == [t EXCEPT !.pc = "done"]
                 again == [t EXCEPT !.polling = @ \union {k}]
                 on == [t EXCEPT !.kinds = @ \ {k}, !.polling = @ \union {k},
                                 !.pc = IF @ = "trigger" /\ t.kinds = {k} THEN "poll" ELSE @]
      <3>3. \E v \in {ended, again, on} : tasks' = [tasks EXCEPT ![i] = v]
        BY <2>3, <3>1 DEF Trigger, Rerun, Triggered, Abort
      <3>31. /\ ended.batch = t.batch /\ ended.pc = "done"
             /\ on.batch = t.batch /\ k \in on.polling
             /\ again.batch = t.batch /\ k \in again.polling
        BY <3>2 DEF TaskRecords
      <3> HIDE DEF ended, on, again
      <3>4. PICK v : /\ tasks' = [tasks EXCEPT ![i] = v] /\ v.batch = t.batch
                     /\ v.pc = "done" \/ k \in v.polling
        BY <3>3, <3>31
      <3>5. n \in DOMAIN tasks /\ u = IF n = i THEN v ELSE tasks[n]
        BY <1>2, <3>4
      <3>6. u.batch = tasks[n].batch
        BY <3>1, <3>4, <3>5
      <3>7. n = i
        BY <2>3, <3>5, <3>6 DEF Batched
      <3> QED
        BY <1>2, <3>4, <3>5, <3>7
    <2> QED
      BY <1>1, <2>1, <2>2, <2>3 DEF Untriggered
  <1>4. CASE \E shift \in {0, 1} : \A i \in DOMAIN tasks' :
                 i + shift \in DOMAIN tasks /\ Later(tasks[i + shift], tasks'[i])
    BY <1>2, <1>3, <1>4
  <1>5. ASSUME ChunkImported, NEW m \in ChunkMaps, tasks' = Append(tasks, NewTask(m)) PROVE Ahead(u, k)
    <2>1. tasks \in Seq(TaskRecords)
      BY DEF Types, MainTypes
    <2>2. CASE n \in DOMAIN tasks
      <3>1. Later(tasks[n], u)
        BY <1>2, <1>5, <2>1, <2>2 DEF Later
      <3> QED
        BY <1>3, <2>2, <3>1
    <2>3. CASE n \notin DOMAIN tasks
      <3>1. u = NewTask(m)
        BY <1>2, <1>5, <2>1, <2>3
      <3>2. u.batch[1] = run /\ u.batch[2] = chunkIdx
        BY <3>1 DEF NewTask, ChunkCode
      <3>3. ~Old(u.batch)
        BY <3>2, BoundAssumption DEF Old, Types, MainTypes
      <3>4. UNCHANGED <<jobs, results>>
        BY <1>5 DEF ChunkImported, bc
      <3> QED
        BY <3>3, <3>4 DEF Batched, RowOf
    <2> QED
      BY <2>2, <2>3
  <1> QED
    BY <1>4, <1>5, TasksFrom

\* A document is of one live task at most, which flips and reads rows of its own
\* batch; what a run imports or has in a task is among what it has attempted.
Owned ==
    /\ \A i \in DOMAIN tasks :
           /\ tasks[i].pc = "flip" \/ tasks[i].flip = {}
           /\ \A d \in tasks[i].flip : Mine(tasks[i], d)
           /\ \A r \in tasks[i].rows : r.batch = tasks[i].batch
    /\ \A i \in DOMAIN tasks : \A d \in Docs : Mine(tasks[i], d) =>
           /\ d \in seen /\ imp[d] = "none"
           /\ \A k \in DOMAIN tasks : Mine(tasks[k], d) => k = i
    /\ \A d \in Docs : imp[d] # "none" => d \in seen

\* What is imported is not posted; what a task has posted it has no row of left.
RowsLeft(t, d) ==
    t.pc = "apply" /\ ~CreatedTwice(d) => \A r \in t.rows : r.ext # Ext[d]

Unposted ==
    /\ \A d \in Docs : imp[d] # "none" => status[d] # "posted"
    /\ \A i \in DOMAIN tasks : \A d \in Docs : Mine(tasks[i], d) /\ status[d] = "posted" =>
           tasks[i].pc \notin {"flip", "trigger", "poll"} /\ RowsLeft(tasks[i], d)

(* What a run attempts it has not attempted, and is validated.                  *)
LEMMA Attempts ==
  ASSUME Types, [Next]_vars
  PROVE  /\ tasks' # <<>> => seen \subseteq seen'
         /\ \A d \in Docs : imp'[d] # "none" =>
                \/ imp[d] # "none" /\ seen' = seen
                \/ d \notin seen /\ d \in seen' /\ status[d] = "validated" /\ status'[d] = "validated"
  <1> DEFINE Goal == /\ tasks' # <<>> => seen \subseteq seen'
                     /\ \A d \in Docs : imp'[d] # "none" =>
                            \/ imp[d] # "none" /\ seen' = seen
                            \/ /\ d \notin seen /\ d \in seen'
                               /\ status[d] = "validated" /\ status'[d] = "validated"
  <1> SUFFICES Goal
    OBVIOUS
  <1>1. /\ imp \in [Docs -> ImpPCs]
        /\ main # "import" => imp = [d \in Docs |-> "none"]
        /\ main = "down" => tasks = <<>>
    BY DEF Types, MainTypes, Idle
  <1> USE DEF memory
  <1>2. ASSUME NEW reprocess \in BOOLEAN, Start(reprocess) PROVE Goal
    BY <1>1, <1>2 DEF Start
  <1>3. CASE FetchChunk
    BY <1>1, <1>3 DEF FetchChunk, Fresh, Page, Validated, staging
  <1>4. ASSUME seen' = seen, imp' = imp \/ imp' = [d \in Docs |-> "none"] PROVE Goal
    BY <1>4
  <1>5. ASSUME seen' = seen, NEW d \in Docs, imp[d] # "none", NEW label, imp' = [imp EXCEPT ![d] = label]
        PROVE  Goal
    BY <1>1, <1>5
  <1> HIDE DEF Goal
  <1>6. CASE ChunkImported \/ Backpressure \/ Join \/ FetchFails \/ Crash
    BY <1>4, <1>6 DEF ChunkImported, Backpressure, Join, Exit, FetchFails, Crash
  <1>7. ASSUME NEW d \in Docs, ImportStep(d) PROVE Goal
    <2>1. imp[d] # "none" /\ seen' = seen
      BY <1>7 DEF ImportStep, Validate, RecordErrors, SetStatus, ImportOne, SetBcDocumentNo, RejectImport,
                  Future, RestOfImport
    <2>2. \E label : imp' = [imp EXCEPT ![d] = label]
      <3>1. ASSUME NEW label, NEW then, RecordErrors(d, label, then) PROVE \E l : imp' = [imp EXCEPT ![d] = l]
        BY <3>1 DEF RecordErrors, NextImp
      <3>2. ASSUME NEW label, NEW new, NEW outcome, SetStatus(d, label, new, outcome)
            PROVE  \E l : imp' = [imp EXCEPT ![d] = l]
        BY <3>2 DEF SetStatus, NextImp
      <3>3. CASE Validate(d) \/ SetBcDocumentNo(d)
        BY <3>3 DEF Validate, SetBcDocumentNo, NextImp
      <3>4. CASE ImportOne(d)
        BY <3>4 DEF ImportOne, NextImp
      <3> QED
        BY <1>7, <3>1, <3>2, <3>3, <3>4 DEF ImportStep, RejectImport
    <2> QED
      BY <1>5, <2>1, <2>2
  <1>8. ASSUME NEW i \in DOMAIN tasks, TaskStep(i) PROVE Goal
    BY <1>4, <1>8 DEF TaskStep, Flip, Flipped, Trigger, Rerun, Poll, ListPostResults, ApplyNext, Reconciled, RestOfTask
  <1>9. ASSUME NEW j \in jobs, JobStep(j) \/ SessionDies(j) PROVE Goal
    BY <1>4, <1>9 DEF JobStep, JobEnds, PostDraft, SessionDies
  <1>10. CASE UNCHANGED vars
    BY <1>4, <1>10 DEF vars
  <1> QED
    BY <1>2, <1>3, <1>6, <1>7, <1>8, <1>9, <1>10 DEF Next, MainStep

(* A task record after a step is the next of one before, by the same map, or it *)
(* is new and the chunk's.                                                      *)
LEMMA TaskFrom ==
  ASSUME Types, [Next]_vars, NEW n \in DOMAIN tasks'
  PROVE  \/ \E m \in DOMAIN tasks : Later(tasks[m], tasks'[n])
         \/ ChunkImported /\ n = Len(tasks) + 1 /\ \E m \in ChunkMaps : tasks'[n] = NewTask(m)
  <1>1. tasks \in Seq(TaskRecords)
    BY DEF Types, MainTypes
  <1>2. ASSUME ChunkImported, NEW m \in ChunkMaps, tasks' = Append(tasks, NewTask(m))
        PROVE  \/ \E k \in DOMAIN tasks : Later(tasks[k], tasks'[n])
               \/ n = Len(tasks) + 1 /\ tasks'[n] = NewTask(m)
    <2>1. CASE n \in DOMAIN tasks
      <3>1. tasks'[n] = tasks[n]
        BY <1>1, <1>2, <2>1
      <3> QED
        BY <2>1, <3>1 DEF Later
    <2>2. CASE n \notin DOMAIN tasks
      BY <1>1, <1>2, <2>2
    <2> QED
      BY <2>1, <2>2
  <1> QED
    BY <1>2, TasksFrom

(* A document comes to one task, from one chunk.                                *)
LEMMA OwnedNext ==
  ASSUME Types, Owned, [Next]_vars
  PROVE  Owned'
  <1>1. tasks \in Seq(TaskRecords) /\ tasks' \in Seq(TaskRecords)
    BY TypesNext DEF Types, MainTypes
  <1>2. ASSUME NEW d \in Docs, imp'[d] # "none" PROVE d \in seen'
    BY <1>2, Attempts DEF Owned
  <1>3. ASSUME NEW m \in ChunkMaps, NEW d, Mine(NewTask(m), d) PROVE d \in Imported
    BY <1>3 DEF Mine, NewTask, ChunkMaps
  <1>4. ASSUME NEW m \in ChunkMaps, NEW d \in NewTask(m).flip PROVE Mine(NewTask(m), d)
    BY <1>4 DEF Mine, NewTask, ChunkMaps
  <1>5. ASSUME NEW n \in DOMAIN tasks', NEW u, u = tasks'[n]
        PROVE  /\ u.pc = "flip" \/ u.flip = {}
               /\ \A d \in u.flip : Mine(u, d)
               /\ \A r \in u.rows : r.batch = u.batch
    <2>1. ASSUME NEW m \in DOMAIN tasks, Later(tasks[m], u)
          PROVE  /\ u.pc = "flip" \/ u.flip = {}
                 /\ \A d \in u.flip : Mine(u, d)
                 /\ \A r \in u.rows : r.batch = u.batch
      BY <2>1 DEF Later, Owned, Mine
    <2>2. ASSUME NEW m \in ChunkMaps, u = NewTask(m)
          PROVE  /\ u.pc = "flip" \/ u.flip = {}
                 /\ \A d \in u.flip : Mine(u, d)
                 /\ \A r \in u.rows : r.batch = u.batch
      <3>1. u.pc = "flip" /\ u.rows = {}
        BY <2>2 DEF NewTask
      <3> QED
        BY <1>4, <2>2, <3>1
    <2> QED
      BY <1>5, <2>1, <2>2, TaskFrom
  <1>6. ASSUME NEW n \in DOMAIN tasks', NEW d \in Docs, Mine(tasks'[n], d)
        PROVE  d \in seen' /\ imp'[d] = "none"
    <2>1. ASSUME NEW m \in DOMAIN tasks, Later(tasks[m], tasks'[n]) PROVE d \in seen' /\ imp'[d] = "none"
      <3>1. Mine(tasks[m], d)
        BY <1>6, <2>1 DEF Later, Mine
      <3>2. d \in seen /\ imp[d] = "none" /\ tasks' # <<>>
        BY <1>1, <3>1 DEF Owned
      <3> QED
        BY <3>2, Attempts
    <2>2. ASSUME ChunkImported, NEW m \in ChunkMaps, tasks'[n] = NewTask(m)
          PROVE  d \in seen' /\ imp'[d] = "none"
      <3>1. d \in Imported
        BY <1>3, <1>6, <2>2
      <3> QED
        BY <2>2, <3>1 DEF Imported, Chunk, Owned, ChunkImported
    <2> QED
      BY <2>1, <2>2, TaskFrom
  <1>7. ASSUME NEW n \in DOMAIN tasks', NEW k \in DOMAIN tasks', NEW d \in Docs,
               Mine(tasks'[n], d), Mine(tasks'[k], d)
        PROVE  k = n
    <2>1. ASSUME NEW shift \in {0, 1},
                 \A i \in DOMAIN tasks' : i + shift \in DOMAIN tasks /\ Later(tasks[i + shift], tasks'[i])
          PROVE  k = n
      <3>1. Mine(tasks[n + shift], d) /\ Mine(tasks[k + shift], d)
        BY <1>7, <2>1 DEF Later, Mine
      <3>2. n + shift = k + shift
        BY <2>1, <3>1 DEF Owned
      <3> QED
        BY <1>1, <3>2
    <2>2. ASSUME ChunkImported, NEW m \in ChunkMaps, tasks' = Append(tasks, NewTask(m)) PROVE k = n
      <3>1. ASSUME NEW i \in DOMAIN tasks', Mine(tasks'[i], d)
            PROVE  \/ i \in DOMAIN tasks /\ Mine(tasks[i], d) /\ imp[d] = "none"
                   \/ i = Len(tasks) + 1 /\ imp[d] # "none"
        <4>1. CASE i \in DOMAIN tasks
          <5>1. tasks'[i] = tasks[i]
            BY <1>1, <2>2, <4>1
          <5> QED
            BY <3>1, <4>1, <5>1 DEF Owned
        <4>2. CASE i \notin DOMAIN tasks
          <5>1. i = Len(tasks) + 1 /\ tasks'[i] = NewTask(m)
            BY <1>1, <2>2, <4>2
          <5> QED
            BY <1>3, <3>1, <5>1 DEF Imported, Chunk
        <4> QED
          BY <4>1, <4>2
      <3> QED
        BY <1>7, <3>1 DEF Owned
    <2> QED
      BY <2>1, <2>2, TasksFrom
  <1>8. \A n \in DOMAIN tasks' :
            /\ tasks'[n].pc = "flip" \/ tasks'[n].flip = {}
            /\ \A d \in tasks'[n].flip : Mine(tasks'[n], d)
            /\ \A r \in tasks'[n].rows : r.batch = tasks'[n].batch
    BY <1>5
  <1>9. \A n \in DOMAIN tasks' : \A d \in Docs : Mine(tasks'[n], d) =>
            /\ d \in seen' /\ imp'[d] = "none"
            /\ \A k \in DOMAIN tasks' : Mine(tasks'[k], d) => k = n
    BY <1>6, <1>7
  <1> QED
    BY <1>2, <1>8, <1>9 DEF Owned, Mine

(* A document is posted in staging by its row, in the task that has it; the row *)
(* is gone from the task then, or the task has ended.                           *)
LEMMA RowPosts ==
  ASSUME Types, TrueRows, [Next]_vars, NEW d \in Docs, status'[d] = "posted", status[d] # "posted"
  PROVE  /\ imp' = imp
         /\ \E i \in DOMAIN tasks : \E r \in tasks[i].rows : \E u :
                /\ Mine(tasks[i], d) /\ r.ext = Ext[d] /\ r.success
                /\ \A s \in tasks[i].rows : r.entry <= s.entry
                /\ tasks' = [tasks EXCEPT ![i] = u] /\ u.map = tasks[i].map
                /\ u.pc = "done" \/ (u.pc = "apply" /\ u.rows = tasks[i].rows \ {r})
  <1> DEFINE Same == status'[d] = "posted" => status[d] = "posted"
  <1>1. status \in [Docs -> Statuses]
    BY DEF Types, StagingTypes
  <1>2. ASSUME NEW reprocess \in BOOLEAN, Start(reprocess) PROVE Same
    BY <1>2 DEF Start
  <1>3. ASSUME MainStep \/ FetchFails \/ Crash PROVE Same
    BY <1>3 DEF MainStep, FetchChunk, ChunkImported, Backpressure, Join, Exit, FetchFails, Crash, staging
  <1>4. ASSUME NEW e \in Docs, ImportStep(e) PROVE Same
    BY <1>1, <1>4 DEF ImportStep, Validate, RecordErrors, SetStatus, ImportOne, SetBcDocumentNo, RejectImport,
                      staging
  <1>5. ASSUME NEW i \in DOMAIN tasks, TaskStep(i) PROVE ApplyNext(i)
    BY <1>1, <1>5 DEF TaskStep, Flip, Flipped, Trigger, Rerun, Poll, ListPostResults, Reconciled, staging
  <1>6. ASSUME NEW j \in jobs, JobStep(j) \/ SessionDies(j) PROVE Same
    BY <1>6 DEF JobStep, JobEnds, PostDraft, SessionDies, staging
  <1>7. ASSUME UNCHANGED vars PROVE Same
    BY <1>7 DEF vars, staging
  <1>8. PICK i \in DOMAIN tasks : ApplyNext(i)
    BY <1>2, <1>3, <1>4, <1>5, <1>6, <1>7 DEF Next
  <1>9. PICK t : t = tasks[i]
    OBVIOUS
  <1>10. t \in TaskRecords
    BY <1>9 DEF Types, MainTypes
  <1>11. PICK r \in t.rows : ApplyRow(i, r) /\ \A s \in t.rows : r.entry <= s.entry
    BY <1>8, <1>9 DEF ApplyNext
  <1>12. imp' = imp
    BY <1>8 DEF ApplyNext, RestOfTask
  <1>13. r.ext \in DOMAIN t.map /\ Applied(t.map[r.ext], r)
    BY <1>9, <1>11 DEF ApplyRow
  <1>14. t.map[r.ext] = d /\ r.success
    BY <1>1, <1>13 DEF Applied, Posts
  <1>15. r.ext = Ext[d]
    BY <1>9, <1>13, <1>14 DEF TrueRows
  <1>16. Mine(t, d)
    BY <1>13, <1>14, <1>15 DEF Mine
  <1> DEFINE ended == [t EXCEPT !.pc = "done"]
             on == [t EXCEPT !.rows = @ \ {r}]
  <1>17. /\ ended.map = t.map /\ ended.pc = "done"
         /\ on.map = t.map /\ on.pc = "apply" /\ on.rows = t.rows \ {r}
    BY <1>8, <1>9, <1>10 DEF TaskRecords, ApplyNext, Task
  <1>18. tasks' = [tasks EXCEPT ![i] = ended] \/ tasks' = [tasks EXCEPT ![i] = on]
    BY <1>9, <1>11, <1>13 DEF ApplyRow, RowApplied, Abort
  <1> HIDE DEF ended, on
  <1> QED
    BY <1>9, <1>11, <1>12, <1>14, <1>15, <1>16, <1>17, <1>18

(* A posted document is not imported again, and its task has no row of it left. *)
LEMMA UnpostedNext ==
  ASSUME Types, Identified, TrueRows, SuccessLast, Owned, Unposted, [Next]_vars
  PROVE  Unposted'
  <1>1. \A d : CreatedTwice(d) => CreatedTwice(d)'
    BY DraftsStay
  <1>2. ASSUME NEW d \in Docs, imp'[d] # "none", status'[d] = "posted" PROVE FALSE
    <2>1. CASE status[d] = "posted"
      BY <1>2, <2>1, Attempts DEF Unposted
    <2>2. CASE status[d] # "posted"
      BY <1>2, <2>2, RowPosts DEF Owned
    <2> QED
      BY <2>1, <2>2
  <1>3. ASSUME NEW n \in DOMAIN tasks', NEW u, u = tasks'[n], NEW d \in Docs, Mine(u, d), status'[d] = "posted"
        PROVE  /\ u.pc \notin {"flip", "trigger", "poll"}
               /\ u.pc = "apply" /\ ~CreatedTwice(d) => \A r \in u.rows : r.ext # Ext[d]
    <2>1. ASSUME ChunkImported, NEW m \in ChunkMaps, u = NewTask(m) PROVE FALSE
      <3>1. d \in Imported
        BY <1>3, <2>1 DEF Mine, NewTask, ChunkMaps
      <3>2. UNCHANGED status
        BY <2>1 DEF ChunkImported, staging
      <3> QED
        BY <1>3, <3>1, <3>2 DEF Imported, Chunk, Unposted
    <2>2. ASSUME status[d] = "posted", NEW m \in DOMAIN tasks, Later(tasks[m], u)
          PROVE  /\ u.pc \notin {"flip", "trigger", "poll"}
                 /\ u.pc = "apply" /\ ~CreatedTwice(d) => \A r \in u.rows : r.ext # Ext[d]
      <3>1. Mine(tasks[m], d)
        BY <1>3, <2>2 DEF Later, Mine
      <3>2. tasks[m].pc \notin {"flip", "trigger", "poll"} /\ RowsLeft(tasks[m], d)
        BY <2>2, <3>1 DEF Unposted
      <3> QED
        BY <2>2, <3>2 DEF Later, RowsLeft
    <2>3. ASSUME status[d] # "posted"
          PROVE  /\ u.pc \notin {"flip", "trigger", "poll"}
                 /\ u.pc = "apply" /\ ~CreatedTwice(d) => \A r \in u.rows : r.ext # Ext[d]
      <3>1. PICK i \in DOMAIN tasks : \E r \in tasks[i].rows : \E v :
                /\ Mine(tasks[i], d) /\ r.ext = Ext[d] /\ r.success
                /\ \A s \in tasks[i].rows : r.entry <= s.entry
                /\ tasks' = [tasks EXCEPT ![i] = v] /\ v.map = tasks[i].map
                /\ v.pc = "done" \/ (v.pc = "apply" /\ v.rows = tasks[i].rows \ {r})
        BY <1>3, <2>3, RowPosts
      <3>2. PICK r \in tasks[i].rows : \E v :
                /\ Mine(tasks[i], d) /\ r.ext = Ext[d] /\ r.success
                /\ \A s \in tasks[i].rows : r.entry <= s.entry
                /\ tasks' = [tasks EXCEPT ![i] = v] /\ v.map = tasks[i].map
                /\ v.pc = "done" \/ (v.pc = "apply" /\ v.rows = tasks[i].rows \ {r})
        BY <3>1
      <3>3. PICK v :
                /\ Mine(tasks[i], d) /\ r.ext = Ext[d] /\ r.success
                /\ \A s \in tasks[i].rows : r.entry <= s.entry
                /\ tasks' = [tasks EXCEPT ![i] = v] /\ v.map = tasks[i].map
                /\ v.pc = "done" \/ (v.pc = "apply" /\ v.rows = tasks[i].rows \ {r})
        BY <3>2
      <3>4. n \in DOMAIN tasks /\ u = IF n = i THEN v ELSE tasks[n]
        BY <1>3, <3>3
      <3>5. Mine(tasks[n], d)
        BY <1>3, <3>3, <3>4 DEF Mine
      <3>6. n = i /\ u = v
        BY <3>3, <3>4, <3>5 DEF Owned
      <3>7. ASSUME NEW s \in tasks[i].rows, s.ext = Ext[d], ~CreatedTwice(d) PROVE s = r
        <4>1. s \in results /\ r \in results /\ s.batch = r.batch
          BY DEF TrueRows, Owned
        <4>2. s = r \/ s.entry < r.entry
          BY <3>3, <3>7, <4>1 DEF SuccessLast, RowOf
        <4>3. s.entry \in Nat /\ r.entry \in Nat
          BY <4>1 DEF Types, BcTypes, Rows
        <4> QED
          BY <3>3, <4>2, <4>3
      <3> QED
        BY <3>3, <3>6, <3>7
    <2> QED
      BY <1>3, <2>1, <2>2, <2>3, TaskFrom
  <1>4. \A n \in DOMAIN tasks' : \A d \in Docs : Mine(tasks'[n], d) /\ status'[d] = "posted" =>
            /\ tasks'[n].pc \notin {"flip", "trigger", "poll"}
            /\ tasks'[n].pc = "apply" /\ ~CreatedTwice(d)' => \A r \in tasks'[n].rows : r.ext # Ext[d]
    BY <1>1, <1>3
  <1> QED
    BY <1>2, <1>4 DEF Unposted, RowsLeft, Mine

(* No step takes back a posted document, except one with two drafts in a batch. *)
LEMMA PostedStep ==
  ASSUME Types, TrueRows, Owned, Unposted, [Next]_vars, NEW d \in Docs, status[d] = "posted", ~CreatedTwice(d)
  PROVE  status'[d] = "posted"
  <1> DEFINE Same == status'[d] = status[d]
  <1>1. status \in [Docs -> Statuses]
    BY DEF Types, StagingTypes
  <1>2. ASSUME NEW reprocess \in BOOLEAN, Start(reprocess) PROVE Same
    BY <1>1, <1>2 DEF Start, Requeueable
  <1>3. CASE MainStep \/ FetchFails \/ Crash
    BY <1>3 DEF MainStep, FetchChunk, ChunkImported, Backpressure, Join, Exit, FetchFails, Crash, staging
  <1>4. ASSUME NEW e \in Docs, ImportStep(e) PROVE Same
    <2>1. imp[e] # "none"
      BY <1>4 DEF ImportStep, Validate, RecordErrors, SetStatus, ImportOne, SetBcDocumentNo, RejectImport, Future
    <2>2. e # d
      BY <2>1 DEF Unposted
    <2> QED
      BY <1>1, <1>4, <2>2 DEF ImportStep, Validate, RecordErrors, SetStatus, ImportOne, SetBcDocumentNo,
                              RejectImport, staging
  <1>5. ASSUME NEW i \in DOMAIN tasks, TaskStep(i) PROVE Same
    <2>1. PICK t : t = tasks[i]
      OBVIOUS
    <2>2. ASSUME NEW e \in Docs, Flip(i, e) PROVE e # d
      <3>1. t.pc = "flip" /\ Mine(t, e)
        BY <2>1, <2>2 DEF Flip, Task, Owned
      <3> QED
        BY <2>1, <3>1 DEF Unposted
    <2>3. CASE ApplyNext(i)
      <3>1. PICK r \in t.rows : ApplyRow(i, r)
        BY <2>1, <2>3 DEF ApplyNext
      <3>2. t.pc = "apply"
        BY <2>1, <2>3 DEF ApplyNext, Task
      <3>3. UNCHANGED status \/ (r.ext \in DOMAIN t.map /\ Applied(t.map[r.ext], r))
        BY <2>1, <3>1 DEF ApplyRow
      <3>4. ASSUME r.ext \in DOMAIN t.map, t.map[r.ext] = d PROVE FALSE
        <4>1. r.ext = Ext[d]
          BY <2>1, <3>4 DEF TrueRows
        <4>2. Mine(t, d)
          BY <3>4, <4>1 DEF Mine
        <4> QED
          BY <2>1, <3>2, <4>1, <4>2 DEF Unposted, RowsLeft
      <3> QED
        BY <1>1, <3>3, <3>4 DEF Applied
    <2>4. ASSUME NEW e \in Docs, Flip(i, e) PROVE Same
      BY <1>1, <2>2, <2>4 DEF Flip
    <2> QED
      BY <1>5, <2>3, <2>4 DEF TaskStep, Flipped, Trigger, Rerun, Poll, ListPostResults, Reconciled, staging
  <1>6. ASSUME NEW j \in jobs, JobStep(j) \/ SessionDies(j) PROVE Same
    BY <1>6 DEF JobStep, JobEnds, PostDraft, SessionDies, staging
  <1>7. CASE UNCHANGED vars
    BY <1>7 DEF vars, staging
  <1> QED
    BY <1>2, <1>3, <1>4, <1>5, <1>6, <1>7 DEF Next

(* What is posted stays posted in staging, whatever is requeued, reported late  *)
(* or run again; the exception is a document one import has created twice       *)
(* (main.rs:93-104, reconcile.rs:60-96).                                        *)
THEOREM PostedStaysPosted == ASSUME NumbersDistinct PROVE Spec => PostedIsFinal
  <1> DEFINE Inv == /\ Types /\ Identified /\ TrueRows /\ Batched /\ JobsApart /\ SuccessLast /\ TriggersAhead
                    /\ Owned /\ Unposted
             Stays == \A d \in Docs : status[d] = "posted" /\ ~CreatedTwice(d) => status'[d] = "posted"
  <1>1. Init => Inv
    <2> SUFFICES ASSUME Init PROVE Inv
      OBVIOUS
    <2>1. \A d \in Docs : DraftsOf(d) = {}
      BY DEF Init, DraftsOf
    <2>2. Identified
      BY <2>1, FS_EmptySet DEF Init, Identified
    <2>3. TrueRows /\ Batched /\ JobsApart /\ SuccessLast /\ TriggersAhead /\ Owned /\ Unposted
      BY DEF Init, TrueRows, Batched, JobsApart, SuccessLast, TriggersAhead, Owned, Unposted
    <2> QED
      BY <2>2, <2>3, TypesInit
  <1>2. NumbersDistinct
    OBVIOUS
  <1>3. Inv /\ [Next]_vars => Inv'
    BY <1>2, TypesNext, IdentifiedNext, TrueRowsNext, BatchedNext, JobsApartNext, SuccessLastNext, TriggersAheadNext,
       OwnedNext, UnpostedNext
  <1>4. Inv /\ [Next]_vars => Stays
    BY PostedStep
  <1> HIDE DEF Inv
  <1>5. Spec => [][Stays]_vars
    BY <1>1, <1>3, <1>4, PTL DEF Spec
  <1> QED
    BY <1>5 DEF PostedIsFinal

-------------------------------------------------------------------------------
(* No invoice is posted twice                                                   *)

\* What the theorem assumes: no two numbers alike, no write of staging that fails
\* and no answer that is lost, neither staging's nor BC's, so that no `run` of a job
\* is sent again.  Crashes, sessions that die, slow jobs and headers that are sent
\* again may happen.
AnswersArrive == Stuck = {} /\ Faults \subseteq {"crash", "session", "slow", "retry"}
Careful == NumbersDistinct /\ AnswersArrive

\* A document that gets its batch code last: a sales or purchase invoice.
Tagged(d) == Kind[d] \notin InlineKinds

\* A draft that a job may still post: one has it to do, its task has still to
\* trigger one, or its chunk is being imported.
Live(x) ==
    /\ x.batch # NoBatch
    /\ \/ \E j \in jobs : x.id \in j.todo
       \/ \E i \in DOMAIN tasks : /\ tasks[i].batch = x.batch /\ Kind[x.doc] \in tasks[i].kinds
                                  /\ tasks[i].pc \in {"flip", "trigger"}
       \/ main = "import" /\ x.batch = ChunkCode
Armed(x) == Tagged(x.doc) /\ (x.posted \/ Live(x))

\* The drafts of a batch are there before its jobs are.
DraftsBatched ==
    /\ \A x \in drafts : x.batch # NoBatch =>
           Old(x.batch) \/ (x.batch = ChunkCode /\ main \in {"import", "down"})
    /\ \A x \in drafts : x.posted => Old(x.batch)
    /\ \A j \in jobs : \A x \in drafts : x.id \in j.todo => ~x.posted

InFlight == {"validate", "errors", "invalid", "import", "number", "imported", "reject", "failed"}
StillValidated == \A d \in Docs : imp[d] \in InFlight => status[d] = "validated"

\* One draft of such a document at most is posted or may be; none, while it may be
\* imported again; those there are, of the chunk or task that has it.
OneArmed == \A x, y \in drafts : x.doc = y.doc /\ Armed(x) /\ Armed(y) => x = y
Retryable ==
    \A d \in Docs : status[d] \in {"validated", "invalid", "failed"} /\ imp[d] \notin {"number", "imported"} =>
        \A x \in DraftsOf(d) : ~Armed(x)
ChunkArmed ==
    \A d \in Docs : imp[d] \in {"number", "imported", "yes"} =>
        \A x \in DraftsOf(d) : Armed(x) => x.batch = ChunkCode
TaskArmed ==
    \A i \in DOMAIN tasks : \A d \in Docs : Mine(tasks[i], d) =>
        \A x \in DraftsOf(d) : Armed(x) => x.batch = tasks[i].batch

\* No task calls `run` again for a kind that it has triggered already.
NoneRepeated == \A i \in DOMAIN tasks : Repeating(tasks[i]) = {}

\* What BC has reported as failed it does not post any more.
RowsDead ==
    \A r \in results : ~r.success =>
        \A x \in drafts : x.batch = r.batch /\ Ext[x.doc] = r.ext => ~Armed(x)

Known == Types /\ Identified /\ TrueRows /\ Batched /\ JobsApart /\ TriggersAhead /\ Owned
OncePosted == /\ DraftsBatched /\ StillValidated
              /\ OneArmed /\ Retryable /\ ChunkArmed /\ TaskArmed /\ NoneRepeated /\ RowsDead

(* No fault that is left out happens; every row of staging can be written.      *)
LEMMA NoLostAnswer ==
  ASSUME AnswersArrive
  PROVE  /\ ~Fault("reply") /\ ~Fault("staging")
         /\ \A d : ~WriteLost(d) /\ ~WriteFails(d)
  BY DEF AnswersArrive, Fault, WriteLost, WriteFails

(* Of the drafts that the import of a document leaves one at most has the batch *)
(* code, and only if the import is complete.                                    *)
LEMMA TaggedWhole ==
  ASSUME NEW ok \in BOOLEAN, NEW left \in Leftovers("tagged", ok), "reply" \notin left.faults
  PROVE  /\ left.drafts \in Seq(NewDrafts)
         /\ \A m \in DOMAIN left.drafts : left.drafts[m].coded => ok /\ m = Len(left.drafts)
  <1>0. left.drafts \in Seq(NewDrafts)
    BY LeftoversType
  <1>1. PICK l \in (IF ok THEN {Left(<<Whole>>, {})} ELSE Rejected("tagged")) :
            left = l \/ left = Left(<<Bare("tagged")>> \o l.drafts, l.faults \union {"retry"})
    BY DEF Leftovers
  <1>2. ~Bare("tagged").coded /\ ~Partial("tagged").coded /\ Bare("tagged") \in NewDrafts
    BY DEF Bare, Partial, Draft, NewDrafts
  <1>3. "reply" \notin l.faults
    BY <1>1 DEF Left
  <1>4. l.drafts \in Seq(NewDrafts)
    <2>1. l \in Leftovers("tagged", ok)
      BY <1>1 DEF Leftovers
    <2> QED
      BY <2>1, LeftoversType
  <1>5. \A m \in DOMAIN l.drafts : l.drafts[m].coded => ok /\ m = Len(l.drafts)
    <2>1. CASE ok
      <3>1. l.drafts = <<Whole>>
        BY <1>1, <2>1 DEF Left
      <3> QED
        BY <2>1, <3>1
    <2>2. CASE ~ok
      <3>1. l.drafts \in {<<>>, <<Bare("tagged")>>, <<Partial("tagged")>>}
        BY <1>1, <1>3, <2>2 DEF Rejected, Left
      <3> QED
        BY <1>2, <3>1
    <2> QED
      BY <2>1, <2>2
  <1>6. CASE left = l
    BY <1>0, <1>5, <1>6
  <1>7. CASE left = Left(<<Bare("tagged")>> \o l.drafts, l.faults \union {"retry"})
    <2> DEFINE both == <<Bare("tagged")>> \o l.drafts
    <2>1. left.drafts = both
      BY <1>7 DEF Left
    <2>2. /\ Len(both) = Len(l.drafts) + 1 /\ both[1] = Bare("tagged")
          /\ \A m \in DOMAIN both : m # 1 => m - 1 \in DOMAIN l.drafts /\ both[m] = l.drafts[m - 1]
      BY <1>2, <1>4
    <2> HIDE DEF both
    <2>3. ASSUME NEW m \in DOMAIN both, both[m].coded PROVE ok /\ m = Len(both)
      <3>1. m # 1
        BY <1>2, <2>2, <2>3
      <3>2. m - 1 \in DOMAIN l.drafts /\ l.drafts[m - 1].coded
        BY <2>2, <2>3, <3>1
      <3>3. ok /\ m - 1 = Len(l.drafts)
        BY <1>5, <3>2
      <3>4. m \in Nat
        BY <1>0, <2>1, <2>3
      <3> QED
        BY <1>4, <2>2, <3>3, <3>4
    <2> QED
      BY <1>0, <2>1, <2>3
  <1> QED
    BY <1>1, <1>6, <1>7

(* An import leaves at most one new draft with the code of the chunk's batch,   *)
(* and then it has succeeded.                                                   *)
LEMMA TaggedImport ==
  ASSUME Careful, Types, NEW d \in Docs, Tagged(d), ImportOne(d)
  PROVE  \E new : /\ drafts' = drafts \union new
                  /\ \A x \in new : /\ x.doc = d /\ ~x.posted
                                    /\ x.batch # NoBatch => x.batch = ChunkCode /\ imp'[d] = "number"
                  /\ \A x, y \in new : x.batch # NoBatch /\ y.batch # NoBatch => x = y
  <1>1. Way(d) = "tagged"
    BY KindAssumption DEF Way, Tagged
  <1>2. PICK ok \in BOOLEAN : \E left \in Leftovers(Way(d), ok) :
            /\ left.faults \subseteq Faults
            /\ drafts' = drafts \union Drafted(d, left.drafts)
            /\ NextImp(d, IF ok THEN "number" ELSE "reject")
    BY DEF ImportOne
  <1>3. PICK left \in Leftovers("tagged", ok) :
            /\ left.faults \subseteq Faults
            /\ drafts' = drafts \union Drafted(d, left.drafts)
            /\ NextImp(d, IF ok THEN "number" ELSE "reject")
    BY <1>1, <1>2
  <1>4. "reply" \notin left.faults
    BY <1>3 DEF Careful, AnswersArrive
  <1>5. \A m \in DOMAIN left.drafts : left.drafts[m].coded => ok /\ m = Len(left.drafts)
    BY <1>4, TaggedWhole
  <1>6. ok => imp'[d] = "number"
    BY <1>3 DEF NextImp, Types, MainTypes
  <1>7. \A x \in Drafted(d, left.drafts) : \E m \in DOMAIN left.drafts :
            /\ x.doc = d /\ ~x.posted
            /\ x.batch = (IF left.drafts[m].coded THEN ChunkCode ELSE NoBatch)
            /\ x = [id |-> <<d, Cardinality(DraftsOf(d)) + m>>, doc |-> d, posted |-> FALSE,
                    batch |-> IF left.drafts[m].coded THEN ChunkCode ELSE NoBatch,
                    postable |-> left.drafts[m].postable]
    BY DEF Drafted
  <1>8. \A x \in Drafted(d, left.drafts) : x.batch # NoBatch => x.batch = ChunkCode /\ imp'[d] = "number"
    BY <1>5, <1>6, <1>7
  <1>9. ASSUME NEW x \in Drafted(d, left.drafts), NEW y \in Drafted(d, left.drafts),
               x.batch # NoBatch, y.batch # NoBatch
        PROVE  x = y
    <2> DEFINE Made(m) == [id |-> <<d, Cardinality(DraftsOf(d)) + m>>, doc |-> d, posted |-> FALSE,
                           batch |-> IF left.drafts[m].coded THEN ChunkCode ELSE NoBatch,
                           postable |-> left.drafts[m].postable]
    <2>1. PICK m \in DOMAIN left.drafts :
              x.batch = (IF left.drafts[m].coded THEN ChunkCode ELSE NoBatch) /\ x = Made(m)
      BY <1>7
    <2>2. PICK n \in DOMAIN left.drafts :
              y.batch = (IF left.drafts[n].coded THEN ChunkCode ELSE NoBatch) /\ y = Made(n)
      BY <1>7
    <2> HIDE DEF Made
    <2>3. m = n
      BY <1>5, <1>9, <2>1, <2>2
    <2> QED
      BY <2>1, <2>2, <2>3
  <1> QED
    BY <1>3, <1>7, <1>8, <1>9

(* A chunk is imported from the moment it is fetched, under one batch code.     *)
LEMMA ImportMain ==
  ASSUME Types, [Next]_vars, main' = "import"
  PROVE  /\ main \in {"fetch", "import"} /\ ChunkCode' = ChunkCode
         /\ main = "fetch" => FetchChunk
  <1> DEFINE Goal == /\ main \in {"fetch", "import"} /\ ChunkCode' = ChunkCode
                     /\ main = "fetch" => FetchChunk
  <1> SUFFICES Goal
    OBVIOUS
  <1>1. ASSUME main = "import", UNCHANGED <<run, chunkIdx>> PROVE Goal
    BY <1>1 DEF ChunkCode
  <1>2. ASSUME NEW reprocess \in BOOLEAN, Start(reprocess) PROVE FALSE
    BY <1>2 DEF Start
  <1>3. CASE FetchChunk
    BY <1>3 DEF FetchChunk, ChunkCode
  <1>4. CASE ChunkImported \/ Backpressure \/ Join \/ FetchFails \/ Crash
    BY <1>1, <1>4 DEF ChunkImported, Backpressure, Join, Exit, FetchFails, Crash
  <1>5. ASSUME NEW d \in Docs, ImportStep(d) PROVE Goal
    BY <1>1, <1>5 DEF ImportStep, Validate, RecordErrors, SetStatus, ImportOne, SetBcDocumentNo, RejectImport,
                      RestOfImport
  <1>6. ASSUME NEW i \in DOMAIN tasks, TaskStep(i) PROVE UNCHANGED <<main, run, chunkIdx>>
    BY <1>6 DEF TaskStep, Flip, Flipped, Trigger, Rerun, Poll, ListPostResults, ApplyNext, Reconciled, RestOfTask
  <1>7. ASSUME NEW j \in jobs, JobStep(j) \/ SessionDies(j) PROVE UNCHANGED <<main, run, chunkIdx>>
    BY <1>7 DEF JobStep, JobEnds, PostDraft, SessionDies, memory
  <1>8. CASE UNCHANGED vars
    BY <1>1, <1>8 DEF vars, memory
  <1> QED
    BY <1>1, <1>2, <1>3, <1>4, <1>5, <1>6, <1>7, <1>8 DEF Next, MainStep

\* The session of a job has posted x, and has it no more to do.
Posting(j, x) ==
    /\ x \in drafts /\ x.id \in j.todo
    /\ jobs' = jobs \ {j} \/ jobs' = WithoutDraft(j, x)

(* A draft after a step was there before, and a job had it if it has just been  *)
(* posted; or it is new, of an import or of a process that has died in one.     *)
LEMMA DraftFrom ==
  ASSUME Types, [Next]_vars, NEW y \in drafts'
  PROVE  \/ \E x \in drafts : /\ x.id = y.id /\ x.doc = y.doc /\ x.batch = y.batch
                              /\ y.posted => x.posted \/ \E j \in jobs : Posting(j, x)
         \/ /\ y \notin drafts /\ ~y.posted /\ y.batch \in {NoBatch, ChunkCode}
            /\ Crash \/ \E d \in Docs : ImportOne(d) /\ y.doc = d
  <1> DEFINE Goal == \/ \E x \in drafts : /\ x.id = y.id /\ x.doc = y.doc /\ x.batch = y.batch
                                          /\ y.posted => x.posted \/ \E j \in jobs : Posting(j, x)
                     \/ /\ y \notin drafts /\ ~y.posted /\ y.batch \in {NoBatch, ChunkCode}
                        /\ Crash \/ \E d \in Docs : ImportOne(d) /\ y.doc = d
  <1> SUFFICES Goal
    OBVIOUS
  <1> USE DEF bc
  <1>1. CASE y \in drafts
    BY <1>1
  <1>2. \A d : \A new : \A x \in Drafted(d, new) : ~x.posted /\ x.doc = d /\ x.batch \in {NoBatch, ChunkCode}
    BY DEF Drafted
  <1>3. ASSUME NEW j \in jobs, NEW x \in drafts, Posting(j, x),
               drafts' = (drafts \ {x}) \union {[x EXCEPT !.posted = TRUE]}
        PROVE  Goal
    <2>1. y \in drafts \/ y = [x EXCEPT !.posted = TRUE]
      BY <1>3
    <2>2. LET z == [x EXCEPT !.posted = TRUE] IN z.id = x.id /\ z.doc = x.doc /\ z.batch = x.batch
      BY DEF Types, BcTypes, IsDraft
    <2> QED
      BY <1>3, <2>1, <2>2
  <1> HIDE DEF Goal
  <1>4. ASSUME NEW reprocess \in BOOLEAN, Start(reprocess) PROVE Goal
    BY <1>1, <1>4 DEF Start
  <1>5. CASE FetchChunk \/ ChunkImported \/ Backpressure \/ Join \/ FetchFails
    BY <1>1, <1>5 DEF FetchChunk, ChunkImported, Backpressure, Join, Exit, FetchFails
  <1>6. CASE Crash
    <2>1. CASE y \notin drafts
      <3>1. \E cut : y \in UNION {Drafted(d, cut[d]) : d \in Importing}
        BY <1>6, <2>1 DEF Crash
      <3>2. ~y.posted /\ y.batch \in {NoBatch, ChunkCode}
        BY <1>2, <3>1
      <3> QED
        BY <1>6, <2>1, <3>2 DEF Goal
    <2> QED
      BY <1>1, <2>1
  <1>7. ASSUME NEW d \in Docs, ImportStep(d) PROVE Goal
    <2>1. CASE ImportOne(d) /\ y \notin drafts
      <3>1. \E new : y \in Drafted(d, new)
        BY <2>1 DEF ImportOne
      <3> QED
        BY <1>2, <2>1, <3>1 DEF Goal
    <2>2. CASE ~ImportOne(d)
      BY <1>1, <1>7, <2>2 DEF ImportStep, Validate, RecordErrors, SetStatus, SetBcDocumentNo, RejectImport
    <2> QED
      BY <1>1, <2>1, <2>2
  <1>8. ASSUME NEW i \in DOMAIN tasks, TaskStep(i) PROVE Goal
    BY <1>1, <1>8 DEF TaskStep, Flip, Flipped, Trigger, Rerun, Poll, ListPostResults, ApplyNext, Reconciled
  <1>9. ASSUME NEW j \in jobs, JobStep(j) \/ SessionDies(j) PROVE Goal
    <2>1. CASE JobEnds(j)
      BY <1>1, <2>1 DEF JobEnds
    <2>2. CASE SessionDies(j)
      BY <1>1, <1>3, <2>2 DEF SessionDies, Posting
    <2>3. ASSUME NEW x \in drafts, PostDraft(j, x) PROVE Goal
      BY <1>1, <1>3, <2>3 DEF PostDraft, Posting
    <2> QED
      BY <1>9, <2>1, <2>2, <2>3 DEF JobStep
  <1>10. CASE UNCHANGED vars
    BY <1>1, <1>10 DEF vars
  <1> QED
    BY <1>4, <1>5, <1>6, <1>7, <1>8, <1>9, <1>10 DEF Next, MainStep

(* What a job has to do is of a batch, and of an earlier chunk.                 *)
LEMMA ToDo ==
  ASSUME Identified, Batched, JobsApart, NEW j \in jobs, NEW x \in drafts, x.id \in j.todo
  PROVE  x.batch = j.batch /\ Kind[x.doc] = j.kind /\ x.batch # NoBatch /\ Old(x.batch)
  <1>1. PICK z \in drafts : z.id = x.id /\ z.batch = j.batch /\ Kind[z.doc] = j.kind
    BY DEF JobsApart
  <1>2. z = x
    BY <1>1 DEF Identified
  <1> QED
    BY <1>1, <1>2 DEF Batched

(* A draft that may be posted after a step could be before it, or the import    *)
(* that has just succeeded has left it.                                         *)
LEMMA ArmedFrom ==
  ASSUME Careful, Known, DraftsBatched, [Next]_vars, NEW y \in drafts', Armed(y)'
  PROVE  \/ \E x \in drafts : x.id = y.id /\ x.doc = y.doc /\ x.batch = y.batch /\ Armed(x)
         \/ /\ y \notin drafts /\ y.batch = ChunkCode
            /\ \E d \in Docs : ImportOne(d) /\ y.doc = d /\ imp'[d] = "number"
  <1> USE DEF Known
  <1>0. Identified' /\ run \in Nat /\ chunkIdx \in Nat
    BY IdentifiedNext, BoundAssumption DEF Types, MainTypes
  <1>1. ASSUME NEW x \in drafts, x.id = y.id, x.doc = y.doc, x.batch = y.batch,
               y.posted => x.posted \/ \E j \in jobs : Posting(j, x)
        PROVE  Armed(x)
    <2>0. Tagged(x.doc)
      BY <1>1 DEF Armed, Tagged
    <2>1. CASE y.posted
      BY <1>1, <2>1, ToDo DEF Armed, Live, Posting
    <2>2. CASE y.batch # NoBatch /\ \E k \in jobs' : y.id \in k.todo
      <3>1. PICK k \in jobs' : y.id \in k.todo
        BY <2>2
      <3>2. CASE \E j \in jobs : k.batch = j.batch /\ k.kind = j.kind /\ k.todo \subseteq j.todo
        BY <1>1, <2>2, <3>1, <3>2 DEF Armed, Live
      <3>3. ASSUME NEW i \in DOMAIN tasks, NEW kind \in Kinds, Trigger(i, kind) \/ Rerun(i, kind),
                   k = [batch |-> tasks[i].batch, kind |-> kind, todo |-> Collected(tasks[i].batch, kind)]
            PROVE  Armed(x)
        <4>1. PICK z \in drafts : z.id = x.id /\ z.batch = tasks[i].batch /\ Kind[z.doc] = kind
          BY <1>1, <3>1, <3>3 DEF Collected
        <4>2. z = x
          BY <4>1 DEF Identified
        <4>3. tasks[i].pc = "trigger" /\ kind \in tasks[i].kinds
          BY <3>3 DEF Trigger, Rerun, Repeating, Task
        <4> QED
          BY <1>1, <2>2, <4>1, <4>2, <4>3 DEF Armed, Live
      <3> QED
        BY <3>2, <3>3, JobsFrom
    <2>3. ASSUME NEW n \in DOMAIN tasks', tasks'[n].batch = y.batch, Kind[y.doc] \in tasks'[n].kinds,
                 tasks'[n].pc \in {"flip", "trigger"}, y.batch # NoBatch
          PROVE  Armed(x)
      <3>1. CASE \E m \in DOMAIN tasks : Later(tasks[m], tasks'[n])
        BY <1>1, <2>3, <3>1 DEF Later, Armed, Live
      <3>2. CASE ChunkImported /\ \E m \in ChunkMaps : tasks'[n] = NewTask(m)
        BY <1>1, <2>3, <3>2 DEF ChunkImported, NewTask, Armed, Live
      <3> QED
        BY <3>1, <3>2, TaskFrom
    <2>4. CASE main' = "import" /\ y.batch = ChunkCode' /\ y.batch # NoBatch
      <3>1. main \in {"fetch", "import"} /\ x.batch = ChunkCode /\ x.batch # NoBatch
        BY <1>1, <2>4, ImportMain
      <3>2. ~Old(ChunkCode)
        BY <1>0 DEF Old, ChunkCode
      <3>3. main = "import"
        BY <3>1, <3>2 DEF DraftsBatched
      <3> QED
        BY <2>0, <3>1, <3>3 DEF Armed, Live
    <2> QED
      BY <2>1, <2>2, <2>3, <2>4 DEF Armed, Live
  <1>2. ASSUME NEW d \in Docs, ImportOne(d), y.doc = d, y \notin drafts, ~y.posted
        PROVE  y.batch = ChunkCode /\ imp'[d] = "number"
    <2>1. Tagged(d) /\ y.batch # NoBatch
      BY <1>2 DEF Armed, Live, Tagged
    <2> QED
      BY <1>2, <2>1, TaggedImport
  <1>3. ASSUME Crash, y \notin drafts, ~y.posted PROVE FALSE
    <2>1. drafts \subseteq drafts' /\ jobs' = jobs /\ tasks' = <<>> /\ main' = "down"
      BY <1>3 DEF Crash, Exit
    <2>2. PICK j \in jobs : y.id \in j.todo
      BY <1>3, <2>1 DEF Armed, Live
    <2>3. PICK z \in drafts : z.id = y.id
      BY <2>2 DEF JobsApart
    <2> QED
      BY <1>0, <1>3, <2>1, <2>3 DEF Identified
  <1> QED
    BY <1>1, <1>2, <1>3, DraftFrom

(* What a step may do to a document: its future goes on, or ends; or it is      *)
(* fetched, requeued, or settled by its post task.                              *)
LEMMA DocMoves ==
  ASSUME Careful, Known, [Next]_vars, NEW d \in Docs
  PROVE  \/ imp'[d] = imp[d] /\ status'[d] = status[d]
         \/ /\ imp'[d] = "none" /\ status'[d] = status[d]
            /\ \/ imp[d] \in {"none", "yes", "no", "err"}
               \/ main' = "down" /\ tasks' = <<>> /\ ChunkCode' = ChunkCode
         \/ imp[d] = "none" /\ imp'[d] = "none" /\ status[d] \in {"invalid", "failed"} /\ status'[d] = "validated"
         \/ imp[d] = "none" /\ imp'[d] = "validate" /\ status[d] = "validated" /\ status'[d] = "validated"
         \/ /\ status'[d] = status[d]
            /\ \/ imp[d] = "validate" /\ imp'[d] \in {"import", "errors"}
               \/ imp[d] = "errors" /\ imp'[d] = "invalid"
               \/ imp[d] = "import" /\ imp'[d] \in {"number", "reject"}
               \/ imp[d] = "reject" /\ imp'[d] = "failed"
               \/ imp[d] = "number" /\ imp'[d] = "imported"
         \/ imp[d] \in {"invalid", "failed"} /\ imp'[d] = "no"
         \/ imp[d] = "imported" /\ imp'[d] = "yes" /\ status'[d] = "imported"
         \/ /\ imp[d] = "none" /\ imp'[d] = "none"
            /\ \E i \in DOMAIN tasks :
                   /\ Mine(tasks[i], d)
                   /\ \/ status'[d] \in {"posting", "posted"}
                      \/ \E r \in tasks[i].rows : ~r.success /\ r.ext = Ext[d]
  <1> DEFINE Goal ==
             \/ imp'[d] = imp[d] /\ status'[d] = status[d]
             \/ /\ imp'[d] = "none" /\ status'[d] = status[d]
                /\ \/ imp[d] \in {"none", "yes", "no", "err"}
                   \/ main' = "down" /\ tasks' = <<>> /\ ChunkCode' = ChunkCode
             \/ imp[d] = "none" /\ imp'[d] = "none" /\ status[d] \in {"invalid", "failed"} /\ status'[d] = "validated"
             \/ imp[d] = "none" /\ imp'[d] = "validate" /\ status[d] = "validated" /\ status'[d] = "validated"
             \/ /\ status'[d] = status[d]
                /\ \/ imp[d] = "validate" /\ imp'[d] \in {"import", "errors"}
                   \/ imp[d] = "errors" /\ imp'[d] = "invalid"
                   \/ imp[d] = "import" /\ imp'[d] \in {"number", "reject"}
                   \/ imp[d] = "reject" /\ imp'[d] = "failed"
                   \/ imp[d] = "number" /\ imp'[d] = "imported"
             \/ imp[d] \in {"invalid", "failed"} /\ imp'[d] = "no"
             \/ imp[d] = "imported" /\ imp'[d] = "yes" /\ status'[d] = "imported"
             \/ /\ imp[d] = "none" /\ imp'[d] = "none"
                /\ \E i \in DOMAIN tasks :
                       /\ Mine(tasks[i], d)
                       /\ \/ status'[d] \in {"posting", "posted"}
                          \/ \E r \in tasks[i].rows : ~r.success /\ r.ext = Ext[d]
  <1> SUFFICES Goal
    OBVIOUS
  <1>0. /\ status \in [Docs -> Statuses] /\ imp \in [Docs -> ImpPCs]
        /\ main # "import" => imp[d] = "none"
    BY DEF Known, Types, StagingTypes, MainTypes, Idle
  <1>1. ~Fault("reply") /\ ~Fault("staging") /\ \A e : ~WriteLost(e) /\ ~WriteFails(e)
    BY NoLostAnswer DEF Careful
  <1>2. CASE imp' = imp /\ status' = status
    BY <1>2
  <1>3. ASSUME NEW reprocess \in BOOLEAN, Start(reprocess) PROVE Goal
    BY <1>0, <1>3 DEF Start, Requeueable
  <1>4. CASE FetchChunk
    BY <1>0, <1>4 DEF FetchChunk, Fresh, Page, Validated, staging
  <1>5. CASE ChunkImported
    BY <1>0, <1>5 DEF ChunkImported, Chunk, staging
  <1>6. ASSUME NEW how, Exit(how) PROVE Goal
    BY <1>6 DEF Exit, staging, ChunkCode
  <1>7. CASE Backpressure \/ Join \/ FetchFails \/ Crash
    BY <1>2, <1>6, <1>7 DEF Backpressure, Join, FetchFails, Crash, staging
  <1>8. ASSUME NEW e \in Docs, ImportStep(e) PROVE Goal
    <2>1. CASE e # d
      BY <1>0, <1>8, <2>1 DEF ImportStep, Validate, RecordErrors, SetStatus, ImportOne, SetBcDocumentNo,
                              RejectImport, NextImp, staging
    <2>2. CASE e = d
      BY <1>0, <1>1, <1>8, <2>2 DEF ImportStep, Validate, RecordErrors, SetStatus, ImportOne, SetBcDocumentNo,
                              RejectImport, NextImp, Future, staging
    <2> QED
      BY <2>1, <2>2
  <1>9. ASSUME NEW i \in DOMAIN tasks, TaskStep(i) PROVE Goal
    <2>1. ASSUME NEW e \in Docs, Flip(i, e) PROVE Goal
      <3>1. CASE e # d
        BY <1>0, <2>1, <3>1 DEF Flip, RestOfTask
      <3>2. CASE e = d
        BY <1>0, <1>1, <2>1, <3>2 DEF Flip, RestOfTask, Known, Owned
      <3> QED
        BY <3>1, <3>2
    <2>2. CASE ApplyNext(i)
      <3>1. PICK r \in tasks[i].rows : ApplyRow(i, r)
        BY <2>2 DEF ApplyNext
      <3>2. imp' = imp
        BY <2>2 DEF ApplyNext, RestOfTask
      <3>3. CASE status' = status
        BY <3>2, <3>3
      <3>4. CASE r.ext \in DOMAIN tasks[i].map /\ Applied(tasks[i].map[r.ext], r)
        <4>1. PICK e \in Docs : e = tasks[i].map[r.ext]
          <5>1. tasks[i] \in TaskRecords
            BY DEF Known, Types, MainTypes
          <5>2. tasks[i].map \in Maps
            BY <5>1 DEF TaskRecords
          <5> QED
            BY <3>4, <5>2 DEF Maps
        <4>2. status' = [status EXCEPT ![e] = IF r.success THEN "posted" ELSE "failed"]
          BY <3>4, <4>1 DEF Applied, Posts
        <4>3. CASE e # d
          BY <1>0, <3>2, <4>2, <4>3
        <4>4. CASE e = d
          <5>1. Ext[d] = r.ext /\ Mine(tasks[i], d)
            BY <3>4, <4>1, <4>4 DEF Known, TrueRows, Mine
          <5>2. imp[d] = "none"
            BY <5>1 DEF Known, Owned
          <5>3. CASE r.success
            <6>1. status'[d] = "posted"
              BY <1>0, <4>2, <4>4, <5>3
            <6> QED
              BY <3>2, <5>1, <5>2, <6>1
          <5>4. CASE ~r.success
            BY <3>2, <5>1, <5>2, <5>4
          <5> QED
            BY <5>3, <5>4
        <4> QED
          BY <4>3, <4>4
      <3> QED
        BY <1>1, <3>1, <3>3, <3>4 DEF ApplyRow
    <2>3. CASE ~\E e \in Docs : Flip(i, e) \/ ApplyNext(i)
      BY <1>2, <1>9, <2>3 DEF TaskStep, Flipped, Trigger, Rerun, Poll, ListPostResults, Reconciled, RestOfTask, staging
    <2> QED
      BY <1>9, <2>1, <2>2, <2>3 DEF TaskStep
  <1>10. ASSUME NEW j \in jobs, JobStep(j) \/ SessionDies(j) PROVE Goal
    BY <1>2, <1>10 DEF JobStep, JobEnds, PostDraft, SessionDies, memory, staging
  <1>11. CASE UNCHANGED vars
    BY <1>2, <1>11 DEF vars, memory, staging
  <1> HIDE DEF Goal
  <1> QED
    BY <1>3, <1>4, <1>5, <1>7, <1>8, <1>9, <1>10, <1>11 DEF Next, MainStep

(* The chunk's code is that of no job and no row, and no code at all.           *)
LEMMA CodeIsNew ==
  ASSUME Known
  PROVE  ~Old(ChunkCode) /\ (main # "down" => ChunkCode # NoBatch)
  BY BoundAssumption DEF Known, Types, MainTypes, Batched, Old, ChunkCode, NoBatch

(* What may be imported, and what is on its way, was validated.                 *)
LEMMA StillValidatedNext ==
  ASSUME Careful, Known, StillValidated, [Next]_vars
  PROVE  StillValidated'
  <1> SUFFICES ASSUME NEW d \in Docs, imp'[d] \in InFlight PROVE status'[d] = "validated"
    BY DEF StillValidated, InFlight
  <1> QED
    BY DocMoves DEF StillValidated, InFlight

(* The code of the chunk that is imported is its code until it is an old one.   *)
LEMMA ChunkPasses ==
  ASSUME Types, [Next]_vars, main \in {"import", "down"}, NEW b, b = ChunkCode
  PROVE  \/ main' \in {"import", "down"} /\ ChunkCode' = b
         \/ Old(b)'
  <1> DEFINE Goal == \/ main' \in {"import", "down"} /\ ChunkCode' = b
                     \/ Old(b)'
  <1> SUFFICES Goal
    OBVIOUS
  <1>1. run \in Nat /\ chunkIdx \in Nat
    BY BoundAssumption DEF Types, MainTypes
  <1>2. ASSUME main' \in {"import", "down"}, UNCHANGED <<run, chunkIdx>> PROVE Goal
    BY <1>2 DEF ChunkCode
  <1>3. ASSUME NEW reprocess \in BOOLEAN, Start(reprocess) PROVE Goal
    <2>1. run' = run + 1 /\ b[1] = run
      BY <1>3 DEF Start, ChunkCode
    <2> QED
      BY <1>1, <2>1 DEF Old
  <1>4. CASE ChunkImported
    <2>1. run' = run /\ chunkIdx' = chunkIdx + 1 /\ b[1] = run /\ b[2] = chunkIdx
      BY <1>4 DEF ChunkImported, ChunkCode
    <2> QED
      BY <1>1, <2>1 DEF Old
  <1> HIDE DEF Goal
  <1>5. CASE FetchChunk \/ Backpressure \/ Join \/ FetchFails
    BY <1>5 DEF FetchChunk, Backpressure, Join, FetchFails
  <1>6. CASE Crash
    BY <1>2, <1>6 DEF Crash, Exit
  <1>7. ASSUME NEW d \in Docs, ImportStep(d) PROVE Goal
    BY <1>2, <1>7 DEF ImportStep, Validate, RecordErrors, SetStatus, ImportOne, SetBcDocumentNo, RejectImport,
                      RestOfImport
  <1>8. ASSUME NEW i \in DOMAIN tasks, TaskStep(i) PROVE Goal
    BY <1>2, <1>8 DEF TaskStep, Flip, Flipped, Trigger, Rerun, Poll, ListPostResults, ApplyNext, Reconciled, RestOfTask
  <1>9. ASSUME NEW j \in jobs, JobStep(j) \/ SessionDies(j) PROVE Goal
    BY <1>2, <1>9 DEF JobStep, JobEnds, PostDraft, SessionDies, memory
  <1>10. CASE UNCHANGED vars
    BY <1>2, <1>10 DEF vars, memory
  <1> QED
    BY <1>3, <1>4, <1>5, <1>6, <1>7, <1>8, <1>9, <1>10 DEF Next, MainStep

(* A job that has posted a draft has it no more to do, and no other job has.    *)
LEMMA PostedIsDone ==
  ASSUME Types, Identified, Batched, JobsApart, NEW j \in jobs, NEW x \in drafts, Posting(j, x)
  PROVE  \A k \in jobs' : x.id \notin k.todo
  <1>1. ASSUME NEW k \in jobs, x.id \in k.todo PROVE k = j
    BY <1>1, ToDo DEF Posting, JobsApart
  <1>2. x.id \notin [j EXCEPT !.todo = @ \ {x.id}].todo
    BY DEF Types, BcTypes, IsJob
  <1> QED
    BY <1>1, <1>2 DEF Posting, WithoutDraft

(* The drafts of a batch are still there before its jobs.                       *)
LEMMA DraftsBatchedNext ==
  ASSUME Careful, Known, DraftsBatched, [Next]_vars
  PROVE  DraftsBatched'
  <1> USE DEF Known
  <1>0. \A x \in drafts : x.batch \in Batches
    BY DEF Types, BcTypes, IsDraft
  <1>1. \A b \in Batches : Old(b) => Old(b)'
    BY Forward DEF Batched
  <1>2. ASSUME NEW y \in drafts', y.batch # NoBatch
        PROVE  \E b : b = y.batch /\ (Old(b)' \/ (ChunkCode' = b /\ main' \in {"import", "down"}))
    <2>1. PICK b : b = y.batch
      OBVIOUS
    <2>2. ASSUME NEW x \in drafts, x.batch = b PROVE Old(b)' \/ (ChunkCode' = b /\ main' \in {"import", "down"})
      BY <1>0, <1>1, <1>2, <2>1, <2>2, ChunkPasses DEF DraftsBatched
    <2>3. ASSUME NEW d \in Docs, ImportOne(d), b \in {NoBatch, ChunkCode}
          PROVE  ChunkCode' = b /\ main' = "import"
      BY <1>2, <2>1, <2>3 DEF ImportOne, Future, RestOfImport, ChunkCode
    <2>4. ASSUME Crash, b \in {NoBatch, ChunkCode} PROVE ChunkCode' = b /\ main' = "down"
      BY <1>2, <2>1, <2>4 DEF Crash, Exit, ChunkCode
    <2> QED
      BY <2>1, <2>2, <2>3, <2>4, DraftFrom
  <1>3. ASSUME NEW y \in drafts', y.posted PROVE \E b : b = y.batch /\ Old(b)'
    <2>1. PICK x \in drafts : x.batch = y.batch /\ (x.posted \/ \E j \in jobs : Posting(j, x))
      BY <1>3, DraftFrom
    <2>2. Old(x.batch)
      BY <2>1, ToDo DEF DraftsBatched, Posting
    <2>3. PICK b : b = y.batch
      OBVIOUS
    <2> QED
      BY <1>0, <1>1, <2>1, <2>2, <2>3
  <1>4. ASSUME NEW k \in jobs', NEW y \in drafts', y.id \in k.todo PROVE ~y.posted
    <2>1. ASSUME NEW j \in jobs, k.todo \subseteq j.todo PROVE ~y.posted
      <3>1. SUFFICES ASSUME y.posted PROVE FALSE
        OBVIOUS
      <3>2. PICK x \in drafts : x.id = y.id /\ (x.posted \/ \E i \in jobs : Posting(i, x))
        BY <3>1, DraftFrom
      <3>3. ~x.posted
        BY <1>4, <2>1, <3>2 DEF DraftsBatched
      <3> QED
        BY <1>4, <3>2, <3>3, PostedIsDone
    <2>2. ASSUME NEW i \in DOMAIN tasks, NEW kind \in Kinds, Trigger(i, kind) \/ Rerun(i, kind),
                 k.todo = Collected(tasks[i].batch, kind)
          PROVE  ~y.posted
      <3>1. drafts' = drafts
        BY <2>2 DEF Trigger, Rerun
      <3>2. PICK z \in drafts : z.id = y.id /\ ~z.posted
        BY <1>4, <2>2 DEF Collected
      <3> QED
        BY <3>1, <3>2 DEF Identified
    <2> QED
      BY <2>1, <2>2, JobsFrom
  <1> QED
    BY <1>2, <1>3, <1>4 DEF DraftsBatched

(* A failed document has nothing that may still be posted.                      *)
LEMMA RetryableNext ==
  ASSUME Careful, Known, OncePosted, Known', DraftsBatched', [Next]_vars
  PROVE  Retryable'
  <1> USE DEF OncePosted
  <1> SUFFICES ASSUME NEW d \in Docs, status'[d] \in {"validated", "invalid", "failed"},
                      imp'[d] \notin {"number", "imported"}, NEW y \in drafts', y.doc = d, Armed(y)'
               PROVE  FALSE
    BY DEF Retryable, DraftsOf
  <1>1. PICK x \in drafts : x.id = y.id /\ x.doc = d /\ x.batch = y.batch /\ Armed(x)
    BY ArmedFrom
  <1>2. x \in DraftsOf(d)
    BY <1>1 DEF DraftsOf
  <1>3. ASSUME status[d] \in {"validated", "invalid", "failed"}, imp[d] \notin {"number", "imported"}
        PROVE  FALSE
    BY <1>1, <1>2, <1>3 DEF Retryable
  <1>4. CASE imp[d] \in InFlight \ {"number", "imported"}
    BY <1>3, <1>4 DEF StillValidated
  <1>5. CASE /\ imp[d] \in {"number", "imported"}
             /\ main' = "down" /\ tasks' = <<>> /\ ChunkCode' = ChunkCode
    <2>1. x.batch = ChunkCode
      BY <1>1, <1>2, <1>5 DEF ChunkArmed
    <2>2. y.batch = ChunkCode'
      BY <1>1, <1>5, <2>1
    <2>3. Old(y.batch)'
      <3>1. CASE y.posted
        BY <3>1 DEF DraftsBatched
      <3>2. ASSUME NEW j \in jobs', y.id \in j.todo PROVE Old(y.batch)'
        <4>1. PICK z \in drafts' : z.id = y.id /\ z.batch = j.batch
          BY <3>2 DEF Known, JobsApart
        <4>2. z = y
          BY <4>1 DEF Known, Identified
        <4>3. PICK b : b = j.batch
          OBVIOUS
        <4>4. Old(b)'
          BY <4>3 DEF Known, Batched
        <4> QED
          BY <4>1, <4>2, <4>3, <4>4
      <3> QED
        BY <1>5, <3>1, <3>2 DEF Armed, Live
    <2>4. run' \in Nat /\ chunkIdx' \in Nat
      BY BoundAssumption DEF Known, Types, MainTypes
    <2> QED
      BY <2>2, <2>3, <2>4 DEF Old, ChunkCode
  <1>6. ASSUME NEW i \in DOMAIN tasks, Mine(tasks[i], d), NEW r \in tasks[i].rows, ~r.success, r.ext = Ext[d]
        PROVE  FALSE
    <2>1. r \in results /\ r.batch = tasks[i].batch
      BY <1>6 DEF Known, TrueRows, Owned
    <2>2. x.batch = tasks[i].batch
      BY <1>1, <1>2, <1>6 DEF TaskArmed
    <2> QED
      BY <1>1, <1>6, <2>1, <2>2 DEF RowsDead
  <1> QED
    BY <1>3, <1>4, <1>5, <1>6, DocMoves DEF InFlight

(* A document whose import begins has nothing that may still be posted.         *)
LEMMA NothingArmed ==
  ASSUME StillValidated, Retryable, NEW d \in Docs, ImportOne(d), NEW x \in drafts, x.doc = d
  PROVE  ~Armed(x)
  <1>1. imp[d] = "import" /\ x \in DraftsOf(d)
    BY DEF ImportOne, Future, DraftsOf
  <1>2. status[d] = "validated"
    BY <1>1 DEF StillValidated, InFlight
  <1> QED
    BY <1>1, <1>2 DEF Retryable

(* What the import of a document has left to post is of the chunk.              *)
LEMMA ChunkArmedNext ==
  ASSUME Careful, Known, OncePosted, Known', [Next]_vars
  PROVE  ChunkArmed'
  <1> USE DEF OncePosted
  <1> SUFFICES ASSUME NEW d \in Docs, imp'[d] \in {"number", "imported", "yes"},
                      NEW y \in drafts', y.doc = d, Armed(y)'
               PROVE  y.batch = ChunkCode'
    BY DEF ChunkArmed, DraftsOf
  <1>1. ChunkCode' = ChunkCode
    <2>1. main' = "import"
      BY DEF Known, Types, Idle
    <2> QED
      BY <2>1, ImportMain DEF Known
  <1>2. ASSUME NEW x \in drafts, x.doc = d, x.batch = y.batch, Armed(x) PROVE y.batch = ChunkCode
    <2>1. CASE imp[d] \in {"number", "imported", "yes"}
      BY <1>2, <2>1 DEF ChunkArmed, DraftsOf
    <2>2. CASE imp[d] = "import"
      <3>1. status[d] = "validated"
        BY <2>2 DEF StillValidated, InFlight
      <3> QED
        BY <1>2, <2>2, <3>1 DEF Retryable, DraftsOf
    <2> QED
      BY <2>1, <2>2, DocMoves
  <1> QED
    BY <1>1, <1>2, ArmedFrom

(* One draft at most of a document is posted or may be.                         *)
LEMMA OneArmedNext ==
  ASSUME Careful, Known, OncePosted, Known', [Next]_vars
  PROVE  OneArmed'
  <1> USE DEF OncePosted
  <1> SUFFICES ASSUME NEW y \in drafts', NEW z \in drafts', y.doc = z.doc, Armed(y)', Armed(z)'
               PROVE  y = z
    BY DEF OneArmed
  <1> DEFINE Before(u, x) == x.id = u.id /\ x.doc = u.doc /\ x.batch = u.batch /\ Armed(x)
             Made(u, d) == /\ u \notin drafts /\ u.batch = ChunkCode
                          /\ ImportOne(d) /\ u.doc = d /\ Tagged(d)
  <1>1. ASSUME NEW u \in drafts', Armed(u)'
        PROVE  (\E x \in drafts : Before(u, x)) \/ (\E d \in Docs : Made(u, d))
    <2>1. Tagged(u.doc)
      BY <1>1 DEF Armed, Tagged
    <2> QED
      BY <1>1, <2>1, ArmedFrom
  <1>2. ASSUME NEW u \in drafts', NEW v \in drafts', u.doc = v.doc,
               NEW x \in drafts, Before(u, x), NEW d \in Docs, Made(v, d)
        PROVE  FALSE
    BY <1>2, NothingArmed
  <1>3. ASSUME NEW u \in drafts, NEW v \in drafts, Before(y, u), Before(z, v) PROVE y = z
    <2>1. u = v
      BY <1>3 DEF OneArmed
    <2> QED
      BY <1>3, <2>1 DEF Known, Identified
  <1>4. ASSUME NEW d \in Docs, NEW e \in Docs, Made(y, d), Made(z, e) PROVE y = z
    <2>1. d = e /\ ImportOne(d) /\ Tagged(d) /\ y \notin drafts /\ z \notin drafts /\ y.batch = ChunkCode /\ z.batch = ChunkCode
      BY <1>4
    <2>2. ChunkCode # NoBatch
      BY <2>1, CodeIsNew DEF ImportOne, Future
    <2>3. PICK new : /\ drafts' = drafts \union new
                     /\ \A u, v \in new : u.batch # NoBatch /\ v.batch # NoBatch => u = v
      BY <2>1, TaggedImport DEF Known
    <2> QED
      BY <2>1, <2>2, <2>3
  <1> HIDE DEF Before, Made
  <1> QED
    BY <1>1, <1>2, <1>3, <1>4

(* What a task's documents have left to post is of its chunk.                   *)
LEMMA TaskArmedNext ==
  ASSUME Careful, Known, OncePosted, Known', [Next]_vars
  PROVE  TaskArmed'
  <1> USE DEF OncePosted
  <1> SUFFICES ASSUME NEW n \in DOMAIN tasks', NEW d \in Docs, Mine(tasks'[n], d),
                      NEW y \in drafts', y.doc = d, Armed(y)'
               PROVE  y.batch = tasks'[n].batch
    BY DEF TaskArmed, DraftsOf, Mine
  <1>1. imp'[d] = "none"
    BY DEF Known, Owned, Mine
  <1>2. PICK x \in drafts : x.doc = d /\ x.batch = y.batch /\ Armed(x)
    BY <1>1, ArmedFrom
  <1>3. x \in DraftsOf(d)
    BY <1>2 DEF DraftsOf
  <1>4. ASSUME NEW m \in DOMAIN tasks, Later(tasks[m], tasks'[n]) PROVE y.batch = tasks'[n].batch
    <2>1. Mine(tasks[m], d) /\ tasks'[n].batch = tasks[m].batch
      BY <1>4 DEF Later, Mine
    <2> QED
      BY <1>2, <1>3, <2>1 DEF TaskArmed
  <1>5. ASSUME NEW m \in ChunkMaps, tasks'[n] = NewTask(m) PROVE y.batch = tasks'[n].batch
    <2>1. imp[d] = "yes" /\ tasks'[n].batch = ChunkCode
      BY <1>5 DEF ChunkMaps, NewTask, Mine, Imported
    <2> QED
      BY <1>2, <1>3, <2>1 DEF ChunkArmed
  <1> QED
    BY <1>4, <1>5, TaskFrom DEF Known

(* A task triggers each kind once: it is through with it before it polls.       *)
LEMMA NoneRepeatedNext ==
  ASSUME Careful, Known, NoneRepeated, [Next]_vars
  PROVE  NoneRepeated'
  <1> SUFFICES ASSUME NEW n \in DOMAIN tasks' PROVE Repeating(tasks'[n]) = {}
    BY DEF NoneRepeated, Repeating
  <1>1. "rerun" \notin Faults
    BY DEF Careful, AnswersArrive
  <1>2. ASSUME NEW m \in DOMAIN tasks, Later(tasks[m], tasks'[n]) PROVE Repeating(tasks'[n]) = {}
    BY <1>1, <1>2 DEF Later, NoneRepeated
  <1>3. ASSUME NEW m \in ChunkMaps, tasks'[n] = NewTask(m) PROVE Repeating(tasks'[n]) = {}
    BY <1>3 DEF NewTask, Repeating
  <1> QED
    BY <1>2, <1>3, TaskFrom DEF Known

(* What has just failed to post is posted by nobody else.                       *)
LEMMA FailedIsDead ==
  ASSUME Known, DraftsBatched, OneArmed, NoneRepeated, NEW j \in jobs, NEW x \in drafts,
         x.id \in j.todo, jobs' = WithoutDraft(j, x), UNCHANGED <<drafts, run, main, memory>>
  PROVE  ~Armed(x)'
  <1> USE DEF Known
  <1>1. x.batch = j.batch /\ Kind[x.doc] = j.kind /\ x.batch # NoBatch /\ Old(x.batch) /\ ~x.posted
    BY ToDo DEF DraftsBatched
  <1>2. \A k \in jobs' : x.id \notin k.todo
    <2>1. Posting(j, x)
      BY DEF Posting
    <2> QED
      BY <2>1, PostedIsDone
  <1>3. ASSUME NEW i \in DOMAIN tasks, tasks[i].batch = x.batch, Kind[x.doc] \in tasks[i].kinds,
               tasks[i].pc \in {"flip", "trigger"}
        PROVE  FALSE
    <2>1. Kind[x.doc] \in tasks[i].kinds \ tasks[i].polling
      BY <1>3 DEF NoneRepeated, Repeating
    <2> QED
      BY <1>1, <1>3, <2>1 DEF TriggersAhead, Untriggered
  <1>4. x.batch # ChunkCode
    BY <1>1, CodeIsNew
  <1>5. ChunkCode' = ChunkCode /\ tasks' = tasks
    BY DEF ChunkCode, memory
  <1> QED
    BY <1>1, <1>2, <1>3, <1>4, <1>5 DEF Armed, Live

(* What Business Central reports as failed it will not post any more.           *)
LEMMA RowsDeadNext ==
  ASSUME Careful, Known, OncePosted, Known', [Next]_vars
  PROVE  RowsDead'
  <1> USE DEF OncePosted
  <1> SUFFICES ASSUME NEW r \in results', ~r.success, NEW y \in drafts', y.batch = r.batch,
                      Ext[y.doc] = r.ext, Armed(y)'
               PROVE  FALSE
    BY DEF RowsDead
  <1>1. CASE r \in results
    <2>1. y.batch # ChunkCode
      BY <1>1, CodeIsNew DEF Known, Batched
    <2>2. PICK x \in drafts : x.doc = y.doc /\ x.batch = y.batch /\ Armed(x)
      BY <2>1, ArmedFrom
    <2> QED
      BY <1>1, <2>2 DEF RowsDead
  <1>2. ASSUME r \notin results, NEW j \in jobs, NEW x \in drafts, PostDraft(j, x),
               r.batch = x.batch, r.ext = BcCode[Ext[x.doc]]
        PROVE  FALSE
    <2>1. drafts' = drafts
      BY <1>2 DEF PostDraft, Outcome
    <2>2. x.doc = y.doc
      <3>1. x.doc \in Docs /\ y.doc \in Docs
        BY <2>1 DEF Known, Types, BcTypes, IsDraft
      <3> QED
        BY <1>2, <3>1 DEF Careful, NumbersDistinct
    <2>3. Armed(x)
      <3>1. Tagged(x.doc)
        BY <2>2 DEF Armed, Tagged
      <3> QED
        BY <1>2, <3>1, ToDo DEF PostDraft, Armed, Live, Known
    <2>4. PICK z \in drafts : z.id = y.id /\ Armed(z)
      <3>1. y \in drafts
        BY <2>1
      <3> QED
        BY <3>1, ArmedFrom
    <2>5. z = y /\ y = x
      BY <2>1, <2>2, <2>3, <2>4 DEF OneArmed, Known, Identified
    <2> QED
      BY <1>2, <2>1, <2>5, FailedIsDead DEF PostDraft
  <1> QED
    BY <1>1, <1>2, RowsFrom DEF Known

(* The parts of the invariant hold on.                                          *)
LEMMA OncePostedNext ==
  ASSUME Careful, Known, OncePosted, [Next]_vars
  PROVE  Known' /\ OncePosted'
  <1>1. Known'
    BY TypesNext, IdentifiedNext, TrueRowsNext, BatchedNext, JobsApartNext, TriggersAheadNext, OwnedNext
       DEF Known, Careful
  <1>2. DraftsBatched' /\ StillValidated'
    BY DraftsBatchedNext, StillValidatedNext DEF OncePosted
  <1> QED
    BY <1>1, <1>2, OneArmedNext, RetryableNext, ChunkArmedNext, TaskArmedNext, NoneRepeatedNext, RowsDeadNext
       DEF OncePosted

\* A document that gets its batch code last is posted once at most.
TaggedPostedOnce ==
    \A d \in Docs : Tagged(d) => Cardinality({x \in DraftsOf(d) : x.posted}) <= 1

(* A sales or purchase invoice is never posted twice ("Every invoice carries an *)
(* idempotency key so reruns never double-post", README.md:88), whatever else   *)
(* the runs import, wherever they crash and however often they are repeated: as *)
(* long as the external numbers are distinct and every answer of staging and of *)
(* Business Central arrives (main.rs:381-390 sets their batch code last).       *)
THEOREM InvoicesPostedOnce == ASSUME Careful PROVE Spec => []TaggedPostedOnce
  <1>1. Init => Known /\ OncePosted
    <2>1. Init => Types /\ Identified
      BY TypesInit, FS_EmptySet DEF Init, Identified, DraftsOf
    <2>2. Init => TrueRows /\ Batched /\ JobsApart /\ TriggersAhead /\ Owned
      BY DEF Init, TrueRows, Batched, JobsApart, TriggersAhead, Owned
    <2>3. Init => OncePosted
      BY DEF Init, OncePosted, DraftsBatched, StillValidated, InFlight, OneArmed, Retryable, ChunkArmed,
             TaskArmed, NoneRepeated, RowsDead, DraftsOf
    <2> QED
      BY <2>1, <2>2, <2>3 DEF Known
  <1>2. Known /\ OncePosted /\ [Next]_vars => (Known /\ OncePosted)'
    BY OncePostedNext
  <1>3. Known /\ OncePosted => TaggedPostedOnce
    <2> SUFFICES ASSUME Known, OncePosted, NEW d \in Docs, Tagged(d)
                 PROVE  Cardinality({x \in DraftsOf(d) : x.posted}) <= 1
      BY DEF TaggedPostedOnce
    <2> DEFINE P == {x \in DraftsOf(d) : x.posted}
    <2>1. \A x, y \in P : x = y
      BY DEF OncePosted, OneArmed, Armed, DraftsOf
    <2>2. CASE P = {}
      BY <2>2, FS_EmptySet
    <2>3. ASSUME NEW x \in P PROVE Cardinality(P) <= 1
      <3>1. P = {x}
        BY <2>1, <2>3
      <3>2. Cardinality({x}) = 1
        BY FS_Singleton
      <3> QED
        BY <3>1, <3>2
    <2> QED
      BY <2>2, <2>3
  <1> QED
    BY <1>1, <1>2, <1>3, PTL DEF Spec

(* Where every kind gets its batch code last, no document is posted twice       *)
(* (README.md:88): it is the kinds with the code in their header that break the *)
(* promise without any fault.                                                   *)
THEOREM NoDoublePost == ASSUME Careful, InlineKinds = {} PROVE Spec => []NeverPostedTwice
  <1>1. Spec => []TaggedPostedOnce
    BY InvoicesPostedOnce
  <1>2. TaggedPostedOnce => NeverPostedTwice
    BY DEF TaggedPostedOnce, Tagged, NeverPostedTwice
  <1> QED
    BY <1>1, <1>2, PTL

-------------------------------------------------------------------------------
(* What is left behind stays behind                                             *)

\* A document past its import that no post task will settle.
Stranded(d) ==
    /\ status[d] \in {"imported", "posting"} /\ imp[d] = "none"
    /\ \A i \in DOMAIN tasks : Mine(tasks[i], d) => tasks[i].pc = "done"

StaysStranded(d) == Stranded(d) => Stranded(d)' /\ status'[d] = status[d]

(* A task that is done does nothing more.                                       *)
LEMMA TaskStranded ==
  ASSUME Types, TrueRows, Owned, NEW i \in DOMAIN tasks, TaskStep(i), NEW d \in Docs, Stranded(d)
  PROVE  Stranded(d)' /\ status'[d] = status[d]
  <1>1. tasks[i].pc # "done" /\ imp' = imp
    BY DEF TaskStep, Flip, Flipped, Trigger, Rerun, Poll, ListPostResults, ApplyNext, Reconciled, Task, RestOfTask
  <1>2. ~Mine(tasks[i], d)
    BY <1>1 DEF Stranded
  <1>3. status'[d] = status[d]
    <2>1. ASSUME NEW e \in Docs, Mine(tasks[i], e), NEW new, status' = [status EXCEPT ![e] = new]
          PROVE  status'[d] = status[d]
      BY <1>2, <2>1 DEF Types, StagingTypes
    <2>2. ASSUME NEW e \in Docs, Flip(i, e) PROVE status'[d] = status[d]
      <3>1. Mine(tasks[i], e)
        BY <2>2 DEF Flip, Owned
      <3> QED
        BY <2>1, <2>2, <3>1 DEF Flip
    <2>3. ASSUME ApplyNext(i) PROVE status'[d] = status[d]
      <3>1. PICK r \in tasks[i].rows : ApplyRow(i, r)
        BY <2>3 DEF ApplyNext
      <3>2. CASE r.ext \in DOMAIN tasks[i].map /\ Applied(tasks[i].map[r.ext], r)
        <4>1. PICK e : e = tasks[i].map[r.ext]
          OBVIOUS
        <4>2. e \in Docs
          <5>1. tasks[i] \in TaskRecords
            BY DEF Types, MainTypes
          <5>2. tasks[i].map \in Maps
            BY <5>1 DEF TaskRecords
          <5> QED
            BY <3>2, <4>1, <5>2 DEF Maps
        <4>3. Mine(tasks[i], e)
          BY <3>2, <4>1 DEF TrueRows, Mine
        <4> QED
          BY <2>1, <3>2, <4>1, <4>2, <4>3 DEF Applied
      <3> QED
        BY <3>1, <3>2 DEF ApplyRow
    <2> QED
      BY <2>2, <2>3 DEF TaskStep, Flipped, Trigger, Rerun, Poll, ListPostResults, Reconciled, staging
  <1>4. PICK u : tasks' = [tasks EXCEPT ![i] = u] /\ u.map = tasks[i].map
    BY TaskMoves DEF Later
  <1>5. \A n \in DOMAIN tasks' : n \in DOMAIN tasks /\ (Mine(tasks'[n], d) => tasks'[n].pc = "done")
    <2>1. tasks \in Seq(TaskRecords)
      BY DEF Types, MainTypes
    <2> QED
      BY <1>2, <1>4, <2>1 DEF Mine, Stranded
  <1> QED
    BY <1>1, <1>3, <1>5 DEF Stranded, Mine

LEMMA StrandedStep ==
  ASSUME Types, TrueRows, Owned, [Next]_vars, NEW d \in Docs
  PROVE  StaysStranded(d)
  <1> SUFFICES ASSUME Stranded(d) PROVE Stranded(d)' /\ status'[d] = status[d]
    BY DEF StaysStranded
  <1>0. /\ status \in [Docs -> Statuses] /\ imp \in [Docs -> ImpPCs] /\ tasks \in Seq(TaskRecords)
        /\ imp[d] = "none" /\ status[d] \in {"imported", "posting"}
    BY DEF Types, StagingTypes, MainTypes, Stranded
  <1>1. ASSUME status'[d] = status[d], imp'[d] = "none",
               \A n \in DOMAIN tasks' : \/ ~Mine(tasks'[n], d)
                                        \/ \E m \in DOMAIN tasks : tasks'[n] = tasks[m]
        PROVE  Stranded(d)' /\ status'[d] = status[d]
    BY <1>0, <1>1 DEF Stranded, Mine
  <1>2. ASSUME tasks' \in {tasks, <<>>} \/ (tasks # <<>> /\ tasks' = Tail(tasks))
        PROVE  \A n \in DOMAIN tasks' : \E m \in DOMAIN tasks : tasks'[n] = tasks[m]
    BY <1>0, <1>2
  <1>3. ASSUME NEW reprocess \in BOOLEAN, Start(reprocess) PROVE Stranded(d)' /\ status'[d] = status[d]
    BY <1>0, <1>1, <1>2, <1>3 DEF Start, Requeueable
  <1>4. CASE FetchChunk
    <2>1. imp'[d] = "none"
      BY <1>0, <1>4 DEF FetchChunk, Fresh, Page, Validated
    <2> QED
      BY <1>1, <1>2, <1>4, <2>1 DEF FetchChunk, staging
  <1>5. CASE ChunkImported
    <2>1. imp'[d] = "none" /\ status' = status
      BY <1>5 DEF ChunkImported, staging
    <2>2. CASE tasks' = tasks
      BY <1>1, <1>2, <2>1, <2>2
    <2>3. ASSUME NEW m \in ChunkMaps, tasks' = Append(tasks, NewTask(m))
          PROVE  Stranded(d)' /\ status'[d] = status[d]
      <3>1. ~Mine(NewTask(m), d)
        BY <1>0 DEF Mine, NewTask, ChunkMaps, Imported
      <3>2. \A n \in DOMAIN tasks' : tasks'[n] = NewTask(m) \/ \E k \in DOMAIN tasks : tasks'[n] = tasks[k]
        BY <1>0, <2>3
      <3> QED
        BY <1>1, <2>1, <3>1, <3>2
    <2> QED
      BY <1>5, <2>2, <2>3 DEF ChunkImported
  <1>6. CASE Backpressure
    <2>1. tasks' = tasks \/ (tasks # <<>> /\ tasks' = Tail(tasks))
      BY <1>6, BoundAssumption, SizeAssumption DEF Backpressure, TooMany
    <2> QED
      BY <1>0, <1>1, <1>2, <1>6, <2>1 DEF Backpressure, staging
  <1>7. CASE Join \/ FetchFails \/ Crash
    BY <1>0, <1>1, <1>2, <1>7 DEF Join, FetchFails, Crash, Exit, staging
  <1>8. ASSUME NEW e \in Docs, ImportStep(e) PROVE Stranded(d)' /\ status'[d] = status[d]
    <2>1. e # d
      BY <1>0, <1>8 DEF ImportStep, Validate, RecordErrors, SetStatus, ImportOne, SetBcDocumentNo, RejectImport, Future
    <2>2. status'[d] = status[d] /\ imp'[d] = imp[d] /\ tasks' = tasks
      BY <1>0, <1>8, <2>1 DEF ImportStep, Validate, RecordErrors, SetStatus, ImportOne, SetBcDocumentNo, RejectImport,
                              NextImp, RestOfImport, staging
    <2> QED
      BY <1>0, <1>1, <1>2, <2>2
  <1>9. ASSUME NEW i \in DOMAIN tasks, TaskStep(i) PROVE Stranded(d)' /\ status'[d] = status[d]
    BY <1>9, TaskStranded
  <1>10. ASSUME NEW j \in jobs, JobStep(j) \/ SessionDies(j) PROVE Stranded(d)' /\ status'[d] = status[d]
    BY <1>0, <1>1, <1>2, <1>10 DEF JobStep, JobEnds, PostDraft, SessionDies, memory, staging
  <1>11. CASE UNCHANGED vars
    BY <1>0, <1>1, <1>2, <1>11 DEF vars, memory, staging
  <1> QED
    BY <1>3, <1>4, <1>5, <1>6, <1>7, <1>8, <1>9, <1>10, <1>11 DEF Next, MainStep

\* What a process leaves imported or posting when it ends is stranded.
LeftStranded ==
    main = "down" => \A d \in Docs : status[d] \in {"imported", "posting"} => Stranded(d)

(* What a process leaves imported or posting, crashed or not, no later run and  *)
(* no requeue ever takes up again; nor does its own run once the post task that *)
(* has the document is done, by a poll that was given up, a write that failed   *)
(* or a row that did not match (main.rs:50-58, :86; "Everything is resumable",  *)
(* docs/architecture.md:12).                                                    *)
THEOREM LeftBehindForGood ==
  ASSUME NumbersDistinct
  PROVE  Spec => []LeftStranded /\ [][\A d \in Docs : StaysStranded(d)]_vars
  <1> DEFINE Inv == Types /\ TrueRows /\ Owned
             Stays == \A d \in Docs : StaysStranded(d)
  <1>1. Init => Inv
    BY TypesInit DEF Init, TrueRows, Owned
  <1>2. NumbersDistinct
    OBVIOUS
  <1>3. Inv /\ [Next]_vars => Inv'
    BY <1>2, TypesNext, TrueRowsNext, OwnedNext
  <1>4. Inv /\ [Next]_vars => Stays
    BY StrandedStep
  <1>5. Inv => LeftStranded
    BY DEF Types, Idle, LeftStranded, Stranded
  <1> HIDE DEF Inv, Stays
  <1>6. Spec => []LeftStranded /\ [][Stays]_vars
    BY <1>1, <1>3, <1>4, <1>5, PTL DEF Spec
  <1> QED
    BY <1>6 DEF Stays

===============================================================================

---------------------------- MODULE ImportDocument ----------------------------
(* The import of one document: import_batch, resolve_party, resolve_items,      *)
(* import_one and sync_references of orchestrator/src/main.rs, with validate.rs, *)
(* the calls of bc_client.rs and the map and reference tables of staging.rs.    *)
(*                                                                              *)
(* While its future runs, a `sync-refs` may fill the reference table and other  *)
(* processes change the maps: each query sees the tables of its moment.         *)
EXTENDS Documents, Drafts

CONSTANTS
    Sources,     \* the document as it is staged: one of these
    FirstMap,    \* rows that party_map and item_map may have at first
    Upserts,     \* rows that may be written to them meanwhile
    MaxUpserts,  \* bound of the model: how many
    BcPages,     \* BcPages[kind]: the pages in which BC lists its customers,
                 \* vendors and items; a page is a sequence of numbers
    Faults,      \* the kinds of fault that may happen
    MaxFaults    \* bound of the model: how many of them

FaultKinds == {"crash", "staging", "reply", "retry", "sync"}

ASSUME ImportFaultAssumption == Faults \subseteq FaultKinds /\ MaxFaults \in Nat
ASSUME UpsertAssumption == MaxUpserts \in Nat
ASSUME SourcesAssumption ==
    \A s \in Sources : /\ s.type \in DocTypes
                       /\ s = Doc(s.type, s.ext, s.partner, s.date, s.currency, s.lines)
                       /\ s.lines \in Seq(ToSet(s.lines))

SyncedKinds == <<"customer", "vendor", "item">>
Listed(kind) == UNION {ToSet(BcPages[kind][p]) : p \in DOMAIN BcPages[kind]}

\* Every list has a first page; it may be empty.
ASSUME PagesAssumption ==
    \A kind \in ToSet(SyncedKinds) :
        BcPages[kind] \in Seq(Seq(Listed(kind))) /\ BcPages[kind] # <<>>

VARIABLES
    \* Staging database
    map,         \* map[<<kind, id>>]: the BC number of a customer, vendor or item
    refs,        \* ref_entity: <<kind, number>>
    upserts,     \* how many rows of the maps were written
    status, stored, numbered,   \* of the document; stored: rows of document_error
    \* The process that runs sync-refs
    sync,        \* where it is, the entities it has still to list, and its rows
    synced,      \* a sync was complete when the references were checked
    \* The future of the document
    config,      \* REQUIRE_PARTY_MAPPING, REQUIRE_ITEM_MAPPING, VALIDATE_REFERENCES
    source,      \* the document as staged
    inv,         \* and as it is resolved
    pc, at_line,
    errs,        \* the errors found so far
    calls,       \* the calls that are left of import_one
    attempt,
    \* Business Central
    drafts,      \* in order of creation
    faults       \* faults[kind]: how many have happened

tables   == <<map, upserts>>
document == <<status, stored, numbered>>
syncing  == <<refs, sync, synced>>
given    == <<config, source>>
calling  == <<calls, attempt>>
vars == <<tables, document, syncing, given, inv, pc, at_line, errs, calling, drafts, faults>>

-------------------------------------------------------------------------------
(* The tables                                                                   *)

\* upsert_party_map, upsert_item_map; the id is trimmed and in lower case.
MapRow(kind, id, no) == [kind |-> kind, id |-> id, no |-> no]
MapKey(kind, id) == <<kind, Norm(id)>>
With(table, row) ==
    [k \in DOMAIN table \union {MapKey(row.kind, row.id)} |->
        IF k = MapKey(row.kind, row.id) THEN row.no ELSE table[k]]

\* resolve_party, resolve_item: the number, if there is one.
Lookup(kind, id) == {map[k] : k \in DOMAIN map \intersect {MapKey(kind, id)}}

\* MUTANT of RefExists: the number is looked up as it is spelled.
RefExists_AsSpelled(kind, no) == <<kind, no>> \in refs

RefExists(kind, no) == <<kind, Norm(no)>> \in refs

RefsOf(kind) == {<<kind, Norm(no)>> : no \in Listed(kind)}
AllRefs == UNION {RefsOf(kind) : kind \in ToSet(SyncedKinds)}

-------------------------------------------------------------------------------
Init ==
    /\ map \in {FoldLeft(With, <<>>, rows) : rows \in FirstMap}
    /\ upserts = 0
    /\ refs = {}
    /\ synced = FALSE
    /\ sync = [pc |-> "list", kinds |-> SyncedKinds, page |-> 1, rows |-> <<>>]
    /\ config \in [party : BOOLEAN, item : BOOLEAN, refs : BOOLEAN]
    /\ source \in Sources
    /\ inv = source
    /\ pc = "party"
    /\ at_line = 1
    /\ errs = {}
    /\ status = "validated" /\ stored = {} /\ numbered = FALSE
    /\ calls = <<>>
    /\ attempt = 0
    /\ drafts = <<>>
    /\ faults = [kind \in Faults |-> 0]

Happened == FoldFunction(LAMBDA n, sum : n + sum, 0, faults)

Fault(kind) ==
    /\ kind \in Faults
    /\ Happened < MaxFaults
    /\ faults' = [faults EXCEPT ![kind] = @ + 1]
NoFault == UNCHANGED faults

-------------------------------------------------------------------------------
(* sync-refs and the maps                                                       *)

\* MUTANT of LastPage: there is no next link to follow.
LastPage_First(kind, page) == TRUE

LastPage(kind, page) == page = Len(BcPages[kind])

\* list_reference reads all the pages of an entity before a row is written.
ListReference ==
    /\ sync.pc = "list"
    /\ \/ LET kind == Head(sync.kinds)
          IN /\ NoFault
             /\ sync' = [sync EXCEPT !.rows = @ \o BcPages[kind][sync.page],
                                     !.page = @ + 1,
                                     !.pc = IF LastPage(kind, sync.page) THEN "rows" ELSE @]
       \/ Fault("sync") /\ sync' = [sync EXCEPT !.pc = "failed"]
    /\ UNCHANGED <<tables, document, refs, synced, given, inv, pc, at_line, errs, calling, drafts>>

\* ref_upsert of the next row; after the last one the next entity.
RefUpsert ==
    /\ sync.pc = "rows"
    /\ IF sync.rows # <<>>
       THEN /\ refs' = refs \union {<<Head(sync.kinds), Norm(Head(sync.rows))>>}
            /\ sync' = [sync EXCEPT !.rows = Tail(@)]
       ELSE /\ sync' = [sync EXCEPT !.kinds = Tail(@), !.page = 1,
                                    !.pc = IF Len(sync.kinds) = 1 THEN "done" ELSE "list"]
            /\ UNCHANGED refs
    /\ UNCHANGED <<tables, document, synced, given, inv, pc, at_line, errs, calling, drafts, faults>>

UpsertMap ==
    /\ upserts < MaxUpserts
    /\ \E row \in Upserts : map' = With(map, row)
    /\ upserts' = upserts + 1
    /\ UNCHANGED <<document, syncing, given, inv, pc, at_line, errs, calling, drafts, faults>>

-------------------------------------------------------------------------------
(* Resolution and validation                                                    *)

GoTo(label) == pc' = label
Party == PartyKinds[source.type]
Found(kind, no) == ~IsBlank(no) /\ kind # "none" /\ Lookup(kind, no) # {}

\* resolve_party; no party, and an empty one, pass.
ResolveParty ==
    /\ pc = "party"
    /\ \/ /\ Found(Party, inv.partner)
          /\ \E no \in Lookup(Party, inv.partner) : inv' = [inv EXCEPT !.partner = no]
          /\ UNCHANGED errs
       \/ /\ ~Found(Party, inv.partner)
          /\ errs' = IF config.party /\ Party # "none" /\ ~IsBlank(inv.partner)
                     THEN errs \union {Error(0, "UNMAPPED_PARTY")} ELSE errs
          /\ UNCHANGED inv
    /\ GoTo("items")
    /\ UNCHANGED <<tables, document, syncing, given, at_line, calling, drafts, faults>>

\* resolve_items, line by line; the first unmapped one is the last, if all
\* have to be mapped.
ResolveItem ==
    /\ pc = "items"
    /\ at_line \in DOMAIN inv.lines
    /\ LET no == inv.lines[at_line].no
           unmapped == config.item /\ ~IsBlank(no) /\ ~Found("item", no)
       IN /\ inv' \in IF Found("item", no)
                      THEN {[inv EXCEPT !.lines[at_line].no = n] : n \in Lookup("item", no)}
                      ELSE {inv}
          /\ errs' = IF unmapped THEN errs \union {Error(0, "UNMAPPED_ITEM")} ELSE errs
          /\ at_line' = IF unmapped THEN Len(inv.lines) + 1 ELSE at_line + 1
    /\ UNCHANGED <<tables, document, syncing, given, pc, calling, drafts, faults>>

\* validate_document: first the fields.
ValidateFields ==
    /\ pc = "items"
    /\ at_line \notin DOMAIN inv.lines
    /\ errs' = errs \union FieldErrors(inv)
    /\ GoTo("refs")
    /\ at_line' = 0
    /\ synced' = (sync.pc = "done")
    /\ UNCHANGED <<tables, document, refs, sync, given, inv, calling, drafts, faults>>

Unknown(kind, no) == ~IsBlank(no) /\ kind # "none" /\ ~RefExists(kind, no)

\* Then the party (line 0) and the items against ref_entity.
ValidateReference ==
    /\ pc = "refs"
    /\ config.refs
    /\ at_line \in 0 .. Len(inv.lines)
    /\ LET unknown == IF at_line = 0 THEN Unknown(Party, inv.partner)
                      ELSE Unknown("item", inv.lines[at_line].no)
           code == IF at_line = 0 THEN "UNKNOWN_PARTY" ELSE "UNKNOWN_ITEM"
       IN errs' = IF unknown THEN errs \union {Error(at_line, code)} ELSE errs
    /\ at_line' = at_line + 1
    /\ UNCHANGED <<tables, document, syncing, given, inv, pc, calling, drafts, faults>>

-------------------------------------------------------------------------------
(* import_one                                                                   *)

ImportWay ==
    CASE source.type \in {"sales", "purchase"} -> "tagged"
      [] source.type \in {"service", "purchase_order", "transfer_order"} -> "inline"
      [] source.type \in {"assembly_order", "production_order"} -> "header"

Call(entity, of) == [entity |-> entity, of |-> of]
LineCalls == [i \in DOMAIN inv.lines |-> Call("line", i)]

\* MUTANT of ImportCalls: the batch code is set before there are lines.
ImportCalls_TagFirst ==
    <<Call("header", 0)>> \o (IF ImportWay = "tagged" THEN <<Call("tag", 0)>> ELSE <<>>)
        \o (IF ImportWay = "header" THEN <<>> ELSE LineCalls)

ImportCalls ==
    <<Call("header", 0)>> \o (IF ImportWay = "header" THEN <<>> ELSE LineCalls)
        \o (IF ImportWay = "tagged" THEN <<Call("tag", 0)>> ELSE <<>>)

\* Without errors the document is imported, with errors it is not.
Verdict ==
    /\ pc = "refs"
    /\ config.refs => at_line > Len(inv.lines)
    /\ IF errs = {} THEN GoTo("call") /\ calls' = ImportCalls
       ELSE GoTo("errors") /\ UNCHANGED calls
    /\ UNCHANGED <<tables, document, syncing, given, inv, at_line, errs, attempt, drafts, faults>>

\* A header in Business Central; those that are all of the document carry its
\* first line.
NewDraft ==
    [partner |-> inv.partner, coded |-> ImportWay # "tagged",
     lines |-> IF ImportWay = "header" THEN <<Head(inv.lines)>> ELSE <<>>]

\* The effect of the next call.  Lines and tag go to the last header, whose id
\* the answer gave.
Effect ==
    LET c == Head(calls)
    IN drafts' = CASE c.entity = "header" -> Append(drafts, NewDraft)
                   [] c.entity = "line" ->
                        [drafts EXCEPT ![Len(drafts)].lines = Append(@, inv.lines[c.of])]
                   [] c.entity = "tag" -> [drafts EXCEPT ![Len(drafts)].coded = TRUE]

NoEffect == UNCHANGED drafts

Answered ==
    /\ NoFault /\ Effect
    /\ calls' = Tail(calls)
    /\ attempt' = 0
    /\ GoTo(IF Len(calls) = 1 THEN "number" ELSE "call")

\* MUTANT of LastAttempt: three attempts.
LastAttempt_Third == attempt = 2

LastAttempt == attempt = 1

\* 429 or 5xx: the call is sent again, once.  A 5xx may come after the effect.
Throttled ==
    /\ ~LastAttempt
    /\ \/ NoFault /\ NoEffect
       \/ Fault("retry") /\ Effect
    /\ attempt' = attempt + 1
    /\ UNCHANGED <<calls, pc>>

\* Any other error, and a second 429 or 5xx, is the end.
Refused ==
    /\ NoFault /\ NoEffect
    /\ GoTo("reject")
    /\ calls' = <<>> /\ attempt' = 0

\* MUTANT of Lost: the call is sent again after a connection error, too.
Lost_SentAgain ==
    /\ Fault("reply") /\ Effect
    /\ IF attempt = 0
       THEN attempt' = 1 /\ UNCHANGED <<calls, pc>>
       ELSE GoTo("reject") /\ calls' = <<>> /\ attempt' = 0

\* So is a connection that breaks, or an answer that cannot be read, after the
\* effect.
Lost ==
    /\ Fault("reply") /\ Effect
    /\ GoTo("reject")
    /\ calls' = <<>> /\ attempt' = 0

CallBc ==
    /\ pc = "call"
    /\ Answered \/ Throttled \/ Refused \/ Lost
    /\ UNCHANGED <<tables, document, syncing, given, inv, at_line, errs>>

-------------------------------------------------------------------------------
(* The writes of the outcome                                                    *)

RestOfWrite == <<tables, syncing, given, inv, at_line, errs, calling, drafts>>

\* A write succeeds, or it is committed and its answer is lost.
Written(then) == (NoFault /\ GoTo(then)) \/ (Fault("reply") /\ GoTo("err"))

RecordErrors(label, new, then) ==
    /\ pc = label
    /\ stored' = stored \union new
    /\ Written(then)
    /\ UNCHANGED <<RestOfWrite, status, numbered>>

UpdateStatus(label, new, then) ==
    /\ pc = label
    /\ status' = new
    /\ Written(then)
    /\ UNCHANGED <<RestOfWrite, stored, numbered>>

SetBcDocumentNo ==
    /\ pc = "number"
    /\ numbered' = TRUE
    /\ Written("imported")
    /\ UNCHANGED <<RestOfWrite, status, stored>>

StagingPcs == {"party", "items", "refs", "errors", "invalid", "number", "imported", "reject", "failed"}

\* A query or a write that fails ends the future.
StagingFails ==
    /\ pc \in StagingPcs
    /\ Fault("staging")
    /\ GoTo("err")
    /\ UNCHANGED <<RestOfWrite, document>>

\* A call that was under way may still have its effect.
Crash ==
    /\ pc \in StagingPcs \union {"call"}
    /\ Fault("crash")
    /\ GoTo("crash")
    /\ NoEffect \/ (pc = "call" /\ Effect)
    /\ UNCHANGED <<tables, document, syncing, given, inv, at_line, errs, calling>>

Next ==
    \/ ListReference \/ RefUpsert \/ UpsertMap
    \/ ResolveParty \/ ResolveItem \/ ValidateFields \/ ValidateReference \/ Verdict
    \/ CallBc
    \/ RecordErrors("errors", errs, "invalid") \/ UpdateStatus("invalid", "invalid", "no")
    \/ SetBcDocumentNo \/ UpdateStatus("imported", "imported", "yes")
    \/ RecordErrors("reject", {Error(0, "BC")}, "failed") \/ UpdateStatus("failed", "failed", "no")
    \/ StagingFails \/ Crash

Spec == Init /\ [][Next]_vars

-------------------------------------------------------------------------------
(* Properties                                                                   *)

PCs == StagingPcs \union {"call", "yes", "no", "err", "crash"}

(* Every variable keeps its type.                                               *)
TypeOK ==
    /\ pc \in PCs /\ attempt \in 0 .. 1
    /\ at_line \in 0 .. Len(inv.lines) + 1 /\ Len(inv.lines) = Len(source.lines)
    /\ upserts \in 0 .. MaxUpserts
    /\ refs \subseteq AllRefs
    /\ pc = "call" => calls # <<>>
    /\ stored \subseteq errs \union {Error(0, "BC")}

Sent == calls # <<>> \/ drafts # <<>>

KnownToBc(kind, no) == IsBlank(no) \/ kind = "none" \/ <<kind, Norm(no)>> \in AllRefs

(* What is sent to Business Central has passed every check that is switched on, *)
(* each against the tables of its moment; and once a sync has been completed, a *)
(* party or item that Business Central has is never called unknown, however it  *)
(* is spelled (validate.rs:1-4, staging.rs:408).                                *)
VerdictSound ==
    /\ Sent => FieldErrors(inv) = {}
    /\ Sent /\ config.refs =>
           /\ KnownToBc(Party, inv.partner)
           /\ \A i \in DOMAIN inv.lines : KnownToBc("item", inv.lines[i].no)
    /\ Sent /\ config.party /\ Party # "none" => MapKey(Party, source.partner) \in DOMAIN map
    /\ Sent /\ config.item =>
           \A i \in DOMAIN inv.lines : MapKey("item", source.lines[i].no) \in DOMAIN map
    /\ synced => \A e \in errs :
           /\ e.code = "UNKNOWN_PARTY" => ~KnownToBc(Party, inv.partner)
           /\ e.code = "UNKNOWN_ITEM" => ~KnownToBc("item", inv.lines[e.line].no)

Complete(draft) == \A i \in DOMAIN inv.lines : inv.lines[i] \in ToSet(draft.lines)

(* A sales or purchase invoice gets its batch code, with which it is posted, no *)
(* earlier than all its lines: whatever call fails, no job posts a part of it.  *)
IncompleteNeverTagged ==
    ImportWay = "tagged" => \A n \in DOMAIN drafts : drafts[n].coded => Complete(drafts[n])

LinesOfWay == IF ImportWay = "header" THEN <<Head(inv.lines)>> ELSE inv.lines
Surplus ==
    Len(drafts) - 1 + Len(Last(drafts).lines) - Len(LinesOfWay)
Retried == IF "retry" \in Faults THEN faults["retry"] ELSE 0

(* A document that counts as imported is one draft with the batch code and the  *)
(* resolved lines; a header or a line is there twice only if a 5xx was answered *)
(* after its effect (bc_client.rs:108-120), never after another error.          *)
ExactDraft ==
    pc \in {"number", "imported", "yes"} =>
        /\ drafts # <<>> /\ Last(drafts).coded
        /\ ToSet(Last(drafts).lines) = ToSet(LinesOfWay)
        /\ Surplus \in 0 .. Retried

(* For the chunk, all this is the import future of the module Orchestrator: a   *)
(* verdict, and then calls that leave one of the Leftovers.                     *)
At ==
    CASE pc \in {"party", "items", "refs"} -> "validate"
      [] pc = "call" -> "import"
      [] OTHER -> pc

Seen ==
    IF pc = "call" THEN <<>>
    ELSE [n \in DOMAIN drafts |-> Draft(drafts[n].coded, drafts[n].lines # <<>>)]

Outcome == INSTANCE ImportOutcome WITH
    way <- ImportWay, at <- At, explained <- (stored # {}), left <- Seen

ImplementsOutcome == Outcome!Spec
===============================================================================

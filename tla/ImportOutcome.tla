---------------------------- MODULE ImportOutcome ----------------------------
(* What a chunk sees of the import of one of its documents: the import future   *)
(* of the module Orchestrator, in which the checks are one step and all the     *)
(* calls to Business Central are another.                                       *)
EXTENDS Drafts

VARIABLES
    way,            \* how a document of its kind is imported
    at,             \* where the future is
    status,         \* invoice.status
    explained,      \* it has rows in document_error
    numbered,       \* it has a bc_document_no
    left            \* the drafts in Business Central

vars == <<way, at, status, explained, numbered, left>>

Ends == {"yes", "no", "err", "crash"}

Init ==
    /\ way \in Ways
    /\ at = "validate"
    /\ status = "validated"
    /\ explained = FALSE
    /\ numbered = FALSE
    /\ left = <<>>

Validate ==
    /\ at = "validate"
    /\ at' \in {"import", "errors", "err"}
    /\ UNCHANGED <<status, explained, numbered, left>>

RecordErrors(label, then) ==
    /\ at = label
    /\ \/ explained' = TRUE /\ at' \in {then, "err"}
       \/ at' = "err" /\ UNCHANGED explained
    /\ UNCHANGED <<status, numbered, left>>

SetStatus(label, new, outcome) ==
    /\ at = label
    /\ \/ status' = new /\ at' \in {outcome, "err"}
       \/ at' = "err" /\ UNCHANGED status
    /\ UNCHANGED <<explained, numbered, left>>

ImportOne ==
    /\ at = "import"
    /\ \E ok \in BOOLEAN : /\ at' = IF ok THEN "number" ELSE "reject"
                           /\ left' \in {l.drafts : l \in Leftovers(way, ok)}
    /\ UNCHANGED <<status, explained, numbered>>

SetBcDocumentNo ==
    /\ at = "number"
    /\ \/ numbered' = TRUE /\ at' \in {"imported", "err"}
       \/ at' = "err" /\ UNCHANGED numbered
    /\ UNCHANGED <<status, explained, left>>

Crash ==
    /\ at \notin Ends
    /\ at' = "crash"
    /\ left' \in IF at = "import" THEN CutShort(way) ELSE {left}
    /\ UNCHANGED <<status, explained, numbered>>

Next ==
    \/ Validate
    \/ RecordErrors("errors", "invalid") \/ SetStatus("invalid", "invalid", "no")
    \/ ImportOne
    \/ SetBcDocumentNo \/ SetStatus("imported", "imported", "yes")
    \/ RecordErrors("reject", "failed") \/ SetStatus("failed", "failed", "no")
    \/ Crash

Spec == Init /\ [][Next /\ UNCHANGED way]_vars
===============================================================================

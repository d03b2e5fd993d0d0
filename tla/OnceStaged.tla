------------------------------ MODULE OnceStaged ------------------------------
(* What ingestion promises of the staging store (staging.rs:50-54): a document  *)
(* is staged whole, once for its key, and what is staged is never overwritten;  *)
(* from then on only its status changes.                                        *)
CONSTANTS
    Keys,       \* idempotency keys
    Entries,    \* the documents of the source files, each with its key
    Statuses,   \* statuses of a row
    None        \* no row

VARIABLE staged   \* staged[k]: the document staged with key k and its status

Init == staged = [k \in Keys |-> None]

Stage(e, status) ==
    /\ staged[e.key] = None
    /\ staged' = [staged EXCEPT ![e.key] = [doc |-> e.doc, status |-> status]]

\* Rows that are staged, one or several in a transaction, get a new status.
Move(status) ==
    /\ DOMAIN staged' = Keys
    /\ \A k \in Keys :
           \/ staged'[k] = staged[k]
           \/ staged[k] # None /\ staged'[k] = [staged[k] EXCEPT !.status = status]

Next ==
    \/ \E e \in Entries, status \in {"validated", "failed"} : Stage(e, status)
    \/ \E status \in Statuses : Move(status)

Spec == Init /\ [][Next]_staged
===============================================================================

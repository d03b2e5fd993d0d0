-------------------------------- MODULE Drafts --------------------------------
(* What import_one (main.rs, bc_client.rs) may leave in Business Central for    *)
(* one document, as far as a batch-post job can tell drafts apart: whether they *)
(* carry the batch code, and whether there is anything to post in them.         *)
(*                                                                              *)
(* A document is imported in one of three ways:                                 *)
(*     "tagged"   header, lines, then the batch code (sales, purchase)          *)
(*     "inline"   header with the batch code, lines (service, orders)           *)
(*     "header"   header with the batch code and the only line (assembly,       *)
(*                production)                                                   *)
EXTENDS Sequences

Ways == {"tagged", "inline", "header"}

Draft(coded, postable) == [coded |-> coded, postable |-> postable]

Bare(way) == Draft(way # "tagged", way = "header")   \* the header alone
Partial(way) == Draft(way # "tagged", TRUE)          \* with lines, and no tag call
Whole == Draft(TRUE, TRUE)

\* A way in which the calls may end: the drafts they leave, and the faults it
\* takes.  "reply": the answer to a call is lost, or wrong, after its effect.
Left(made, took) == [drafts |-> made, faults |-> took]

\* BC refuses a call, or the call that is answered wrongly ends the import.
Rejected(way) ==
    {Left(<<>>, {}), Left(<<Whole>>, {"reply"}),
     Left(<<Bare(way)>>, IF way = "header" THEN {"reply"} ELSE {})}
    \union (IF way = "header" THEN {} ELSE {Left(<<Partial(way)>>, {})})

\* "retry": the header was created, its answer a 5xx, and it is sent again.
Leftovers(way, ok) ==
    LET once == IF ok THEN {Left(<<Whole>>, {})} ELSE Rejected(way)
    IN once \union {Left(<<Bare(way)>> \o l.drafts, l.faults \union {"retry"}) : l \in once}

\* What a process that dies in the middle of the calls leaves.
CutShort(way) == {l.drafts : l \in Leftovers(way, FALSE)}
===============================================================================

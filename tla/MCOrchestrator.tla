---------------------------- MODULE MCOrchestrator ----------------------------
(* Instances of Orchestrator for TLC.                                           *)
EXTENDS Orchestrator, TLC

CONSTANTS d1, d2, d3, sales, order, assembly

MCKinds == {sales, order, assembly}
MCInline == {order, assembly}
MCAge == [d \in Docs |-> IF d = d1 THEN 1 ELSE IF d = d2 THEN 2 ELSE 3]

\* A sales invoice first, orders after it; a document of each way to import.
MCKind == [d \in Docs |-> IF d = d1 THEN sales ELSE order]
MCKindEach == [d \in Docs |-> IF d = d1 THEN sales ELSE IF d = d2 THEN assembly ELSE order]
MCKindOrders == [d \in Docs |-> order]

\* External numbers.  BC keeps a code in upper case.
MCExts == {"A", "B", "C", "a"}
MCBcCode == [x \in MCExts |-> IF x = "a" THEN "A" ELSE x]
MCExt == [d \in Docs |-> IF d = d1 THEN "A" ELSE IF d = d2 THEN "B" ELSE "C"]
MCExtLower == [d \in Docs |-> IF d = d1 THEN "a" ELSE IF d = d2 THEN "B" ELSE "C"]
===============================================================================

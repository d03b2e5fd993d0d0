------------------------------ MODULE Documents ------------------------------
(* ingestion/src/canonical.rs, validation.rs and errors.rs: the canonical       *)
(* document, its idempotency key, the checks that need no other data, and the   *)
(* removal of duplicates.                                                       *)
(*                                                                              *)
(* A text is a sequence of atoms: an atom is a word, a number, a delimiter or a *)
(* blank, whatever the code under study never looks inside.                     *)
EXTENDS Integers, Sequences, FiniteSets, SequencesExt

CONSTANTS
    Lower,     \* Lower[a]: to_lowercase of the atom a, where it is another atom
    Numbers,   \* Numbers[t]: the value of the texts that parse as f64
    NaN        \* the value of one of them, which is neither <= 0 nor > 0

Blanks == {" ", "\n", "\r"}

\* str::parse::<f64>().unwrap_or(0.0)
NumberOrZero(t) == IF t \in DOMAIN Numbers THEN Numbers[t] ELSE 0

Trim(t) ==
    LET ink == {i \in DOMAIN t : t[i] \notin Blanks}
    IN IF ink = {} THEN <<>> ELSE SubSeq(t, Min(ink), Max(ink))

Lowered(t) == [i \in DOMAIN t |-> IF t[i] \in DOMAIN Lower THEN Lower[t[i]] ELSE t[i]]

Norm(t) == Lowered(Trim(t))

IsBlank(t) == Trim(t) = <<>>

-------------------------------------------------------------------------------
(* Document types                                                               *)

PartyKinds ==
    [sales |-> "customer", service |-> "customer", purchase |-> "vendor",
     purchase_order |-> "vendor", production_order |-> "none",
     assembly_order |-> "none", transfer_order |-> "none"]

DocTypes == DOMAIN PartyKinds

Aliases ==
    [sales_invoice |-> "sales", purchase_invoice |-> "purchase", service_invoice |-> "service",
     po |-> "purchase_order", prod_order |-> "production_order",
     asm_order |-> "assembly_order", transfer |-> "transfer_order"]

\* from_tag: the type a text names, if it names one.
TypesOf(t) ==
    {k \in DocTypes : Norm(t) = <<k>> \/ \E a \in DOMAIN Aliases : Norm(t) = <<a>> /\ Aliases[a] = k}

-------------------------------------------------------------------------------
(* Documents                                                                    *)

Line(no, desc, qty, price) == [no |-> no, desc |-> desc, qty |-> qty, price |-> price]

Doc(type, ext, partner, date, currency, lines) ==
    [type |-> type, ext |-> ext, partner |-> partner, date |-> date,
     currency |-> currency, lines |-> lines]

\* The length-prefixed parts under a hash without collisions: their tuple.
KeyOf(type, ext, partner) == <<type, Norm(partner), Norm(ext)>>

Key(d) == KeyOf(d.type, d.ext, d.partner)

\* The first of the documents with one key is kept.
KeepFirst(kept, d) ==
    IF \E i \in DOMAIN kept : Key(kept[i]) = Key(d) THEN kept ELSE Append(kept, d)

\* What is kept of the first n documents, for each n.
Kept(ds) ==
    LET kept[n \in 0 .. Len(ds)] == IF n = 0 THEN <<>> ELSE KeepFirst(kept[n - 1], ds[n])
    IN kept

Dedup(ds) == Kept(ds)[Len(ds)]

\* validate: what ingestion itself rejects.
Accepted(d) == ~IsBlank(d.ext) /\ d.lines # <<>>

\* quantity <= 0.0, which is false of NaN.
NotPositive(q) == q # NaN /\ q <= 0

\* An error of a document; line 0 is its header.
Error(line, code) == [line |-> line, code |-> code]

HeaderCodes == {"MISSING_DOCUMENT_NO", "MISSING_PARTNER", "NO_LINES"}
LineCodes == {"MISSING_ITEM_NO", "INVALID_QUANTITY"}

\* validate_fields: all the errors of a document that show without other data.
FieldErrors(d) ==
    LET Missing(code) == \/ code = "MISSING_DOCUMENT_NO" /\ IsBlank(d.ext)
                         \/ code = "MISSING_PARTNER" /\ IsBlank(d.partner)
                         \/ code = "NO_LINES" /\ d.lines = <<>>
        Wrong(i, code) == \/ code = "MISSING_ITEM_NO" /\ IsBlank(d.lines[i].no)
                          \/ code = "INVALID_QUANTITY" /\ NotPositive(d.lines[i].qty)
    IN {e \in {Error(0, c) : c \in HeaderCodes} : Missing(e.code)}
       \union {e \in {Error(i, c) : i \in DOMAIN d.lines, c \in LineCodes} : Wrong(e.line, e.code)}
===============================================================================

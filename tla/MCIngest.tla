------------------------------- MODULE MCIngest -------------------------------
(* Instances of Ingest for TLC: documents, and the files in which a sender may  *)
(* write them.  A file is a record of what it is: its format, the documents its *)
(* sender has put into it, and what is special about it.                        *)
EXTENDS Ingest, TLC

CONSTANTS p1, p2

MCLower == ("INV" :> "inv" @@ "SALES" :> "sales" @@ "V1" :> "v1")
MCNumbers == (<<"2">> :> 2 @@ <<"10">> :> 10 @@ <<"0">> :> 0 @@ <<"nan">> :> NaN)
MCIso == (<<"20260710">> :> <<"2026-07-10">>)

NumberText(n) == CHOOSE t \in DOMAIN MCNumbers : t # <<"nan">> /\ MCNumbers[t] = n

\* Texts that hold a delimiter, and texts that do not.
Plain == <<"INV", "7">>
Awkward == <<"INV", "+", "7", "'", "?", ":">>

LineA(desc) == Line(<<"ITEM-A">>, desc, 10, 2)
LineB == Line(<<"ITEM-B">>, <<"Box">>, 2, 0)

Purchase(ext, ls) == Doc("purchase", ext, <<"V1">>, <<"2026-07-10">>, <<"EUR">>, ls)

-------------------------------------------------------------------------------
(* EDI                                                                          *)

Joined(texts, sep) ==
    FoldLeft(LAMBDA t, n : IF n = 1 THEN texts[1] ELSE t \o <<sep>> \o texts[n], <<>>,
             [n \in DOMAIN texts |-> n])

Escaped(t, d) ==
    FoldLeft(LAMBDA e, a : IF a \in {d.comp, d.elem, d.seg, d.release} THEN e \o <<d.release, a>>
                           ELSE Append(e, a), <<>>, t)

\* Elements are sequences of component texts.
Segment(elements, d, newline) ==
    Joined([e \in DOMAIN elements |->
               Joined([c \in DOMAIN elements[e] |-> Escaped(elements[e][c], d)], d.comp)], d.elem)
        \o (IF newline THEN <<d.seg, "\n">> ELSE <<d.seg>>)

E1(atom) == <<<<atom>>>>

EdifactLine(l) ==
    <<<<<<<<"LIN">>>>, <<<<"1">>>>, <<<<>>>>, <<l.no, <<"EN">>>>>>,
      <<<<<<"IMD">>>>, <<<<"F">>>>, <<<<>>>>, <<<<>>, <<>>, <<>>, l.desc>>>>,
      <<E1("QTY"), <<<<"47">>, NumberText(l.qty)>>>>,
      <<E1("PRI"), <<<<"AAA">>, NumberText(l.price)>>>>>>

\* With the parties, dates and amounts of others around the ones that count.
EdifactSegments(doc) ==
    <<<<E1("UNB"), <<<<"UNOC">>, <<"3">>>>>>,
      <<E1("BGM"), E1("380"), <<doc.ext>>, E1("9")>>,
      <<E1("DTM"), <<<<"137">>, <<"20260710">>, <<"102">>>>>>,
      <<E1("DTM"), <<<<"35">>, <<"20260701">>, <<"102">>>>>>,
      <<E1("NAD"), E1("BY"), <<<<"C9">>>>>>,
      <<E1("NAD"), E1("SU"), <<doc.partner, <<>>, <<"9">>>>>>,
      <<E1("CUX"), <<<<"2">>, doc.currency, <<"4">>>>, <<<<"3">>, <<"USD">>>>>>,
      <<E1("CUX"), <<<<"3">>, <<"USD">>>>>>>>
    \o FlattenSeq([n \in DOMAIN doc.lines |-> EdifactLine(doc.lines[n])])
    \o <<<<E1("UNT"), E1("14")>>>>

Rendered(segments, d, newline) ==
    FlattenSeq([n \in DOMAIN segments |-> Segment(segments[n], d, newline)])

OtherDelims == [comp |-> "|", elem |-> "*", release |-> "\\", seg |-> "~"]

EdifactFile(segments, una, bom, newline) ==
    LET d == IF una THEN OtherDelims ELSE EdiFiles!DefaultDelims
    IN (IF bom THEN <<"BOM">> ELSE <<>>)
       \o (IF una THEN <<"UNA", d.comp, d.elem, ".", d.release, " ", d.seg>> ELSE <<>>)
       \o Rendered(segments, d, newline)

X12Line(l) ==
    <<<<E1("IT1"), E1("1"), <<NumberText(l.qty)>>, E1("EA"), <<NumberText(l.price)>>, <<<<>>>>,
        E1("VP"), <<l.no>>>>,
      <<E1("PID"), E1("F"), <<<<>>>>, <<<<>>>>, <<<<>>>>, <<l.desc>>>>>>

X12Segments(doc, named) ==
    <<<<E1("BIG"), E1("20260710"), <<doc.ext>>, E1("20260701")>>,
      <<E1("CUR"), E1("SE"), <<doc.currency>>>>,
      <<E1("N1"), E1("BY"), E1("Buyer"), E1("92"), E1("C9")>>,
      IF named THEN <<E1("N1"), E1("VN"), <<doc.partner>>>>
      ELSE <<E1("N1"), E1("VN"), E1("Acme"), E1("92"), <<doc.partner>>>>>>
    \o FlattenSeq([n \in DOMAIN doc.lines |-> X12Line(doc.lines[n])])

\* X12 has no release: there is none among the delimiters of its texts.
X12File(doc, named, newline) ==
    LET d == [comp |-> ">", elem |-> "*", release |-> "none", seg |-> "~"]
    IN <<"ISA", "*", "00", ">", "~">> \o Rendered(X12Segments(doc, named), d, newline)

-------------------------------------------------------------------------------
(* XML                                                                          *)

Opened(name) == <<[is |-> "start", name |-> name, text |-> <<>>]>>
Closed(name) == <<[is |-> "end", name |-> name, text |-> <<>>]>>
Text(t) == <<[is |-> "text", name |-> "", text |-> t]>>
Noise == <<[is |-> "other", name |-> "", text |-> <<>>]>> \o Text(<<"\n", " ">>)

Leaf(name, t) == Opened(name) \o Text(t) \o Closed(name)
Node(name, content) == Opened(name) \o Noise \o content \o Closed(name)

\* A sender may put two of the elements in either order.
InOrder(first, a, b) == IF first THEN a \o b ELSE b \o a

UblLine(l, idsFirst) ==
    Node("InvoiceLine",
        Leaf("ID", <<"1">>) \o Leaf("InvoicedQuantity", NumberText(l.qty))
        \o Node("Item", Leaf("Name", l.desc)
            \o InOrder(idsFirst, Node("SellersItemIdentification", Leaf("ID", l.no)),
                                 Node("StandardItemIdentification", Leaf("ID", <<"EAN">>)))
            \o Node("AdditionalItemProperty", Leaf("Name", <<"Colour">>)))
        \o Node("Price", Leaf("PriceAmount", NumberText(l.price))))

UblFile(doc, idsFirst, twoIds) ==
    Node("Invoice",
        Leaf("ID", doc.ext) \o Leaf("IssueDate", doc.date) \o Leaf("DocumentCurrencyCode", doc.currency)
        \o Node("AccountingCustomerParty", Node("Party", Leaf("EndpointID", <<"C9">>)))
        \o Node("AccountingSupplierParty", Node("Party",
               LET id == Node("PartyIdentification", Leaf("ID", doc.partner))
               IN IF twoIds THEN InOrder(idsFirst, id, Leaf("EndpointID", <<"088">>))
                  ELSE IF idsFirst THEN id ELSE Leaf("EndpointID", doc.partner)))
        \o FlattenSeq([n \in DOMAIN doc.lines |-> UblLine(doc.lines[n], idsFirst)])
        \o Node("LegalMonetaryTotal", Leaf("PriceAmount", <<"10">>)))

CiiLine(l) ==
    Node("IncludedSupplyChainTradeLineItem",
        Node("SpecifiedTradeProduct", Leaf("Name", l.desc) \o Leaf("SellerAssignedID", l.no))
        \o Node("SpecifiedLineTradeAgreement",
               Node("NetPriceProductTradePrice", Leaf("ChargeAmount", NumberText(l.price))))
        \o Node("SpecifiedLineTradeDelivery", Leaf("BilledQuantity", NumberText(l.qty))))

\* The date of a CII file is text of format 102, and the parser leaves it so.
CiiFile(doc, nameFirst) ==
    Node("CrossIndustryInvoice",
        Node("ExchangedDocument", Leaf("ID", doc.ext)
            \o Node("IssueDateTime", Leaf("DateTimeString", doc.date)))
        \o FlattenSeq([n \in DOMAIN doc.lines |-> CiiLine(doc.lines[n])])
        \o Node("SellerTradeParty", InOrder(nameFirst, Leaf("Name", <<"Acme">>), Leaf("ID", doc.partner)))
        \o Node("BuyerTradeParty", Leaf("ID", <<"C9">>))
        \o Node("ApplicableHeaderTradeSettlement", Leaf("InvoiceCurrencyCode", doc.currency)))

-------------------------------------------------------------------------------
(* CSV                                                                          *)

CsvRow(doc, l, type) ==
    [ragged |-> FALSE, type |-> type, ext |-> doc.ext, partner |-> <<" ">> \o doc.partner,
     date |-> doc.date, currency |-> doc.currency, no |-> l.no, desc |-> l.desc \o <<" ">>,
     qty |-> NumberText(l.qty), price |-> NumberText(l.price)]

-------------------------------------------------------------------------------
(* The documents                                                                *)

D0(ext) == Purchase(ext, <<>>)
D1(ext) == Purchase(ext, <<LineA(ext)>>)
D2(ext) == Purchase(ext, <<LineA(ext), LineB>>)
Respelled == Purchase(<<"inv", "7">>, <<LineB>>)
Unnumbered == Purchase(<<" ">>, <<LineB>>)
Sale == Doc("sales", Plain, <<"C1">>, <<"2026-07-10">>, <<"EUR">>, <<LineB>>)
Sale2 == [Sale EXCEPT !.lines = <<LineB, LineB>>]

\* A document with the date of a CII file: not an ISO date (canonical.rs:108).
Raw(d) == [d EXCEPT !.date = <<"20260710">>]

\* What becomes of an interchange with two messages, D1(Plain) and D2(Awkward):
\* one document, with the number of the last and the lines of both.
TwoInOne == Purchase(Awkward, <<LineA(Plain), LineA(Awkward), LineB>>)

MCDocuments ==
    {D0(Plain), D0(Awkward), D1(Plain), D2(Plain), D2(Awkward), Respelled, Unnumbered, Sale, Sale2,
     Raw(D0(Plain)), Raw(D1(Plain)), Raw(D2(Awkward)), TwoInOne}

-------------------------------------------------------------------------------
(* The files                                                                    *)

Written(as, docs, features) ==
    {[as |-> as, wrote |-> {docs}, with |-> with] : with \in SUBSET features}

\* Files of which ParsedAsWritten claims nothing: damaged, or with a bad row or
\* object beside good ones, which the parsers refuse with it, or with a BOM before
\* the JSON, which only the sniff reads past, or with two messages.
Unclaimed(as, features) == {[as |-> as, wrote |-> {}, with |-> {f}] : f \in features}

\* Two documents of one key, and one without a number.
Batch == [as |-> "json", wrote |-> {<<D1(Plain), Respelled, Unnumbered>>}, with |-> {}]

MCFiles ==
    {Batch}
    \union Written("json", <<Sale>>, {"single"}) \union Unclaimed("json", {"bom", "type", "syntax"})
    \union UNION {Written("edifact", <<d>>, {"una", "bom", "newline"}) : d \in {D0(Awkward), D2(Awkward)}}
    \union UNION {Written("x12", <<d>>, {"name", "newline"}) : d \in {D1(Plain), D2(Plain)}}
    \union Unclaimed("edifact", {"header", "messages"}) \union Unclaimed("x12", {"short", "header"})
    \union UNION {Written("ubl", <<d>>, {"ids first", "two ids"}) : d \in {D0(Plain), D2(Awkward)}}
    \union UNION {Written("cii", <<d>>, {"name first"}) : d \in {Raw(D0(Plain)), Raw(D2(Awkward))}}
    \union Unclaimed("ubl", {"syntax", "json suffix"})
    \union Written("csv", <<D2(Plain), Sale2>>, {}) \union Written("csv", <<>>, {})
    \union Unclaimed("csv", {"type", "number", "ragged"})
    \union Written("pdf", <<Raw(D1(Plain))>>, {"unnamed"}) \union Unclaimed("pdf", {"unreadable", "empty"})
    \union Unclaimed("text", {"suffix"})

File(suffix, sniff, kind, content) ==
    [suffix |-> suffix, sniff |-> sniff, kind |-> kind, content |-> content]

\* The document of a file, or any where nothing is claimed of it.
Of(f) == IF f.wrote = {} THEN Sale ELSE (CHOOSE ds \in f.wrote : TRUE)[1]

EdifactIn(f) ==
    File(IF f.with = {"una"} THEN "none" ELSE "edi", "UNA", "edi",
         IF "header" \in f.with THEN <<"UNB", "+", "UNOC", "'">>
         ELSE EdifactFile(IF "messages" \in f.with THEN EdifactSegments(D1(Plain)) \o EdifactSegments(D2(Awkward))
                          ELSE EdifactSegments(Of(f)), "una" \in f.with, "bom" \in f.with, "newline" \in f.with))

X12In(f) ==
    File("none", "ISA", "edi",
         IF "short" \in f.with THEN <<"ISA", "*">>
         ELSE IF "header" \in f.with THEN <<"ISA", "*", "00", ">", "~">>
         ELSE X12File(Of(f), "name" \in f.with, "newline" \in f.with))

UblIn(f) ==
    File(IF "json suffix" \in f.with THEN "json" ELSE "xml", "<", "xml",
         IF "syntax" \in f.with THEN Opened("Invoice") \o <<[is |-> "error", name |-> "", text |-> <<>>]>>
         ELSE UblFile(Of(f), "ids first" \in f.with, "two ids" \in f.with))

\* Rows of two documents in turn, spelled in different ways.
CsvRows(with) ==
    LET row == CsvRow(Sale, LineB, <<"sales">>)
    IN IF "type" \in with THEN <<row, [row EXCEPT !.type = <<"credit">>]>>
       ELSE IF "number" \in with THEN <<[row EXCEPT !.qty = <<"ten">>]>>
       ELSE IF "ragged" \in with THEN <<[row EXCEPT !.ragged = TRUE]>>
       ELSE <<CsvRow(D2(Plain), LineA(Plain), <<"purchase">>), row,
              CsvRow(D2(Plain), LineB, <<" ", "purchase_invoice">>),
              [row EXCEPT !.type = <<"SALES">>, !.ext = <<"inv", "7">>]>>

JsonValue(f) ==
    LET type == IF "type" \in f.with THEN <<"order">> ELSE IF "single" \in f.with THEN <<"sales">>
                ELSE <<" ", "SALES">>
        Typed(d) == [d EXCEPT !.type = IF @ = "sales" THEN type ELSE <<"purchase_invoice">>]
        docs == IF f.wrote = {} THEN <<Sale, Sale>> ELSE CHOOSE ds \in f.wrote : TRUE
    IN [ok |-> "syntax" \notin f.with, bom |-> "bom" \in f.with, many |-> "single" \notin f.with,
        objects |-> [n \in DOMAIN docs |-> Typed(docs[n])], object |-> Typed(docs[1])]

Attachment(xml, readable, doc) ==
    [xml |-> xml, readable |-> readable, events |-> CiiFile(doc, TRUE)]

Attachments(f) ==
    IF "empty" \in f.with THEN <<>>
    ELSE IF "unreadable" \in f.with THEN <<Attachment(TRUE, FALSE, Of(f))>>
    ELSE IF "unnamed" \in f.with THEN <<Attachment(FALSE, TRUE, Of(f)), Attachment(FALSE, TRUE, D0(Plain))>>
    ELSE <<Attachment(FALSE, TRUE, D0(Plain)), Attachment(TRUE, FALSE, D0(Plain)),
           Attachment(TRUE, TRUE, Of(f)), Attachment(TRUE, TRUE, D0(Plain))>>

MCContent(f) ==
    CASE f.as = "edifact" -> EdifactIn(f)
      [] f.as = "x12" -> X12In(f)
      [] f.as = "ubl" -> UblIn(f)
      [] f.as = "cii" -> File("none", "<", "xml", CiiFile(Of(f), "name first" \in f.with))
      [] f.as = "csv" -> File("csv", "none", "csv", IF f.wrote = {<<>>} THEN <<>> ELSE CsvRows(f.with))
      [] f.as = "json" -> File("none", IF "bom" \in f.with THEN "BOM{" ELSE "[", "json", JsonValue(f))
      [] f.as = "pdf" -> File("pdf", "%PDF", "pdf", Attachments(f))
      [] f.as = "text" -> File("txt", "none", "text", <<>>)

MCWrote(f) == f.wrote

\* One process is given any of the files, the other the batch.
MCInbox == (p1 :> MCFiles @@ p2 :> {Batch})
===============================================================================

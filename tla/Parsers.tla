------------------------------- MODULE Parsers -------------------------------
(* ingestion/src/parsers: how the format of a file is found, the CSV, JSON and  *)
(* PDF parsers, and the registry that picks a parser.                           *)
(*                                                                              *)
(* A file has a suffix, the beginning of its content (what a sniff sees) and a  *)
(* content of some kind.  A parse is the set of its results: one sequence of    *)
(* documents, or none when there is an error.                                   *)
EXTENDS Documents

CONSTANT Iso

EdiFiles == INSTANCE Edi
XmlFiles == INSTANCE Xml

Formats == {"csv", "xml", "json", "pdf", "edi"}

-------------------------------------------------------------------------------
(* CSV: a sequence of rows of texts; a row that lacks a column is "ragged"      *)

RowOk(row) ==
    ~row.ragged /\ Trim(row.qty) \in DOMAIN Numbers /\ Trim(row.price) \in DOMAIN Numbers
        /\ TypesOf(row.type) # {}

RowLine(row) ==
    Line(Trim(row.no), Trim(row.desc), Numbers[Trim(row.qty)], Numbers[Trim(row.price)])

RowDoc(row) ==
    Doc(CHOOSE k \in TypesOf(row.type) : TRUE, Trim(row.ext), Trim(row.partner),
        Trim(row.date), Trim(row.currency), <<RowLine(row)>>)

\* MUTANT of Grouped: only the row before is looked at.
Grouped_Adjacent(docs, row) ==
    LET new == RowDoc(row)
    IN IF docs # <<>> /\ Key(Last(docs)) = Key(new)
       THEN [docs EXCEPT ![Len(docs)].lines = @ \o new.lines]
       ELSE Append(docs, new)

\* A row is a line of the first document with its key: the header of that
\* document stays what its first row says.
Grouped(docs, row) ==
    LET new == RowDoc(row)
        same == {i \in DOMAIN docs : Key(docs[i]) = Key(new)}
    IN IF same = {} THEN Append(docs, new)
       ELSE [docs EXCEPT ![Min(same)].lines = @ \o new.lines]

\* One bad row fails the file.
ParseCsv(rows) ==
    IF \A i \in DOMAIN rows : RowOk(rows[i]) THEN {FoldLeft(Grouped, <<>>, rows)} ELSE {}

-------------------------------------------------------------------------------
(* JSON: an array of objects or a single one.  `ok`: serde accepts it, which     *)
(* it does not after a BOM, although the sniff reads past one.                   *)

ParseJson(value) ==
    LET objects == IF value.many THEN value.objects ELSE <<value.object>>
    IN IF value.ok /\ ~value.bom /\ \A i \in DOMAIN objects : TypesOf(objects[i].type) # {}
       THEN {[i \in DOMAIN objects |-> [objects[i] EXCEPT !.type = CHOOSE k \in TypesOf(@) : TRUE]]}
       ELSE {}

-------------------------------------------------------------------------------
(* PDF: the embedded files, in order                                            *)

\* extract_embedded_xml: the first that is named .xml, or else the first.
InvoiceXml(attachments) ==
    LET readable == SelectSeq(attachments, LAMBDA a : a.readable)
        named == SelectSeq(readable, LAMBDA a : a.xml)
    IN IF named # <<>> THEN {Head(named).events}
       ELSE IF readable # <<>> THEN {Head(readable).events} ELSE {}

ParsePdf(attachments) == UNION {XmlFiles!ParseXml(events) : events \in InvoiceXml(attachments)}

-------------------------------------------------------------------------------
(* The registry                                                                 *)

BySuffix == {<<"csv", "csv">>, <<"xml", "xml">>, <<"json", "json">>, <<"pdf", "pdf">>,
             <<"edi", "edi">>, <<"edifact", "edi">>}

BySniff == {<<"%PDF", "pdf">>, <<"UNA", "edi">>, <<"UNB", "edi">>, <<"ISA", "edi">>,
            <<"<", "xml">>, <<"{", "json">>, <<"[", "json">>, <<"BOM{", "json">>}

Listed(table, mark) == {row[2] : row \in {row \in table : row[1] = mark}}

\* detect_format: the suffix, and only without a known one the content.
DetectFormat(file) ==
    IF Listed(BySuffix, file.suffix) # {} THEN Listed(BySuffix, file.suffix)
    ELSE Listed(BySniff, file.sniff)

\* What a parser makes of several lines of another format: the XML reader finds
\* no invoice in them, the others refuse them.
Misread(format) == IF format = "xml" THEN {<<>>} ELSE {}

ParseAs(format, file) ==
    IF format # file.kind THEN Misread(format)
    ELSE CASE format = "csv" -> ParseCsv(file.content)
           [] format = "xml" -> XmlFiles!ParseXml(file.content)
           [] format = "json" -> ParseJson(file.content)
           [] format = "pdf" -> ParsePdf(file.content)
           [] format = "edi" -> EdiFiles!ParseEdi(file.content)

ParseFile(file) == UNION {ParseAs(format, file) : format \in DetectFormat(file)}
===============================================================================

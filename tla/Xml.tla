--------------------------------- MODULE Xml ---------------------------------
(* ingestion/src/parsers/xml.rs: UBL and CII invoices, as the sequence of       *)
(* events the XML reader makes of a file:                                       *)
(*     [is |-> "start" or "end", name |-> the local name]                       *)
(*     [is |-> "text", text |-> the unescaped text]                             *)
(*     [is |-> "other"]      a comment, a declaration, an empty element         *)
(*     [is |-> "error"]      what the reader refuses, a mismatched end tag      *)
(* The reader lets a file end inside of elements.                               *)
EXTENDS Documents

Roots == {"Invoice", "CrossIndustryInvoice"}
LineStarts == {"InvoiceLine", "IncludedSupplyChainTradeLineItem"}

\* A text goes to the field of the first rule whose path ends the path of
\* elements around it.  "weak": only if the field is still empty.
Rule(path, field, how) == [path |-> path, field |-> field, how |-> how]

LineRules == <<
    Rule(<<"Item", "SellersItemIdentification", "ID">>, "no", "set"),
    Rule(<<"Item", "StandardItemIdentification", "ID">>, "no", "weak"),
    Rule(<<"Item", "Name">>, "desc", "set"),
    Rule(<<"InvoiceLine", "InvoicedQuantity">>, "qty", "number"),
    Rule(<<"Price", "PriceAmount">>, "price", "number"),
    Rule(<<"SpecifiedTradeProduct", "SellerAssignedID">>, "no", "set"),
    Rule(<<"SpecifiedTradeProduct", "Name">>, "desc", "set"),
    Rule(<<"SpecifiedLineTradeDelivery", "BilledQuantity">>, "qty", "number"),
    Rule(<<"NetPriceProductTradePrice", "ChargeAmount">>, "price", "number")>>

HeaderRules == <<
    Rule(<<"Invoice", "ID">>, "ext", "set"),
    Rule(<<"Invoice", "IssueDate">>, "date", "set"),
    Rule(<<"Invoice", "DocumentCurrencyCode">>, "currency", "set"),
    Rule(<<"AccountingSupplierParty", "Party", "PartyIdentification", "ID">>, "partner", "set"),
    Rule(<<"AccountingSupplierParty", "Party", "EndpointID">>, "partner", "weak"),
    Rule(<<"ExchangedDocument", "ID">>, "ext", "set"),
    Rule(<<"IssueDateTime", "DateTimeString">>, "date", "set"),
    Rule(<<"ApplicableHeaderTradeSettlement", "InvoiceCurrencyCode">>, "currency", "set"),
    Rule(<<"SellerTradeParty", "ID">>, "partner", "set"),
    Rule(<<"SellerTradeParty", "Name">>, "partner", "weak")>>

Applicable(rules, stack) == SelectSeq(rules, LAMBDA r : IsSuffix(r.path, stack))

\* MUTANT of Put: a weak identifier that comes later replaces the strong one.
Put_Always(record, rule, text) ==
    [record EXCEPT ![rule.field] = IF rule.how = "number" THEN NumberOrZero(text) ELSE text]

Put(record, rule, text) ==
    [record EXCEPT ![rule.field] = CASE rule.how = "set" -> text
                                     [] rule.how = "weak" -> IF @ = <<>> THEN text ELSE @
                                     [] rule.how = "number" -> NumberOrZero(text)]

\* What the parser has put together; inv and line hold one record or none.
Parsing == [stack |-> <<>>, inv |-> <<>>, line |-> <<>>, error |-> FALSE]

NewInvoice == Doc("purchase", <<>>, <<>>, <<>>, <<>>, <<>>)
NewXmlLine == Line(<<>>, <<>>, 0, 0)

Start(p, name) ==
    [p EXCEPT !.stack = Append(@, name),
              !.inv = IF name \in Roots THEN <<NewInvoice>> ELSE @,
              !.line = IF name \in LineStarts THEN <<NewXmlLine>> ELSE @]

End(p, name) ==
    [p EXCEPT !.stack = IF @ = <<>> THEN @ ELSE Front(@),
              !.inv = IF name \in LineStarts /\ @ # <<>> THEN <<[@[1] EXCEPT !.lines = @ \o p.line]>> ELSE @,
              !.line = IF name \in LineStarts THEN <<>> ELSE @]

\* Inside a line the line rules come first.
Assign(p, text) ==
    LET inLine == IF p.line = <<>> THEN <<>> ELSE Applicable(LineRules, p.stack)
        inHeader == Applicable(HeaderRules, p.stack)
    IN IF p.inv = <<>> THEN p
       ELSE IF inLine # <<>> THEN [p EXCEPT !.line[1] = Put(@, Head(inLine), text)]
       ELSE IF inHeader # <<>> THEN [p EXCEPT !.inv[1] = Put(@, Head(inHeader), text)]
       ELSE p

XmlEvent(p, e) ==
    CASE p.error -> p
      [] ~p.error /\ e.is = "start" -> Start(p, e.name)
      [] ~p.error /\ e.is = "end" -> End(p, e.name)
      [] ~p.error /\ e.is = "text" -> IF IsBlank(e.text) THEN p ELSE Assign(p, Trim(e.text))
      [] ~p.error /\ e.is = "other" -> p
      [] ~p.error /\ e.is = "error" -> [p EXCEPT !.error = TRUE]

\* No invoice is not an error.
ParseXml(events) ==
    LET p == FoldLeft(XmlEvent, Parsing, events)
    IN IF p.error THEN {} ELSE {p.inv}
===============================================================================

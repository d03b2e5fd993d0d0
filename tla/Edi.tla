--------------------------------- MODULE Edi ---------------------------------
(* ingestion/src/parsers/edi.rs: EDIFACT INVOIC and X12 810.  A file is a text; *)
(* its parse is the set of results, empty when the parser returns an error.     *)
EXTENDS Documents

CONSTANT Iso   \* Iso[t]: the ISO form of the texts that are eight digits

BOM == "BOM"

StripBom(text) == IF text # <<>> /\ text[1] = BOM THEN Tail(text) ELSE text

TrimStart(text) ==
    LET ink == {i \in DOMAIN text : text[i] \notin Blanks}
    IN IF ink = {} THEN <<>> ELSE SubSeq(text, Min(ink), Len(text))

-------------------------------------------------------------------------------
(* Segments, which are sequences of elements, which are sequences of components *)

DefaultDelims == [comp |-> ":", elem |-> "+", release |-> "?", seg |-> "'"]

\* What the tokenizer has put together: the segments, and the elements,
\* components and text of the segment it is in.
Reading == [segs |-> <<>>, elems |-> <<>>, comps |-> <<>>, cur |-> <<>>, released |-> FALSE]

EndComponent(r) == [r EXCEPT !.comps = Append(@, r.cur), !.cur = <<>>]

EndElement(r) ==
    LET c == EndComponent(r) IN [c EXCEPT !.elems = Append(@, c.comps), !.comps = <<>>]

EndSegment(r) ==
    LET e == EndElement(r) IN [e EXCEPT !.segs = Append(@, e.elems), !.elems = <<>>]

Unquoted(r, a, d) ==
    CASE a = d.release -> [r EXCEPT !.released = TRUE]
      [] a = d.comp -> EndComponent(r)
      [] a = d.elem -> EndElement(r)
      [] a = d.seg -> EndSegment(r)
      [] a \in {"\n", "\r"} -> r
      [] OTHER -> [r EXCEPT !.cur = Append(@, a)]

Quoted(r, a) == [r EXCEPT !.cur = Append(@, a), !.released = FALSE]

\* A release atom quotes the next one; a segment that is not ended is lost.
Tokenize(text, d) ==
    FoldLeft(LAMBDA r, a : IF r.released THEN Quoted(r, a) ELSE Unquoted(r, a, d),
             Reading, text).segs

SplitAt(text, a) ==
    FoldLeft(LAMBDA parts, b : IF b = a THEN Append(parts, <<>>)
                               ELSE [parts EXCEPT ![Len(parts)] = Append(@, b)], <<<<>>>>, text)

\* X12 has no release; what follows the last terminator is a segment as well.
TokenizeX12(text, d) ==
    LET raw == [n \in DOMAIN SplitAt(text, d.seg) |-> Trim(SplitAt(text, d.seg)[n])]
        Elements(s) == [n \in DOMAIN SplitAt(s, d.elem) |-> SplitAt(SplitAt(s, d.elem)[n], d.comp)]
        full == SelectSeq(raw, LAMBDA s : s # <<>>)
    IN [n \in DOMAIN full |-> Elements(full[n])]

\* at(seg, e, c), counted from 0.
Has(seg, e, c) == e < Len(seg) /\ c < Len(seg[e + 1])
At(seg, e, c) == IF Has(seg, e, c) THEN seg[e + 1][c + 1] ELSE <<>>
Tag(seg) == At(seg, 0, 0)

IsoDate(raw, fmt) == IF fmt = <<"102">> /\ raw \in DOMAIN Iso THEN Iso[raw] ELSE raw

-------------------------------------------------------------------------------
(* The invoice a message builds, segment by segment                            *)

\* `line`: the line in progress, if there is one.
NoInvoice == [saw |-> FALSE, ext |-> <<>>, partner |-> <<>>, date |-> <<>>,
              currency |-> <<>>, lines |-> <<>>, line |-> <<>>]

NewLine == Line(<<>>, <<>>, 0, 0)

LineEnded(b) == [b EXCEPT !.lines = @ \o b.line, !.line = <<>>]

\* MUTANT of LineStarted: the line in progress is dropped.
LineStarted_Dropped(b, line) == [b EXCEPT !.line = <<line>>]

LineStarted(b, line) == [LineEnded(b) EXCEPT !.line = <<line>>]

InLine(b, field, value) == IF b.line = <<>> THEN b ELSE [b EXCEPT !.line[1][field] = value]

\* The last component of an element that is not empty.
LastFull(components) ==
    LET full == SelectSeq(components, LAMBDA c : c # <<>>)
    IN IF full = <<>> THEN <<>> ELSE Last(full)

Edifact(b, s) ==
    CASE Tag(s) = <<"BGM">> ->
            [b EXCEPT !.saw = TRUE, !.ext = IF Has(s, 2, 0) THEN At(s, 2, 0) ELSE @]
      [] Tag(s) = <<"DTM">> /\ At(s, 1, 0) \in {<<"137">>, <<"3">>} ->
            [b EXCEPT !.date = IsoDate(At(s, 1, 1), At(s, 1, 2))]
      [] Tag(s) = <<"CUX">> /\ b.currency = <<>> -> [b EXCEPT !.currency = At(s, 1, 1)]
      [] Tag(s) = <<"NAD">> /\ At(s, 1, 0) = <<"SU">> /\ Has(s, 2, 0) ->
            [b EXCEPT !.partner = At(s, 2, 0)]
      [] Tag(s) = <<"LIN">> -> LineStarted(b, [NewLine EXCEPT !.no = At(s, 3, 0)])
      [] Tag(s) = <<"IMD">> /\ Len(s) > 3 /\ LastFull(s[4]) # <<>> ->
            InLine(b, "desc", LastFull(s[4]))
      [] Tag(s) = <<"QTY">> /\ Has(s, 1, 1) -> InLine(b, "qty", NumberOrZero(At(s, 1, 1)))
      [] Tag(s) = <<"PRI">> /\ Has(s, 1, 1) -> InLine(b, "price", NumberOrZero(At(s, 1, 1)))
      [] OTHER -> b

X12(b, s) ==
    CASE Tag(s) = <<"BIG">> ->
            [b EXCEPT !.saw = TRUE, !.date = IsoDate(At(s, 1, 0), <<"102">>),
                      !.ext = IF Has(s, 2, 0) THEN At(s, 2, 0) ELSE @]
      [] Tag(s) = <<"CUR">> /\ b.currency = <<>> -> [b EXCEPT !.currency = At(s, 2, 0)]
      [] Tag(s) = <<"N1">> /\ At(s, 1, 0) = <<"VN">> ->
            [b EXCEPT !.partner = IF At(s, 4, 0) # <<>> THEN At(s, 4, 0) ELSE At(s, 2, 0)]
      [] Tag(s) = <<"IT1">> ->
            LineStarted(b, Line(At(s, 7, 0), <<>>, NumberOrZero(At(s, 2, 0)), NumberOrZero(At(s, 4, 0))))
      [] Tag(s) = <<"PID">> /\ At(s, 5, 0) # <<>> -> InLine(b, "desc", At(s, 5, 0))
      [] OTHER -> b

\* A received invoice is a purchase invoice, and a file holds one.
Built(b) ==
    LET e == LineEnded(b)
    IN IF e.saw THEN {<<Doc("purchase", e.ext, e.partner, e.date, e.currency, e.lines)>>} ELSE {}

\* The service string gives the delimiters: UNA : + . ? blank '
ParseEdifact(text) ==
    LET una == Len(text) >= 7 /\ text[1] = "UNA"
        d == IF una THEN [comp |-> text[2], elem |-> text[3], release |-> text[5], seg |-> text[7]]
             ELSE DefaultDelims
    IN Built(FoldLeft(Edifact, NoInvoice, Tokenize(IF una THEN SubSeq(text, 8, Len(text)) ELSE text, d)))

\* The 106 bytes of the ISA header: ISA elem other-fields comp seg.
ParseX12(text) ==
    IF Len(text) < 5 THEN {}
    ELSE Built(FoldLeft(X12, NoInvoice,
            TokenizeX12(text, [elem |-> text[2], comp |-> text[4], seg |-> text[5]])))

ParseEdi(content) ==
    LET text == TrimStart(StripBom(content))
    IN IF text # <<>> /\ text[1] = "ISA" THEN ParseX12(text) ELSE ParseEdifact(text)
===============================================================================

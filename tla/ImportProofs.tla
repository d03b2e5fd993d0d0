------------------------------ MODULE ImportProofs ------------------------------
(* Proof that ImportDocument never gives its batch code to a sales or purchase  *)
(* invoice before it has all its lines, for any document, tables, and order of  *)
(* answers, retries and faults.                                                 *)
EXTENDS ImportDocument, SequenceTheorems, TLAPS

\* Sequences, of whatever elements.
IsSeq(s) == \E S : s \in Seq(S)

(* Appending, and changing one element, leave a sequence.                       *)
LEMMA SeqChanges ==
  ASSUME NEW s, IsSeq(s), NEW x
  PROVE  /\ Len(s) \in Nat /\ DOMAIN s = 1 .. Len(s)
         /\ IsSeq(Append(s, x)) /\ Len(Append(s, x)) = Len(s) + 1
         /\ Append(s, x)[Len(s) + 1] = x
         /\ \A n \in 1 .. Len(s) : Append(s, x)[n] = s[n]
         /\ \A i \in 1 .. Len(s) : /\ IsSeq([s EXCEPT ![i] = x]) /\ Len([s EXCEPT ![i] = x]) = Len(s)
  <1>1. PICK S : s \in Seq(S)
    BY DEF IsSeq
  <1> DEFINE T == S \union {x}
  <1>2. s \in Seq(T) /\ x \in T
    BY <1>1
  <1> HIDE DEF T
  <1>3. Append(s, x) \in Seq(T) /\ \A i \in 1 .. Len(s) : [s EXCEPT ![i] = x] \in Seq(T)
    BY <1>2
  <1> QED
    BY <1>2, <1>3 DEF IsSeq

-------------------------------------------------------------------------------
(* The invariant                                                                *)

N == Len(inv.lines)

InvType == "lines" \in DOMAIN inv /\ IsSeq(inv.lines)

\* The calls of a tagged document.
NthCall(m) ==
    IF m = 1 THEN Call("header", 0) ELSE IF m = N + 2 THEN Call("tag", 0) ELSE Call("line", m - 1)

\* The last draft has the first n lines.
HasLines(n) == \A i \in 1 .. n : inv.lines[i] \in ToSet(drafts[Len(drafts)].lines)

\* m is the next call, and the lines before it are in the last draft.
AtCall(m) ==
    /\ calls = [k \in 1 .. N + 3 - m |-> NthCall(m + k - 1)]
    /\ m > 1 => drafts # <<>> /\ HasLines(m - 2)

DraftTypes ==
    /\ IsSeq(drafts)
    /\ \A n \in 1 .. Len(drafts) : /\ DOMAIN drafts[n] = {"partner", "coded", "lines"}
                                   /\ IsSeq(drafts[n].lines)

CodedComplete == \A n \in 1 .. Len(drafts) : drafts[n].coded => Complete(drafts[n])

Early == pc \in {"party", "items", "refs"}

IInv ==
    ImportWay = "tagged" =>
        /\ InvType
        /\ DraftTypes
        /\ CodedComplete
        /\ Early => drafts = <<>>
        /\ pc = "call" => \E m \in 1 .. N + 2 : AtCall(m)

(* Nothing is sent before the verdict.                                          *)
LEMMA InvInit == Init => IInv
  <1> SUFFICES ASSUME Init PROVE IInv
    OBVIOUS
  <1>1. source \in Sources /\ inv = source /\ pc = "party" /\ drafts = <<>>
    BY DEF Init
  <1>2. source = Doc(source.type, source.ext, source.partner, source.date, source.currency, source.lines)
    BY <1>1, SourcesAssumption
  <1>3. "lines" \in DOMAIN source
    BY <1>2 DEF Doc
  <1>4. IsSeq(source.lines)
    BY <1>1, SourcesAssumption DEF IsSeq
  <1>5. IsSeq(drafts)
    <2>1. drafts \in Seq({})
      BY <1>1
    <2> QED
      BY <2>1 DEF IsSeq
  <1> QED
    BY <1>1, <1>3, <1>4, <1>5 DEF IInv, InvType, DraftTypes, CodedComplete

(* The elements of two sequences one after the other.                           *)
LEMMA Concatenation ==
  ASSUME NEW S, NEW a \in Seq(S), NEW b \in Seq(S)
  PROVE  /\ a \o b \in Seq(S) /\ Len(a \o b) = Len(a) + Len(b)
         /\ \A k \in 1 .. Len(a) : (a \o b)[k] = a[k]
         /\ \A k \in 1 .. Len(b) : (a \o b)[Len(a) + k] = b[k]
  BY ConcatProperties

(* The calls of a tagged document are its header, its lines and the tag.        *)
LEMMA CallsAre ==
  ASSUME InvType, ImportWay = "tagged"
  PROVE  ImportCalls = [k \in 1 .. N + 2 |-> NthCall(k)]
  <1> DEFINE Calls == [entity : {"header", "line", "tag"}, of : Nat]
             h == <<Call("header", 0)>>
             t == <<Call("tag", 0)>>
             c == [k \in 1 .. N + 2 |-> NthCall(k)]
  <1>1. N \in Nat /\ DOMAIN inv.lines = 1 .. N
    BY SeqChanges DEF InvType, N
  <1>2. \A i \in Nat : Call("line", i) \in Calls /\ Call("header", i) \in Calls /\ Call("tag", i) \in Calls
    BY DEF Call
  <1> HIDE DEF Calls
  <1>3. LineCalls = [i \in 1 .. N |-> Call("line", i)]
    BY <1>1 DEF LineCalls
  <1>4. LineCalls \in Seq(Calls) /\ Len(LineCalls) = N
    <2>1. LineCalls \in [1 .. N -> Calls]
      BY <1>1, <1>2, <1>3
    <2> QED
      BY <1>1, <2>1
  <1>5. h \in Seq(Calls) /\ t \in Seq(Calls) /\ Len(h) = 1 /\ Len(t) = 1
    BY <1>2
  <1>6. h[1] = Call("header", 0) /\ t[1] = Call("tag", 0)
    OBVIOUS
  <1>7. ImportCalls = (h \o LineCalls) \o t
    BY DEF ImportCalls
  <1> HIDE DEF h, t
  <1>8. /\ h \o LineCalls \in Seq(Calls) /\ Len(h \o LineCalls) = N + 1
        /\ \A k \in 1 .. N + 1 : (h \o LineCalls)[k] = NthCall(k)
    <2> DEFINE hl == h \o LineCalls
    <2>1. hl \in Seq(Calls) /\ Len(hl) = N + 1 /\ hl[1] = h[1] /\ \A k \in 1 .. N : hl[1 + k] = LineCalls[k]
      <3>0. h \in Seq(Calls) /\ LineCalls \in Seq(Calls)
        BY <1>4, <1>5
      <3>1. /\ hl \in Seq(Calls) /\ Len(hl) = Len(h) + Len(LineCalls)
            /\ \A k \in 1 .. Len(h) : hl[k] = h[k]
            /\ \A k \in 1 .. Len(LineCalls) : hl[Len(h) + k] = LineCalls[k]
        BY <3>0, Concatenation, SMT DEF hl
      <3> HIDE DEF hl
      <3> QED
        BY <1>1, <1>4, <1>5, <3>1
    <2> HIDE DEF hl
    <2>2. hl[1] = NthCall(1)
      BY <1>6, <2>1 DEF NthCall
    <2>3. ASSUME NEW k \in 2 .. N + 1 PROVE hl[k] = NthCall(k)
      <3>1. hl[1 + (k - 1)] = LineCalls[k - 1] /\ 1 + (k - 1) = k
        BY <1>1, <2>1
      <3>2. LineCalls[k - 1] = Call("line", k - 1)
        BY <1>1, <1>3
      <3> QED
        BY <1>1, <3>1, <3>2 DEF NthCall
    <2>4. \A k \in 1 .. N + 1 : hl[k] = NthCall(k)
      BY <1>1, <2>2, <2>3
    <2> QED
      BY <2>1, <2>4 DEF hl
  <1> DEFINE s == h \o LineCalls
  <1> HIDE DEF s
  <1>9. s \in Seq(Calls) /\ Len(s) = N + 1 /\ \A k \in 1 .. N + 1 : s[k] = NthCall(k)
    BY <1>8 DEF s
  <1> DEFINE all == s \o t
  <1>10. all \in Seq(Calls) /\ Len(all) = N + 2 /\ (\A k \in 1 .. N + 1 : all[k] = s[k]) /\ all[N + 2] = t[1]
    <2>0. s \in Seq(Calls) /\ t \in Seq(Calls)
      BY <1>5, <1>9
    <2>1. /\ all \in Seq(Calls) /\ Len(all) = Len(s) + Len(t)
          /\ \A k \in 1 .. Len(s) : all[k] = s[k]
          /\ \A k \in 1 .. Len(t) : all[Len(s) + k] = t[k]
      BY <2>0, Concatenation, SMT DEF all
    <2> HIDE DEF all
    <2> QED
      BY <1>1, <1>5, <1>9, <2>1
  <1> HIDE DEF all
  <1>11. \A k \in 1 .. N + 2 : all[k] = NthCall(k)
    <2>1. ASSUME NEW k \in 1 .. N + 2, k # N + 2 PROVE all[k] = NthCall(k)
      BY <1>1, <1>9, <1>10, <2>1
    <2>2. all[N + 2] = NthCall(N + 2)
      BY <1>1, <1>6, <1>10 DEF NthCall
    <2> QED
      BY <2>1, <2>2
  <1>12. all = [k \in 1 .. N + 2 |-> all[k]]
    BY <1>10
  <1>13. all = [k \in 1 .. N + 2 |-> NthCall(k)]
    BY <1>11, <1>12, Zenon
  <1> QED
    BY <1>7, <1>13 DEF all, s

-------------------------------------------------------------------------------
(* One call                                                                     *)

(* The first element of a sequence, and the others.                             *)
LEMMA Rest ==
  ASSUME NEW S, NEW s \in Seq(S), Len(s) > 0
  PROVE  /\ Head(s) = s[1] /\ Tail(s) \in Seq(S) /\ Len(Tail(s)) = Len(s) - 1
         /\ \A k \in 1 .. Len(s) - 1 : Tail(s)[k] = s[k + 1]
  <1>1. s # <<>>
    OBVIOUS
  <1> QED
    BY <1>1, HeadTailProperties

(* Once the first of the calls is answered, the others are left.                *)
LEMMA CallsLeft ==
  ASSUME InvType, NEW m \in 1 .. N + 2,
         calls = [k \in 1 .. N + 3 - m |-> NthCall(m + k - 1)]
  PROVE  /\ Head(calls) = NthCall(m) /\ Len(calls) = N + 3 - m
         /\ Len(calls) # 1 =>
                /\ m + 1 \in 1 .. N + 2
                /\ Tail(calls) = [k \in 1 .. N + 3 - (m + 1) |-> NthCall(m + 1 + k - 1)]
  <1> DEFINE S == {NthCall(k) : k \in 1 .. N + 2}
             left == [k \in 1 .. N + 3 - (m + 1) |-> NthCall(m + 1 + k - 1)]
  <1>1. N \in Nat
    BY SeqChanges DEF InvType, N
  <1>2. /\ calls \in Seq(S) /\ Len(calls) = N + 3 - m
        /\ \A k \in 1 .. N + 3 - m : calls[k] = NthCall(m + k - 1)
    <2>1. ASSUME NEW k \in 1 .. N + 3 - m PROVE NthCall(m + k - 1) \in S
      <3>1. m + k - 1 \in 1 .. N + 2
        BY <1>1
      <3> QED
        BY <3>1, Zenon
    <2> HIDE DEF S
    <2> QED
      BY <1>1, <2>1
  <1>3. left \in Seq(S) /\ Len(left) = N + 2 - m /\ \A k \in 1 .. N + 2 - m : left[k] = NthCall(m + k)
    <2>1. ASSUME NEW k \in 1 .. N + 3 - (m + 1)
          PROVE  NthCall(m + 1 + k - 1) \in S /\ m + 1 + k - 1 = m + k
      <3>1. m + 1 + k - 1 \in 1 .. N + 2 /\ m + 1 + k - 1 = m + k
        BY <1>1
      <3> QED
        BY <3>1, Zenon
    <2>2. N + 3 - (m + 1) = N + 2 - m /\ N + 2 - m \in Nat
      BY <1>1
    <2> HIDE DEF S
    <2> QED
      BY <1>1, <2>1, <2>2
  <1> HIDE DEF S, left
  <1>4. /\ Head(calls) = calls[1] /\ Tail(calls) \in Seq(S) /\ Len(Tail(calls)) = Len(calls) - 1
        /\ \A k \in 1 .. Len(calls) - 1 : Tail(calls)[k] = calls[k + 1]
    <2>1. calls \in Seq(S) /\ Len(calls) > 0
      BY <1>1, <1>2
    <2> QED
      BY <2>1, Rest, Zenon
  <1>5. /\ Tail(calls) \in Seq(S) /\ Len(Tail(calls)) = N + 2 - m
        /\ \A k \in 1 .. N + 2 - m : Tail(calls)[k] = calls[k + 1]
    <2>1. Len(calls) - 1 = N + 2 - m
      BY <1>1, <1>2
    <2> QED
      BY <1>4, <2>1
  <1>6. \A k \in 1 .. N + 2 - m : Tail(calls)[k] = left[k]
    <2>1. TAKE k \in 1 .. N + 2 - m
    <2>2. k + 1 \in 1 .. N + 3 - m /\ m + (k + 1) - 1 = m + k
      BY <1>1
    <2> QED
      BY <1>2, <1>3, <1>5, <2>2
  <1>7. Tail(calls) = left
    BY <1>3, <1>5, <1>6, SeqEqual
  <1>8. Head(calls) = NthCall(m)
    BY <1>1, <1>2, <1>4
  <1> QED
    BY <1>1, <1>2, <1>7, <1>8 DEF left

(* The effect of a call: a header is a draft of its own, without the code; a    *)
(* line goes to the last draft; and the tag finds all the lines there.          *)
LEMMA EffectKeeps ==
  ASSUME InvType, ImportWay = "tagged", DraftTypes, CodedComplete,
         NEW m \in 1 .. N + 2, AtCall(m), Effect, inv' = inv
  PROVE  /\ DraftTypes' /\ CodedComplete'
         /\ drafts' # <<>>
         /\ m <= N + 1 => HasLines(m - 1)'
         /\ m > 1 => HasLines(m - 2)'
  <1> DEFINE L == Len(drafts)
  <1>1. N \in Nat /\ DOMAIN inv.lines = 1 .. N /\ L \in Nat /\ DOMAIN drafts = 1 .. L
    BY SeqChanges DEF InvType, DraftTypes, N
  <1>2. Head(calls) = NthCall(m)
    BY CallsLeft DEF AtCall
  <1>3. CASE m = 1
    <2>1. drafts' = Append(drafts, NewDraft)
      BY <1>2, <1>3 DEF Effect, NthCall, Call
    <2>2. NewDraft = [partner |-> inv.partner, coded |-> FALSE, lines |-> <<>>]
      BY DEF NewDraft
    <2>3. IsSeq(NewDraft.lines) /\ DOMAIN NewDraft = {"partner", "coded", "lines"} /\ ~NewDraft.coded
      <3>1. <<>> \in Seq({})
        OBVIOUS
      <3> QED
        BY <2>2, <3>1 DEF IsSeq
    <2>4. /\ IsSeq(drafts') /\ Len(drafts') = L + 1 /\ drafts'[L + 1] = NewDraft
          /\ \A n \in 1 .. L : drafts'[n] = drafts[n]
      BY <2>1, SeqChanges DEF DraftTypes
    <2>5. DraftTypes'
      BY <1>1, <2>3, <2>4 DEF DraftTypes
    <2>6. CodedComplete'
      BY <1>1, <2>3, <2>4 DEF CodedComplete, Complete
    <2>7. drafts' # <<>>
      BY <1>1, <2>4
    <2> QED
      BY <1>3, <2>5, <2>6, <2>7 DEF HasLines
  <1>4. CASE m > 1
    <2>1. drafts # <<>> /\ HasLines(m - 2)
      BY <1>4 DEF AtCall
    <2>2. L \in 1 .. L
      <3>1. PICK S : drafts \in Seq(S)
        BY DEF DraftTypes, IsSeq
      <3> QED
        BY <2>1, <3>1
    <2>3. DOMAIN drafts[L] = {"partner", "coded", "lines"} /\ IsSeq(drafts[L].lines)
      BY <2>2 DEF DraftTypes
    <2>4. CASE m <= N + 1
      <3> DEFINE x == inv.lines[m - 1]
                 d == [drafts[L] EXCEPT !.lines = Append(@, x)]
      <3>1. Head(calls) = Call("line", m - 1)
        BY <1>1, <1>2, <1>4, <2>4 DEF NthCall
      <3>2. drafts' = [drafts EXCEPT ![L] = d]
        <4>1. Head(calls).entity = "line" /\ Head(calls).of = m - 1
          BY <3>1 DEF Call
        <4>2. drafts' = [drafts EXCEPT ![Len(drafts)].lines = Append(@, inv.lines[m - 1])]
          BY <4>1 DEF Effect
        <4> QED
          BY <4>2
      <3>3. /\ DOMAIN d = {"partner", "coded", "lines"} /\ d.coded = drafts[L].coded
            /\ d.lines = Append(drafts[L].lines, x)
        BY <2>3
      <3>4. IsSeq(d.lines) /\ x \in ToSet(d.lines) /\ ToSet(drafts[L].lines) \subseteq ToSet(d.lines)
        <4> DEFINE old == drafts[L].lines
        <4>1. /\ IsSeq(Append(old, x)) /\ Len(old) \in Nat /\ DOMAIN old = 1 .. Len(old)
              /\ Len(Append(old, x)) = Len(old) + 1 /\ Append(old, x)[Len(old) + 1] = x
              /\ \A n \in 1 .. Len(old) : Append(old, x)[n] = old[n]
          BY <2>3, SeqChanges
        <4>2. DOMAIN Append(old, x) = 1 .. Len(old) + 1
          BY <4>1, SeqChanges
        <4> QED
          BY <3>3, <4>1, <4>2 DEF ToSet
      <3> HIDE DEF d
      <3>5. /\ IsSeq(drafts') /\ Len(drafts') = L /\ drafts'[L] = d
            /\ \A n \in 1 .. L : n # L => drafts'[n] = drafts[n]
        BY <1>1, <2>2, <3>2, SeqChanges DEF DraftTypes
      <3>6. DraftTypes'
        BY <3>3, <3>4, <3>5 DEF DraftTypes
      <3>7. CodedComplete'
        BY <2>2, <3>3, <3>4, <3>5 DEF CodedComplete, Complete
      <3>8. HasLines(m - 1)' /\ HasLines(m - 2)'
        <4>1. \A i \in 1 .. m - 1 : inv.lines[i] \in ToSet(d.lines)
          BY <1>1, <2>1, <3>4 DEF HasLines
        <4>2. \A i \in 1 .. m - 2 : i \in 1 .. m - 1
          BY <1>1
        <4> QED
          BY <3>5, <4>1, <4>2 DEF HasLines
      <3>9. drafts' # <<>>
        <4>1. Len(drafts') = L /\ L > 0
          <5>1. L > 0
            BY <1>1, <2>2
          <5> QED
            BY <3>5, <5>1
        <4> QED
          BY <4>1
      <3> QED
        BY <3>6, <3>7, <3>8, <3>9
    <2>5. CASE m = N + 2
      <3> DEFINE d == [drafts[L] EXCEPT !.coded = TRUE]
      <3>1. Head(calls) = Call("tag", 0)
        BY <1>1, <1>2, <2>5 DEF NthCall
      <3>2. drafts' = [drafts EXCEPT ![L] = d]
        BY <3>1 DEF Effect, Call
      <3>3. DOMAIN d = {"partner", "coded", "lines"} /\ d.lines = drafts[L].lines
        BY <2>3
      <3> HIDE DEF d
      <3>4. /\ IsSeq(drafts') /\ Len(drafts') = L /\ drafts'[L] = d
            /\ \A n \in 1 .. L : n # L => drafts'[n] = drafts[n]
        BY <1>1, <2>2, <3>2, SeqChanges DEF DraftTypes
      <3>5. Complete(d) /\ HasLines(m - 2)'
        <4>1. m - 2 = N
          BY <1>1, <2>5
        <4> QED
          BY <1>1, <2>1, <3>3, <3>4, <4>1 DEF Complete, HasLines
      <3>6. DraftTypes'
        BY <2>3, <3>3, <3>4 DEF DraftTypes
      <3>7. CodedComplete'
        BY <3>4, <3>5 DEF CodedComplete, Complete
      <3>8. drafts' # <<>>
        <4>1. Len(drafts') = L /\ L > 0
          <5>1. L > 0
            BY <1>1, <2>2
          <5> QED
            BY <3>4, <5>1
        <4> QED
          BY <4>1
      <3> QED
        BY <1>1, <2>5, <3>5, <3>6, <3>7, <3>8
    <2> QED
      BY <1>1, <2>4, <2>5
  <1> QED
    BY <1>1, <1>3, <1>4

-------------------------------------------------------------------------------
(* The steps                                                                    *)

(* What leaves the document and Business Central alone, and sends no new call.  *)
LEMMA QuietStep ==
  ASSUME IInv, UNCHANGED <<source, inv, drafts>>, Early' => Early,
         pc' = "call" => pc = "call" /\ calls' = calls
  PROVE  IInv'
  <1> SUFFICES ASSUME ImportWay' = "tagged"
               PROVE  /\ InvType' /\ DraftTypes' /\ CodedComplete'
                      /\ Early' => drafts' = <<>>
                      /\ pc' = "call" => \E m \in 1 .. N' + 2 : AtCall(m)'
    BY DEF IInv
  <1>1. ImportWay = "tagged" /\ N' = N
    BY DEF ImportWay, N
  <1>2. InvType' /\ DraftTypes' /\ CodedComplete' /\ (Early' => drafts' = <<>>)
    BY <1>1 DEF IInv, InvType, DraftTypes, CodedComplete, Complete
  <1>3. ASSUME pc' = "call" PROVE \E m \in 1 .. N + 2 : AtCall(m)'
    <2>1. PICK m \in 1 .. N + 2 : AtCall(m)
      BY <1>1, <1>3 DEF IInv
    <2>2. AtCall(m)'
      BY <1>1, <1>3, <2>1 DEF AtCall, HasLines, NthCall
    <2> QED
      BY <2>2
  <1> QED
    BY <1>1, <1>2, <1>3

(* Before the verdict nothing is in Business Central.                           *)
LEMMA ResolveStep ==
  ASSUME IInv, ResolveParty \/ ResolveItem
  PROVE  IInv'
  <1> SUFFICES ASSUME ImportWay' = "tagged"
               PROVE  /\ InvType' /\ DraftTypes' /\ CodedComplete'
                      /\ Early' => drafts' = <<>>
                      /\ pc' = "call" => \E m \in 1 .. N' + 2 : AtCall(m)'
    BY DEF IInv
  <1>1. UNCHANGED <<source, drafts>> /\ pc \in {"party", "items"} /\ pc' = "items"
    BY DEF ResolveParty, ResolveItem, GoTo, given
  <1>2. ImportWay = "tagged" /\ drafts = <<>> /\ drafts' = <<>>
    BY <1>1 DEF ImportWay, IInv, Early
  <1>3. InvType' /\ InvType
    <2>1. "lines" \in DOMAIN inv /\ IsSeq(inv.lines)
      BY <1>2 DEF IInv, InvType
    <2>2. CASE inv' = inv
      BY <2>1, <2>2 DEF InvType
    <2>3. CASE \E no : inv' = [inv EXCEPT !.partner = no]
      <3>1. PICK no : inv' = [inv EXCEPT !.partner = no]
        BY <2>3
      <3>2. "lines" \in DOMAIN inv' /\ inv'.lines = inv.lines
        BY <2>1, <3>1
      <3> QED
        BY <2>1, <3>2 DEF InvType
    <2>4. CASE at_line \in DOMAIN inv.lines /\ \E no : inv' = [inv EXCEPT !.lines[at_line].no = no]
      <3>1. PICK no : inv' = [inv EXCEPT !.lines[at_line].no = no]
        BY <2>4
      <3>2. /\ "lines" \in DOMAIN inv'
            /\ inv'.lines = [inv.lines EXCEPT ![at_line] = [inv.lines[at_line] EXCEPT !.no = no]]
        BY <2>1, <3>1
      <3>3. at_line \in 1 .. Len(inv.lines)
        BY <2>1, <2>4, SeqChanges
      <3>4. IsSeq(inv'.lines)
        BY <2>1, <3>2, <3>3, SeqChanges
      <3> QED
        BY <2>1, <3>2, <3>4 DEF InvType
    <2>5. CASE ResolveParty
      BY <2>2, <2>3, <2>5 DEF ResolveParty
    <2>6. CASE ResolveItem
      <3>1. at_line \in DOMAIN inv.lines
        BY <2>6 DEF ResolveItem
      <3>2. inv' = inv \/ \E no : inv' = [inv EXCEPT !.lines[at_line].no = no]
        BY <2>6 DEF ResolveItem
      <3> QED
        BY <2>2, <2>4, <3>1, <3>2
    <2> QED
      BY <2>1, <2>5, <2>6 DEF InvType
  <1>4. DraftTypes' /\ CodedComplete'
    <2>1. Len(drafts') = 0 /\ IsSeq(drafts')
      <3>1. <<>> \in Seq({}) /\ Len(<<>>) = 0
        OBVIOUS
      <3> QED
        BY <1>2, <3>1 DEF IsSeq
    <2> QED
      BY <2>1 DEF DraftTypes, CodedComplete
  <1> QED
    BY <1>1, <1>2, <1>3, <1>4

(* The verdict plans the calls of the document.                                 *)
LEMMA VerdictStep ==
  ASSUME IInv, Verdict
  PROVE  IInv'
  <1>1. CASE errs = {}
    <2> SUFFICES ASSUME ImportWay' = "tagged"
                 PROVE  /\ InvType' /\ DraftTypes' /\ CodedComplete'
                        /\ Early' => drafts' = <<>>
                        /\ pc' = "call" => \E m \in 1 .. N' + 2 : AtCall(m)'
      BY DEF IInv
    <2>1. /\ UNCHANGED <<source, inv, drafts>>
          /\ pc = "refs" /\ pc' = "call" /\ calls' = ImportCalls
      BY <1>1 DEF Verdict, GoTo, given
    <2>2. ImportWay = "tagged" /\ N' = N
      BY <2>1 DEF ImportWay, N
    <2>3. InvType /\ DraftTypes /\ CodedComplete /\ drafts = <<>>
      BY <2>1, <2>2 DEF IInv, Early
    <2>4. InvType' /\ DraftTypes' /\ CodedComplete'
      BY <2>1, <2>3 DEF InvType, DraftTypes, CodedComplete, Complete
    <2>5. calls' = [k \in 1 .. N + 2 |-> NthCall(k)]
      BY <2>1, <2>2, <2>3, CallsAre
    <2>6. N \in Nat
      BY <2>3, SeqChanges DEF InvType, N
    <2>7. AtCall(1)'
      <3>1. N + 3 - 1 = N + 2 /\ \A k \in 1 .. N + 2 : 1 + k - 1 = k
        BY <2>6
      <3>2. [k \in 1 .. N + 2 |-> NthCall(k)] = [k \in 1 .. N + 3 - 1 |-> NthCall(1 + k - 1)]
        BY <3>1
      <3> QED
        BY <2>2, <2>5, <3>2 DEF AtCall, NthCall
    <2> QED
      BY <2>1, <2>2, <2>4, <2>6, <2>7 DEF Early
  <1>2. CASE errs # {}
    <2>1. UNCHANGED <<source, inv, drafts>> /\ pc' = "errors"
      BY <1>2 DEF Verdict, GoTo, given
    <2> QED
      BY <2>1, QuietStep DEF Early
  <1> QED
    BY <1>1, <1>2

(* An answer, a retry, or an error, each with the effect of the call or without. *)
LEMMA CallStep ==
  ASSUME IInv, pc = "call", UNCHANGED <<source, inv>>, Effect,
         \/ Answered
         \/ UNCHANGED <<calls, pc>>
         \/ pc' \in {"reject", "crash"}
  PROVE  IInv'
  <1> SUFFICES ASSUME ImportWay' = "tagged"
               PROVE  /\ InvType' /\ DraftTypes' /\ CodedComplete'
                      /\ Early' => drafts' = <<>>
                      /\ pc' = "call" => \E m \in 1 .. N' + 2 : AtCall(m)'
    BY DEF IInv
  <1>1. ImportWay = "tagged" /\ N' = N
    BY DEF ImportWay, N
  <1>2. InvType /\ DraftTypes /\ CodedComplete
    BY <1>1 DEF IInv
  <1>3. PICK m \in 1 .. N + 2 : AtCall(m)
    BY <1>1 DEF IInv
  <1>4. /\ DraftTypes' /\ CodedComplete' /\ drafts' # <<>>
        /\ m <= N + 1 => HasLines(m - 1)'
        /\ m > 1 => HasLines(m - 2)'
    BY <1>1, <1>2, <1>3, EffectKeeps
  <1>5. N \in Nat /\ InvType'
    BY <1>2, SeqChanges DEF InvType, N
  <1>6. CASE Answered
    <2>1. /\ calls' = Tail(calls)
          /\ Len(calls) = 1 => pc' = "number"
          /\ Len(calls) # 1 => pc' = "call"
      BY <1>6 DEF Answered, GoTo
    <2>2. CASE Len(calls) = 1
      BY <1>4, <1>5, <2>1, <2>2 DEF Early
    <2>3. CASE Len(calls) # 1
      <3>1. m + 1 \in 1 .. N + 2 /\ calls' = [k \in 1 .. N + 3 - (m + 1) |-> NthCall(m + 1 + k - 1)]
        BY <1>2, <1>3, <2>1, <2>3, CallsLeft DEF AtCall
      <3>2. HasLines((m + 1) - 2)'
        <4>1. m <= N + 1 /\ (m + 1) - 2 = m - 1
          BY <1>5, <3>1
        <4> QED
          BY <1>4, <4>1
      <3>3. AtCall(m + 1)'
        BY <1>1, <1>4, <3>1, <3>2 DEF AtCall, NthCall
      <3> QED
        BY <1>1, <1>4, <1>5, <2>1, <2>3, <3>1, <3>3 DEF Early
    <2> QED
      BY <2>2, <2>3
  <1>7. CASE UNCHANGED <<calls, pc>>
    <2>1. AtCall(m)'
      BY <1>1, <1>3, <1>4, <1>7 DEF AtCall, NthCall
    <2> QED
      BY <1>1, <1>4, <1>5, <1>7, <2>1 DEF Early
  <1>8. CASE pc' \in {"reject", "crash"}
    BY <1>4, <1>5, <1>8 DEF Early
  <1> QED
    BY <1>6, <1>7, <1>8

(* Every step keeps the invariant.                                              *)
LEMMA InvNext == IInv /\ [Next]_vars => IInv'
  <1> SUFFICES ASSUME IInv, [Next]_vars PROVE IInv'
    OBVIOUS
  <1> USE DEF given, calling
  <1>1. CASE ListReference \/ RefUpsert \/ UpsertMap
    <2>1. UNCHANGED <<source, inv, drafts, pc, calls>>
      BY <1>1 DEF ListReference, RefUpsert, UpsertMap
    <2> QED
      BY <2>1, QuietStep DEF Early
  <1>2. CASE ResolveParty \/ ResolveItem
    BY <1>2, ResolveStep
  <1>3. CASE ValidateFields \/ ValidateReference
    <2>1. UNCHANGED <<source, inv, drafts>> /\ Early /\ pc' = "refs"
      BY <1>3 DEF ValidateFields, ValidateReference, GoTo, Early
    <2> QED
      BY <2>1, QuietStep
  <1>4. CASE Verdict
    BY <1>4, VerdictStep
  <1>5. CASE CallBc
    <2>1. pc = "call" /\ UNCHANGED <<source, inv>>
      BY <1>5 DEF CallBc
    <2>2. CASE Answered
      BY <2>1, <2>2, CallStep DEF Answered
    <2>3. CASE Throttled
      <3>1. UNCHANGED <<calls, pc>> /\ (Effect \/ drafts' = drafts)
        BY <2>3 DEF Throttled, NoEffect
      <3>2. CASE Effect
        BY <2>1, <3>1, <3>2, CallStep
      <3>3. CASE drafts' = drafts
        BY <2>1, <3>1, <3>3, QuietStep DEF Early
      <3> QED
        BY <3>1, <3>2, <3>3
    <2>4. CASE Refused
      <3>1. drafts' = drafts /\ pc' = "reject"
        BY <2>4 DEF Refused, NoEffect, GoTo
      <3> QED
        BY <2>1, <3>1, QuietStep DEF Early
    <2>5. CASE Lost
      <3>1. Effect /\ pc' = "reject"
        BY <2>5 DEF Lost, GoTo
      <3> QED
        BY <2>1, <3>1, CallStep
    <2> QED
      BY <1>5, <2>2, <2>3, <2>4, <2>5 DEF CallBc
  <1>6. CASE \/ RecordErrors("errors", errs, "invalid") \/ UpdateStatus("invalid", "invalid", "no")
             \/ SetBcDocumentNo \/ UpdateStatus("imported", "imported", "yes")
             \/ RecordErrors("reject", {Error(0, "BC")}, "failed") \/ UpdateStatus("failed", "failed", "no")
    <2>1. UNCHANGED <<source, inv, drafts>> /\ pc' \in {"invalid", "no", "imported", "yes", "failed", "err"}
      BY <1>6 DEF RecordErrors, UpdateStatus, SetBcDocumentNo, Written, GoTo, RestOfWrite
    <2> QED
      BY <2>1, QuietStep DEF Early
  <1>7. CASE StagingFails
    <2>1. UNCHANGED <<source, inv, drafts>> /\ pc' = "err"
      BY <1>7 DEF StagingFails, GoTo, RestOfWrite
    <2> QED
      BY <2>1, QuietStep DEF Early
  <1>8. CASE Crash
    <2>1. UNCHANGED <<source, inv>> /\ pc' = "crash" /\ (drafts' = drafts \/ (pc = "call" /\ Effect))
      BY <1>8 DEF Crash, GoTo, NoEffect
    <2>2. CASE drafts' = drafts
      BY <2>1, <2>2, QuietStep DEF Early
    <2>3. CASE pc = "call" /\ Effect
      BY <2>1, <2>3, CallStep
    <2> QED
      BY <2>1, <2>2, <2>3
  <1>9. CASE UNCHANGED vars
    <2>1. UNCHANGED <<source, inv, drafts, pc, calls>>
      BY <1>9 DEF vars
    <2> QED
      BY <2>1, QuietStep DEF Early
  <1> QED
    BY <1>1, <1>2, <1>3, <1>4, <1>5, <1>6, <1>7, <1>8, <1>9 DEF Next

(* A sales or purchase invoice gets its batch code no earlier than all of its   *)
(* lines, whichever of its calls fails or is sent again (main.rs, import_one).  *)
THEOREM TaggedLast == Spec => []IncompleteNeverTagged
  <1>1. IInv => IncompleteNeverTagged
    BY SeqChanges DEF IInv, IncompleteNeverTagged, CodedComplete, DraftTypes
  <1> QED
    BY <1>1, InvInit, InvNext, PTL DEF Spec
===============================================================================

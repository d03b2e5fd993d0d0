------------------------------ MODULE ImportExact ------------------------------
(* Proof that an imported document is exactly one draft, with its lines and its *)
(* batch code, but for what a call that was sent again has made twice: for any  *)
(* document, any way to import it, and any order of answers and faults.  And    *)
(* the proof that ImportDocument implements ImportOutcome.                      *)
EXTENDS ImportVerdict

\* How many calls the document takes.
Total == IF ImportWay = "header" THEN 1 ELSE IF ImportWay = "inline" THEN N + 1 ELSE N + 2

LastDraft == drafts[Len(drafts)]

\* The last draft has the first n lines, and none of another document; it and
\* the drafts before it have no more than was made twice.
Built(n) ==
    /\ drafts # <<>>
    /\ HasLines(n)
    /\ ToSet(LastDraft.lines) \subseteq ToSet(inv.lines)
    /\ Len(drafts) - 1 + Len(LastDraft.lines) - n \in 0 .. Retried
    /\ ImportWay = "inline" => LastDraft.coded

\* m is the next call: the header, a line, or the tag.
CallAt(m) ==
    /\ calls = [k \in 1 .. Total + 1 - m |-> NthCall(m + k - 1)]
    /\ m = 1 => Len(drafts) \in 0 .. Retried
    /\ m > 1 => Built(m - 2)

Exact ==
    /\ drafts # <<>> /\ LastDraft.coded
    /\ ToSet(LastDraft.lines) = ToSet(LinesOfWay)
    /\ Surplus \in 0 .. Retried

Finished == {"number", "imported", "yes"}

DraftsOk ==
    /\ source \in Sources
    /\ faults \in [Faults -> Nat]
    /\ DraftTypes
    /\ pc = "call" => \E m \in 1 .. Total : CallAt(m)
    /\ pc \in Finished => Exact

EInv == VInv /\ DraftsOk

LEMMA ExactInit == Init => EInv
  <1> SUFFICES ASSUME Init PROVE EInv
    OBVIOUS
  <1>1. VInv
    BY VerdictInit
  <1>2. source \in Sources /\ faults = [kind \in Faults |-> 0] /\ drafts = <<>> /\ pc = "party"
    BY DEF Init
  <1>3. DraftTypes
    <2>1. drafts \in Seq({}) /\ Len(drafts) = 0
      BY <1>2
    <2> QED
      BY <2>1 DEF DraftTypes, IsSeq
  <1> QED
    BY <1>1, <1>2, <1>3 DEF EInv, DraftsOk, Finished

-------------------------------------------------------------------------------
(* The calls                                                                    *)

\* Each document is imported in one of the ways.
LEMMA WayOfDocument ==
  ASSUME source \in Sources
  PROVE  ImportWay \in Ways
  <1>1. source.type \in DocTypes
    BY SourcesAssumption
  <1> QED
    BY <1>1 DEF ImportWay, Ways, DocTypes, PartyKinds

(* The document is imported by its header, its lines and the tag, as far as its *)
(* way takes them.                                                              *)
LEMMA Plan ==
  ASSUME Shape, source \in Sources
  PROVE  N \in Nat /\ Total \in 1 .. N + 2
         /\ ImportCalls = [k \in 1 .. Total |-> NthCall(k)]
  <1>1. N \in Nat /\ DOMAIN inv.lines = 1 .. N /\ InvType
    BY SeqChanges DEF Shape, InvType, N
  <1>2. CASE ImportWay = "tagged"
    BY <1>1, <1>2, CallsAre DEF Total
  <1> DEFINE Calls == [entity : {"header", "line", "tag"}, of : Nat]
             h == <<Call("header", 0)>>
             l == [i \in 1 .. N |-> Call("line", i)]
  <1>3. \A i \in Nat : Call("line", i) \in Calls /\ Call("header", i) \in Calls
    BY DEF Call
  <1> HIDE DEF Calls
  <1>4. h \in Seq(Calls) /\ Len(h) = 1 /\ h[1] = Call("header", 0)
    BY <1>3
  <1>5. CASE ImportWay = "header"
    <2>1. ImportCalls = (h \o <<>>) \o <<>>
      BY <1>5 DEF ImportCalls
    <2>2. h \o <<>> = h
      BY <1>4, ConcatEmptySeq
    <2>3. ImportCalls = h
      BY <2>1, <2>2
    <2>4. h = [k \in 1 .. 1 |-> NthCall(k)]
      <3>1. \A k \in 1 .. 1 : h[k] = NthCall(k)
        BY <1>4 DEF NthCall
      <3>2. h = [k \in 1 .. 1 |-> h[k]]
        BY <1>4
      <3> HIDE DEF h
      <3> QED
        BY <3>1, <3>2, Zenon
    <2> QED
      BY <1>1, <1>5, <2>3, <2>4 DEF Total
  <1>6. CASE ImportWay = "inline"
    <2>1. l \in Seq(Calls) /\ Len(l) = N /\ LineCalls = l
      <3>1. l \in [1 .. N -> Calls]
        BY <1>1, <1>3
      <3> QED
        BY <1>1, <3>1 DEF LineCalls
    <2>2. ImportCalls = (h \o l) \o <<>>
      BY <1>6, <2>1 DEF ImportCalls
    <2> DEFINE hl == h \o l
    <2> HIDE DEF h
    <2>3. /\ hl \in Seq(Calls) /\ Len(hl) = Len(h) + Len(l)
          /\ \A k \in 1 .. Len(h) : hl[k] = h[k]
          /\ \A k \in 1 .. Len(l) : hl[Len(h) + k] = l[k]
      <3>1. h \in Seq(Calls) /\ l \in Seq(Calls)
        BY <1>4, <2>1
      <3> HIDE DEF l
      <3> QED
        BY <3>1, Concatenation, SMT DEF hl
    <2> HIDE DEF hl
    <2>4. ASSUME NEW k \in 1 .. N + 1 PROVE hl[k] = NthCall(k)
      <3>1. CASE k = 1
        BY <1>4, <2>3, <3>1 DEF NthCall
      <3>2. CASE k # 1
        <4>1. k - 1 \in 1 .. N /\ 1 + (k - 1) = k
          BY <1>1, <3>2
        <4>2. hl[k] = l[k - 1]
          BY <1>4, <2>1, <2>3, <4>1
        <4> QED
          BY <1>1, <3>2, <4>1, <4>2 DEF NthCall
      <3> QED
        BY <3>1, <3>2
    <2>5. hl = [k \in 1 .. N + 1 |-> NthCall(k)]
      <3>1. hl = [k \in 1 .. N + 1 |-> hl[k]]
        BY <1>1, <1>4, <2>1, <2>3
      <3> QED
        BY <2>4, <3>1, Zenon
    <2>6. ImportCalls = hl
      BY <2>2, <2>3, ConcatEmptySeq DEF hl
    <2> QED
      BY <1>1, <1>6, <2>5, <2>6 DEF Total
  <1> QED
    BY <1>1, <1>2, <1>5, <1>6, WayOfDocument DEF Total, Ways

(* Once the next of the calls is answered, the others are left.                 *)
LEMMA PlanLeft ==
  ASSUME Shape, NEW T \in Nat, NEW m \in 1 .. T,
         calls = [k \in 1 .. T + 1 - m |-> NthCall(m + k - 1)]
  PROVE  /\ Head(calls) = NthCall(m) /\ Len(calls) = T + 1 - m
         /\ Tail(calls) = [k \in 1 .. T + 1 - (m + 1) |-> NthCall(m + 1 + k - 1)]
  <1> DEFINE S == {NthCall(k) : k \in 1 .. T}
             left == [k \in 1 .. T + 1 - (m + 1) |-> NthCall(m + 1 + k - 1)]
  <1>1. T + 1 - m \in Nat /\ T - m \in Nat /\ T + 1 - (m + 1) = T - m
    OBVIOUS
  <1>2. /\ calls \in Seq(S) /\ Len(calls) = T + 1 - m
        /\ \A k \in 1 .. T + 1 - m : calls[k] = NthCall(m + k - 1)
    <2>1. ASSUME NEW k \in 1 .. T + 1 - m PROVE NthCall(m + k - 1) \in S
      <3>1. m + k - 1 \in 1 .. T
        BY <1>1
      <3> QED
        BY <3>1, Zenon
    <2> HIDE DEF S
    <2> QED
      BY <1>1, <2>1
  <1>3. left \in Seq(S) /\ Len(left) = T - m /\ \A k \in 1 .. T - m : left[k] = NthCall(m + k)
    <2>1. ASSUME NEW k \in 1 .. T + 1 - (m + 1)
          PROVE  NthCall(m + 1 + k - 1) \in S /\ m + 1 + k - 1 = m + k
      <3>1. m + 1 + k - 1 \in 1 .. T /\ m + 1 + k - 1 = m + k
        BY <1>1
      <3> QED
        BY <3>1, Zenon
    <2> HIDE DEF S
    <2> QED
      BY <1>1, <2>1
  <1> HIDE DEF S, left
  <1>4. /\ Head(calls) = calls[1] /\ Tail(calls) \in Seq(S) /\ Len(Tail(calls)) = Len(calls) - 1
        /\ \A k \in 1 .. Len(calls) - 1 : Tail(calls)[k] = calls[k + 1]
    <2>1. calls \in Seq(S) /\ Len(calls) > 0
      BY <1>1, <1>2
    <2> QED
      BY <2>1, Rest, Zenon
  <1>5. /\ Tail(calls) \in Seq(S) /\ Len(Tail(calls)) = T - m
        /\ \A k \in 1 .. T - m : Tail(calls)[k] = calls[k + 1]
    <2>1. Len(calls) - 1 = T - m
      BY <1>1, <1>2
    <2> QED
      BY <1>4, <2>1
  <1>6. \A k \in 1 .. T - m : Tail(calls)[k] = left[k]
    <2>1. TAKE k \in 1 .. T - m
    <2>2. k + 1 \in 1 .. T + 1 - m /\ m + (k + 1) - 1 = m + k
      BY <1>1
    <2> QED
      BY <1>2, <1>3, <1>5, <2>2
  <1>7. Tail(calls) = left
    BY <1>3, <1>5, <1>6, SeqEqual
  <1>8. Head(calls) = NthCall(m)
    <2>1. m + 1 - 1 = m /\ 1 \in 1 .. T + 1 - m
      BY <1>1
    <2> QED
      BY <1>2, <1>4, <2>1
  <1> QED
    BY <1>2, <1>7, <1>8 DEF left

\* One element more.
LEMMA Appended ==
  ASSUME NEW s, IsSeq(s), NEW x
  PROVE  /\ IsSeq(Append(s, x)) /\ Len(s) \in Nat /\ Len(Append(s, x)) = Len(s) + 1
         /\ ToSet(Append(s, x)) = ToSet(s) \union {x}
  <1>1. /\ IsSeq(Append(s, x)) /\ Len(s) \in Nat /\ DOMAIN s = 1 .. Len(s)
        /\ Len(Append(s, x)) = Len(s) + 1 /\ Append(s, x)[Len(s) + 1] = x
        /\ \A n \in 1 .. Len(s) : Append(s, x)[n] = s[n]
    BY SeqChanges
  <1>2. DOMAIN Append(s, x) = 1 .. Len(s) + 1
    BY <1>1, SeqChanges
  <1>3. ToSet(Append(s, x)) = ToSet(s) \union {x}
    <2> DEFINE a == Append(s, x)
    <2> HIDE DEF a
    <2>1. DOMAIN a = 1 .. Len(s) + 1 /\ a[Len(s) + 1] = x /\ \A n \in 1 .. Len(s) : a[n] = s[n]
      BY <1>1, <1>2 DEF a
    <2>2. ASSUME NEW n \in 1 .. Len(s) + 1 PROVE a[n] \in ToSet(s) \union {x}
      <3>1. n \in 1 .. Len(s) \/ n = Len(s) + 1
        BY <1>1
      <3> QED
        BY <1>1, <2>1, <3>1 DEF ToSet
    <2>3. \A n \in 1 .. Len(s) : n \in DOMAIN a /\ a[n] = s[n]
      BY <1>1, <2>1
    <2>4. Len(s) + 1 \in DOMAIN a
      BY <1>1, <2>1
    <2>5. ToSet(s) \union {x} \subseteq ToSet(a)
      BY <1>1, <2>1, <2>3, <2>4 DEF ToSet
    <2>6. ToSet(a) \subseteq ToSet(s) \union {x}
      BY <2>1, <2>2 DEF ToSet
    <2> QED
      BY <2>5, <2>6 DEF a
  <1> QED
    BY <1>1, <1>3

\* What a call does to the drafts: a header is one more, a line and the tag
\* change the last.
LEMMA EffectOf ==
  ASSUME Shape, DraftTypes, NEW m \in 1 .. N + 2, Head(calls) = NthCall(m),
         m > 1 => drafts # <<>>, Effect
  PROVE  /\ DraftTypes' /\ Len(drafts) \in Nat /\ Len(drafts') \in Nat /\ drafts' # <<>>
         /\ m = 1 => Len(drafts') = Len(drafts) + 1 /\ LastDraft' = NewDraft
         /\ m > 1 => Len(drafts') = Len(drafts) /\ IsSeq(LastDraft.lines)
         /\ m > 1 /\ m <= N + 1 => /\ LastDraft'.lines = Append(LastDraft.lines, inv.lines[m - 1])
                                   /\ LastDraft'.coded = LastDraft.coded
         /\ m = N + 2 => LastDraft'.lines = LastDraft.lines /\ LastDraft'.coded = TRUE
         /\ \A n \in 1 .. Len(drafts) : m = 1 \/ n # Len(drafts) => drafts'[n] = drafts[n]
  <1> DEFINE L == Len(drafts)
  <1>1. N \in Nat /\ DOMAIN inv.lines = 1 .. N /\ L \in Nat /\ DOMAIN drafts = 1 .. L
    BY SeqChanges DEF Shape, DraftTypes, N
  <1>2. CASE m = 1
    <2>1. drafts' = Append(drafts, NewDraft)
      BY <1>2 DEF Effect, NthCall, Call
    <2>2. DOMAIN NewDraft = {"partner", "coded", "lines"} /\ IsSeq(NewDraft.lines)
      <3>1. <<>> \in Seq({}) /\ <<Head(inv.lines)>> \in Seq({Head(inv.lines)})
        OBVIOUS
      <3>2. NewDraft.lines = <<>> \/ NewDraft.lines = <<Head(inv.lines)>>
        BY DEF NewDraft
      <3> QED
        BY <3>1, <3>2 DEF NewDraft, IsSeq
    <2>3. /\ IsSeq(drafts') /\ Len(drafts') = L + 1 /\ drafts'[L + 1] = NewDraft
          /\ \A n \in 1 .. L : drafts'[n] = drafts[n]
      BY <2>1, SeqChanges DEF DraftTypes
    <2>4. DraftTypes'
      BY <1>1, <2>2, <2>3 DEF DraftTypes
    <2>5. drafts' # <<>> /\ LastDraft' = NewDraft
      BY <1>1, <2>3 DEF LastDraft
    <2> QED
      BY <1>1, <1>2, <2>3, <2>4, <2>5
  <1>3. CASE m > 1
    <2>1. L \in 1 .. L
      <3>1. PICK S : drafts \in Seq(S)
        BY DEF DraftTypes, IsSeq
      <3> QED
        BY <1>3, <3>1
    <2>2. DOMAIN drafts[L] = {"partner", "coded", "lines"} /\ IsSeq(drafts[L].lines)
      BY <2>1 DEF DraftTypes
    <2>3. ASSUME NEW d, drafts' = [drafts EXCEPT ![L] = d],
                 DOMAIN d = {"partner", "coded", "lines"}, IsSeq(d.lines)
          PROVE  /\ DraftTypes' /\ Len(drafts') = L /\ LastDraft' = d /\ drafts' # <<>>
                 /\ \A n \in 1 .. L : n # L => drafts'[n] = drafts[n]
      <3>1. /\ IsSeq(drafts') /\ Len(drafts') = L /\ drafts'[L] = d
            /\ \A n \in 1 .. L : n # L => drafts'[n] = drafts[n]
        BY <1>1, <2>1, <2>3, SeqChanges DEF DraftTypes
      <3>2. DraftTypes'
        BY <2>3, <3>1 DEF DraftTypes
      <3>3. drafts' # <<>>
        <4>1. L > 0
          BY <1>1, <2>1
        <4> QED
          BY <3>1, <4>1
      <3> QED
        BY <3>1, <3>2, <3>3 DEF LastDraft
    <2>4. CASE m <= N + 1
      <3> DEFINE x == inv.lines[m - 1]
                 d == [drafts[L] EXCEPT !.lines = Append(@, x)]
      <3>1. Head(calls) = Call("line", m - 1)
        BY <1>1, <1>3, <2>4 DEF NthCall
      <3>2. drafts' = [drafts EXCEPT ![L] = d]
        <4>1. Head(calls).entity = "line" /\ Head(calls).of = m - 1
          BY <3>1 DEF Call
        <4>2. drafts' = [drafts EXCEPT ![Len(drafts)].lines = Append(@, inv.lines[m - 1])]
          BY <4>1 DEF Effect
        <4> QED
          BY <4>2
      <3>3. /\ DOMAIN d = {"partner", "coded", "lines"} /\ d.coded = drafts[L].coded
            /\ d.lines = Append(drafts[L].lines, x)
        BY <2>2
      <3>4. IsSeq(d.lines)
        BY <2>2, <3>3, Appended, Zenon
      <3> HIDE DEF d
      <3>5. /\ DraftTypes' /\ Len(drafts') = L /\ LastDraft' = d /\ drafts' # <<>>
            /\ \A n \in 1 .. L : n # L => drafts'[n] = drafts[n]
        BY <2>3, <3>2, <3>3, <3>4
      <3>6. /\ LastDraft'.lines = Append(LastDraft.lines, inv.lines[m - 1])
            /\ LastDraft'.coded = LastDraft.coded /\ IsSeq(LastDraft.lines)
        BY <2>2, <3>3, <3>5 DEF LastDraft
      <3>7. m # 1 /\ m # N + 2 /\ Len(drafts) \in Nat
        BY <1>1, <1>3, <2>4
      <3> QED
        BY <3>5, <3>6, <3>7
    <2>5. CASE m = N + 2
      <3> DEFINE d == [drafts[L] EXCEPT !.coded = TRUE]
      <3>1. Head(calls) = Call("tag", 0)
        BY <1>1, <2>5 DEF NthCall
      <3>2. drafts' = [drafts EXCEPT ![L] = d]
        BY <3>1 DEF Effect, Call
      <3>3. DOMAIN d = {"partner", "coded", "lines"} /\ d.lines = drafts[L].lines /\ d.coded = TRUE
        BY <2>2
      <3> HIDE DEF d
      <3>4. /\ DraftTypes' /\ Len(drafts') = L /\ LastDraft' = d /\ drafts' # <<>>
            /\ \A n \in 1 .. L : n # L => drafts'[n] = drafts[n]
        BY <2>2, <2>3, <3>2, <3>3
      <3>5. LastDraft'.lines = LastDraft.lines /\ LastDraft'.coded = TRUE /\ IsSeq(LastDraft.lines)
        BY <2>2, <3>3, <3>4 DEF LastDraft
      <3>6. m # 1 /\ ~(m <= N + 1) /\ Len(drafts) \in Nat
        BY <1>1, <1>3, <2>5
      <3> QED
        BY <3>4, <3>5, <3>6
    <2>6. m <= N + 1 \/ m = N + 2
      BY <1>1
    <2> QED
      BY <2>4, <2>5, <2>6, Zenon
  <1>4. m = 1 \/ m > 1
    BY <1>1
  <1> QED
    BY <1>2, <1>3, <1>4, Zenon

(* The effect of a call: the draft is built up to the next call; and when the   *)
(* call is sent again after its effect, what is there twice counts as a retry.  *)
LEMMA EffectBuilds ==
  ASSUME Shape, source \in Sources, DraftTypes, NEW m \in 1 .. Total, CallAt(m), Effect,
         UNCHANGED <<source, inv>>,
         Retried \in Nat, Retried' \in Nat, Retried' >= Retried
  PROVE  /\ DraftTypes'
         /\ m > 1 /\ m <= N + 1 => Built(m - 1)'
         /\ m = 1 /\ ImportWay # "header" => Built(0)'
         /\ m = N + 2 => Built(m - 2)' /\ LastDraft'.coded
         /\ ImportWay = "header" => Exact'
         /\ Retried' = Retried + 1 =>
                /\ m = 1 => Len(drafts') \in 0 .. Retried'
                /\ m > 1 => Built(m - 2)'
  <1>1. N \in Nat /\ DOMAIN inv.lines = 1 .. N /\ Total \in 1 .. N + 2 /\ m \in 1 .. N + 2
    BY Plan, SeqChanges DEF Shape, N
  <1>2. Head(calls) = NthCall(m)
    BY <1>1, PlanLeft DEF CallAt
  <1>3. m > 1 => Built(m - 2) /\ drafts # <<>>
    BY DEF CallAt, Built
  <1>4. /\ DraftTypes' /\ Len(drafts) \in Nat /\ Len(drafts') \in Nat /\ drafts' # <<>>
        /\ m = 1 => Len(drafts') = Len(drafts) + 1 /\ LastDraft' = NewDraft
        /\ m > 1 => Len(drafts') = Len(drafts) /\ IsSeq(LastDraft.lines)
        /\ m > 1 /\ m <= N + 1 => /\ LastDraft'.lines = Append(LastDraft.lines, inv.lines[m - 1])
                                  /\ LastDraft'.coded = LastDraft.coded
        /\ m = N + 2 => LastDraft'.lines = LastDraft.lines /\ LastDraft'.coded = TRUE
    BY <1>1, <1>2, <1>3, EffectOf
  <1>5. ImportWay' = ImportWay /\ inv' = inv /\ LinesOfWay' = LinesOfWay
    BY DEF ImportWay, LinesOfWay
  <1>6. CASE m = 1
    <2>1. Len(drafts) \in 0 .. Retried /\ Len(drafts') = Len(drafts) + 1 /\ LastDraft' = NewDraft
      BY <1>4, <1>6 DEF CallAt
    <2>2. CASE ImportWay = "header"
      <3>1. LastDraft'.coded /\ LastDraft'.lines = <<Head(inv.lines)>> /\ LinesOfWay = <<Head(inv.lines)>>
        BY <2>1, <2>2 DEF NewDraft, LinesOfWay
      <3>2. Len(<<Head(inv.lines)>>) = 1
        OBVIOUS
      <3>3. Surplus' = Len(drafts)
        <4>1. Surplus' = Len(drafts') - 1 + Len(LastDraft'.lines) - Len(LinesOfWay)
          BY <1>5 DEF Surplus, LastDraft, Last
        <4> QED
          BY <1>4, <2>1, <3>1, <3>2, <4>1
      <3>4. Exact'
        BY <1>4, <1>5, <2>1, <3>1, <3>3 DEF Exact
      <3> QED
        BY <1>1, <1>4, <1>6, <2>1, <2>2, <3>4
    <2>3. CASE ImportWay # "header"
      <3>1. LastDraft'.lines = <<>> /\ (ImportWay = "inline" => LastDraft'.coded)
        BY <2>1, <2>3 DEF NewDraft
      <3>2. ToSet(<<>>) = {} /\ Len(<<>>) = 0
        BY DEF ToSet
      <3>3. Built(0)'
        <4>1. Len(drafts') - 1 + Len(LastDraft'.lines) - 0 \in 0 .. Retried'
          BY <1>4, <2>1, <3>1, <3>2
        <4> QED
          BY <1>4, <1>5, <3>1, <3>2, <4>1 DEF Built, HasLines
      <3> QED
        BY <1>1, <1>4, <1>6, <2>1, <2>3, <3>3
    <2> QED
      BY <2>2, <2>3
  <1>7. CASE m > 1
    <2>1. /\ HasLines(m - 2) /\ ToSet(LastDraft.lines) \subseteq ToSet(inv.lines)
          /\ Len(drafts) - 1 + Len(LastDraft.lines) - (m - 2) \in 0 .. Retried
          /\ ImportWay = "inline" => LastDraft.coded
      BY <1>3, <1>7 DEF Built
    <2>2. ImportWay # "header" /\ Len(LastDraft.lines) \in Nat
      BY <1>4, <1>7, SeqChanges DEF Total
    <2>3. CASE m <= N + 1
      <3> DEFINE x == inv.lines[m - 1]
      <3>1. /\ Len(LastDraft'.lines) = Len(LastDraft.lines) + 1
            /\ ToSet(LastDraft'.lines) = ToSet(LastDraft.lines) \union {x}
            /\ LastDraft'.coded = LastDraft.coded
        <4>1. IsSeq(LastDraft.lines) /\ LastDraft'.lines = Append(LastDraft.lines, x)
          BY <1>4, <1>7, <2>3
        <4>2. /\ Len(Append(LastDraft.lines, x)) = Len(LastDraft.lines) + 1
              /\ ToSet(Append(LastDraft.lines, x)) = ToSet(LastDraft.lines) \union {x}
          BY <4>1, Appended, Zenon
        <4> QED
          BY <1>4, <1>7, <2>3, <4>1, <4>2
      <3>2. m - 1 \in DOMAIN inv.lines /\ x \in ToSet(inv.lines)
        BY <1>1, <1>7, <2>3 DEF ToSet
      <3>3. HasLines(m - 1)' /\ HasLines(m - 2)'
        <4>1. \A i \in 1 .. m - 1 : i \in 1 .. m - 2 \/ i = m - 1
          BY <1>1
        <4>2. \A i \in 1 .. m - 1 : inv.lines[i] \in ToSet(LastDraft'.lines)
          BY <2>1, <3>1, <4>1 DEF HasLines, LastDraft
        <4>3. \A i \in 1 .. m - 2 : i \in 1 .. m - 1
          BY <1>1
        <4> QED
          BY <1>5, <4>2, <4>3 DEF HasLines, LastDraft
      <3>4. ToSet(LastDraft'.lines) \subseteq ToSet(inv.lines)
        BY <2>1, <3>1, <3>2
      <3>5. /\ Len(drafts') - 1 + Len(LastDraft'.lines) - (m - 1) \in 0 .. Retried'
            /\ Retried' = Retried + 1 => Len(drafts') - 1 + Len(LastDraft'.lines) - (m - 2) \in 0 .. Retried'
        <4> DEFINE a == Len(drafts)
                   b == Len(LastDraft.lines)
                   r == Retried
        <4>1. a \in Nat /\ b \in Nat /\ r \in Nat /\ m \in Nat
          BY <1>4, <1>7, <2>2
        <4>2. a - 1 + b - (m - 2) \in 0 .. r
          BY <2>1
        <4>3. Len(drafts') = a /\ Len(LastDraft'.lines) = b + 1 /\ Retried' \in Nat /\ Retried' >= r
          BY <1>4, <1>7, <3>1
        <4> HIDE DEF a, b, r
        <4>4. a - 1 + (b + 1) - (m - 1) \in 0 .. r
          BY <4>1, <4>2
        <4>5. a - 1 + (b + 1) - (m - 2) \in 0 .. r + 1
          BY <4>1, <4>2
        <4> QED
          BY <4>1, <4>3, <4>4, <4>5 DEF r
      <3>6. Built(m - 1)' /\ (Retried' = Retried + 1 => Built(m - 2)')
        BY <1>4, <1>5, <2>1, <3>1, <3>3, <3>4, <3>5 DEF Built
      <3>7. m # 1 /\ m # N + 2
        BY <1>1, <1>7, <2>3
      <3> QED
        BY <1>4, <2>2, <3>6, <3>7
    <2>4. CASE m = N + 2
      <3>1. LastDraft'.lines = LastDraft.lines /\ LastDraft'.coded /\ Len(drafts') = Len(drafts) /\ m - 2 = N
        BY <1>1, <1>4, <1>7, <2>4
      <3>2. HasLines(m - 2)'
        BY <1>5, <2>1, <3>1 DEF HasLines, LastDraft
      <3>3. Len(drafts') - 1 + Len(LastDraft'.lines) - (m - 2) \in 0 .. Retried'
        BY <1>1, <1>4, <2>1, <2>2, <3>1
      <3>4. Built(m - 2)'
        BY <1>4, <1>5, <2>1, <3>1, <3>2, <3>3 DEF Built
      <3>5. m # 1 /\ ~(m <= N + 1)
        BY <1>1, <2>4
      <3> QED
        BY <1>4, <2>2, <3>1, <3>4, <3>5
    <2> QED
      BY <1>1, <2>3, <2>4
  <1> QED
    BY <1>1, <1>6, <1>7

\* The last call of a document leaves it as it is to be.
LEMMA BuiltExact ==
  Shape => \A n : n = N /\ ImportWay # "header" /\ Built(n) /\ LastDraft.coded => Exact
  <1> SUFFICES ASSUME Shape, NEW n, n = N, ImportWay # "header", Built(n), LastDraft.coded
               PROVE  Exact
    OBVIOUS
  <1>1. N \in Nat /\ DOMAIN inv.lines = 1 .. N
    BY SeqChanges DEF Shape, N
  <1>2. LinesOfWay = inv.lines /\ Len(LinesOfWay) = N
    BY DEF LinesOfWay, N
  <1>3. ToSet(inv.lines) \subseteq ToSet(LastDraft.lines)
    BY <1>1 DEF Built, HasLines, LastDraft, ToSet
  <1>4. ToSet(LastDraft.lines) = ToSet(LinesOfWay)
    BY <1>2, <1>3 DEF Built
  <1>5. Surplus \in 0 .. Retried
    BY <1>2 DEF Built, Surplus, LastDraft, Last
  <1> QED
    BY <1>4, <1>5 DEF Exact, Built

-------------------------------------------------------------------------------
(* The steps                                                                    *)

\* Faults are counted, those that make a call be sent again among them.
LEMMA FaultsCount ==
  ASSUME faults \in [Faults -> Nat], NoFault \/ \E kind : Fault(kind)
  PROVE  /\ faults' \in [Faults -> Nat]
         /\ Retried \in Nat /\ Retried' \in Nat /\ Retried' >= Retried
         /\ Fault("retry") => Retried' = Retried + 1
  <1>1. Retried \in Nat
    BY DEF Retried
  <1>2. CASE NoFault /\ ~Fault("retry")
    BY <1>1, <1>2 DEF NoFault, Retried
  <1>3. CASE \E kind : Fault(kind)
    <2>1. PICK kind : Fault(kind)
      BY <1>3
    <2>2. kind \in Faults /\ faults' = [faults EXCEPT ![kind] = @ + 1]
      BY <2>1 DEF Fault
    <2>3. faults' \in [Faults -> Nat]
      BY <2>2
    <2>4. Retried' \in Nat /\ Retried' >= Retried
      BY <2>2 DEF Retried
    <2>5. Fault("retry") => Retried' = Retried + 1
      <3>1. ASSUME Fault("retry") PROVE Retried' = Retried + 1
        <4>1. "retry" \in Faults /\ faults' = [faults EXCEPT !["retry"] = @ + 1]
          BY <3>1 DEF Fault
        <4> QED
          BY <4>1 DEF Retried
      <3> QED
        BY <3>1
    <2> QED
      BY <1>1, <2>3, <2>4, <2>5
  <1> QED
    BY <1>2, <1>3

Counted ==
    /\ faults' \in [Faults -> Nat]
    /\ Retried \in Nat /\ Retried' \in Nat /\ Retried' >= Retried

\* A step that changes neither the document nor its drafts.
LEMMA DraftsKept ==
  ASSUME DraftsOk, UNCHANGED <<source, inv, drafts>>, Counted,
         pc' = "call" => pc = "call" /\ calls' = calls,
         pc' \in Finished => pc \in Finished
  PROVE  DraftsOk'
  <1>1. /\ ImportWay' = ImportWay /\ Total' = Total /\ LastDraft' = LastDraft
        /\ LinesOfWay' = LinesOfWay /\ Surplus' = Surplus
        /\ \A k : NthCall(k)' = NthCall(k)
    BY DEF ImportWay, Total, N, LastDraft, LinesOfWay, Surplus, NthCall
  <1>2. source' \in Sources /\ faults' \in [Faults -> Nat] /\ DraftTypes'
    BY DEF DraftsOk, Counted, DraftTypes
  <1>3. \A n : n \in 0 .. Retried => n \in 0 .. Retried'
    BY DEF Counted
  <1>4. ASSUME pc' = "call" PROVE \E m \in 1 .. Total' : CallAt(m)'
    <2>1. PICK m \in 1 .. Total : CallAt(m)
      BY <1>4 DEF DraftsOk
    <2>2. ASSUME NEW n, Built(n) PROVE Built(n)'
      BY <1>1, <1>3, <2>2 DEF Built, HasLines
    <2>3. CallAt(m)'
      BY <1>1, <1>3, <1>4, <2>1, <2>2 DEF CallAt
    <2> QED
      BY <1>1, <2>3
  <1>5. ASSUME pc' \in Finished PROVE Exact'
    BY <1>1, <1>3, <1>5 DEF DraftsOk, Exact
  <1> QED
    BY <1>2, <1>4, <1>5 DEF DraftsOk

\* A step after which nothing is sent and nothing is finished.
LEMMA NothingSent ==
  ASSUME DraftsOk, UNCHANGED source, Counted, DraftTypes',
         pc' # "call", pc' \notin Finished
  PROVE  DraftsOk'
  BY DEF DraftsOk, Counted

(* The verdict plans the calls, and there is no draft yet.                      *)
LEMMA PlanMade ==
  ASSUME VInv, DraftsOk, Verdict, Counted
  PROVE  DraftsOk'
  <1>1. UNCHANGED <<source, inv, drafts>> /\ pc = "refs" /\ Shape /\ drafts = <<>> /\ source \in Sources
    BY DEF Verdict, given, VInv, FutureOk, Resolving, Sent, Early, DraftsOk
  <1>2. CASE errs # {}
    BY <1>1, <1>2, DraftsKept DEF Verdict, GoTo, Finished
  <1>3. CASE errs = {}
    <2>1. pc' = "call" /\ calls' = ImportCalls
      BY <1>3 DEF Verdict, GoTo
    <2>2. N \in Nat /\ Total \in 1 .. N + 2 /\ ImportCalls = [k \in 1 .. Total |-> NthCall(k)]
      BY <1>1, Plan
    <2>3. /\ Total' = Total /\ \A k : NthCall(k)' = NthCall(k)
      BY <1>1 DEF Total, ImportWay, N, NthCall
    <2>4. [k \in 1 .. Total |-> NthCall(k)] = [k \in 1 .. Total + 1 - 1 |-> NthCall(1 + k - 1)]
      <3>1. Total + 1 - 1 = Total /\ \A k \in 1 .. Total : 1 + k - 1 = k
        BY <2>2
      <3> QED
        BY <3>1
    <2>5. Len(drafts') \in 0 .. Retried'
      <3>1. Len(<<>>) = 0
        OBVIOUS
      <3> QED
        BY <1>1, <3>1 DEF Counted
    <2>6. CallAt(1)'
      BY <2>1, <2>2, <2>3, <2>4, <2>5 DEF CallAt
    <2>7. 1 \in 1 .. Total' /\ DraftTypes'
      BY <1>1, <2>2, <2>3 DEF DraftsOk, DraftTypes
    <2> QED
      BY <1>1, <2>1, <2>6, <2>7 DEF DraftsOk, Counted, Finished
  <1> QED
    BY <1>2, <1>3

(* A call that has its effect: it is answered, sent again, or the last one.     *)
LEMMA DraftsBuilt ==
  ASSUME VInv, DraftsOk, pc = "call", UNCHANGED <<source, inv>>, Effect, Counted,
         \/ Answered
         \/ UNCHANGED <<calls, pc>> /\ Retried' = Retried + 1
         \/ pc' \in {"reject", "crash"}
  PROVE  DraftsOk'
  <1>1. Shape /\ source \in Sources /\ DraftTypes
    BY DEF VInv, FutureOk, DraftsOk
  <1>2. PICK m \in 1 .. Total : CallAt(m)
    BY DEF DraftsOk
  <1>3. N \in Nat /\ Total \in 1 .. N + 2 /\ ImportWay \in Ways
    BY <1>1, Plan, WayOfDocument
  <1>4. /\ ImportWay' = ImportWay /\ N' = N /\ Total' = Total /\ Shape'
        /\ \A k : NthCall(k)' = NthCall(k)
    BY <1>1 DEF ImportWay, N, Total, NthCall, Shape
  <1>5. /\ DraftTypes'
        /\ m > 1 /\ m <= N + 1 => Built(m - 1)'
        /\ m = 1 /\ ImportWay # "header" => Built(0)'
        /\ m = N + 2 => Built(m - 2)' /\ LastDraft'.coded
        /\ ImportWay = "header" => Exact'
        /\ Retried' = Retried + 1 =>
               /\ m = 1 => Len(drafts') \in 0 .. Retried'
               /\ m > 1 => Built(m - 2)'
    BY <1>1, <1>2, EffectBuilds DEF Counted
  <1>6. source' \in Sources /\ faults' \in [Faults -> Nat]
    BY <1>1 DEF Counted
  <1>7. CASE Answered
    <2>1. /\ calls' = Tail(calls)
          /\ Len(calls) = 1 => pc' = "number"
          /\ Len(calls) # 1 => pc' = "call"
      BY <1>7 DEF Answered, GoTo
    <2>2. /\ Len(calls) = Total + 1 - m
          /\ Tail(calls) = [k \in 1 .. Total + 1 - (m + 1) |-> NthCall(m + 1 + k - 1)]
      <3>1. Total \in Nat /\ m \in 1 .. Total
        BY <1>3
      <3>2. calls = [k \in 1 .. Total + 1 - m |-> NthCall(m + k - 1)]
        BY <1>2 DEF CallAt
      <3> QED
        BY <1>1, <3>1, <3>2, PlanLeft, Zenon
    <2>3. CASE m = Total
      <3>1. Exact'
        <4>1. (\A n : n = N /\ ImportWay # "header" /\ Built(n) /\ LastDraft.coded => Exact)'
          <5>1. (Shape => \A n : n = N /\ ImportWay # "header" /\ Built(n) /\ LastDraft.coded => Exact)'
            BY BuiltExact, PTL
          <5> QED
            BY <1>4, <5>1
        <4>2. CASE ImportWay = "inline"
          <5>1. Built(m - 1)' /\ m - 1 = N
            <6>1. CASE N = 0
              <7>1. m = 1 /\ m - 1 = 0
                BY <1>3, <2>3, <4>2, <6>1 DEF Total
              <7> QED
                BY <1>5, <4>2, <6>1, <7>1
            <6>2. CASE N # 0
              <7>1. m > 1 /\ m <= N + 1 /\ m - 1 = N
                BY <1>3, <2>3, <4>2, <6>2 DEF Total
              <7> QED
                BY <1>5, <7>1
            <6> QED
              BY <6>1, <6>2
          <5>2. LastDraft'.coded
            BY <1>4, <4>2, <5>1 DEF Built
          <5> QED
            BY <1>4, <4>1, <4>2, <5>1, <5>2
        <4>3. CASE ImportWay = "tagged"
          <5>1. m = N + 2 /\ m - 2 = N
            BY <1>3, <2>3, <4>3 DEF Total
          <5> QED
            BY <1>4, <1>5, <4>1, <4>3, <5>1
        <4> QED
          BY <1>3, <1>5, <4>2, <4>3 DEF Ways
      <3>2. pc' = "number"
        BY <1>3, <2>1, <2>2, <2>3
      <3> QED
        BY <1>5, <1>6, <3>1, <3>2 DEF DraftsOk
    <2>4. CASE m # Total
      <3>1. m + 1 \in 1 .. Total /\ (m + 1) - 2 = m - 1 /\ m + 1 > 1 /\ pc' = "call"
        BY <1>3, <2>1, <2>2, <2>4
      <3>2. Built((m + 1) - 2)'
        <4>1. ImportWay # "header" /\ m <= N + 1
          BY <1>3, <2>4 DEF Total
        <4>2. m = 1 => m - 1 = 0
          OBVIOUS
        <4> QED
          BY <1>3, <1>5, <3>1, <4>1, <4>2
      <3>3. calls' = [k \in 1 .. Total' + 1 - (m + 1) |-> NthCall(m + 1 + k - 1)']
        BY <1>4, <2>1, <2>2
      <3>4. CallAt(m + 1)'
        BY <3>1, <3>2, <3>3 DEF CallAt
      <3> QED
        BY <1>4, <1>5, <1>6, <3>1, <3>4 DEF DraftsOk, Finished
    <2> QED
      BY <2>3, <2>4
  <1>8. CASE UNCHANGED <<calls, pc>> /\ Retried' = Retried + 1
    <2>1. CallAt(m)'
      BY <1>2, <1>4, <1>5, <1>8 DEF CallAt
    <2> QED
      BY <1>4, <1>5, <1>6, <1>8, <2>1 DEF DraftsOk, Finished
  <1>9. CASE pc' \in {"reject", "crash"}
    BY <1>5, <1>6, <1>9 DEF DraftsOk, Finished
  <1> QED
    BY <1>7, <1>8, <1>9

\* Every step.
LEMMA ExactNext == EInv /\ [Next]_vars => EInv'
  <1> SUFFICES ASSUME EInv, [Next]_vars PROVE EInv'
    OBVIOUS
  <1>1. VInv' /\ VInv /\ DraftsOk
    BY VerdictNext DEF EInv
  <1> SUFFICES DraftsOk'
    BY <1>1 DEF EInv
  <1> USE DEF given, calling
  <1>2. ASSUME NoFault \/ \E kind : Fault(kind)
        PROVE  Counted /\ (Fault("retry") => Retried' = Retried + 1)
    BY <1>1, <1>2, FaultsCount DEF Counted, DraftsOk
  <1>3. CASE ListReference \/ RefUpsert \/ UpsertMap
    <2>1. UNCHANGED <<source, inv, drafts, pc, calls>>
      BY <1>3 DEF ListReference, RefUpsert, UpsertMap
    <2>2. Counted
      BY <1>2, <1>3 DEF ListReference, RefUpsert, UpsertMap, NoFault
    <2> QED
      BY <1>1, <2>1, <2>2, DraftsKept
  <1>4. CASE ResolveParty \/ ResolveItem \/ ValidateFields \/ ValidateReference
    <2>1. UNCHANGED <<source, drafts>> /\ pc' \in {"items", "refs"}
      BY <1>4 DEF ResolveParty, ResolveItem, ValidateFields, ValidateReference, GoTo
    <2>2. Counted
      BY <1>2, <1>4 DEF ResolveParty, ResolveItem, ValidateFields, ValidateReference, NoFault
    <2>3. DraftTypes'
      BY <1>1, <2>1 DEF DraftsOk, DraftTypes
    <2> QED
      BY <1>1, <2>1, <2>2, <2>3, NothingSent DEF Finished
  <1>5. CASE Verdict
    <2>1. Counted
      BY <1>2, <1>5 DEF Verdict, NoFault
    <2> QED
      BY <1>1, <1>5, <2>1, PlanMade
  <1>6. CASE CallBc
    <2>1. pc = "call" /\ UNCHANGED <<source, inv>>
      BY <1>6 DEF CallBc
    <2>2. CASE Answered
      BY <1>1, <1>2, <2>1, <2>2, DraftsBuilt DEF Answered
    <2>3. CASE Throttled
      <3>1. UNCHANGED <<calls, pc>>
        BY <2>3 DEF Throttled
      <3>2. CASE NoFault /\ NoEffect
        BY <1>1, <1>2, <2>1, <3>1, <3>2, DraftsKept DEF NoEffect
      <3>3. CASE Fault("retry") /\ Effect
        <4>1. Counted /\ Retried' = Retried + 1
          BY <1>2, <3>3
        <4> QED
          BY <1>1, <2>1, <3>1, <3>3, <4>1, DraftsBuilt
      <3> QED
        BY <2>3, <3>2, <3>3 DEF Throttled
    <2>4. CASE Refused
      <3>1. drafts' = drafts /\ pc' = "reject" /\ Counted
        BY <1>2, <2>4 DEF Refused, NoEffect, GoTo
      <3> QED
        BY <1>1, <2>1, <3>1, DraftsKept DEF Finished
    <2>5. CASE Lost
      <3>1. Effect /\ pc' = "reject" /\ Counted
        BY <1>2, <2>5 DEF Lost, GoTo
      <3> QED
        BY <1>1, <2>1, <3>1, DraftsBuilt
    <2> QED
      BY <1>6, <2>2, <2>3, <2>4, <2>5 DEF CallBc
  <1>7. CASE SetBcDocumentNo \/ UpdateStatus("imported", "imported", "yes")
    <2>1. UNCHANGED <<source, inv, drafts>> /\ pc' \in {"imported", "yes", "err"} /\ pc \in Finished
      BY <1>7 DEF UpdateStatus, SetBcDocumentNo, Written, GoTo, RestOfWrite, Finished
    <2>2. Counted
      BY <1>2, <1>7 DEF UpdateStatus, SetBcDocumentNo, Written
    <2> QED
      BY <1>1, <2>1, <2>2, DraftsKept
  <1>8. CASE \/ RecordErrors("errors", errs, "invalid") \/ UpdateStatus("invalid", "invalid", "no")
             \/ RecordErrors("reject", {Error(0, "BC")}, "failed") \/ UpdateStatus("failed", "failed", "no")
             \/ StagingFails
    <2>1. UNCHANGED <<source, inv, drafts>> /\ pc' \in {"invalid", "no", "failed", "err"}
      BY <1>8 DEF RecordErrors, UpdateStatus, StagingFails, Written, GoTo, RestOfWrite
    <2>2. Counted
      BY <1>2, <1>8 DEF RecordErrors, UpdateStatus, StagingFails, Written
    <2> QED
      BY <1>1, <2>1, <2>2, DraftsKept DEF Finished
  <1>9. CASE Crash
    <2>1. UNCHANGED <<source, inv>> /\ pc' = "crash" /\ (drafts' = drafts \/ (pc = "call" /\ Effect))
      BY <1>9 DEF Crash, GoTo, NoEffect
    <2>2. Counted
      BY <1>2, <1>9 DEF Crash
    <2>3. CASE drafts' = drafts
      BY <1>1, <2>1, <2>2, <2>3, DraftsKept DEF Finished
    <2>4. CASE pc = "call" /\ Effect
      BY <1>1, <2>1, <2>2, <2>4, DraftsBuilt
    <2> QED
      BY <2>1, <2>3, <2>4
  <1>10. CASE UNCHANGED vars
    <2>1. UNCHANGED <<source, inv, drafts, pc, calls>> /\ NoFault
      BY <1>10 DEF vars, NoFault
    <2> QED
      BY <1>1, <1>2, <2>1, DraftsKept
  <1> QED
    BY <1>3, <1>4, <1>5, <1>6, <1>7, <1>8, <1>9, <1>10 DEF Next

(* ExactDraft holds of any document and any way to import it: what counts as    *)
(* imported is one draft with the batch code and the resolved lines, whatever   *)
(* is refused, lost or crashes, and a header or line is there once more only    *)
(* for a 5xx that was answered after its effect (bc_client.rs:108-120).         *)
THEOREM ExactlyOnce == Spec => []ExactDraft
  <1>1. EInv => ExactDraft
    BY DEF EInv, DraftsOk, Finished, Exact, ExactDraft, Last, LastDraft
  <1> QED
    BY <1>1, ExactInit, ExactNext, PTL DEF Spec

-------------------------------------------------------------------------------
(* The outcome, as a chunk sees it                                              *)

W == ImportWay
Kind == Head(calls).entity
Piece(n) == Draft(drafts[n].coded, drafts[n].lines # <<>>)

\* Drafts before the last are bare: each is a header that was sent again, which
\* happens once at most.
BareBefore ==
    /\ Len(drafts) <= 2
    /\ \A n \in 1 .. Len(drafts) : n < Len(drafts) => Piece(n) = Bare(W)

\* What the calls so far have left.
Pieces ==
    /\ BareBefore
    /\ Kind = "header" => /\ Len(drafts) <= attempt
                          /\ \A n \in 1 .. Len(drafts) : Piece(n) = Bare(W)
    /\ Kind = "line" => LastDraft.coded = (W # "tagged")
    /\ Kind = "tag" => LastDraft.coded \in BOOLEAN

ROk ==
    /\ pc = "errors" => errs # {}
    /\ pc = "call" => Pieces

RInv == EInv /\ ROk

\* A document that is sent has lines.
LEMMA SentHasLines ==
  ASSUME Shape, FieldErrors(inv) = {}
  PROVE  N \in Nat /\ N > 0
  <1>1. inv.lines # <<>>
    <2>1. ASSUME inv.lines = <<>> PROVE Error(0, "NO_LINES") \in FieldErrors(inv)
      <3>1. Error(0, "NO_LINES").code = "NO_LINES"
        BY DEF Error
      <3>2. Error(0, "NO_LINES") \in {Error(0, c) : c \in HeaderCodes}
        BY Zenon DEF HeaderCodes
      <3> QED
        BY <2>1, <3>1, <3>2 DEF FieldErrors
    <2> QED
      BY <2>1
  <1>2. PICK S : inv.lines \in Seq(S)
    BY DEF Shape, IsSeq
  <1>3. Len(inv.lines) \in Nat /\ (Len(inv.lines) = 0 => inv.lines = <<>>)
    BY <1>2
  <1> QED
    BY <1>1, <1>3 DEF N

\* Where the calls are.
LEMMA CallIs ==
  ASSUME EInv, pc = "call"
  PROVE  /\ Shape /\ source \in Sources /\ DraftTypes /\ attempt \in 0 .. 1
         /\ N \in Nat /\ N > 0 /\ W \in Ways /\ Total \in 1 .. N + 2
         /\ \E m \in 1 .. Total :
                /\ CallAt(m) /\ Head(calls) = NthCall(m) /\ Len(calls) = Total + 1 - m
                /\ Tail(calls) = [k \in 1 .. Total - m |-> NthCall(m + k)]
  <1>1. Shape /\ source \in Sources /\ DraftTypes /\ attempt \in 0 .. 1 /\ calls # <<>>
    BY DEF EInv, VInv, FutureOk, FutureTypes, DraftsOk
  <1>2. FieldErrors(inv) = {}
    BY <1>1 DEF EInv, VInv, FutureOk, SentSound, AllPassed, Sent
  <1>3. N \in Nat /\ N > 0 /\ W \in Ways /\ Total \in 1 .. N + 2
    BY <1>1, <1>2, SentHasLines, WayOfDocument, Plan DEF W
  <1>4. PICK m \in 1 .. Total : CallAt(m)
    BY DEF EInv, DraftsOk
  <1>5. /\ Head(calls) = NthCall(m) /\ Len(calls) = Total + 1 - m
        /\ Tail(calls) = [k \in 1 .. Total + 1 - (m + 1) |-> NthCall(m + 1 + k - 1)]
    <2>1. Total \in Nat /\ m \in 1 .. Total
      BY <1>3
    <2>2. calls = [k \in 1 .. Total + 1 - m |-> NthCall(m + k - 1)]
      BY <1>4 DEF CallAt
    <2> QED
      BY <1>1, <2>1, <2>2, PlanLeft, Zenon
  <1>6. [k \in 1 .. Total + 1 - (m + 1) |-> NthCall(m + 1 + k - 1)] = [k \in 1 .. Total - m |-> NthCall(m + k)]
    <2>1. Total + 1 - (m + 1) = Total - m /\ \A k \in 1 .. Total - m : m + 1 + k - 1 = m + k
      BY <1>3
    <2> QED
      BY <2>1
  <1>7. Tail(calls) = [k \in 1 .. Total - m |-> NthCall(m + k)]
    BY <1>5, <1>6
  <1> QED
    BY <1>1, <1>3, <1>4, <1>5, <1>7

\* What one more call makes of the drafts.
LEMMA EffectShows ==
  ASSUME EInv, pc = "call", Pieces, UNCHANGED <<source, inv>>, Effect
  PROVE  /\ BareBefore' /\ Len(drafts') \in 1 .. 2
         /\ Kind = "header" => /\ Len(drafts') <= attempt + 1
                               /\ LastDraft'.coded = (W # "tagged")
                               /\ \A n \in 1 .. Len(drafts') : Piece(n)' = Bare(W)
         /\ Kind = "line" => LastDraft'.coded = (W # "tagged") /\ LastDraft'.lines # <<>>
         /\ Kind = "tag" => LastDraft'.coded = TRUE /\ LastDraft'.lines # <<>>
  <1>1. /\ Shape /\ source \in Sources /\ DraftTypes /\ attempt \in 0 .. 1
        /\ N \in Nat /\ N > 0 /\ W \in Ways /\ Total \in 1 .. N + 2
    BY CallIs
  <1>2. PICK m \in 1 .. Total : CallAt(m) /\ Head(calls) = NthCall(m)
    BY CallIs
  <1>3. /\ m \in 1 .. N + 2 /\ W' = W
        /\ Kind = IF m = 1 THEN "header" ELSE IF m = N + 2 THEN "tag" ELSE "line"
    BY <1>1, <1>2 DEF Kind, NthCall, Call, W, ImportWay
  <1>4. /\ DraftTypes' /\ Len(drafts) \in Nat /\ Len(drafts') \in Nat /\ drafts' # <<>>
        /\ m = 1 => Len(drafts') = Len(drafts) + 1 /\ LastDraft' = NewDraft
        /\ m > 1 => Len(drafts') = Len(drafts) /\ IsSeq(LastDraft.lines)
        /\ m > 1 /\ m <= N + 1 => /\ LastDraft'.lines = Append(LastDraft.lines, inv.lines[m - 1])
                                  /\ LastDraft'.coded = LastDraft.coded
        /\ m = N + 2 => LastDraft'.lines = LastDraft.lines /\ LastDraft'.coded = TRUE
        /\ \A n \in 1 .. Len(drafts) : m = 1 \/ n # Len(drafts) => drafts'[n] = drafts[n]
    <2>1. m > 1 => drafts # <<>>
      BY <1>2 DEF CallAt, Built
    <2> QED
      BY <1>1, <1>2, <1>3, <2>1, EffectOf
  <1>5. Len(drafts') > 0
    <2>1. PICK S : drafts' \in Seq(S)
      BY <1>4 DEF DraftTypes, IsSeq
    <2> QED
      BY <1>4, <2>1
  <1>6. ASSUME NEW n \in 1 .. Len(drafts), drafts'[n] = drafts[n], Piece(n) = Bare(W)
        PROVE  Piece(n)' = Bare(W)
    BY <1>6 DEF Piece
  <1>7. CASE m = 1
    <2>1. /\ Len(drafts) <= attempt /\ Len(drafts') = Len(drafts) + 1
          /\ \A n \in 1 .. Len(drafts) : Piece(n) = Bare(W)
      BY <1>3, <1>4, <1>7 DEF Pieces
    <2>2. LastDraft'.coded = (W # "tagged") /\ (LastDraft'.lines # <<>> <=> W = "header")
      <3>1. <<Head(inv.lines)>> # <<>>
        OBVIOUS
      <3>2. LastDraft' = NewDraft
        BY <1>4, <1>7
      <3>3. NewDraft.coded = (W # "tagged")
        BY DEF NewDraft, W
      <3>4. NewDraft.lines = IF W = "header" THEN <<Head(inv.lines)>> ELSE <<>>
        BY DEF NewDraft, W
      <3> QED
        BY <3>1, <3>2, <3>3, <3>4
    <2>3. ASSUME NEW k, k = Len(drafts') PROVE Piece(k)' = Bare(W)
      <3>1. drafts'[k] = LastDraft'
        BY <2>3 DEF LastDraft
      <3>2. Piece(k)' = Draft(drafts'[k].coded, drafts'[k].lines # <<>>)
        BY DEF Piece
      <3>3. (LastDraft'.lines # <<>>) = (W = "header")
        BY <2>2
      <3>4. Piece(k)' = Draft(W # "tagged", W = "header")
        BY <2>2, <3>1, <3>2, <3>3
      <3> QED
        BY <3>4 DEF Bare
    <2>4. \A n \in 1 .. Len(drafts') : Piece(n)' = Bare(W)
      <3>1. TAKE n \in 1 .. Len(drafts')
      <3>2. n \in 1 .. Len(drafts) \/ n = Len(drafts')
        BY <1>4, <2>1
      <3>3. ASSUME n \in 1 .. Len(drafts) PROVE Piece(n)' = Bare(W)
        BY <1>4, <1>6, <1>7, <2>1, <3>3
      <3> QED
        BY <2>3, <3>2, <3>3
    <2> QED
      BY <1>1, <1>3, <1>4, <1>5, <1>7, <2>1, <2>2, <2>4 DEF BareBefore
  <1>8. CASE m > 1
    <2>1. BareBefore' /\ Len(drafts') \in 1 .. 2
      <3>1. Len(drafts') = Len(drafts) /\ Len(drafts) <= 2
        BY <1>4, <1>8 DEF Pieces, BareBefore
      <3>2. ASSUME NEW n \in 1 .. Len(drafts), n < Len(drafts) PROVE Piece(n)' = Bare(W)
        BY <1>4, <1>6, <3>2 DEF Pieces, BareBefore
      <3> QED
        BY <1>3, <1>4, <1>5, <3>1, <3>2 DEF BareBefore
    <2>2. CASE m <= N + 1
      <3>1. Kind = "line" /\ LastDraft'.coded = (W # "tagged")
        BY <1>1, <1>3, <1>4, <1>8, <2>2 DEF Pieces
      <3>2. LastDraft'.lines # <<>>
        <4>1. IsSeq(LastDraft.lines) /\ LastDraft'.lines = Append(LastDraft.lines, inv.lines[m - 1])
          BY <1>4, <1>8, <2>2
        <4>2. Len(LastDraft.lines) \in Nat /\ Len(Append(LastDraft.lines, inv.lines[m - 1])) = Len(LastDraft.lines) + 1
          BY <4>1, Appended, Zenon
        <4>3. Len(LastDraft'.lines) # 0 /\ Len(<<>>) = 0
          BY <4>1, <4>2
        <4> QED
          BY <4>3, Zenon
      <3> QED
        BY <2>1, <3>1, <3>2
    <2>3. CASE m = N + 2
      <3>1. Kind = "tag" /\ LastDraft'.coded = TRUE /\ LastDraft'.lines = LastDraft.lines
        BY <1>1, <1>3, <1>4, <2>3
      <3>2. LastDraft.lines # <<>>
        <4>1. HasLines(m - 2) /\ 1 \in 1 .. m - 2
          BY <1>1, <1>2, <1>8, <2>3 DEF CallAt, Built
        <4>2. inv.lines[1] \in ToSet(LastDraft.lines)
          BY <4>1 DEF HasLines, LastDraft
        <4>3. ToSet(<<>>) = {}
          BY DEF ToSet
        <4> QED
          BY <4>2, <4>3
      <3> QED
        BY <2>1, <3>1, <3>2
    <2>4. m <= N + 1 \/ m = N + 2
      BY <1>1, <1>3
    <2> QED
      BY <2>2, <2>3, <2>4, Zenon
  <1>9. m = 1 \/ m > 1
    BY <1>3
  <1> QED
    BY <1>7, <1>8, <1>9, Zenon

\* Each call keeps the shape of what is left.
LEMMA PiecesNext ==
  ASSUME RInv, [Next]_vars
  PROVE  ROk'
  <1>1. EInv /\ ROk
    BY DEF RInv
  <1> USE DEF given, calling, GoTo
  <1>2. CASE ListReference \/ RefUpsert \/ UpsertMap \/ UNCHANGED vars
    <2>1. UNCHANGED <<source, inv, drafts, pc, calls, attempt, errs>>
      BY <1>2 DEF ListReference, RefUpsert, UpsertMap, vars
    <2> QED
      BY <1>1, <2>1 DEF ROk, Pieces, BareBefore, Piece, Kind, LastDraft, W, ImportWay
  <1>3. CASE ResolveParty \/ ResolveItem \/ ValidateFields \/ ValidateReference
    <2>1. pc' \in {"items", "refs"}
      BY <1>3 DEF ResolveParty, ResolveItem, ValidateFields, ValidateReference
    <2> QED
      BY <2>1 DEF ROk
  <1>4. CASE Verdict
    <2>1. CASE errs # {}
      BY <1>4, <2>1 DEF Verdict, ROk
    <2>2. CASE errs = {}
      <3>1. UNCHANGED <<source, inv, attempt>> /\ pc' = "call" /\ calls' = ImportCalls /\ drafts' = drafts
        BY <1>4, <2>2 DEF Verdict
      <3>2. Shape /\ source \in Sources /\ drafts = <<>> /\ attempt \in 0 .. 1
        BY <1>1, <1>4 DEF Verdict, EInv, VInv, FutureOk, FutureTypes, Resolving, Sent, Early, DraftsOk
      <3>3. N \in Nat /\ Total \in 1 .. N + 2 /\ ImportCalls = [k \in 1 .. Total |-> NthCall(k)]
        BY <3>2, Plan
      <3>4. Head(ImportCalls) = Call("header", 0)
        <4>1. Head(ImportCalls) = ImportCalls[1]
          <5>1. IsSeq(ImportCalls) /\ ImportCalls # <<>>
            BY <3>2, CallsSequence
          <5>2. PICK S : ImportCalls \in Seq(S)
            BY <5>1 DEF IsSeq
          <5> QED
            BY <5>1, <5>2
        <4>2. 1 \in 1 .. Total
          BY <3>3
        <4> QED
          BY <3>3, <4>1, <4>2 DEF NthCall
      <3>5. Kind' = "header"
        BY <3>1, <3>4 DEF Kind, Call
      <3>6. Len(drafts') = 0
        BY <3>1, <3>2
      <3>7. Pieces'
        BY <3>1, <3>2, <3>5, <3>6 DEF Pieces, BareBefore
      <3> QED
        BY <3>1, <3>7 DEF ROk
    <2> QED
      BY <2>1, <2>2
  <1>5. CASE CallBc
    <2>1. pc = "call" /\ UNCHANGED <<source, inv>> /\ Pieces /\ W' = W
      BY <1>1, <1>5 DEF CallBc, ROk, W, ImportWay
    <2>2. attempt \in 0 .. 1 /\ W \in Ways
      BY <1>1, <2>1, CallIs
    <2>3. CASE Answered
      <3>1. /\ BareBefore' /\ Len(drafts') \in 1 .. 2
            /\ Kind = "header" => LastDraft'.coded = (W # "tagged")
            /\ Kind = "line" => LastDraft'.coded = (W # "tagged")
        BY <1>1, <2>1, <2>3, EffectShows DEF Answered
      <3>2. CASE Len(calls) = 1
        BY <2>3, <3>2 DEF Answered, ROk
      <3>3. CASE Len(calls) # 1
        <4>1. pc' = "call" /\ calls' = Tail(calls)
          BY <2>3, <3>3 DEF Answered
        <4>2. PICK m \in 1 .. Total : /\ Head(calls) = NthCall(m) /\ Len(calls) = Total + 1 - m
                                      /\ Tail(calls) = [k \in 1 .. Total - m |-> NthCall(m + k)]
          BY <1>1, <2>1, CallIs
        <4>3. N \in Nat /\ Total \in 1 .. N + 2 /\ m < Total
          BY <1>1, <2>1, <3>3, <4>2, CallIs
        <4>4. Head(calls') = NthCall(m + 1)
          <5>1. Head(Tail(calls)) = Tail(calls)[1]
            <6>1. IsSeq(calls') /\ calls' # <<>>
              BY <4>1, <1>1, VerdictNext DEF EInv, VInv, FutureOk, FutureTypes
            <6>2. PICK S : calls' \in Seq(S)
              BY <6>1 DEF IsSeq
            <6> QED
              BY <4>1, <6>1, <6>2
          <5>2. 1 \in 1 .. Total - m
            BY <4>3
          <5> QED
            BY <4>1, <4>2, <5>1, <5>2
        <4>5. Kind' \in {"line", "tag"} /\ Kind \in {"header", "line"}
          BY <4>2, <4>3, <4>4 DEF Kind, NthCall, Call
        <4>6. Pieces'
          BY <2>1, <3>1, <4>5 DEF Pieces
        <4> QED
          BY <4>1, <4>6 DEF ROk
      <3> QED
        BY <3>2, <3>3
    <2>4. CASE Throttled
      <3>1. UNCHANGED <<calls, pc>> /\ attempt = 0 /\ attempt' = 1 /\ Kind' = Kind
        BY <2>2, <2>4 DEF Throttled, LastAttempt, Kind
      <3>2. CASE drafts' = drafts
        BY <2>1, <2>2, <3>1, <3>2 DEF ROk, Pieces, BareBefore, Piece, LastDraft
      <3>3. CASE Effect
        <4>1. /\ BareBefore'
              /\ Kind = "header" => /\ Len(drafts') <= attempt + 1
                                    /\ \A n \in 1 .. Len(drafts') : Piece(n)' = Bare(W)
              /\ Kind = "line" => LastDraft'.coded = (W # "tagged")
              /\ Kind = "tag" => LastDraft'.coded = TRUE
          BY <1>1, <2>1, <3>3, EffectShows
        <4>2. Kind' = "header" => /\ Len(drafts') <= attempt'
                                  /\ \A n \in 1 .. Len(drafts') : Piece(n)' = Bare(W')
          BY <2>1, <3>1, <4>1
        <4>3. /\ Kind' = "line" => LastDraft'.coded = (W' # "tagged")
              /\ Kind' = "tag" => LastDraft'.coded \in BOOLEAN
          BY <2>1, <3>1, <4>1
        <4>4. Pieces'
          BY <4>1, <4>2, <4>3 DEF Pieces
        <4> QED
          BY <2>1, <3>1, <4>4 DEF ROk
      <3> QED
        BY <2>4, <3>2, <3>3 DEF Throttled, NoEffect
    <2>5. CASE Refused \/ Lost
      BY <2>5 DEF Refused, Lost, ROk
    <2> QED
      BY <1>5, <2>3, <2>4, <2>5 DEF CallBc
  <1>6. CASE \/ RecordErrors("errors", errs, "invalid") \/ UpdateStatus("invalid", "invalid", "no")
             \/ SetBcDocumentNo \/ UpdateStatus("imported", "imported", "yes")
             \/ RecordErrors("reject", {Error(0, "BC")}, "failed") \/ UpdateStatus("failed", "failed", "no")
    BY <1>6 DEF RecordErrors, UpdateStatus, SetBcDocumentNo, Written, ROk
  <1>7. CASE StagingFails \/ Crash
    BY <1>7 DEF StagingFails, Crash, ROk
  <1> QED
    BY <1>2, <1>3, <1>4, <1>5, <1>6, <1>7 DEF Next

\* Two sequences of one element.
LEMMA OneAndOne ==
  ASSUME NEW b, NEW x
  PROVE  <<b>> \o <<x>> = <<b, x>>
  <1> DEFINE S == {b, x}
             p == <<b>>
             q == <<x>>
             c == p \o q
  <1>1. p \in Seq(S) /\ q \in Seq(S) /\ Len(p) = 1 /\ Len(q) = 1 /\ p[1] = b /\ q[1] = x
    OBVIOUS
  <1>2. <<b, x>> \in Seq(S) /\ Len(<<b, x>>) = 2
    OBVIOUS
  <1> HIDE DEF S, p, q
  <1>3. /\ c \in Seq(S) /\ Len(c) = Len(p) + Len(q)
        /\ \A i \in 1 .. Len(p) : c[i] = p[i]
        /\ \A i \in 1 .. Len(q) : c[Len(p) + i] = q[i]
    BY <1>1, Concatenation, SMT
  <1> HIDE DEF c
  <1>4. Len(c) = 2 /\ c[1] = b /\ c[2] = x
    BY <1>1, <1>3
  <1>5. \A i \in 1 .. 2 : c[i] = <<b, x>>[i]
    BY <1>4
  <1>6. c = <<b, x>>
    BY <1>2, <1>3, <1>4, <1>5, SeqEqual
  <1> QED
    BY <1>6 DEF c, p, q

\* What there is when a call fails, and when the last one is answered, is one of
\* the Leftovers.
LEMMA LeftoversAre ==
  ASSUME NEW way \in Ways, NEW k \in 0 .. 2, NEW t,
         t = [n \in 1 .. k |-> t[n]],
         \A n \in 1 .. k : n < k => t[n] = Bare(way)
  PROVE  /\ k = 0 \/ (k > 0 /\ t[k] \in {Bare(way), Partial(way), Whole})
                => t \in {l.drafts : l \in Outcome!Leftovers(way, FALSE)}
         /\ k > 0 /\ t[k] = Whole => t \in {l.drafts : l \in Outcome!Leftovers(way, TRUE)}
  <1> DEFINE Once(ok) == IF ok THEN {Outcome!Left(<<Outcome!Whole>>, {})} ELSE Outcome!Rejected(way)
  <1>1. Outcome!Bare(way) = Bare(way) /\ Outcome!Partial(way) = Partial(way) /\ Outcome!Whole = Whole
    BY DEF Outcome!Bare, Bare, Outcome!Partial, Partial, Outcome!Whole, Whole, Outcome!Draft, Draft
  <1>2. ASSUME NEW ok \in BOOLEAN, NEW l \in Once(ok)
        PROVE  /\ l.drafts \in {r.drafts : r \in Outcome!Leftovers(way, ok)}
               /\ <<Bare(way)>> \o l.drafts \in {r.drafts : r \in Outcome!Leftovers(way, ok)}
    <2>1. l \in Outcome!Leftovers(way, ok)
      BY <1>2 DEF Outcome!Leftovers
    <2> DEFINE r == Outcome!Left(<<Outcome!Bare(way)>> \o l.drafts, l.faults \union {"retry"})
    <2>2. r \in Outcome!Leftovers(way, ok)
      BY <1>2 DEF Outcome!Leftovers
    <2>3. r.drafts = <<Bare(way)>> \o l.drafts
      BY <1>1 DEF Outcome!Left
    <2> QED
      BY <2>1, <2>2, <2>3
  <1>3. ASSUME NEW x, k > 0, t[k] = x
        PROVE  t = <<x>> \/ t = <<Bare(way)>> \o <<x>>
    <2>1. CASE k = 1
      BY <1>3, <2>1
    <2>2. CASE k = 2
      <3>1. t[1] = Bare(way) /\ t[2] = x
        BY <1>3, <2>2
      <3> DEFINE b == Bare(way)
      <3> HIDE DEF b
      <3>2. <<b>> \o <<x>> = <<b, x>>
        BY OneAndOne
      <3>3. t = <<b, x>>
        BY <2>2, <3>1 DEF b
      <3> QED
        BY <3>2, <3>3 DEF b
    <2> QED
      BY <1>3, <2>1, <2>2
  <1>4. ASSUME NEW x, NEW ok \in BOOLEAN, k > 0, t[k] = x, \E l \in Once(ok) : l.drafts = <<x>>
        PROVE  t \in {r.drafts : r \in Outcome!Leftovers(way, ok)}
    <2>1. PICK l \in Once(ok) : l.drafts = <<x>>
      BY <1>4
    <2>2. t = l.drafts \/ t = <<Bare(way)>> \o l.drafts
      BY <1>3, <1>4, <2>1
    <2> HIDE DEF Once
    <2> QED
      BY <1>2, <1>4, <2>1, <2>2
  <1>5. \A d, f : Outcome!Left(d, f).drafts = d
    BY DEF Outcome!Left
  <1>6. \E l \in Once(TRUE) : l.drafts = <<Whole>>
    BY <1>1, <1>5
  <1>7. ASSUME NEW x \in {Bare(way), Partial(way), Whole}
        PROVE  \E l \in Once(FALSE) : l.drafts = <<x>>
    <2>1. CASE x = Whole \/ (way = "header" /\ x = Partial(way))
      <3>1. x = Whole
        BY <2>1 DEF Partial, Whole, Draft
      <3>2. Outcome!Left(<<Outcome!Whole>>, {"reply"}) \in Outcome!Rejected(way)
        BY DEF Outcome!Rejected
      <3> QED
        BY <1>1, <1>5, <3>1, <3>2
    <2>2. CASE x = Bare(way)
      <3>1. Outcome!Left(<<Outcome!Bare(way)>>, IF way = "header" THEN {"reply"} ELSE {}) \in Outcome!Rejected(way)
        BY DEF Outcome!Rejected
      <3> QED
        BY <1>1, <1>5, <2>2, <3>1
    <2>3. CASE way # "header" /\ x = Partial(way)
      <3>1. Outcome!Left(<<Outcome!Partial(way)>>, {}) \in Outcome!Rejected(way)
        BY <2>3 DEF Outcome!Rejected
      <3> QED
        BY <1>1, <1>5, <2>3, <3>1
    <2> QED
      BY <1>7, <2>1, <2>2, <2>3
  <1>8. k = 0 => t \in {l.drafts : l \in Outcome!Leftovers(way, FALSE)}
    <2>1. Outcome!Left(<<>>, {}) \in Once(FALSE)
      BY DEF Outcome!Rejected
    <2>2. k = 0 => t = <<>>
      OBVIOUS
    <2> DEFINE none == Outcome!Left(<<>>, {})
    <2>3. none.drafts = <<>> /\ none \in Once(FALSE)
      BY <1>5, <2>1
    <2> HIDE DEF Once, none
    <2>4. none.drafts \in {r.drafts : r \in Outcome!Leftovers(way, FALSE)}
      BY <1>2, <2>3
    <2> QED
      BY <2>2, <2>3, <2>4
  <1> HIDE DEF Once
  <1>9. ASSUME k > 0, t[k] \in {Bare(way), Partial(way), Whole}
        PROVE  t \in {l.drafts : l \in Outcome!Leftovers(way, FALSE)}
    BY <1>4, <1>7, <1>9
  <1>10. k > 0 /\ t[k] = Whole => t \in {l.drafts : l \in Outcome!Leftovers(way, TRUE)}
    BY <1>4, <1>6
  <1> QED
    BY <1>8, <1>9, <1>10

Failing(way) == {l.drafts : l \in Outcome!Leftovers(way, FALSE)}
Succeeding(way) == {l.drafts : l \in Outcome!Leftovers(way, TRUE)}

\* What is seen after the calls.
LEMMA SeenAfter ==
  ASSUME DraftTypes', pc' # "call", W' = W, W \in Ways, BareBefore',
         NEW k, k = Len(drafts')
  PROVE  /\ k = 0 \/ (k > 0 /\ Piece(k)' \in {Bare(W), Partial(W), Whole}) => Seen' \in Failing(W)
         /\ k > 0 /\ Piece(k)' = Whole => Seen' \in Succeeding(W)
  <1> DEFINE t == [n \in DOMAIN drafts' |-> Draft(drafts'[n].coded, drafts'[n].lines # <<>>)]
  <1>1. Seen' = t
    BY DEF Seen
  <1>2. k \in 0 .. 2 /\ DOMAIN drafts' = 1 .. k
    <2>1. PICK S : drafts' \in Seq(S)
      BY DEF DraftTypes, IsSeq
    <2> QED
      BY <2>1 DEF BareBefore
  <1>3. \A n \in 1 .. k : t[n] = Piece(n)'
    BY <1>2 DEF Piece
  <1>4. t = [n \in 1 .. k |-> t[n]]
    BY <1>2
  <1>5. \A n \in 1 .. k : n < k => t[n] = Bare(W)
    BY <1>2, <1>3 DEF BareBefore
  <1>6. k > 0 => t[k] = Piece(k)'
    BY <1>2, <1>3
  <1> HIDE DEF t
  <1>7. /\ k = 0 \/ (k > 0 /\ t[k] \in {Bare(W), Partial(W), Whole})
                 => t \in {l.drafts : l \in Outcome!Leftovers(W, FALSE)}
        /\ k > 0 /\ t[k] = Whole => t \in {l.drafts : l \in Outcome!Leftovers(W, TRUE)}
    BY <1>2, <1>4, <1>5, LeftoversAre
  <1> QED
    BY <1>1, <1>6, <1>7 DEF Failing, Succeeding

\* The calls end without another effect.
LEMMA LeftUnsent ==
  ASSUME RInv, pc = "call", pc' # "call", UNCHANGED <<source, inv, drafts>>
  PROVE  Seen' \in Failing(W)
  <1>1. /\ W \in Ways /\ W' = W /\ DraftTypes' /\ N \in Nat /\ N > 0 /\ Total \in 1 .. N + 2
    BY CallIs DEF RInv, W, ImportWay, DraftTypes
  <1>2. Pieces /\ BareBefore'
    BY <1>1 DEF RInv, ROk, Pieces, BareBefore, Piece
  <1>3. PICK m \in 1 .. Total : CallAt(m) /\ Head(calls) = NthCall(m)
    BY CallIs DEF RInv
  <1>4. Kind = IF m = 1 THEN "header" ELSE IF m = N + 2 THEN "tag" ELSE "line"
    BY <1>3 DEF Kind, NthCall, Call
  <1>5. PICK k : k = Len(drafts)
    OBVIOUS
  <1>6. k \in Nat /\ (k > 0 => drafts[k] = LastDraft)
    <2>1. PICK S : drafts \in Seq(S)
      BY CallIs DEF RInv, DraftTypes, IsSeq
    <2> QED
      BY <1>5, <2>1 DEF LastDraft
  <1>7. k = 0 \/ (k > 0 /\ Piece(k) \in {Bare(W), Partial(W), Whole})
    <2>1. CASE k = 0
      BY <2>1
    <2>2. CASE k > 0 /\ m = 1
      BY <1>2, <1>4, <1>5, <1>6, <2>2 DEF Pieces
    <2>3. CASE k > 0 /\ m > 1
      <3>1. W # "header" /\ (m = N + 2 => W = "tagged")
        BY <1>1, <1>3, <2>3 DEF Total, W, Ways
      <3>2. CASE m # N + 2
        <4>1. LastDraft.coded = (W # "tagged")
          BY <1>2, <1>4, <2>3, <3>2 DEF Pieces
        <4>2. Piece(k) = Draft(W # "tagged", LastDraft.lines # <<>>)
          BY <1>6, <2>3, <4>1 DEF Piece
        <4>3. CASE LastDraft.lines # <<>>
          BY <2>3, <4>2, <4>3 DEF Partial, Draft
        <4>4. CASE LastDraft.lines = <<>>
          BY <2>3, <3>1, <4>2, <4>4 DEF Bare, Draft
        <4> QED
          BY <4>3, <4>4
      <3>3. CASE m = N + 2
        <4>1. LastDraft.coded \in BOOLEAN
          BY <1>2, <1>4, <2>3, <3>3 DEF Pieces
        <4>2. LastDraft.lines # <<>>
          <5>1. HasLines(m - 2) /\ 1 \in 1 .. m - 2
            BY <1>1, <1>3, <2>3, <3>3 DEF CallAt, Built
          <5>2. inv.lines[1] \in ToSet(LastDraft.lines)
            BY <5>1 DEF HasLines, LastDraft
          <5>3. ToSet(<<>>) = {}
            BY DEF ToSet
          <5> QED
            BY <5>2, <5>3
        <4>3. Piece(k) = Draft(LastDraft.coded, TRUE)
          BY <1>6, <2>3, <4>2 DEF Piece
        <4>4. CASE LastDraft.coded = TRUE
          BY <2>3, <4>3, <4>4 DEF Whole
        <4>5. CASE LastDraft.coded = FALSE
          BY <2>3, <3>1, <3>3, <4>3, <4>5 DEF Partial, Draft
        <4> QED
          BY <4>1, <4>4, <4>5
      <3> QED
        BY <3>2, <3>3
    <2> QED
      BY <1>3, <1>6, <2>1, <2>2, <2>3
  <1>8. Piece(k)' = Piece(k) /\ k = Len(drafts')
    BY <1>5 DEF Piece
  <1> QED
    BY <1>1, <1>2, <1>7, <1>8, SeenAfter

\* The calls end with the effect of one more; if that is the last, and it is
\* answered, the draft is whole.
LEMMA LeftSent ==
  ASSUME RInv, pc = "call", pc' # "call", UNCHANGED <<source, inv>>, Effect, DraftTypes'
  PROVE  /\ Seen' \in Failing(W)
         /\ Len(calls) = 1 => Seen' \in Succeeding(W)
  <1>1. W \in Ways /\ W' = W /\ N \in Nat /\ N > 0 /\ Total \in 1 .. N + 2 /\ Pieces /\ EInv
    BY CallIs DEF RInv, ROk, W, ImportWay
  <1>2. PICK m \in 1 .. Total : Head(calls) = NthCall(m) /\ Len(calls) = Total + 1 - m
    BY <1>1, CallIs
  <1>3. Kind = IF m = 1 THEN "header" ELSE IF m = N + 2 THEN "tag" ELSE "line"
    BY <1>2 DEF Kind, NthCall, Call
  <1>4. /\ BareBefore' /\ Len(drafts') \in 1 .. 2
        /\ Kind = "header" => \A n \in 1 .. Len(drafts') : Piece(n)' = Bare(W)
        /\ Kind = "line" => LastDraft'.coded = (W # "tagged") /\ LastDraft'.lines # <<>>
        /\ Kind = "tag" => LastDraft'.coded = TRUE /\ LastDraft'.lines # <<>>
    BY <1>1, EffectShows
  <1>5. PICK k : k = Len(drafts')
    OBVIOUS
  <1>6. k \in 1 .. 2 /\ drafts'[k] = LastDraft'
    BY <1>4, <1>5 DEF LastDraft
  <1>7. Piece(k)' = Draft(LastDraft'.coded, LastDraft'.lines # <<>>)
    BY <1>6 DEF Piece
  <1>8. CASE m = 1
    <2>1. Piece(k)' = Bare(W) /\ k > 0
      BY <1>3, <1>4, <1>5, <1>6, <1>8
    <2>2. ASSUME Len(calls) = 1 PROVE Piece(k)' = Whole
      <3>1. W = "header"
        BY <1>1, <1>2, <1>8, <2>2 DEF Total, W
      <3> QED
        BY <2>1, <3>1 DEF Bare, Whole, Draft
    <2> QED
      BY <1>1, <1>4, <1>5, <2>1, <2>2, SeenAfter
  <1>9. CASE m = N + 2
    <2>1. Piece(k)' = Whole /\ k > 0
      <3>1. LastDraft'.coded = TRUE /\ (LastDraft'.lines # <<>>) = TRUE
        BY <1>1, <1>3, <1>4, <1>9
      <3>2. Piece(k)' = Draft(TRUE, TRUE)
        BY <1>7, <3>1
      <3> QED
        BY <1>6, <3>2 DEF Whole
    <2> QED
      BY <1>1, <1>4, <1>5, <2>1, SeenAfter
  <1>10. CASE m # 1 /\ m # N + 2
    <2>1. Piece(k)' = Partial(W) /\ k > 0
      <3>1. LastDraft'.coded = (W # "tagged") /\ (LastDraft'.lines # <<>>) = TRUE
        BY <1>3, <1>4, <1>10
      <3>2. Piece(k)' = Draft(W # "tagged", TRUE)
        BY <1>7, <3>1
      <3> QED
        BY <1>6, <3>2 DEF Partial
    <2>2. ASSUME Len(calls) = 1 PROVE Piece(k)' = Whole
      <3>1. m = Total
        <4>1. Total \in Int /\ m \in Int
          BY <1>1, <1>2
        <4>2. Total + 1 - m = 1
          BY <1>2, <2>2
        <4> QED
          BY <4>1, <4>2
      <3>2. W # "tagged"
        BY <1>10, <3>1 DEF Total, W
      <3> QED
        BY <2>1, <3>2 DEF Partial, Whole, Draft
    <2> QED
      BY <1>1, <1>4, <1>5, <2>1, <2>2, SeenAfter
  <1> QED
    BY <1>8, <1>9, <1>10

(* ImplementsOutcome: whatever the document, its checks are one step of the     *)
(* chunk's future and its calls another, which leaves one of the Leftovers; the *)
(* writes of the outcome come in the same order, and each may end the future.   *)
THEOREM RefinesOutcome == Spec => ImplementsOutcome
  <1> USE DEF GoTo, given, calling, document, tables, syncing
  <1>1. Init => Outcome!Init
    <2> SUFFICES ASSUME Init PROVE Outcome!Init
      OBVIOUS
    <2>1. pc = "party" /\ status = "validated" /\ stored = {} /\ numbered = FALSE /\ drafts = <<>> /\ source \in Sources
      BY DEF Init
    <2>2. ImportWay \in Outcome!Ways
      BY <2>1, WayOfDocument DEF Ways, Outcome!Ways
    <2>3. Seen = <<>>
      BY <2>1 DEF Seen
    <2> QED
      BY <2>1, <2>2, <2>3 DEF Outcome!Init, At
  <1>2. RInv /\ [Next]_vars => [Outcome!Next /\ UNCHANGED ImportWay]_Outcome!vars
    <2> SUFFICES ASSUME RInv, [Next]_vars
                 PROVE  [Outcome!Next /\ UNCHANGED ImportWay]_Outcome!vars
      OBVIOUS
    <2>1. /\ VInv /\ pc \in PCs /\ W \in Ways /\ (Early => drafts = <<>>) /\ (pc = "errors" => errs # {})
      BY WayOfDocument DEF RInv, ROk, EInv, VInv, FutureOk, FutureTypes, Resolving, Sent, DraftsOk, W
    <2>2. DraftTypes'
      BY ExactNext DEF RInv, EInv, DraftsOk
    <2>3. ImportWay' = ImportWay
      <3>1. source' = source
        BY DEF Next, vars, ListReference, RefUpsert, UpsertMap, ResolveParty, ResolveItem, ValidateFields,
               ValidateReference, Verdict, CallBc, RecordErrors, UpdateStatus, SetBcDocumentNo,
               StagingFails, Crash, RestOfWrite
      <3> QED
        BY <3>1 DEF ImportWay
    <2>4. ASSUME pc # "call", pc' # "call", drafts' = drafts
          PROVE  Seen' = Seen
      BY <2>4 DEF Seen
    <2>5. ASSUME Early, drafts' = drafts PROVE Seen = <<>> /\ Seen' = <<>>
      BY <2>1, <2>5 DEF Seen
    <2>6. CASE ListReference \/ RefUpsert \/ UpsertMap \/ UNCHANGED vars
      <3>1. UNCHANGED <<source, pc, status, stored, numbered, drafts>>
        BY <2>6 DEF ListReference, RefUpsert, UpsertMap, vars
      <3> QED
        BY <2>3, <3>1 DEF Outcome!vars, At, Seen
    <2>7. CASE ResolveParty \/ ResolveItem \/ ValidateFields \/ ValidateReference
      <3>1. UNCHANGED <<status, stored, numbered, drafts>> /\ Early /\ pc' \in {"items", "refs"}
        BY <2>7 DEF ResolveParty, ResolveItem, ValidateFields, ValidateReference, Early
      <3>2. Seen' = Seen /\ At' = At
        BY <2>5, <3>1 DEF At, Early
      <3> QED
        BY <2>3, <3>1, <3>2 DEF Outcome!vars
    <2>8. CASE Verdict
      <3>1. UNCHANGED <<status, stored, numbered, drafts>> /\ Early /\ pc = "refs" /\ pc' \in {"call", "errors"}
        BY <2>8 DEF Verdict, Early
      <3>2. Seen' = Seen /\ At = "validate" /\ At' \in {"import", "errors"}
        BY <2>5, <3>1 DEF At
      <3> QED
        BY <2>3, <3>1, <3>2 DEF Outcome!Next, Outcome!Validate
    <2>9. CASE CallBc
      <3>1. UNCHANGED <<source, inv, status, stored, numbered>> /\ pc = "call" /\ At = "import"
        BY <2>9 DEF CallBc, At
      <3>2. CASE pc' = "call"
        <4>1. At' = At /\ Seen' = Seen
          BY <3>1, <3>2 DEF At, Seen
        <4> QED
          BY <2>3, <3>1, <4>1 DEF Outcome!vars
      <3>3. ASSUME NEW ok \in BOOLEAN, At' = IF ok THEN "number" ELSE "reject",
                   Seen' \in {l.drafts : l \in Outcome!Leftovers(ImportWay, ok)}
            PROVE  Outcome!Next
        BY <3>1, <3>3 DEF Outcome!Next, Outcome!ImportOne
      <3>4. CASE Answered /\ pc' # "call"
        <4>1. pc' = "number" /\ Effect /\ Len(calls) = 1
          BY <3>4 DEF Answered
        <4>2. Seen' \in Succeeding(ImportWay)
          BY <2>2, <3>1, <4>1, LeftSent DEF W
        <4> QED
          BY <2>3, <3>3, <4>1, <4>2 DEF At, Succeeding
      <3>5. CASE Refused \/ Lost
        <4>1. pc' = "reject" /\ (Effect \/ drafts' = drafts)
          BY <3>5 DEF Refused, Lost, NoEffect
        <4>2. Seen' \in Failing(ImportWay)
          BY <2>2, <3>1, <4>1, LeftSent, LeftUnsent DEF W
        <4> QED
          BY <2>3, <3>3, <4>1, <4>2 DEF At, Failing
      <3>6. CASE Throttled
        BY <3>1, <3>2, <3>6 DEF Throttled
      <3> QED
        BY <2>9, <3>2, <3>4, <3>5, <3>6 DEF CallBc
    <2>10. CASE RecordErrors("errors", errs, "invalid") \/ RecordErrors("reject", {Error(0, "BC")}, "failed")
      <3>1. /\ UNCHANGED <<status, numbered, drafts>> /\ stored' # {}
            /\ \/ pc = "errors" /\ pc' \in {"invalid", "err"}
               \/ pc = "reject" /\ pc' \in {"failed", "err"}
        <4>1. stored' # {}
          BY <2>1, <2>10 DEF RecordErrors
        <4> QED
          BY <2>10, <4>1 DEF RecordErrors, Written, RestOfWrite
      <3>2. Seen' = Seen /\ At = pc /\ At' = pc'
        BY <2>4, <3>1 DEF At
      <3> QED
        BY <2>3, <3>1, <3>2 DEF Outcome!Next, Outcome!RecordErrors
    <2>11. CASE \/ UpdateStatus("invalid", "invalid", "no") \/ UpdateStatus("imported", "imported", "yes")
                \/ UpdateStatus("failed", "failed", "no")
      <3>1. /\ UNCHANGED <<stored, numbered, drafts>>
            /\ \/ pc = "invalid" /\ status' = "invalid" /\ pc' \in {"no", "err"}
               \/ pc = "imported" /\ status' = "imported" /\ pc' \in {"yes", "err"}
               \/ pc = "failed" /\ status' = "failed" /\ pc' \in {"no", "err"}
        BY <2>11 DEF UpdateStatus, Written, RestOfWrite
      <3>2. Seen' = Seen /\ At = pc /\ At' = pc'
        BY <2>4, <3>1 DEF At
      <3> QED
        BY <2>3, <3>1, <3>2 DEF Outcome!Next, Outcome!SetStatus
    <2>12. CASE SetBcDocumentNo
      <3>1. UNCHANGED <<stored, status, drafts>> /\ numbered' = TRUE /\ pc = "number" /\ pc' \in {"imported", "err"}
        BY <2>12 DEF SetBcDocumentNo, Written, RestOfWrite
      <3>2. Seen' = Seen /\ At = pc /\ At' = pc'
        BY <2>4, <3>1 DEF At
      <3> QED
        BY <2>3, <3>1, <3>2 DEF Outcome!Next, Outcome!SetBcDocumentNo
    <2>13. CASE StagingFails
      <3>1. UNCHANGED <<stored, status, numbered, drafts>> /\ pc \in StagingPcs /\ pc' = "err" /\ pc # "call"
        BY <2>13 DEF StagingFails, RestOfWrite, StagingPcs
      <3>2. Seen' = Seen /\ At' = "err" /\ At = IF Early THEN "validate" ELSE pc
        BY <2>4, <3>1 DEF At, Early
      <3> QED
        BY <2>3, <3>1, <3>2
        DEF Early, StagingPcs, Outcome!Next, Outcome!Validate, Outcome!RecordErrors, Outcome!SetStatus,
            Outcome!SetBcDocumentNo
    <2>14. CASE Crash
      <3>1. UNCHANGED <<source, inv, stored, status, numbered>> /\ pc \in StagingPcs \union {"call"} /\ pc' = "crash"
        BY <2>14 DEF Crash
      <3>2. At' = "crash" /\ At \notin Outcome!Ends /\ (At = "import" <=> pc = "call")
        BY <3>1 DEF At, StagingPcs, Outcome!Ends
      <3>3. CASE pc = "call"
        <4>1. Seen' \in Failing(ImportWay)
          BY <2>2, <2>14, <3>1, <3>3, LeftSent, LeftUnsent DEF Crash, NoEffect, W
        <4> QED
          BY <2>3, <3>1, <3>2, <3>3, <4>1 DEF Outcome!Next, Outcome!Crash, Outcome!CutShort, Failing
      <3>4. CASE pc # "call"
        <4>1. Seen' = Seen
          BY <2>4, <2>14, <3>1, <3>4 DEF Crash, NoEffect
        <4> QED
          BY <2>3, <3>1, <3>2, <3>4, <4>1 DEF Outcome!Next, Outcome!Crash
      <3> QED
        BY <3>3, <3>4
    <2> QED
      BY <2>6, <2>7, <2>8, <2>9, <2>10, <2>11, <2>12, <2>13, <2>14 DEF Next
  <1>3. Init => RInv
    BY ExactInit DEF RInv, ROk, Init
  <1>4. RInv /\ [Next]_vars => RInv'
    BY ExactNext, PiecesNext DEF RInv
  <1> QED
    BY <1>1, <1>2, <1>3, <1>4, PTL DEF Spec, ImplementsOutcome, Outcome!Spec
===============================================================================

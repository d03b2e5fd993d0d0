----------------------------- MODULE ImportVerdict -----------------------------
(* Proofs about the checks of ImportDocument, for any document, tables, pages   *)
(* and configuration: what is sent has passed every check that is switched on,  *)
(* and after a sync nothing that Business Central lists is called unknown.      *)
EXTENDS ImportProofs

Kinds == {"customer", "vendor", "item"}
KindsLeft == {SyncedKinds, <<"vendor", "item">>, <<"item">>, <<>>}
Listing == Head(sync.kinds)

(* The reference table has what the entities list that are done with; of the    *)
(* one that is read, the pages so far are among the rows; of the one that is    *)
(* written, each number is in the table or among the rows.                      *)
SyncOk ==
    /\ sync = [pc |-> sync.pc, kinds |-> sync.kinds, page |-> sync.page, rows |-> sync.rows]
    /\ sync.kinds \in KindsLeft
    /\ refs \subseteq AllRefs
    /\ \A kind \in Kinds \ ToSet(sync.kinds) : RefsOf(kind) \subseteq refs
    /\ sync.pc \in {"list", "rows"} => sync.kinds # <<>> /\ sync.rows \in Seq(Listed(Listing))
    /\ sync.pc = "list" =>
           /\ sync.page \in 1 .. Len(BcPages[Listing])
           /\ \A p \in 1 .. sync.page - 1 : ToSet(BcPages[Listing][p]) \subseteq ToSet(sync.rows)
    /\ sync.pc = "rows" =>
           \A no \in Listed(Listing) : <<Listing, Norm(no)>> \in refs \/ no \in ToSet(sync.rows)
    /\ sync.pc = "done" => sync.kinds = <<>>
    /\ synced => sync.pc = "done"

\* The document keeps its lines, however it is resolved.
Shape ==
    /\ {"partner", "lines"} \subseteq DOMAIN inv
    /\ IsSeq(inv.lines) /\ Len(inv.lines) = Len(source.lines)

FutureTypes ==
    /\ pc \in PCs /\ attempt \in 0 .. 1
    /\ at_line \in 0 .. Len(inv.lines) + 1
    /\ upserts \in 0 .. MaxUpserts
    /\ IsSeq(calls) /\ (pc = "call" => calls # <<>>)
    /\ stored \subseteq errs \union {Error(0, "BC")}

PartyPassed ==
    config.party /\ Party # "none" =>
        \/ MapKey(Party, source.partner) \in DOMAIN map
        \/ errs # {} \/ IsBlank(inv.partner)

ItemPassed(i) ==
    config.item =>
        \/ MapKey("item", source.lines[i].no) \in DOMAIN map
        \/ errs # {} \/ IsBlank(inv.lines[i].no)

\* The party (line 0) and the items before line k are known.
RefsPassed(k) ==
    config.refs /\ errs = {} =>
        /\ k > 0 => KnownToBc(Party, inv.partner)
        /\ \A i \in 1 .. N : i < k => KnownToBc("item", inv.lines[i].no)

RefCodes == {"UNKNOWN_PARTY", "UNKNOWN_ITEM"}

\* What is resolved is in the maps, or blank, or there is an error.
Resolving ==
    /\ Early => ~Sent
    /\ pc = "party" => inv = source /\ at_line = 1
    /\ pc \in {"items", "refs"} => PartyPassed
    /\ pc = "items" =>
           /\ at_line >= 1
           /\ \A i \in 1 .. N : IF i < at_line THEN ItemPassed(i) ELSE inv.lines[i] = source.lines[i]
    /\ pc \in {"party", "items"} => ~synced /\ \A e \in errs : e.code \notin RefCodes

\* What a field or a reference has wrong is among the errors.
Checking ==
    pc = "refs" =>
        /\ FieldErrors(inv) \subseteq errs
        /\ \A i \in 1 .. N : ItemPassed(i)
        /\ RefsPassed(at_line)

RefErrorsTrue ==
    synced => \A e \in errs :
        /\ e.code = "UNKNOWN_PARTY" => ~KnownToBc(Party, inv.partner)
        /\ e.code = "UNKNOWN_ITEM" => ~KnownToBc("item", inv.lines[e.line].no)

AllPassed ==
    /\ FieldErrors(inv) = {}
    /\ config.refs => /\ KnownToBc(Party, inv.partner)
                      /\ \A i \in DOMAIN inv.lines : KnownToBc("item", inv.lines[i].no)
    /\ config.party /\ Party # "none" => MapKey(Party, source.partner) \in DOMAIN map
    /\ config.item => \A i \in DOMAIN inv.lines : MapKey("item", source.lines[i].no) \in DOMAIN map

SentSound == Sent => AllPassed

FutureOk == Shape /\ FutureTypes /\ Resolving /\ Checking /\ RefErrorsTrue /\ SentSound

VInv == SyncOk /\ FutureOk

(* Nothing is read, resolved or sent at first.                                  *)
LEMMA VerdictInit == Init => VInv
  <1> SUFFICES ASSUME Init PROVE VInv
    OBVIOUS
  <1>1. SyncOk
    <2>1. /\ sync = [pc |-> "list", kinds |-> SyncedKinds, page |-> 1, rows |-> <<>>]
          /\ refs = {} /\ synced = FALSE
      BY DEF Init
    <2>2. Listing = "customer" /\ SyncedKinds # <<>> /\ ToSet(SyncedKinds) = Kinds
      BY <2>1 DEF Listing, SyncedKinds, ToSet, Kinds
    <2>3. 1 \in 1 .. Len(BcPages["customer"])
      <3>1. PICK S : BcPages["customer"] \in Seq(S) /\ BcPages["customer"] # <<>>
        BY <2>2, PagesAssumption DEF Kinds
      <3> QED
        BY <3>1
    <2>4. <<>> \in Seq(Listed(Listing))
      OBVIOUS
    <2>5. \A p \in 1 .. 1 - 1 : FALSE
      OBVIOUS
    <2> QED
      BY <2>1, <2>2, <2>3, <2>4, <2>5 DEF SyncOk, KindsLeft
  <1>2. /\ source \in Sources /\ inv = source /\ pc = "party" /\ at_line = 1 /\ errs = {}
        /\ stored = {} /\ calls = <<>> /\ attempt = 0 /\ drafts = <<>> /\ upserts = 0 /\ synced = FALSE
    BY DEF Init
  <1>3. Shape
    <2>1. source = Doc(source.type, source.ext, source.partner, source.date, source.currency, source.lines)
      BY <1>2, SourcesAssumption
    <2>2. {"partner", "lines"} \subseteq DOMAIN source
      BY <2>1 DEF Doc
    <2>3. IsSeq(source.lines)
      BY <1>2, SourcesAssumption DEF IsSeq
    <2> QED
      BY <1>2, <2>2, <2>3 DEF Shape
  <1>4. FutureTypes
    <2>1. Len(inv.lines) \in Nat
      BY <1>3, SeqChanges DEF Shape
    <2>2. IsSeq(calls)
      <3>1. <<>> \in Seq({})
        OBVIOUS
      <3> QED
        BY <1>2, <3>1 DEF IsSeq
    <2> QED
      BY <1>2, <2>1, <2>2, UpsertAssumption DEF FutureTypes, PCs, StagingPcs
  <1>5. Resolving /\ Checking /\ RefErrorsTrue /\ SentSound
    BY <1>2 DEF Resolving, Checking, RefErrorsTrue, SentSound, Sent
  <1> QED
    BY <1>1, <1>3, <1>4, <1>5 DEF VInv, FutureOk

-------------------------------------------------------------------------------
(* The sync of the references                                                   *)

(* The elements of a sequence: of its first and its others, and of two.         *)
LEMMA Elements ==
  ASSUME NEW S, NEW a \in Seq(S)
  PROVE  /\ a # <<>> => ToSet(a) = ToSet(Tail(a)) \union {Head(a)} /\ Head(a) \in S /\ Tail(a) \in Seq(S)
         /\ a = <<>> => ToSet(a) = {}
         /\ \A b \in Seq(S) : a \o b \in Seq(S) /\ ToSet(a \o b) = ToSet(a) \union ToSet(b)
  <1>1. ASSUME a # <<>>
        PROVE  ToSet(a) = ToSet(Tail(a)) \union {Head(a)} /\ Head(a) \in S /\ Tail(a) \in Seq(S)
    <2>1. Len(a) > 0 /\ Len(a) \in Nat /\ DOMAIN a = 1 .. Len(a)
      BY <1>1
    <2>2. /\ Head(a) = a[1] /\ Tail(a) \in Seq(S) /\ Len(Tail(a)) = Len(a) - 1
          /\ \A k \in 1 .. Len(a) - 1 : Tail(a)[k] = a[k + 1]
      BY <2>1, Rest
    <2>3. DOMAIN Tail(a) = 1 .. Len(a) - 1
      BY <2>2
    <2>4. ASSUME NEW k \in 1 .. Len(a), k # 1 PROVE k - 1 \in 1 .. Len(a) - 1 /\ a[k] = Tail(a)[k - 1]
      BY <2>1, <2>2, <2>4
    <2>5. ToSet(a) \subseteq ToSet(Tail(a)) \union {Head(a)}
      <3>1. SUFFICES ASSUME NEW k \in 1 .. Len(a) PROVE a[k] \in ToSet(Tail(a)) \union {Head(a)}
        BY <2>1 DEF ToSet
      <3>2. CASE k = 1
        BY <2>2, <3>2
      <3>3. CASE k # 1
        BY <2>3, <2>4, <3>3 DEF ToSet
      <3> QED
        BY <3>2, <3>3
    <2>6. ToSet(Tail(a)) \union {Head(a)} \subseteq ToSet(a)
      <3>1. \A k \in 1 .. Len(a) - 1 : k + 1 \in DOMAIN a /\ Tail(a)[k] = a[k + 1]
        BY <2>1, <2>2
      <3>2. 1 \in DOMAIN a
        BY <2>1
      <3> QED
        BY <2>2, <2>3, <3>1, <3>2 DEF ToSet
    <2> QED
      BY <2>1, <2>2, <2>5, <2>6
  <1>2. ASSUME NEW b \in Seq(S)
        PROVE  a \o b \in Seq(S) /\ ToSet(a \o b) = ToSet(a) \union ToSet(b)
    <2> DEFINE c == a \o b
    <2>1. /\ c \in Seq(S) /\ Len(c) = Len(a) + Len(b)
          /\ \A k \in 1 .. Len(a) : c[k] = a[k]
          /\ \A k \in 1 .. Len(b) : c[Len(a) + k] = b[k]
      BY Concatenation
    <2> HIDE DEF c
    <2>2. /\ DOMAIN a = 1 .. Len(a) /\ DOMAIN b = 1 .. Len(b) /\ DOMAIN c = 1 .. Len(a) + Len(b)
          /\ Len(a) \in Nat /\ Len(b) \in Nat
      BY <2>1
    <2>3. ToSet(a) \union ToSet(b) \subseteq ToSet(c)
      <3>1. \A k \in 1 .. Len(a) : k \in DOMAIN c
        BY <2>2
      <3>2. \A k \in 1 .. Len(b) : Len(a) + k \in DOMAIN c
        BY <2>2
      <3>3. ToSet(a) \subseteq ToSet(c)
        BY <2>1, <2>2, <3>1 DEF ToSet
      <3>4. ToSet(b) \subseteq ToSet(c)
        BY <2>1, <2>2, <3>2 DEF ToSet
      <3> QED
        BY <3>3, <3>4
    <2>4. ToSet(c) \subseteq ToSet(a) \union ToSet(b)
      <3>1. ASSUME NEW k \in 1 .. Len(a) + Len(b) PROVE c[k] \in ToSet(a) \union ToSet(b)
        <4>1. CASE k <= Len(a)
          <5>1. k \in 1 .. Len(a) /\ c[k] = a[k]
            BY <2>1, <2>2, <4>1
          <5> QED
            BY <2>2, <5>1 DEF ToSet
        <4>2. CASE k > Len(a)
          <5>1. k - Len(a) \in 1 .. Len(b) /\ Len(a) + (k - Len(a)) = k
            BY <2>2, <4>2
          <5>2. c[k] = b[k - Len(a)]
            BY <2>1, <5>1
          <5> QED
            BY <2>2, <5>1, <5>2 DEF ToSet
        <4> QED
          BY <2>2, <4>1, <4>2
      <3> QED
        BY <2>2, <3>1 DEF ToSet
    <2> QED
      BY <2>1, <2>3, <2>4 DEF c
  <1>3. ASSUME a = <<>> PROVE ToSet(a) = {}
    BY <1>3 DEF ToSet
  <1> QED
    BY <1>1, <1>2, <1>3

\* One list after the other.
LEMMA NextKinds ==
  ASSUME NEW kinds \in KindsLeft, kinds # <<>>
  PROVE  /\ Head(kinds) \in Kinds /\ Tail(kinds) \in KindsLeft
         /\ ToSet(kinds) = ToSet(Tail(kinds)) \union {Head(kinds)}
         /\ Len(kinds) = 1 <=> Tail(kinds) = <<>>
  <1>1. kinds \in Seq(Kinds)
    <2>1. \A a, b, c \in Kinds : <<a, b, c>> \in Seq(Kinds) /\ <<b, c>> \in Seq(Kinds) /\ <<c>> \in Seq(Kinds)
      OBVIOUS
    <2>2. "customer" \in Kinds /\ "vendor" \in Kinds /\ "item" \in Kinds
      BY DEF Kinds
    <2> QED
      BY <2>1, <2>2 DEF KindsLeft, SyncedKinds
  <1>2. Head(kinds) \in Kinds /\ ToSet(kinds) = ToSet(Tail(kinds)) \union {Head(kinds)}
    BY <1>1, Elements
  <1>3. Tail(kinds) \in KindsLeft /\ (Len(kinds) = 1 <=> Tail(kinds) = <<>>)
    <2>1. CASE kinds = <<"customer", "vendor", "item">>
      <3>1. Tail(kinds) = <<"vendor", "item">> /\ Len(kinds) = 3
        BY <2>1
      <3> QED
        BY <3>1 DEF KindsLeft
    <2>2. CASE kinds = <<"vendor", "item">>
      <3>1. Tail(kinds) = <<"item">> /\ Len(kinds) = 2
        BY <2>2
      <3> QED
        BY <3>1 DEF KindsLeft
    <2>3. CASE kinds = <<"item">>
      <3>1. Tail(kinds) = <<>> /\ Len(kinds) = 1
        BY <2>3
      <3> QED
        BY <3>1 DEF KindsLeft
    <2> QED
      BY <2>1, <2>2, <2>3 DEF KindsLeft, SyncedKinds
  <1> QED
    BY <1>2, <1>3

\* What the sync reads, and what it writes.
LEMMA ListStep ==
  ASSUME SyncOk, ListReference
  PROVE  SyncOk'
  <1>1. sync.pc = "list" /\ UNCHANGED <<refs, synced>>
    BY DEF ListReference
  <1> DEFINE kind == Listing
             pages == BcPages[kind]
             read == pages[sync.page]
  <1>2. /\ sync = [pc |-> sync.pc, kinds |-> sync.kinds, page |-> sync.page, rows |-> sync.rows]
        /\ sync.kinds \in KindsLeft /\ sync.kinds # <<>>
        /\ sync.rows \in Seq(Listed(kind)) /\ sync.page \in 1 .. Len(pages)
        /\ \A p \in 1 .. sync.page - 1 : ToSet(pages[p]) \subseteq ToSet(sync.rows)
        /\ ~synced
    BY <1>1 DEF SyncOk
  <1>3. kind \in Kinds
    BY <1>2, NextKinds DEF Listing
  <1>4. /\ pages \in Seq(Seq(Listed(kind))) /\ DOMAIN pages = 1 .. Len(pages) /\ Len(pages) \in Nat
        /\ read \in Seq(Listed(kind))
    <2>1. ToSet(SyncedKinds) = Kinds
      BY DEF SyncedKinds, Kinds, ToSet
    <2>2. pages \in Seq(Seq(Listed(kind)))
      BY <1>3, <2>1, PagesAssumption
    <2> QED
      BY <1>2, <2>2
  <1>5. CASE sync' = [sync EXCEPT !.pc = "failed"]
    <2>1. /\ sync'.pc = "failed" /\ sync'.kinds = sync.kinds
          /\ sync' = [pc |-> "failed", kinds |-> sync.kinds, page |-> sync.page, rows |-> sync.rows]
      BY <1>2, <1>5
    <2> QED
      BY <1>1, <1>2, <2>1 DEF SyncOk
  <1>6. CASE sync' = [sync EXCEPT !.rows = @ \o read, !.page = @ + 1,
                                  !.pc = IF LastPage(kind, sync.page) THEN "rows" ELSE @]
    <2> DEFINE rows == sync.rows \o read
    <2>1. /\ sync' = [pc |-> IF LastPage(kind, sync.page) THEN "rows" ELSE "list",
                      kinds |-> sync.kinds, page |-> sync.page + 1, rows |-> rows]
      BY <1>1, <1>2, <1>6
    <2>2. rows \in Seq(Listed(kind)) /\ ToSet(rows) = ToSet(sync.rows) \union ToSet(read)
      BY <1>2, <1>4, Elements
    <2> HIDE DEF rows
    <2>3. \A p \in 1 .. sync.page : ToSet(pages[p]) \subseteq ToSet(rows)
      <3>1. \A p \in 1 .. sync.page : p \in 1 .. sync.page - 1 \/ p = sync.page
        BY <1>2, <1>4
      <3> QED
        BY <1>2, <2>2, <3>1
    <2>4. /\ sync'.pc \in {"list", "rows"} /\ sync'.kinds = sync.kinds /\ sync'.page = sync.page + 1
          /\ sync'.rows = rows /\ Listing' = kind
          /\ sync' = [pc |-> sync'.pc, kinds |-> sync'.kinds, page |-> sync'.page, rows |-> sync'.rows]
      BY <2>1 DEF Listing
    <2>5. CASE LastPage(kind, sync.page)
      <3>1. sync'.pc = "rows" /\ sync.page = Len(pages)
        BY <2>1, <2>5 DEF LastPage
      <3>2. \A no \in Listed(kind) : no \in ToSet(rows)
        BY <1>4, <2>3, <3>1 DEF Listed
      <3> HIDE DEF kind
      <3>3. \A no \in Listed(Listing)' : <<Listing', Norm(no)>> \in refs' \/ no \in ToSet(sync'.rows)
        BY <2>4, <3>2 DEF Listed
      <3>4. sync'.rows \in Seq(Listed(Listing)')
        BY <2>2, <2>4 DEF Listed
      <3> QED
        BY <1>1, <1>2, <2>4, <3>1, <3>3, <3>4 DEF SyncOk
    <2>6. CASE ~LastPage(kind, sync.page)
      <3>1. sync'.pc = "list" /\ sync.page + 1 \in 1 .. Len(pages) /\ sync.page + 1 - 1 = sync.page
        BY <1>2, <1>4, <2>1, <2>6 DEF LastPage
      <3>2. sync'.rows \in Seq(Listed(Listing)')
        BY <2>2, <2>4 DEF Listed
      <3>0. BcPages[Listing'] = pages
        BY <2>4
      <3> HIDE DEF kind, pages
      <3>3. /\ sync'.page \in 1 .. Len(BcPages[Listing'])
            /\ \A p \in 1 .. sync'.page - 1 : ToSet(BcPages[Listing'][p]) \subseteq ToSet(sync'.rows)
        <4>1. sync'.page - 1 = sync.page
          BY <1>2, <2>4, <3>1
        <4> QED
          BY <2>3, <2>4, <3>0, <3>1, <4>1, Zenon
      <3> QED
        BY <1>1, <1>2, <2>4, <3>1, <3>2, <3>3 DEF SyncOk
    <2> QED
      BY <2>5, <2>6
  <1> QED
    BY <1>5, <1>6 DEF ListReference, Listing

LEMMA UpsertStep ==
  ASSUME SyncOk, RefUpsert
  PROVE  SyncOk'
  <1>1. sync.pc = "rows" /\ UNCHANGED synced
    BY DEF RefUpsert
  <1> DEFINE kind == Listing
  <1>2. /\ sync = [pc |-> sync.pc, kinds |-> sync.kinds, page |-> sync.page, rows |-> sync.rows]
        /\ sync.kinds \in KindsLeft /\ sync.kinds # <<>>
        /\ refs \subseteq AllRefs
        /\ \A k \in Kinds \ ToSet(sync.kinds) : RefsOf(k) \subseteq refs
        /\ sync.rows \in Seq(Listed(kind))
        /\ \A no \in Listed(kind) : <<kind, Norm(no)>> \in refs \/ no \in ToSet(sync.rows)
        /\ ~synced
    BY <1>1 DEF SyncOk
  <1>3. kind \in Kinds /\ ToSet(SyncedKinds) = Kinds
    BY <1>2, NextKinds DEF Listing, SyncedKinds, Kinds, ToSet
  <1>4. CASE sync.rows # <<>>
    <2> DEFINE no == Head(sync.rows)
    <2>1. /\ refs' = refs \union {<<kind, Norm(no)>>}
          /\ sync' = [pc |-> "rows", kinds |-> sync.kinds, page |-> sync.page, rows |-> Tail(sync.rows)]
      BY <1>1, <1>2, <1>4 DEF RefUpsert, Listing
    <2>2. /\ no \in Listed(kind) /\ Tail(sync.rows) \in Seq(Listed(kind))
          /\ ToSet(sync.rows) = ToSet(Tail(sync.rows)) \union {no}
      BY <1>2, <1>4, Elements
    <2>3. /\ sync'.pc = "rows" /\ sync'.kinds = sync.kinds /\ sync'.rows = Tail(sync.rows)
          /\ Listing' = kind
          /\ sync' = [pc |-> sync'.pc, kinds |-> sync'.kinds, page |-> sync'.page, rows |-> sync'.rows]
      BY <2>1 DEF Listing
    <2>4. refs' \subseteq AllRefs
      BY <1>2, <1>3, <2>1, <2>2 DEF AllRefs, RefsOf
    <2> HIDE DEF kind, no
    <2>5. \A n \in Listed(Listing)' : <<Listing', Norm(n)>> \in refs' \/ n \in ToSet(sync'.rows)
      BY <1>2, <2>1, <2>2, <2>3 DEF Listed
    <2>6. sync'.rows \in Seq(Listed(Listing)')
      BY <2>2, <2>3 DEF Listed
    <2>7. \A k \in Kinds \ ToSet(sync'.kinds) : RefsOf(k) \subseteq refs'
      BY <1>2, <2>1, <2>3
    <2> QED
      BY <1>1, <1>2, <2>3, <2>4, <2>5, <2>6, <2>7 DEF SyncOk, RefsOf
  <1>5. CASE sync.rows = <<>>
    <2>1. /\ refs' = refs
          /\ sync' = [pc |-> IF Len(sync.kinds) = 1 THEN "done" ELSE "list",
                      kinds |-> Tail(sync.kinds), page |-> 1, rows |-> <<>>]
      BY <1>1, <1>2, <1>5 DEF RefUpsert
    <2>2. /\ Tail(sync.kinds) \in KindsLeft /\ ToSet(sync.kinds) = ToSet(Tail(sync.kinds)) \union {kind}
          /\ Len(sync.kinds) = 1 <=> Tail(sync.kinds) = <<>>
      BY <1>2, NextKinds DEF Listing
    <2>3. RefsOf(kind) \subseteq refs
      <3>1. ToSet(sync.rows) = {}
        BY <1>2, <1>5, Elements
      <3> QED
        BY <1>2, <3>1 DEF RefsOf
    <2>4. \A k \in Kinds \ ToSet(sync'.kinds) : RefsOf(k) \subseteq refs'
      BY <1>2, <2>1, <2>2, <2>3
    <2>5. /\ sync' = [pc |-> sync'.pc, kinds |-> sync'.kinds, page |-> sync'.page, rows |-> sync'.rows]
          /\ sync'.kinds = Tail(sync.kinds) /\ sync'.page = 1 /\ sync'.rows = <<>>
          /\ sync'.pc = IF Tail(sync.kinds) = <<>> THEN "done" ELSE "list"
      BY <2>1, <2>2
    <2>6. ASSUME sync'.kinds # <<>>
          PROVE  1 \in 1 .. Len(BcPages[Listing'])
      <3>1. Listing' \in Kinds
        BY <2>2, <2>5, <2>6, NextKinds DEF Listing
      <3>2. PICK S : BcPages[Listing'] \in Seq(S) /\ BcPages[Listing'] # <<>>
        BY <1>3, <3>1, PagesAssumption
      <3> QED
        BY <3>2
    <2>7. sync'.rows \in Seq(Listed(Listing)')
      BY <2>5
    <2>8. \A p \in 1 .. sync'.page - 1 : FALSE
      BY <2>5
    <2> QED
      BY <1>1, <1>2, <2>1, <2>2, <2>4, <2>5, <2>6, <2>7, <2>8 DEF SyncOk, RefsOf
  <1> QED
    BY <1>4, <1>5

LEMMA SyncComplete ==
  ASSUME SyncOk, synced
  PROVE  refs = AllRefs
  <1>1. sync.kinds = <<>> /\ ToSet(<<>>) = {}
    BY DEF SyncOk, ToSet
  <1>2. \A kind \in Kinds : RefsOf(kind) \subseteq refs
    BY <1>1 DEF SyncOk
  <1>3. ToSet(SyncedKinds) = Kinds
    BY DEF SyncedKinds, Kinds, ToSet
  <1> QED
    BY <1>2, <1>3 DEF SyncOk, AllRefs

-------------------------------------------------------------------------------
(* Resolution and validation                                                    *)

\* What neither resolves nor checks, and sends nothing new.
LEMMA LaterStep ==
  ASSUME FutureOk, FutureTypes', UNCHANGED <<source, inv, config, errs, synced>>,
         DOMAIN map \subseteq DOMAIN map', Sent' => Sent,
         Early' => pc' = pc /\ at_line' = at_line
  PROVE  FutureOk'
  <1> USE DEF FutureOk
  <1>1. Shape' /\ N' = N
    BY DEF Shape, N
  <1>2. Resolving'
    BY <1>1 DEF Resolving, Early, PartyPassed, ItemPassed, Party
  <1>3. Checking'
    BY <1>1 DEF Checking, Early, ItemPassed, RefsPassed, Party
  <1>4. RefErrorsTrue' /\ SentSound'
    BY DEF RefErrorsTrue, SentSound, AllPassed, Party
  <1> QED
    BY <1>1, <1>2, <1>3, <1>4

\* A number takes the place of a partner or of an item.
LEMMA Replaced ==
  ASSUME Shape, NEW no,
         \/ inv' = inv
         \/ inv' = [inv EXCEPT !.partner = no]
         \/ at_line \in DOMAIN inv.lines /\ inv' = [inv EXCEPT !.lines[at_line].no = no],
         source' = source
  PROVE  /\ Shape' /\ N' = N /\ N \in Nat /\ DOMAIN inv.lines = 1 .. N
         /\ \A i \in 1 .. N : i # at_line => inv'.lines[i] = inv.lines[i]
         /\ inv' = inv \/ inv' = [inv EXCEPT !.partner = no] => inv'.lines = inv.lines
  <1>1. N \in Nat /\ DOMAIN inv.lines = 1 .. N
    BY SeqChanges DEF Shape, N
  <1>2. CASE inv' = inv
    BY <1>1, <1>2 DEF Shape, N
  <1>3. CASE inv' = [inv EXCEPT !.partner = no]
    <2>1. DOMAIN inv' = DOMAIN inv /\ inv'.lines = inv.lines
      BY <1>3 DEF Shape
    <2> QED
      BY <1>1, <2>1 DEF Shape, N
  <1>4. CASE at_line \in DOMAIN inv.lines /\ inv' = [inv EXCEPT !.lines[at_line].no = no]
    <2>1. /\ DOMAIN inv' = DOMAIN inv /\ inv'.partner = inv.partner
          /\ inv'.lines = [inv.lines EXCEPT ![at_line] = [inv.lines[at_line] EXCEPT !.no = no]]
      BY <1>4 DEF Shape
    <2>2. IsSeq(inv'.lines) /\ Len(inv'.lines) = N
      <3> DEFINE old == inv.lines
                 x == [inv.lines[at_line] EXCEPT !.no = no]
      <3>1. IsSeq(old) /\ at_line \in 1 .. Len(old) /\ Len(old) = N /\ inv'.lines = [old EXCEPT ![at_line] = x]
        BY <1>1, <1>4, <2>1 DEF Shape, N
      <3> HIDE DEF old, x
      <3> QED
        <4>1. \A i \in 1 .. Len(old) : IsSeq([old EXCEPT ![i] = x]) /\ Len([old EXCEPT ![i] = x]) = Len(old)
          BY <3>1, SeqChanges, Zenon
        <4>2. IsSeq([old EXCEPT ![at_line] = x]) /\ Len([old EXCEPT ![at_line] = x]) = N
          BY <3>1, <4>1
        <4> DEFINE new == [old EXCEPT ![at_line] = x]
        <4>3. IsSeq(new) /\ Len(new) = N /\ inv'.lines = new
          BY <3>1, <4>2
        <4> HIDE DEF new
        <4> QED
          BY <4>3, Zenon
    <2>3. \A i \in 1 .. N : i # at_line => inv'.lines[i] = inv.lines[i]
      BY <1>1, <2>1
    <2> QED
      BY <1>1, <2>1, <2>2, <2>3 DEF Shape, N
  <1>5. inv' = inv \/ inv' = [inv EXCEPT !.partner = no] => inv'.lines = inv.lines
    BY DEF Shape
  <1> QED
    BY <1>2, <1>3, <1>4, <1>5

LEMMA PartyStep ==
  ASSUME FutureOk, ResolveParty
  PROVE  FutureOk'
  <1> USE DEF FutureOk
  <1>1. /\ pc = "party" /\ pc' = "items" /\ inv = source
        /\ UNCHANGED <<map, upserts, stored, source, config, at_line, calls, attempt, drafts, synced>>
        /\ ~Sent /\ ~synced /\ \A e \in errs : e.code \notin RefCodes
    BY DEF ResolveParty, GoTo, Resolving, Early, tables, document, syncing, given, calling
  <1>2. PICK no : inv' = inv \/ inv' = [inv EXCEPT !.partner = no]
    BY DEF ResolveParty
  <1>3. Shape' /\ N' = N /\ N \in Nat
    BY <1>1, <1>2, Replaced
  <1>4. errs \subseteq errs' /\ errs' \subseteq errs \union {Error(0, "UNMAPPED_PARTY")}
    BY DEF ResolveParty
  <1>5. PartyPassed'
    <2>1. CASE Found(Party, inv.partner)
      BY <1>1, <2>1 DEF Found, Lookup, PartyPassed, Party
    <2>2. CASE ~Found(Party, inv.partner)
      BY <1>1, <2>2 DEF ResolveParty, PartyPassed, Party
    <2> QED
      BY <2>1, <2>2
  <1>6. FutureTypes'
    BY <1>1, <1>3, <1>4 DEF FutureTypes, PCs, StagingPcs, N
  <1>7. Resolving'
    <2>1. \A e \in errs' : e.code \notin RefCodes
      BY <1>1, <1>4 DEF Error, RefCodes
    <2>2. at_line' >= 1 /\ \A i \in 1 .. N' : IF i < at_line' THEN ItemPassed(i)' ELSE inv'.lines[i] = source'.lines[i]
      BY <1>1, <1>2, <1>3, Replaced DEF Resolving
    <2> QED
      BY <1>1, <1>5, <2>1, <2>2 DEF Resolving, Early, Sent
  <1>8. Checking' /\ RefErrorsTrue' /\ SentSound'
    BY <1>1 DEF Checking, RefErrorsTrue, SentSound, Sent
  <1> QED
    BY <1>3, <1>6, <1>7, <1>8

LEMMA ItemStep ==
  ASSUME FutureOk, ResolveItem
  PROVE  FutureOk'
  <1> USE DEF FutureOk
  <1>1. /\ pc = "items" /\ pc' = "items" /\ at_line \in DOMAIN inv.lines
        /\ UNCHANGED <<map, upserts, stored, source, config, calls, attempt, drafts, synced>>
        /\ ~Sent /\ ~synced /\ \A e \in errs : e.code \notin RefCodes
        /\ PartyPassed /\ at_line >= 1
        /\ \A i \in 1 .. N : IF i < at_line THEN ItemPassed(i) ELSE inv.lines[i] = source.lines[i]
    BY DEF ResolveItem, Resolving, Early, tables, document, syncing, given, calling
  <1> DEFINE no == inv.lines[at_line].no
             unmapped == config.item /\ ~IsBlank(no) /\ ~Found("item", no)
  <1>2. PICK n : inv' = inv \/ (at_line \in DOMAIN inv.lines /\ inv' = [inv EXCEPT !.lines[at_line].no = n])
    BY DEF ResolveItem
  <1>3. /\ Shape' /\ N' = N /\ N \in Nat /\ DOMAIN inv.lines = 1 .. N
        /\ \A i \in 1 .. N : i # at_line => inv'.lines[i] = inv.lines[i]
    BY <1>1, <1>2, Replaced
  <1>4. inv'.partner = inv.partner
    BY <1>2 DEF Shape
  <1>5. /\ errs' = IF unmapped THEN errs \union {Error(0, "UNMAPPED_ITEM")} ELSE errs
        /\ at_line' = IF unmapped THEN N + 1 ELSE at_line + 1
        /\ ~Found("item", no) => inv' = inv
    BY DEF ResolveItem, N
  <1>6. at_line \in 1 .. N /\ no = source.lines[at_line].no
    BY <1>1, <1>3
  <1>7. errs \subseteq errs' /\ \A e \in errs' : e.code \notin RefCodes
    BY <1>1, <1>5 DEF Error, RefCodes
  <1>8. PartyPassed'
    BY <1>1, <1>4, <1>7 DEF PartyPassed, Party
  <1>9. ASSUME NEW k \in 1 .. N, k = at_line PROVE ItemPassed(k)'
    <2>1. CASE Found("item", no)
      BY <1>1, <1>6, <1>9, <2>1 DEF Found, Lookup, ItemPassed
    <2>2. CASE ~Found("item", no)
      BY <1>1, <1>5, <1>9, <2>2 DEF ItemPassed
    <2> QED
      BY <2>1, <2>2
  <1>10. \A i \in 1 .. N' : IF i < at_line' THEN ItemPassed(i)' ELSE inv'.lines[i] = source'.lines[i]
    <2> SUFFICES ASSUME NEW i \in 1 .. N
                 PROVE  IF i < at_line' THEN ItemPassed(i)' ELSE inv'.lines[i] = source'.lines[i]
      BY <1>3
    <2>1. CASE i < at_line
      <3>1. ItemPassed(i) /\ inv'.lines[i] = inv.lines[i] /\ UNCHANGED <<map, source, config>>
        BY <1>1, <1>3, <2>1
      <3>2. ItemPassed(i)'
        BY <1>7, <3>1 DEF ItemPassed
      <3>3. i < at_line'
        BY <1>3, <1>5, <1>6, <2>1
      <3> QED
        BY <3>2, <3>3
    <2>2. CASE i = at_line
      <3>1. ItemPassed(i)' /\ i < at_line'
        BY <1>3, <1>5, <1>6, <1>9, <2>2
      <3> QED
        BY <3>1
    <2>3. CASE i > at_line
      <3>1. inv'.lines[i] = source'.lines[i]
        BY <1>1, <1>3, <1>6, <2>3
      <3>2. unmapped => ItemPassed(i)' /\ i < at_line'
        BY <1>3, <1>5 DEF ItemPassed
      <3>3. ~unmapped => ~(i < at_line')
        BY <1>5, <1>6, <2>3
      <3> QED
        BY <3>1, <3>2, <3>3
    <2> QED
      BY <1>6, <2>1, <2>2, <2>3
  <1>11. FutureTypes'
    <2>1. at_line' \in 0 .. N + 1 /\ Len(inv'.lines) = N
      BY <1>3, <1>5, <1>6 DEF N
    <2> QED
      BY <1>1, <1>7, <2>1 DEF FutureTypes
  <1>12. Resolving'
    <2>1. at_line' >= 1
      BY <1>3, <1>5, <1>6
    <2> QED
      BY <1>1, <1>7, <1>8, <1>10, <2>1 DEF Resolving, Early, Sent
  <1>13. Checking' /\ RefErrorsTrue' /\ SentSound'
    BY <1>1 DEF Checking, RefErrorsTrue, SentSound, Sent
  <1> QED
    BY <1>3, <1>11, <1>12, <1>13

LEMMA FieldsStep ==
  ASSUME FutureOk, ValidateFields
  PROVE  FutureOk'
  <1> USE DEF FutureOk
  <1>1. /\ pc = "items" /\ pc' = "refs" /\ at_line' = 0 /\ at_line \notin DOMAIN inv.lines
        /\ errs' = errs \union FieldErrors(inv)
        /\ UNCHANGED <<map, upserts, stored, source, inv, config, calls, attempt, drafts>>
        /\ ~Sent /\ \A e \in errs : e.code \notin RefCodes
        /\ PartyPassed /\ at_line >= 1 /\ at_line \in 0 .. N + 1
        /\ \A i \in 1 .. N : IF i < at_line THEN ItemPassed(i) ELSE inv.lines[i] = source.lines[i]
    BY DEF ValidateFields, GoTo, Resolving, FutureTypes, N, Early, tables, document, given, calling
  <1>2. N \in Nat /\ DOMAIN inv.lines = 1 .. N /\ N' = N
    BY <1>1, SeqChanges DEF Shape, N
  <1>3. at_line = N + 1
    BY <1>1, <1>2
  <1>4. \A i \in 1 .. N : ItemPassed(i)
    BY <1>1, <1>2, <1>3
  <1>5. \A e \in FieldErrors(inv) : e.code \notin RefCodes
    BY DEF FieldErrors, Error, HeaderCodes, LineCodes, RefCodes
  <1>6. Shape' /\ FutureTypes'
    BY <1>1, <1>2 DEF Shape, FutureTypes, PCs, StagingPcs, N
  <1>7. Resolving'
    BY <1>1 DEF Resolving, Early, Sent, PartyPassed, Party
  <1>8. Checking'
    <2>1. \A i \in 1 .. N : ItemPassed(i)'
      BY <1>1, <1>4 DEF ItemPassed
    <2>2. RefsPassed(0)'
      BY <1>2 DEF RefsPassed
    <2> QED
      BY <1>1, <1>2, <2>1, <2>2 DEF Checking, RefsPassed
  <1>9. RefErrorsTrue' /\ SentSound'
    BY <1>1, <1>5 DEF RefErrorsTrue, RefCodes, SentSound, Sent
  <1> QED
    BY <1>6, <1>7, <1>8, <1>9

LEMMA ReferenceStep ==
  ASSUME VInv, ValidateReference
  PROVE  FutureOk'
  <1> USE DEF VInv, FutureOk
  <1>1. /\ pc = "refs" /\ pc' = "refs" /\ config.refs /\ at_line \in 0 .. N /\ at_line' = at_line + 1
        /\ UNCHANGED <<map, upserts, stored, source, inv, config, calls, attempt, drafts, synced, refs>>
        /\ ~Sent /\ PartyPassed /\ FieldErrors(inv) \subseteq errs
        /\ (\A i \in 1 .. N : ItemPassed(i)) /\ RefsPassed(at_line)
    BY DEF ValidateReference, Resolving, Checking, N, Early, tables, document, syncing, given, calling
  <1>2. N \in Nat /\ N' = N
    BY <1>1, SeqChanges DEF Shape, N
  <1> DEFINE unknown == IF at_line = 0 THEN Unknown(Party, inv.partner)
                        ELSE Unknown("item", inv.lines[at_line].no)
             code == IF at_line = 0 THEN "UNKNOWN_PARTY" ELSE "UNKNOWN_ITEM"
  <1>3. errs' = IF unknown THEN errs \union {Error(at_line, code)} ELSE errs
    BY DEF ValidateReference
  <1>4. refs \subseteq AllRefs /\ (synced => refs = AllRefs)
    BY SyncComplete DEF SyncOk
  <1>5. \A kind, no : /\ ~Unknown(kind, no) => KnownToBc(kind, no)
                      /\ synced /\ Unknown(kind, no) => ~KnownToBc(kind, no)
    BY <1>4 DEF Unknown, RefExists, KnownToBc
  <1>6. RefErrorsTrue'
    <2> SUFFICES ASSUME synced, NEW e \in errs'
                 PROVE  /\ e.code = "UNKNOWN_PARTY" => ~KnownToBc(Party, inv.partner)
                        /\ e.code = "UNKNOWN_ITEM" => ~KnownToBc("item", inv.lines[e.line].no)
      BY <1>1 DEF RefErrorsTrue, Party
    <2>1. CASE e \in errs
      BY <2>1 DEF RefErrorsTrue
    <2>2. CASE e = Error(at_line, code) /\ unknown
      BY <1>5, <2>2 DEF Error
    <2> QED
      BY <1>3, <2>1, <2>2
  <1>7. ASSUME NEW k, k = at_line + 1 PROVE RefsPassed(k)'
    <2> SUFFICES ASSUME config.refs, errs' = {}
                 PROVE  /\ KnownToBc(Party, inv.partner)
                        /\ \A i \in 1 .. N : i < at_line + 1 => KnownToBc("item", inv.lines[i].no)
      BY <1>1, <1>2, <1>7 DEF RefsPassed, Party
    <2>1. ~unknown /\ errs = {}
      BY <1>3
    <2> QED
      BY <1>1, <1>2, <1>5, <2>1 DEF RefsPassed
  <1>8. Shape' /\ FutureTypes'
    BY <1>1, <1>2, <1>3 DEF Shape, FutureTypes, N
  <1>9. Resolving'
    BY <1>1, <1>3 DEF Resolving, Early, Sent, PartyPassed, Party
  <1>10. Checking'
    <2>1. PICK k : k = at_line + 1
      OBVIOUS
    <2>2. RefsPassed(k)' /\ k = at_line'
      BY <1>1, <1>7, <2>1
    <2>3. \A i \in 1 .. N' : ItemPassed(i)'
      BY <1>1, <1>2, <1>3 DEF ItemPassed
    <2>4. FieldErrors(inv)' \subseteq errs'
      BY <1>1, <1>3
    <2> QED
      BY <2>2, <2>3, <2>4 DEF Checking, RefsPassed
  <1>11. SentSound'
    BY <1>1 DEF SentSound, Sent
  <1> QED
    BY <1>6, <1>8, <1>9, <1>10, <1>11

\* The calls are a sequence, with the header first.
LEMMA CallsSequence ==
  ASSUME Shape
  PROVE  IsSeq(ImportCalls) /\ ImportCalls # <<>>
  <1> DEFINE Calls == [entity : {"header", "line", "tag"}, of : Nat]
             h == <<Call("header", 0)>>
             l == IF ImportWay = "header" THEN <<>> ELSE LineCalls
             t == IF ImportWay = "tagged" THEN <<Call("tag", 0)>> ELSE <<>>
  <1>1. N \in Nat /\ DOMAIN inv.lines = 1 .. N
    BY SeqChanges DEF Shape, N
  <1>2. \A i \in Nat : Call("line", i) \in Calls /\ Call("header", i) \in Calls /\ Call("tag", i) \in Calls
    BY DEF Call
  <1> HIDE DEF Calls
  <1>3. LineCalls \in Seq(Calls)
    <2>1. LineCalls = [i \in 1 .. N |-> Call("line", i)]
      BY <1>1 DEF LineCalls
    <2>2. LineCalls \in [1 .. N -> Calls]
      BY <1>1, <1>2, <2>1
    <2> QED
      BY <1>1, <2>2
  <1>4. h \in Seq(Calls) /\ l \in Seq(Calls) /\ t \in Seq(Calls) /\ Len(h) = 1
    BY <1>2, <1>3
  <1> DEFINE hl == h \o l
             all == hl \o t
  <1>5. ImportCalls = all
    BY DEF ImportCalls
  <1> HIDE DEF h, l, t
  <1>6. hl \in Seq(Calls) /\ Len(hl) = Len(h) + Len(l)
    <2>1. h \in Seq(Calls) /\ l \in Seq(Calls)
      BY <1>4
    <2> QED
      BY <2>1, Concatenation, SMT DEF hl
  <1> HIDE DEF hl
  <1>7. all \in Seq(Calls) /\ Len(all) = Len(hl) + Len(t)
    <2>1. hl \in Seq(Calls) /\ t \in Seq(Calls)
      BY <1>4, <1>6
    <2> QED
      BY <2>1, Concatenation, SMT DEF all
  <1> HIDE DEF all
  <1>8. Len(all) > 0
    BY <1>4, <1>6, <1>7
  <1>9. all # <<>>
    BY <1>8
  <1> QED
    BY <1>5, <1>7, <1>9 DEF IsSeq

\* A partner and an item that are blank are errors.
LEMMA BlankFields ==
  ASSUME NEW d
  PROVE  /\ IsBlank(d.partner) => FieldErrors(d) # {}
         /\ \A i \in DOMAIN d.lines : IsBlank(d.lines[i].no) => FieldErrors(d) # {}
  <1>1. ASSUME IsBlank(d.partner) PROVE Error(0, "MISSING_PARTNER") \in FieldErrors(d)
    <2>1. Error(0, "MISSING_PARTNER").code = "MISSING_PARTNER"
      BY DEF Error
    <2>2. Error(0, "MISSING_PARTNER") \in {Error(0, c) : c \in HeaderCodes}
      BY Zenon DEF HeaderCodes
    <2> QED
      BY <1>1, <2>1, <2>2 DEF FieldErrors
  <1>2. ASSUME NEW i \in DOMAIN d.lines, IsBlank(d.lines[i].no)
        PROVE  Error(i, "MISSING_ITEM_NO") \in FieldErrors(d)
    <2>1. Error(i, "MISSING_ITEM_NO").code = "MISSING_ITEM_NO" /\ Error(i, "MISSING_ITEM_NO").line = i
      BY DEF Error
    <2>2. Error(i, "MISSING_ITEM_NO") \in {Error(j, c) : j \in DOMAIN d.lines, c \in LineCodes}
      <3>1. "MISSING_ITEM_NO" \in LineCodes
        BY DEF LineCodes
      <3> QED
        BY <1>2, <3>1
    <2> QED
      BY <1>2, <2>1, <2>2 DEF FieldErrors
  <1> QED
    BY <1>1, <1>2

\* Without errors, everything has passed.
LEMMA VerdictPasses ==
  ASSUME FutureOk, Verdict
  PROVE  FutureOk'
  <1> USE DEF FutureOk
  <1>1. /\ pc = "refs" /\ (config.refs => at_line > Len(inv.lines))
        /\ UNCHANGED <<map, upserts, stored, source, inv, config, at_line, errs, attempt, drafts, synced>>
        /\ ~Sent
    BY DEF Verdict, Resolving, Early, tables, document, syncing, given
  <1>2. Shape' /\ N' = N /\ N \in Nat /\ DOMAIN inv.lines = 1 .. N
    BY <1>1, SeqChanges DEF Shape, N
  <1>3. CASE errs # {}
    <2>1. pc' = "errors" /\ calls' = calls
      BY <1>3 DEF Verdict, GoTo
    <2>2. FutureTypes'
      BY <1>1, <1>2, <2>1 DEF FutureTypes, PCs, StagingPcs
    <2> QED
      BY <1>1, <2>1, <2>2, LaterStep DEF Early, Sent
  <1>4. CASE errs = {}
    <2>1. pc' = "call" /\ calls' = ImportCalls
      BY <1>4 DEF Verdict, GoTo
    <2>2. IsSeq(ImportCalls) /\ ImportCalls # <<>>
      BY CallsSequence
    <2>3. FutureTypes'
      BY <1>1, <1>2, <2>1, <2>2 DEF FutureTypes, PCs, StagingPcs
    <2>4. AllPassed
      <3>1. FieldErrors(inv) = {} /\ PartyPassed /\ (\A i \in 1 .. N : ItemPassed(i)) /\ RefsPassed(at_line)
        BY <1>1, <1>4 DEF Checking, Resolving
      <3>2. ~IsBlank(inv.partner)
        BY <3>1, BlankFields
      <3>3. \A i \in 1 .. N : ~IsBlank(inv.lines[i].no)
        BY <1>2, <3>1, BlankFields
      <3>4. config.refs => at_line > 0 /\ \A i \in 1 .. N : i < at_line
        BY <1>1, <1>2 DEF N, FutureTypes
      <3>5. config.refs => KnownToBc(Party, inv.partner) /\ \A i \in 1 .. N : KnownToBc("item", inv.lines[i].no)
        BY <1>4, <3>1, <3>4 DEF RefsPassed
      <3> QED
        BY <1>2, <1>4, <3>1, <3>2, <3>3, <3>5 DEF AllPassed, PartyPassed, ItemPassed
    <2>5. AllPassed'
      BY <1>1, <2>4 DEF AllPassed, Party
    <2>6. Resolving' /\ Checking' /\ RefErrorsTrue'
      BY <1>1, <2>1 DEF Resolving, Checking, RefErrorsTrue, Early, Party
    <2> QED
      BY <1>2, <2>3, <2>5, <2>6 DEF SentSound
  <1> QED
    BY <1>3, <1>4

\* The calls to Business Central, and what is written of their outcome.
LEMMA CallingStep ==
  ASSUME FutureOk, CallBc
  PROVE  FutureOk'
  <1> USE DEF FutureOk
  <1>1. /\ pc = "call" /\ UNCHANGED <<map, upserts, stored, source, inv, config, at_line, errs, synced>>
        /\ Sent
    BY DEF CallBc, FutureTypes, Sent, tables, document, syncing, given
  <1>2. /\ IsSeq(calls') /\ attempt' \in 0 .. 1
        /\ pc' \in {"call", "number", "reject"} /\ (pc' = "call" => calls' # <<>>)
    <2>1. IsSeq(calls) /\ calls # <<>> /\ attempt \in 0 .. 1
      BY <1>1 DEF FutureTypes
    <2>2. CASE Answered
      <3>1. PICK S : calls \in Seq(S)
        BY <2>1 DEF IsSeq
      <3>2. Len(calls) > 0 /\ Tail(calls) \in Seq(S) /\ Len(Tail(calls)) = Len(calls) - 1
        BY <2>1, <3>1
      <3>3. Len(calls) # 1 => Tail(calls) # <<>>
        <4>1. Len(calls) \in Nat /\ Len(<<>>) = 0
          BY <3>1
        <4>2. Len(calls) # 1 => Len(Tail(calls)) # 0
          BY <3>2, <4>1
        <4> QED
          BY <4>1, <4>2, Zenon
      <3> QED
        BY <2>2, <3>2, <3>3 DEF Answered, GoTo, IsSeq
    <2>3. CASE Throttled
      BY <1>1, <2>1, <2>3 DEF Throttled, LastAttempt
    <2>4. CASE Refused \/ Lost
      <3>1. <<>> \in Seq({})
        OBVIOUS
      <3>2. pc' = "reject" /\ calls' = <<>> /\ attempt' = 0
        BY <2>4 DEF Refused, Lost, GoTo
      <3> QED
        BY <3>1, <3>2 DEF IsSeq
    <2> QED
      BY <2>2, <2>3, <2>4 DEF CallBc
  <1>3. FutureTypes'
    BY <1>1, <1>2 DEF FutureTypes, PCs, StagingPcs
  <1> QED
    BY <1>1, <1>2, <1>3, LaterStep DEF Early

LEMMA OutcomeStep ==
  ASSUME FutureOk,
         \/ RecordErrors("errors", errs, "invalid") \/ UpdateStatus("invalid", "invalid", "no")
         \/ SetBcDocumentNo \/ UpdateStatus("imported", "imported", "yes")
         \/ RecordErrors("reject", {Error(0, "BC")}, "failed") \/ UpdateStatus("failed", "failed", "no")
         \/ StagingFails \/ Crash
  PROVE  FutureOk'
  <1> USE DEF FutureOk
  <1>1. /\ UNCHANGED <<map, upserts, source, inv, config, at_line, errs, synced, calls, attempt>>
        /\ pc' \in {"invalid", "no", "imported", "yes", "failed", "err", "crash"}
        /\ stored' \subseteq stored \union errs \union {Error(0, "BC")}
        /\ drafts' = drafts \/ pc = "call"
    BY DEF RecordErrors, UpdateStatus, SetBcDocumentNo, Written, StagingFails, Crash, NoEffect, GoTo,
           RestOfWrite, tables, document, syncing, given, calling
  <1>2. FutureTypes'
    BY <1>1 DEF FutureTypes, PCs, StagingPcs
  <1>3. Sent' => Sent
    BY <1>1 DEF Sent, FutureTypes
  <1> QED
    BY <1>1, <1>2, <1>3, LaterStep DEF Early

\* Every step.
LEMMA VerdictNext == VInv /\ [Next]_vars => VInv'
  <1> SUFFICES ASSUME VInv, [Next]_vars PROVE VInv'
    OBVIOUS
  <1> USE DEF VInv
  <1>1. CASE ListReference \/ RefUpsert \/ UpsertMap
    <2>1. /\ UNCHANGED <<source, inv, config, errs, synced, pc, at_line, calls, drafts, attempt, stored>>
          /\ DOMAIN map \subseteq DOMAIN map' /\ upserts' \in 0 .. MaxUpserts
      <3>1. CASE ListReference \/ RefUpsert
        BY <3>1 DEF ListReference, RefUpsert, FutureOk, FutureTypes, tables, document, given, calling
      <3>2. CASE UpsertMap
        <4>1. \A row : DOMAIN map \subseteq DOMAIN With(map, row)
          BY DEF With
        <4>2. upserts' \in 0 .. MaxUpserts
          BY <3>2, UpsertAssumption DEF UpsertMap, FutureOk, FutureTypes
        <4> QED
          BY <3>2, <4>1, <4>2 DEF UpsertMap, document, syncing, given, calling
      <3> QED
        BY <1>1, <3>1, <3>2
    <2>2. FutureOk'
      BY <2>1, LaterStep DEF FutureOk, FutureTypes, Sent
    <2>3. SyncOk'
      BY <1>1, ListStep, UpsertStep DEF UpsertMap, syncing, SyncOk, Listing
    <2> QED
      BY <2>2, <2>3
  <1>2. CASE ~(ListReference \/ RefUpsert \/ UpsertMap)
    <2>1. UNCHANGED <<refs, sync>> /\ (synced' => synced \/ sync.pc = "done")
      <3> USE DEF RestOfWrite, syncing
      <3>1. CASE ResolveParty \/ ValidateReference \/ Verdict \/ CallBc
        BY <3>1 DEF ResolveParty, ValidateReference, Verdict, CallBc
      <3>4. CASE ResolveItem
        BY <3>4 DEF ResolveItem
      <3>5. CASE ValidateFields
        BY <3>5 DEF ValidateFields
      <3>2. CASE StagingFails \/ Crash \/ SetBcDocumentNo \/ UNCHANGED vars
        BY <3>2 DEF StagingFails, Crash, SetBcDocumentNo, vars
      <3>3. CASE \E label, new, then : RecordErrors(label, new, then) \/ UpdateStatus(label, new, then)
        BY <3>3 DEF RecordErrors, UpdateStatus
      <3> QED
        BY <1>2, <3>1, <3>2, <3>3, <3>4, <3>5 DEF Next
    <2>2. SyncOk'
      BY <2>1 DEF SyncOk, Listing
    <2>3. CASE UNCHANGED vars
      <3>1. /\ UNCHANGED <<source, inv, config, errs, synced, pc, at_line, calls, drafts, attempt, stored, map>>
            /\ upserts' = upserts
        BY <2>3 DEF vars, tables, document, syncing, given, calling
      <3> QED
        BY <2>2, <3>1, LaterStep DEF FutureOk, FutureTypes, Sent
    <2> QED
      BY <1>2, <2>2, <2>3, PartyStep, ItemStep, FieldsStep, ReferenceStep, VerdictPasses,
         CallingStep, OutcomeStep
      DEF Next
  <1> QED
    BY <1>1, <1>2

(* TypeOK holds of any document, tables and pages: in particular a call is      *)
(* tried twice at most (bc_client.rs:98-107).                                   *)
THEOREM TypeCorrect == Spec => []TypeOK
  <1>1. VInv => TypeOK
    BY DEF VInv, FutureOk, FutureTypes, Shape, SyncOk, TypeOK
  <1> QED
    BY <1>1, VerdictInit, VerdictNext, PTL DEF Spec

(* VerdictSound holds: what is sent has passed every check that is switched on, *)
(* and after a sync no party and no item that Business Central lists, on        *)
(* whatever page, is called unknown (validate.rs:1-4, staging.rs:408,           *)
(* bc_client.rs:470-495).                                                       *)
THEOREM OnlyChecked == Spec => []VerdictSound
  <1>1. VInv => VerdictSound
    BY DEF VInv, FutureOk, SentSound, AllPassed, RefErrorsTrue, VerdictSound
  <1> QED
    BY <1>1, VerdictInit, VerdictNext, PTL DEF Spec
===============================================================================

------------------------------ MODULE IngestProofs ------------------------------
(* Proof that Ingest keeps what OnceStaged promises, for any number of          *)
(* processes, files, documents, lines and faults: every document is staged      *)
(* whole, once for its key, and from then on only its status changes; when a    *)
(* process is done its whole file is staged, and the reports add up.            *)
EXTENDS Ingest, FiniteSetTheorems, WellFoundedInduction, TLAPS

\* What the theorems take from the parsers: each parse is made of Documents,
\* which a parser that returns what ParsedAsWritten says does (lib.rs:38).
ReadsDocuments == \A parse \in Parses : parse.docs \in Seq(Documents)

Lines == UNION {ToSet(d.lines) : d \in Documents}

(* A document is its header with its lines put back (canonical.rs: Document).    *)
LEMMA Documented ==
  \A d \in Documents :
      /\ DOMAIN d = {"type", "ext", "partner", "date", "currency", "lines"}
      /\ d.lines \in Seq(Lines)
      /\ [Header(d) EXCEPT !.lines = d.lines] = d
  <1> SUFFICES ASSUME NEW d \in Documents
               PROVE  /\ DOMAIN d = {"type", "ext", "partner", "date", "currency", "lines"}
                      /\ d.lines \in Seq(Lines)
                      /\ [Header(d) EXCEPT !.lines = d.lines] = d
    OBVIOUS
  <1>1. d = Doc(d.type, d.ext, d.partner, d.date, d.currency, d.lines)
    BY DocumentsAssumption
  <1>2. DOMAIN d = {"type", "ext", "partner", "date", "currency", "lines"}
    BY <1>1 DEF Doc
  <1>3. d.lines \in Seq(ToSet(d.lines))
    BY DocumentsAssumption
  <1>4. ToSet(d.lines) \subseteq Lines
    BY DEF Lines
  <1>5. d.lines \in Seq(Lines)
    BY <1>3, <1>4
  <1>6. [Header(d) EXCEPT !.lines = d.lines] = d
    BY <1>1 DEF Doc, Header
  <1> QED
    BY <1>2, <1>5, <1>6
-------------------------------------------------------------------------------
(* dedup                                                                        *)

(* A set of numbers has a least.                                                *)
LEMMA Least ==
  ASSUME NEW T \in SUBSET Nat, T # {}
  PROVE  \E n \in T : \A m \in T : n <= m
  <1> DEFINE R == {p \in Nat \X Nat : p[1] < p[2]}
  <1>1. IsWellFoundedOn(R, Nat)
    BY NatLessThanWellFounded, Zenon DEF OpToRel
  <1>2. PICK n \in T : \A m \in T : ~(<<m, n>> \in R)
    BY <1>1, WFMin, Zenon
  <1>3. \A m \in T : ~(m < n)
    BY <1>2
  <1> QED
    BY <1>3

\* f follows the loop of dedup over the first n documents.
Follows(f, ds, n) ==
    f = [m \in 0 .. n |-> IF m = 0 THEN <<>> ELSE KeepFirst(f[m - 1], ds[m])]

(* The loop of dedup is well defined: the least number of documents for which   *)
(* it is not would be one more than a number for which it is                    *)
(* (validation.rs:77-84).                                                       *)
LEMMA KeptFollows ==
  ASSUME NEW ds \in Seq(Documents)
  PROVE  Follows(Kept(ds), ds, Len(ds))
  <1> DEFINE Bad == {n \in 0 .. Len(ds) : \A f : ~Follows(f, ds, n)}
  <1>1. Len(ds) \in Nat
    OBVIOUS
  <1>2. Bad = {}
    <2> SUFFICES ASSUME Bad # {} PROVE FALSE
      OBVIOUS
    <2>1. PICK n \in Bad : \A m \in Bad : n <= m
      <3>1. Bad \in SUBSET Nat
        BY <1>1
      <3> QED
        BY <3>1, Least
    <2>2. n \in 0 .. Len(ds) /\ \A f : ~Follows(f, ds, n)
      BY <2>1
    <2>3. CASE n = 0
      <3>1. Follows([m \in 0 .. 0 |-> <<>>], ds, 0)
        BY DEF Follows
      <3> QED
        BY <2>2, <2>3, <3>1
    <2>4. CASE n # 0
      <3>1. n - 1 \in 0 .. Len(ds) /\ n - 1 \notin Bad
        BY <1>1, <2>1, <2>2, <2>4
      <3>2. PICK f : Follows(f, ds, n - 1)
        BY <3>1
      <3> DEFINE g == [m \in 0 .. n |-> IF m = n THEN KeepFirst(f[n - 1], ds[n]) ELSE f[m]]
      <3>3. \A m \in 0 .. n : g[m] = IF m = 0 THEN <<>> ELSE KeepFirst(g[m - 1], ds[m])
        <4> SUFFICES ASSUME NEW m \in 0 .. n
                     PROVE  g[m] = IF m = 0 THEN <<>> ELSE KeepFirst(g[m - 1], ds[m])
          OBVIOUS
        <4>1. CASE m = n
          <5>1. g[n - 1] = f[n - 1] /\ g[n] = KeepFirst(f[n - 1], ds[n])
            BY <1>1, <2>2, <2>4
          <5> QED
            BY <2>4, <4>1, <5>1
        <4>2. CASE m # n
          <5>1. g[m] = f[m] /\ m \in 0 .. n - 1
            BY <1>1, <2>2, <4>2
          <5>2. m # 0 => m - 1 \in 0 .. n /\ m - 1 # n
            BY <1>1, <2>2, <5>1
          <5>3. m # 0 => g[m - 1] = f[m - 1]
            BY <5>2
          <5>4. f[m] = IF m = 0 THEN <<>> ELSE KeepFirst(f[m - 1], ds[m])
            BY <3>2, <5>1, Zenon DEF Follows
          <5> HIDE DEF g
          <5> QED
            BY <5>1, <5>3, <5>4
        <4> QED
          BY <4>1, <4>2
      <3>4. Follows(g, ds, n)
        <4>1. g = [m \in 0 .. n |-> g[m]]
          OBVIOUS
        <4> HIDE DEF g
        <4>2. g = [m \in 0 .. n |-> IF m = 0 THEN <<>> ELSE KeepFirst(g[m - 1], ds[m])]
          BY <3>3, <4>1
        <4> QED
          BY <4>2 DEF Follows
      <3> QED
        BY <2>2, <3>4
    <2> QED
      BY <2>3, <2>4
  <1>3. \E f : Follows(f, ds, Len(ds))
    <2>1. Len(ds) \in 0 .. Len(ds) /\ Len(ds) \notin Bad
      BY <1>1, <1>2
    <2> QED
      BY <2>1
  <1>4. Kept(ds) = CHOOSE f : Follows(f, ds, Len(ds))
    BY DEF Kept, Follows
  <1> QED
    BY <1>3, <1>4

(* dedup loses no key: what it leaves are documents of the file, and each       *)
(* document of the file has its key among theirs (validation.rs:77-84).         *)
LEMMA DedupKeepsKeys ==
  ASSUME NEW ds \in Seq(Documents)
  PROVE  /\ Dedup(ds) \in Seq(Documents)
         /\ \A i \in DOMAIN ds : \E j \in DOMAIN Dedup(ds) : Key(Dedup(ds)[j]) = Key(ds[i])
  <1> DEFINE N == Len(ds)
             K == Kept(ds)
             Good(n) == /\ K[n] \in Seq(Documents)
                        /\ \A i \in 1 .. n : \E j \in DOMAIN K[n] : Key(K[n][j]) = Key(ds[i])
             Bad == {n \in 0 .. N : ~Good(n)}
  <1>1. N \in Nat /\ DOMAIN ds = 1 .. N
    OBVIOUS
  <1>2. K[0] = <<>> /\ \A n \in 1 .. N : K[n] = KeepFirst(K[n - 1], ds[n])
    <2>1. K = [m \in 0 .. N |-> IF m = 0 THEN <<>> ELSE KeepFirst(K[m - 1], ds[m])]
      BY KeptFollows DEF Follows
    <2> HIDE DEF K, N
    <2>2. \A m \in 0 .. N : K[m] = IF m = 0 THEN <<>> ELSE KeepFirst(K[m - 1], ds[m])
      BY <2>1
    <2> QED
      BY <1>1, <2>2
  <1> HIDE DEF K, N
  <1>3. Good(0)
    BY <1>2
  <1>4. ASSUME NEW n \in 1 .. N, Good(n - 1)
        PROVE  Good(n)
    <2>1. K[n - 1] \in Seq(Documents) /\ ds[n] \in Documents /\ K[n] = KeepFirst(K[n - 1], ds[n])
      BY <1>1, <1>2, <1>4
    <2>2. ASSUME NEW i \in 1 .. n - 1
          PROVE  \E j \in DOMAIN K[n - 1] : Key(K[n - 1][j]) = Key(ds[i])
      BY <1>4
    <2>3. CASE \E j \in DOMAIN K[n - 1] : Key(K[n - 1][j]) = Key(ds[n])
      <3>1. K[n] = K[n - 1]
        BY <2>1, <2>3 DEF KeepFirst
      <3>2. \A i \in 1 .. n : i = n \/ i \in 1 .. n - 1
        BY <1>1
      <3> QED
        BY <2>1, <2>2, <2>3, <3>1, <3>2
    <2>4. CASE ~\E j \in DOMAIN K[n - 1] : Key(K[n - 1][j]) = Key(ds[n])
      <3> DEFINE L == Len(K[n - 1])
      <3>1. K[n] = Append(K[n - 1], ds[n])
        BY <2>1, <2>4 DEF KeepFirst
      <3>2. /\ K[n] \in Seq(Documents) /\ L \in Nat /\ DOMAIN K[n - 1] = 1 .. L
            /\ DOMAIN K[n] = 1 .. L + 1 /\ K[n][L + 1] = ds[n]
            /\ \A j \in 1 .. L : K[n][j] = K[n - 1][j]
        BY <2>1, <3>1
      <3>3. ASSUME NEW i \in 1 .. n
            PROVE  \E j \in DOMAIN K[n] : Key(K[n][j]) = Key(ds[i])
        <4>1. CASE i = n
          <5>1. L + 1 \in DOMAIN K[n]
            BY <3>2
          <5> QED
            BY <3>2, <4>1, <5>1
        <4>2. CASE i # n
          <5>1. i \in 1 .. n - 1
            BY <1>1, <4>2
          <5>2. PICK j \in DOMAIN K[n - 1] : Key(K[n - 1][j]) = Key(ds[i])
            BY <2>2, <5>1
          <5>3. j \in DOMAIN K[n] /\ K[n][j] = K[n - 1][j]
            BY <3>2, <5>2
          <5> QED
            BY <5>2, <5>3
        <4> QED
          BY <4>1, <4>2
      <3> QED
        BY <3>2, <3>3
    <2> QED
      BY <2>3, <2>4
  <1> HIDE DEF Good
  <1>5. Bad = {}
    <2> SUFFICES ASSUME Bad # {} PROVE FALSE
      OBVIOUS
    <2>1. PICK n \in Bad : \A m \in Bad : n <= m
      <3>1. Bad \in SUBSET Nat
        BY <1>1
      <3> QED
        BY <3>1, Least
    <2>2. n # 0
      BY <1>3, <2>1
    <2>3. n \in 1 .. N /\ n - 1 \in 0 .. N /\ n - 1 \notin Bad
      BY <1>1, <2>1, <2>2
    <2> QED
      BY <1>4, <2>1, <2>3
  <1>6. Good(N)
    BY <1>1, <1>5
  <1>7. Dedup(ds) = K[N]
    BY DEF Dedup, K, N
  <1> QED
    BY <1>1, <1>6, <1>7 DEF Good

(* What a process is to stage are entries of its file, and they have all the    *)
(* keys of the file (lib.rs:63).                                                *)
LEMMA StagesDocuments ==
  ASSUME ReadsDocuments, NEW parse \in Parses
  PROVE  /\ parse.docs \in Seq(Documents) /\ parse.todo \in Seq(AllEntries)
         /\ \A i \in DOMAIN parse.docs : \E j \in DOMAIN parse.todo :
                parse.todo[j].key = Key(parse.docs[i])
  <1> DEFINE ds == parse.docs
             kept == Dedup(ds)
  <1>1. ds \in Seq(Documents)
    BY DEF ReadsDocuments
  <1>2. parse.todo = ToStage(ds)
    BY DEF Parses
  <1>3. parse.todo = [i \in DOMAIN kept |-> Entry(kept[i])]
    BY <1>2 DEF ToStage
  <1>4. /\ kept \in Seq(Documents)
        /\ \A i \in DOMAIN ds : \E j \in DOMAIN kept : Key(kept[j]) = Key(ds[i])
    BY <1>1, DedupKeepsKeys
  <1> HIDE DEF ds, kept
  <1>5. parse.todo \in Seq(AllEntries)
    BY <1>3, <1>4 DEF AllEntries
  <1>6. \A j \in DOMAIN kept : parse.todo[j].key = Key(kept[j])
    BY <1>3 DEF Entry
  <1> QED
    BY <1>1, <1>3, <1>4, <1>5, <1>6 DEF ds
-------------------------------------------------------------------------------
(* The invariant                                                                *)

Tx == [key : Keys, doc : Documents, lines : Seq(Lines), status : {"validated", "failed"}]

\* A transaction has inserted the first lines of the document it is for, under
\* a key that is neither staged nor in another transaction.
InTx(p) == tx[p][1]
Open(p) == pc[p] = "lines"

TxTypes ==
    /\ pc \in [Procs -> PCs]
    /\ todo \in [Procs -> Seq(AllEntries)]
    /\ tx \in [Procs -> Seq(Tx)]
    /\ \A p \in Procs : Open(p) => Len(tx[p]) = 1 /\ todo[p] # <<>>
    /\ \A p \in Procs : ~Open(p) => tx[p] = <<>>

FirstLines(t) ==
    /\ t.key = Key(t.doc)
    /\ Len(t.lines) <= Len(t.doc.lines)
    /\ \A i \in 1 .. Len(t.lines) : t.lines[i] = t.doc.lines[i]

Rows == {[header |-> Header(d), status |-> s] : d \in Documents, s \in Statuses}

\* What is staged with key k is a document with all its lines.
Whole(k) ==
    \E d \in Documents, s \in Statuses :
        invoice[k] = [header |-> Header(d), status |-> s] /\ invoice_line[k] = d.lines

WholeStore == \A k \in Keys : invoice[k] # None => Whole(k)

IInv ==
    /\ TxTypes
    /\ invoice \in [Keys -> Rows \union {None}]
    /\ invoice_line \in [Keys -> Seq(Lines)]
    /\ WholeStore
    /\ \A p \in Procs : Open(p) => FirstLines(InTx(p)) /\ invoice[InTx(p).key] = None
    /\ \A p, q \in Procs : Open(p) /\ Open(q) /\ p # q => InTx(p).key # InTx(q).key

(* A transaction that is open holds what FirstLines says of it.                 *)
LEMMA OpenTx ==
  ASSUME IInv, NEW p \in Procs, Open(p)
  PROVE  InTx(p) \in Tx /\ FirstLines(InTx(p)) /\ invoice[InTx(p).key] = None
  <1>1. tx[p] \in Seq(Tx) /\ Len(tx[p]) = 1
    BY DEF IInv, TxTypes
  <1>2. InTx(p) \in Tx
    BY <1>1 DEF InTx
  <1> QED
    BY <1>2 DEF IInv

(* A transaction that commits has all the lines of its document.                *)
LEMMA CommitWhole ==
  ASSUME IInv, NEW p \in Procs, Commit(p)
  PROVE  InTx(p).lines = InTx(p).doc.lines
  <1> DEFINE t == InTx(p)
  <1>1. t \in Tx /\ FirstLines(t)
    BY OpenTx DEF Commit, Open
  <1>2. t.lines \in Seq(Lines) /\ t.doc.lines \in Seq(Lines)
    BY <1>1, Documented DEF Tx
  <1>3. Len(t.lines) = Len(t.doc.lines)
    BY DEF Commit, AllInserted, InTx
  <1>4. \A i \in 1 .. Len(t.lines) : t.lines[i] = t.doc.lines[i]
    BY <1>1 DEF FirstLines
  <1> QED
    BY <1>2, <1>3, <1>4

(* An empty store and processes that have not started satisfy the invariant.    *)
LEMMA InvInit == Init => IInv
  <1> SUFFICES ASSUME Init PROVE IInv
    OBVIOUS
  <1>1. TxTypes
    BY DEF Init, TxTypes, PCs, Ended, Open
  <1>2. \A p \in Procs : ~Open(p)
    BY DEF Init, Open
  <1> QED
    BY <1>1, <1>2 DEF Init, IInv, WholeStore

(* A process keeps the invariant, whatever the others have inserted: the lock   *)
(* of upsert's ON CONFLICT keeps two transactions off one key.                  *)
LEMMA InvStep ==
  ASSUME ReadsDocuments, IInv, NEW p \in Procs, Step(p) \/ Fails(p)
  PROVE  IInv'
  <1> USE DEF IInv, TxTypes, Open, InTx, GoTo, PCs, Ended, store
  <1>0. UNCHANGED <<invoice, invoice_line>> => WholeStore'
    BY DEF WholeStore, Whole
  <1>1. CASE Parse(p)
    <2>1. \A parse \in Parses : parse.todo \in Seq(AllEntries)
      BY StagesDocuments
    <2>2. /\ pc[p] = "start" /\ UNCHANGED <<invoice, invoice_line, tx>>
          /\ \E label \in {"error", "doc"} : pc' = [pc EXCEPT ![p] = label]
          /\ todo' \in [Procs -> Seq(AllEntries)]
          /\ \A q \in Procs \ {p} : todo'[q] = todo[q]
      BY <1>1, <2>1 DEF Parse
    <2>3. ~Open(p) /\ ~Open(p)' /\ \A q \in Procs \ {p} : Open(q)' = Open(q)
      BY <2>2
    <2>4. pc' \in [Procs -> PCs]
      BY <2>2
    <2>5. TxTypes'
      <3>1. tx' = tx
        BY <2>2
      <3> QED
        BY <2>2, <2>3, <2>4, <3>1
    <2> HIDE DEF TxTypes
    <2> QED
      BY <2>2, <2>3, <2>5, <1>0
  <1>2. CASE Insert(p)
    <2> DEFINE e == Head(todo[p])
    <2>1. pc[p] = "doc" /\ e \in AllEntries /\ Tail(todo[p]) \in Seq(AllEntries)
      BY <1>2 DEF Insert
    <2>2. CASE Exists(e.key)
      <3>1. /\ UNCHANGED <<invoice, invoice_line, pc, tx>>
            /\ todo' = [todo EXCEPT ![p] = Tail(@)]
        BY <1>2, <2>2 DEF Insert, Upserted
      <3>2. TxTypes'
        <4>1. todo' \in [Procs -> Seq(AllEntries)] /\ \A q \in Procs \ {p} : todo'[q] = todo[q]
          BY <2>1, <3>1
        <4> QED
          BY <2>1, <3>1, <4>1
      <3>3. \A q \in Procs : Open(q)' = Open(q) /\ InTx(q)' = InTx(q)
        BY <3>1
      <3>4. WholeStore'
        BY <3>1, <1>0
      <3> HIDE DEF TxTypes, Open, InTx
      <3> QED
        BY <3>1, <3>2, <3>3, <3>4 DEF FirstLines
    <2>3. CASE ~Exists(e.key)
      <3> DEFINE t == Transaction(e)
      <3>1. /\ UNCHANGED <<invoice, invoice_line, todo>> /\ ~Locked(p, e.key) /\ todo[p] # <<>>
            /\ tx' = [tx EXCEPT ![p] = <<t>>] /\ pc' = [pc EXCEPT ![p] = "lines"]
        BY <1>2, <2>3 DEF Insert
      <3>2. PICK d \in Documents : e = Entry(d)
        BY <2>1 DEF AllEntries
      <3>3. t \in Tx /\ t.key = e.key /\ t.key = Key(t.doc) /\ t.lines = <<>>
        BY <3>2 DEF Transaction, Tx, Entry, Keys
      <3>4. d.lines \in Seq(Lines)
        BY Documented
      <3>5. FirstLines(t)
        BY <3>2, <3>3, <3>4 DEF FirstLines, Transaction, Entry
      <3>6. invoice[t.key] = None
        BY <2>3, <3>3 DEF Exists
      <3>7. \A q \in Procs \ {p} : Open(q) => InTx(q).key # t.key
        BY <3>1, <3>3 DEF Locked
      <3>8. TxTypes'
        BY <3>1, <3>3
      <3> QED
        BY <3>1, <3>5, <3>6, <3>7, <3>8, <1>0
    <2> QED
      BY <2>2, <2>3
  <1>3. CASE InsertLine(p)
    <2> DEFINE t == tx[p][1]
               u == [t EXCEPT !.lines = Append(@, t.doc.lines[Len(@) + 1])]
    <2>1. /\ pc[p] = "lines" /\ UNCHANGED <<invoice, invoice_line, pc, todo>>
          /\ tx' = [tx EXCEPT ![p] = [@ EXCEPT ![1] = u]]
          /\ Len(t.lines) # Len(t.doc.lines)
      BY <1>3 DEF InsertLine, AllInserted
    <2>2. t \in Tx /\ Len(tx[p]) = 1 /\ FirstLines(t)
      BY <2>1
    <2>3. t.doc.lines \in Seq(Lines) /\ t.lines \in Seq(Lines)
      BY <2>2, Documented DEF Tx
    <2>4. /\ u.key = t.key /\ u.doc = t.doc /\ u.status = t.status
          /\ u.lines = Append(t.lines, t.doc.lines[Len(t.lines) + 1])
      BY <2>2 DEF Tx
    <2>5. Len(t.lines) + 1 \in 1 .. Len(t.doc.lines)
      BY <2>1, <2>2, <2>3 DEF FirstLines
    <2>6. u.lines \in Seq(Lines)
      <3> HIDE DEF u, t, IInv, TxTypes, Open, InTx
      <3>1. t.doc.lines \in [1 .. Len(t.doc.lines) -> Lines]
        BY <2>3
      <3>2. t.doc.lines[Len(t.lines) + 1] \in Lines
        BY <2>5, <3>1
      <3> QED
        BY <2>3, <2>4, <3>2
    <2>7. u \in Tx
      BY <2>2, <2>4, <2>6 DEF Tx
    <2>8. FirstLines(u)
      <3>1. /\ t.key = Key(t.doc)
            /\ \A i \in 1 .. Len(t.lines) : t.lines[i] = t.doc.lines[i]
        BY <2>2 DEF FirstLines
      <3> HIDE DEF u, t
      <3>2. Len(u.lines) = Len(t.lines) + 1 /\ Len(t.lines) \in Nat /\ Len(t.doc.lines) \in Nat
        BY <2>3, <2>4
      <3>3. /\ \A i \in 1 .. Len(t.lines) : u.lines[i] = t.lines[i]
            /\ u.lines[Len(t.lines) + 1] = t.doc.lines[Len(t.lines) + 1]
        BY <2>3, <2>4
      <3>4. \A i \in 1 .. Len(u.lines) : i \in 1 .. Len(t.lines) \/ i = Len(t.lines) + 1
        BY <3>2
      <3>5. \A i \in 1 .. Len(u.lines) : u.lines[i] = t.doc.lines[i]
        BY <3>1, <3>3, <3>4
      <3> QED
        BY <2>4, <2>5, <3>1, <3>2, <3>5 DEF FirstLines
    <2>9. /\ tx'[p][1] = u /\ Len(tx'[p]) = 1 /\ tx'[p] \in Seq(Tx)
          /\ \A q \in Procs \ {p} : tx'[q] = tx[q]
          /\ tx' \in [Procs -> Seq(Tx)]
      BY <2>1, <2>2, <2>7
    <2>10. TxTypes'
      BY <2>1, <2>9
    <2>11. \A q \in Procs : Open(q)' => FirstLines(InTx(q))' /\ invoice'[InTx(q)'.key] = None
      <3> SUFFICES ASSUME NEW q \in Procs, Open(q)
                   PROVE  FirstLines(tx'[q][1]) /\ invoice'[tx'[q][1].key] = None
        BY <2>1 DEF FirstLines
      <3>1. CASE q = p
        <4>1. invoice[t.key] = None
          BY <2>1
        <4> QED
          BY <2>1, <2>4, <2>8, <2>9, <3>1, <4>1
      <3>2. CASE q # p
        BY <2>1, <2>9, <3>2
      <3> QED
        BY <3>1, <3>2
    <2>12. \A q \in Procs : Open(q) => InTx(q)'.key = InTx(q).key
      BY <2>4, <2>9
    <2>13. \A q, r \in Procs : (Open(q) /\ Open(r))' /\ q # r => InTx(q)'.key # InTx(r)'.key
      BY <2>1, <2>12
    <2>14. /\ invoice' \in [Keys -> Rows \union {None}] /\ invoice_line' \in [Keys -> Seq(Lines)]
      BY <2>1
    <2> HIDE DEF TxTypes, Open, InTx
    <2> QED
      BY <2>1, <2>10, <2>11, <2>13, <2>14, <1>0
  <1>4. CASE Commit(p)
    <2> DEFINE t == tx[p][1]
    <2>1. /\ pc[p] = "lines" /\ tx' = [tx EXCEPT ![p] = <<>>]
          /\ invoice' = [invoice EXCEPT ![t.key] = [header |-> Header(t.doc), status |-> t.status]]
          /\ invoice_line' = [invoice_line EXCEPT ![t.key] = t.lines]
          /\ \E label \in {"doc", "error"} : pc' = [pc EXCEPT ![p] = label]
          /\ todo' \in {todo, [todo EXCEPT ![p] = Tail(@)]}
      BY <1>4 DEF Commit, Visible, Upserted
    <2>2. t \in Tx
      BY <2>1
    <2>3. /\ invoice' \in [Keys -> Rows \union {None}] /\ invoice_line' \in [Keys -> Seq(Lines)]
      BY <2>1, <2>2 DEF Tx, Rows, Statuses
    <2>4. todo' \in [Procs -> Seq(AllEntries)] /\ \A q \in Procs \ {p} : todo'[q] = todo[q]
      <3>1. todo[p] \in Seq(AllEntries) /\ todo[p] # <<>>
        BY <2>1
      <3>2. Tail(todo[p]) \in Seq(AllEntries)
        BY <3>1
      <3>3. CASE todo' = todo
        BY <3>3
      <3>4. CASE todo' = [todo EXCEPT ![p] = Tail(@)]
        BY <3>2, <3>4
      <3> QED
        BY <2>1, <3>3, <3>4
    <2>5. /\ pc' \in [Procs -> PCs] /\ tx' \in [Procs -> Seq(Tx)]
          /\ tx'[p] = <<>> /\ pc'[p] # "lines"
          /\ \A q \in Procs \ {p} : pc'[q] = pc[q] /\ tx'[q] = tx[q]
      BY <2>1
    <2>6. TxTypes'
      BY <2>4, <2>5
    <2>7. \A q \in Procs \ {p} : Open(q) => invoice'[InTx(q).key] = invoice[InTx(q).key]
      <3> SUFFICES ASSUME NEW q \in Procs \ {p}, Open(q)
                   PROVE  invoice'[InTx(q).key] = invoice[InTx(q).key]
        OBVIOUS
      <3>1. InTx(q) \in Tx /\ InTx(q).key # t.key
        BY <2>1
      <3> QED
        BY <2>1, <3>1 DEF Tx
    <2>8. \A q \in Procs : Open(q)' => q # p /\ Open(q) /\ InTx(q)' = InTx(q)
      BY <2>5
    <2>9. \A q \in Procs : Open(q)' => FirstLines(InTx(q))' /\ invoice'[InTx(q)'.key] = None
      <3> SUFFICES ASSUME NEW q \in Procs, Open(q)'
                   PROVE  FirstLines(InTx(q))' /\ invoice'[InTx(q)'.key] = None
        OBVIOUS
      <3>1. q # p /\ Open(q) /\ InTx(q)' = InTx(q)
        BY <2>8
      <3>2. FirstLines(InTx(q)) /\ invoice[InTx(q).key] = None
        BY <3>1
      <3>3. invoice'[InTx(q).key] = None
        BY <2>7, <3>1, <3>2
      <3> HIDE DEF TxTypes, Open, InTx
      <3>4. FirstLines(InTx(q))'
        BY <3>1, <3>2 DEF FirstLines
      <3> QED
        BY <3>1, <3>3, <3>4
    <2>10. \A q, r \in Procs : (Open(q) /\ Open(r))' /\ q # r => InTx(q)'.key # InTx(r)'.key
      BY <2>8
    <2> HIDE DEF TxTypes, Open, InTx
    <2>11. WholeStore'
      <3>1. t.doc \in Documents /\ t.status \in Statuses /\ t.key \in Keys
        BY <2>2 DEF Tx, Statuses
      <3>2. t.lines = t.doc.lines
        BY <1>4, CommitWhole DEF InTx
      <3>3. ASSUME NEW k \in Keys, k = t.key PROVE Whole(k)'
        <4>1. /\ invoice'[t.key] = [header |-> Header(t.doc), status |-> t.status]
              /\ invoice_line'[t.key] = t.doc.lines
          BY <2>1, <3>1, <3>2
        <4> QED
          BY <3>1, <3>3, <4>1 DEF Whole
      <3>4. ASSUME NEW k \in Keys, k # t.key, invoice'[k] # None
            PROVE  Whole(k)'
        <4>1. invoice'[k] = invoice[k] /\ invoice_line'[k] = invoice_line[k]
          BY <2>1, <3>4
        <4>2. Whole(k)
          BY <3>4, <4>1 DEF WholeStore
        <4> QED
          BY <4>1, <4>2 DEF Whole
      <3> QED
        BY <3>3, <3>4 DEF WholeStore
    <2> QED
      BY <2>3, <2>6, <2>9, <2>10, <2>11
  <1>5. CASE Finish(p)
    BY <1>5, <1>0 DEF Finish
  <1>6. CASE Fails(p)
    <2>1. /\ UNCHANGED <<invoice, invoice_line, todo>> /\ tx' = [tx EXCEPT ![p] = <<>>]
          /\ \E label \in {"error", "crash"} : pc' = [pc EXCEPT ![p] = label]
      BY <1>6 DEF Fails, RolledBack
    <2>2. ~Open(p)' /\ \A q \in Procs \ {p} : Open(q)' = Open(q) /\ tx'[q] = tx[q]
      BY <2>1
    <2>3. TxTypes'
      BY <2>1, <2>2
    <2> QED
      BY <2>1, <2>2, <2>3, <1>0
  <1> QED
    BY <1>1, <1>2, <1>3, <1>4, <1>5, <1>6 DEF Step

(* A change of statuses alone leaves what is staged whole.                      *)
LEMMA StoreMoves ==
  ASSUME IInv, UNCHANGED invoice_line, NEW status \in Statuses,
         invoice' = [k \in Keys |-> invoice'[k]],
         \A k \in Keys : \/ invoice'[k] = invoice[k]
                         \/ invoice[k] # None /\ invoice'[k] = [invoice[k] EXCEPT !.status = status]
  PROVE  /\ invoice' \in [Keys -> Rows \union {None}]
         /\ \A k \in Keys : invoice[k] = None => invoice'[k] = None
         /\ WholeStore'
  <1>1. ASSUME NEW k \in Keys, invoice[k] # None
        PROVE  \E d \in Documents, s \in Statuses :
                   invoice'[k] = [header |-> Header(d), status |-> s] /\ invoice_line'[k] = d.lines
    <2>1. PICK d \in Documents, s \in Statuses :
              invoice[k] = [header |-> Header(d), status |-> s] /\ invoice_line[k] = d.lines
      BY <1>1 DEF IInv, WholeStore, Whole
    <2>2. invoice'[k] \in {invoice[k], [header |-> Header(d), status |-> status]}
      BY <2>1
    <2> QED
      BY <2>1, <2>2
  <1>2. \A k \in Keys : invoice[k] = None => invoice'[k] = None
    OBVIOUS
  <1>3. \A k \in Keys : invoice'[k] \in Rows \union {None}
    BY <1>1, <1>2 DEF Rows
  <1>4. WholeStore'
    BY <1>1, <1>2 DEF WholeStore, Whole
  <1> QED
    BY <1>2, <1>3, <1>4

(* Every step keeps the invariant.                                              *)
LEMMA InvNext == ReadsDocuments /\ IInv /\ [Next]_vars => IInv'
  <1> SUFFICES ASSUME ReadsDocuments, IInv, [Next]_vars PROVE IInv'
    OBVIOUS
  <1>1. CASE \E p \in Procs : Step(p) \/ Fails(p)
    BY <1>1, InvStep
  <1>2. CASE /\ UNCHANGED <<invoice_line, pc, todo, tx>>
             /\ invoice' \in [Keys -> Rows \union {None}]
             /\ \A k \in Keys : invoice[k] = None => invoice'[k] = None
             /\ WholeStore'
    <2>1. TxTypes'
      BY <1>2 DEF IInv, TxTypes, Open
    <2>2. \A p \in Procs : Open(p) => InTx(p).key \in Keys
      BY OpenTx DEF Tx
    <2>3. \A p \in Procs : Open(p)' = Open(p) /\ InTx(p)' = InTx(p)
      BY <1>2 DEF Open, InTx
    <2>4. \A p \in Procs : Open(p)' => FirstLines(InTx(p))' /\ invoice'[InTx(p)'.key] = None
      BY <1>2, <2>2, <2>3 DEF IInv, FirstLines
    <2> QED
      BY <1>2, <2>1, <2>3, <2>4 DEF IInv
  <1>3. CASE \E k \in Keys, status \in NewStatuses : UpdateStatus(k, status)
    <2>1. PICK k \in Keys, status \in NewStatuses : UpdateStatus(k, status)
      BY <1>3
    <2>2. /\ invoice[k] # None /\ UNCHANGED <<invoice_line, pc, todo, tx>>
          /\ invoice' = [invoice EXCEPT ![k] = [invoice[k] EXCEPT !.status = status]]
      BY <2>1 DEF UpdateStatus, procs
    <2>3. \A j \in Keys : \/ invoice'[j] = invoice[j]
                          \/ invoice[j] # None /\ invoice'[j] = [invoice[j] EXCEPT !.status = status]
      <3>1. invoice \in [Keys -> Rows \union {None}]
        BY DEF IInv
      <3>2. invoice'[k] = [invoice[k] EXCEPT !.status = status]
        BY <2>2, <3>1
      <3>3. \A j \in Keys \ {k} : invoice'[j] = invoice[j]
        BY <2>2, <3>1
      <3> QED
        BY <2>2, <3>2, <3>3
    <2>4. DOMAIN invoice' = Keys /\ invoice' = [j \in Keys |-> invoice'[j]] /\ status \in Statuses
      BY <2>2, NewStatusesAssumption DEF IInv
    <2>5. /\ invoice' \in [Keys -> Rows \union {None}]
          /\ \A j \in Keys : invoice[j] = None => invoice'[j] = None
          /\ WholeStore'
      BY <2>2, <2>3, <2>4, StoreMoves
    <2> QED
      BY <1>2, <2>2, <2>5
  <1>4. CASE Requeue
    <2> PICK status \in Statuses : status = "validated"
      BY DEF Statuses
    <2>1. UNCHANGED <<invoice_line, pc, todo, tx>>
      BY <1>4 DEF Requeue, procs
    <2>2. \A j \in Keys : \/ invoice'[j] = invoice[j]
                          \/ invoice[j] # None /\ invoice'[j] = [invoice[j] EXCEPT !.status = status]
      BY <1>4 DEF Requeue
    <2>3. invoice' = [j \in Keys |-> invoice'[j]]
      BY <1>4 DEF Requeue
    <2>4. /\ invoice' \in [Keys -> Rows \union {None}]
          /\ \A k \in Keys : invoice[k] = None => invoice'[k] = None
          /\ WholeStore'
      BY <2>1, <2>2, <2>3, StoreMoves
    <2> QED
      BY <1>2, <2>1, <2>4
  <1>5. CASE UNCHANGED vars
    <2>1. UNCHANGED <<invoice, invoice_line, pc, todo, tx>>
      BY <1>5 DEF vars, store, procs
    <2>2. WholeStore'
      BY <2>1 DEF IInv, WholeStore, Whole
    <2> QED
      BY <1>2, <2>1, <2>2 DEF IInv
  <1> QED
    BY <1>1, <1>3, <1>4, <1>5 DEF Next

(* Every variable keeps its type, however many processes and faults there are.  *)
THEOREM TypeCorrect == ASSUME ReadsDocuments PROVE Spec => []TypeOK
  <1> DEFINE Rest == source \in [Procs -> Files] /\ faults \in 0 .. MaxFaults
  <1>1. Init => Rest
    BY FaultAssumption DEF Init
  <1>2. Rest /\ [Next]_vars => Rest'
    <2> SUFFICES ASSUME Rest, [Next]_vars PROVE Rest'
      OBVIOUS
    <2> USE DEF Fault, NoFault
    <2>1. ASSUME NEW p \in Procs, Step(p) \/ Fails(p)
          PROVE  /\ UNCHANGED source
                 /\ UNCHANGED faults \/ (faults < MaxFaults /\ faults' = faults + 1)
      <3>1. CASE Parse(p)
        BY <3>1 DEF Parse
      <3>2. CASE Insert(p)
        BY <3>2 DEF Insert
      <3>3. CASE InsertLine(p)
        BY <3>3 DEF InsertLine
      <3>4. CASE Commit(p)
        BY <3>4 DEF Commit
      <3>5. CASE Finish(p)
        BY <3>5 DEF Finish
      <3>6. CASE Fails(p)
        BY <3>6 DEF Fails
      <3> QED
        BY <2>1, <3>1, <3>2, <3>3, <3>4, <3>5, <3>6 DEF Step
    <2>2. \/ UNCHANGED <<source, faults>>
          \/ UNCHANGED source /\ faults < MaxFaults /\ faults' = faults + 1
      BY <2>1 DEF Next, UpdateStatus, Requeue, vars, procs
    <2> QED
      BY <2>1, <2>2, FaultAssumption
  <1>3. IInv /\ Rest => TypeOK
    <2> SUFFICES ASSUME IInv, Rest PROVE TypeOK
      OBVIOUS
    <2>1. \A k \in Keys : invoice[k] # None => invoice[k].status \in Statuses
      BY DEF IInv, Rows
    <2>2. ASSUME NEW p \in Procs PROVE tx[p] # <<>> <=> pc[p] = "lines"
      <3>1. CASE Open(p)
        <4>1. Len(tx[p]) = 1 /\ Len(<<>>) = 0
          BY <3>1 DEF IInv, TxTypes
        <4> QED
          BY <3>1, <4>1 DEF Open
      <3>2. CASE ~Open(p)
        BY <3>2 DEF IInv, TxTypes, Open
      <3> QED
        BY <3>1, <3>2
    <2> QED
      BY <2>1, <2>2 DEF TypeOK, IInv, TxTypes
  <1>4. ReadsDocuments
    OBVIOUS
  <1>5. IInv /\ [Next]_vars => IInv'
    BY <1>4, InvNext
  <1> HIDE DEF Rest
  <1> QED
    BY InvInit, <1>1, <1>2, <1>3, <1>5, PTL DEF Spec
-------------------------------------------------------------------------------
(* The refinement                                                               *)

(* What is staged is never taken for no row.                                    *)
LEMMA StagedNotNone ==
  ASSUME IInv, NEW k \in Keys, invoice[k] # None
  PROVE  Staged[k] # None
  <1>1. PICK d \in Documents, s \in Statuses :
            invoice[k] = [header |-> Header(d), status |-> s] /\ invoice_line[k] = d.lines
    BY DEF IInv, WholeStore, Whole
  <1>2. Staged[k] = [doc |-> d, status |-> s]
    BY <1>1, Documented DEF Staged
  <1> QED
    BY <1>2, NoneAssumption DEF Statuses

(* An empty store is the promise's.                                             *)
LEMMA RefinesInit == Init => Promise!Init
  BY DEF Init, Promise!Init, Staged

(* A commit stages the document of the transaction, whole, and nothing else.    *)
LEMMA CommitStages ==
  ASSUME IInv, NEW p \in Procs, Commit(p), NEW t, t = InTx(p)
  PROVE  /\ t.doc \in Documents /\ t.key = Key(t.doc) /\ t.key \in Keys
         /\ t.status \in {"validated", "failed"}
         /\ invoice[t.key] = None /\ invoice'[t.key] # None
         /\ \A k \in Keys : k # t.key => invoice'[k] = invoice[k]
         /\ Staged[t.key] = None
         /\ Staged' = [Staged EXCEPT ![t.key] = [doc |-> t.doc, status |-> t.status]]
  <1>1. /\ Open(p) /\ AllInserted(p)
        /\ invoice' = [invoice EXCEPT ![t.key] = [header |-> Header(t.doc), status |-> t.status]]
        /\ invoice_line' = [invoice_line EXCEPT ![t.key] = t.lines]
    BY DEF Commit, Visible, Open, InTx
  <1>2. t \in Tx /\ FirstLines(t) /\ invoice[t.key] = None
    BY <1>1, OpenTx
  <1>3. /\ t.doc \in Documents /\ t.key \in Keys /\ t.status \in {"validated", "failed"}
        /\ t.key = Key(t.doc)
    BY <1>2 DEF Tx, FirstLines
  <1>4. t.lines = t.doc.lines
    BY CommitWhole
  <1>5. [Header(t.doc) EXCEPT !.lines = t.doc.lines] = t.doc
    BY <1>3, Documented
  <1>6. [header |-> Header(t.doc), status |-> t.status] # None
    BY <1>3, NoneAssumption DEF Statuses
  <1>7. Staged[t.key] = None
    BY <1>2, <1>3 DEF Staged
  <1>8. Staged'[t.key] = [doc |-> t.doc, status |-> t.status]
    BY <1>1, <1>3, <1>4, <1>5, <1>6 DEF Staged, IInv
  <1>9. \A k \in Keys : k # t.key => Staged'[k] = Staged[k] /\ invoice'[k] = invoice[k]
    BY <1>1 DEF Staged, IInv
  <1>10. Staged' = [Staged EXCEPT ![t.key] = [doc |-> t.doc, status |-> t.status]]
    <2>1. Staged = [k \in Keys |-> Staged[k]] /\ Staged' = [k \in Keys |-> Staged'[k]]
      BY DEF Staged
    <2> QED
      BY <1>3, <1>8, <1>9, <2>1
  <1>11. invoice'[t.key] # None
    BY <1>1, <1>3, <1>6 DEF IInv
  <1> QED
    BY <1>2, <1>3, <1>7, <1>9, <1>10, <1>11

(* A commit is Stage of the promise.                                            *)
LEMMA RefinesCommit ==
  ASSUME IInv, NEW p \in Procs, Commit(p)
  PROVE  \E e \in AllEntries, status \in {"validated", "failed"} : Promise!Stage(e, status)
  <1>1. PICK t : t = InTx(p)
    OBVIOUS
  <1> DEFINE e == Entry(t.doc)
  <1>2. /\ t.doc \in Documents /\ t.key = Key(t.doc) /\ t.status \in {"validated", "failed"}
        /\ Staged[t.key] = None
        /\ Staged' = [Staged EXCEPT ![t.key] = [doc |-> t.doc, status |-> t.status]]
    BY <1>1, CommitStages
  <1>3. e \in AllEntries /\ e.key = t.key /\ e.doc = t.doc
    BY <1>2 DEF Entry, AllEntries
  <1> QED
    BY <1>2, <1>3 DEF Promise!Stage

(* Every step is a step of the promise or leaves what is staged alone.          *)
LEMMA RefinesNext ==
  ReadsDocuments /\ IInv /\ [Next]_vars => [Promise!Next]_Staged
  <1> SUFFICES ASSUME IInv, [Next]_vars PROVE [Promise!Next]_Staged
    OBVIOUS
  <1>1. CASE \E p \in Procs : Commit(p)
    BY <1>1, RefinesCommit DEF Promise!Next
  <1>2. CASE \E p \in Procs : Parse(p) \/ Insert(p) \/ InsertLine(p) \/ Finish(p) \/ Fails(p)
    <2>1. UNCHANGED store
      BY <1>2 DEF Parse, Insert, InsertLine, Finish, Fails
    <2> QED
      BY <2>1 DEF store, Staged
  <1>3. CASE \E k \in Keys, status \in NewStatuses : UpdateStatus(k, status)
    <2>1. PICK k \in Keys, status \in NewStatuses : UpdateStatus(k, status)
      BY <1>3
    <2>2. PICK d \in Documents, s \in Statuses :
              invoice[k] = [header |-> Header(d), status |-> s] /\ invoice_line[k] = d.lines
      BY <2>1 DEF UpdateStatus, IInv, WholeStore, Whole
    <2>3. /\ invoice[k] # None /\ UNCHANGED invoice_line
          /\ invoice' = [invoice EXCEPT ![k] = [invoice[k] EXCEPT !.status = status]]
      BY <2>1 DEF UpdateStatus
    <2>3a. status \in Statuses
      BY <2>1, NewStatusesAssumption
    <2>4. invoice'[k] = [header |-> Header(d), status |-> status] /\ invoice'[k] # None
      <3>1. invoice \in [Keys -> Rows \union {None}]
        BY DEF IInv
      <3>2. invoice'[k] = [header |-> Header(d), status |-> status]
        BY <2>2, <2>3, <3>1
      <3> QED
        BY <3>2, <2>3a, NoneAssumption
    <2>5. \A j \in Keys : j # k => Staged'[j] = Staged[j]
      BY <2>3 DEF Staged, IInv
    <2>6. Staged'[k] = [Staged[k] EXCEPT !.status = status]
      <3>1. Staged[k] = [doc |-> [Header(d) EXCEPT !.lines = d.lines], status |-> s]
        BY <2>2, <2>3 DEF Staged
      <3>2. Staged'[k] = [doc |-> [Header(d) EXCEPT !.lines = d.lines], status |-> status]
        BY <2>2, <2>3, <2>4 DEF Staged
      <3> QED
        BY <3>1, <3>2
    <2>7. Staged[k] # None
      BY <2>2, <2>3, StagedNotNone
    <2>8. DOMAIN Staged' = Keys
      BY DEF Staged
    <2> QED
      BY <2>3a, <2>5, <2>6, <2>7, <2>8 DEF Promise!Next, Promise!Move
  <1>4. CASE Requeue
    <2>1. UNCHANGED invoice_line
      BY <1>4 DEF Requeue
    <2>2. ASSUME NEW k \in Keys
          PROVE  \/ Staged'[k] = Staged[k]
                 \/ Staged[k] # None /\ Staged'[k] = [Staged[k] EXCEPT !.status = "validated"]
      <3>1. CASE invoice'[k] = invoice[k]
        BY <2>1, <3>1 DEF Staged
      <3>2. CASE invoice'[k] # invoice[k]
        <4>1. invoice[k] # None /\ invoice'[k] = [invoice[k] EXCEPT !.status = "validated"]
          BY <1>4, <3>2 DEF Requeue
        <4>2. PICK d \in Documents, s \in Statuses : invoice[k] = [header |-> Header(d), status |-> s]
          BY <4>1 DEF IInv, WholeStore, Whole
        <4>3. invoice'[k] = [header |-> Header(d), status |-> "validated"] /\ invoice'[k] # None
          BY <4>1, <4>2, NoneAssumption DEF Statuses
        <4>4. Staged'[k] = [Staged[k] EXCEPT !.status = "validated"]
          BY <2>1, <4>1, <4>2, <4>3 DEF Staged
        <4>5. Staged[k] # None
          BY <4>1, StagedNotNone
        <4> QED
          BY <4>4, <4>5
      <3> QED
        BY <3>1, <3>2
    <2>3. DOMAIN Staged' = Keys
      BY DEF Staged
    <2> QED
      BY <2>2, <2>3 DEF Promise!Next, Promise!Move, Statuses
  <1>5. CASE UNCHANGED vars
    BY <1>5 DEF vars, store, Staged
  <1> QED
    BY <1>1, <1>2, <1>3, <1>4, <1>5 DEF Next, Step

(* Whatever processes ingest the same keys at once, fail or crash, a document   *)
(* is staged whole and once, and then only changes its status.                  *)
THEOREM StagedOnce == ASSUME ReadsDocuments PROVE Spec => StagesOnce
  <1>1. ReadsDocuments
    OBVIOUS
  <1>2. IInv /\ [Next]_vars => IInv'
    BY <1>1, InvNext
  <1>3. IInv /\ [Next]_vars => [Promise!Next]_Staged
    BY <1>1, RefinesNext
  <1> QED
    BY InvInit, RefinesInit, <1>2, <1>3, PTL DEF Spec, StagesOnce, Promise!Spec
-------------------------------------------------------------------------------
(* What a process has done                                                      *)

\* The process has still to stage something under the key.
Ahead(p, k) == \E j \in DOMAIN todo[p] : todo[p][j].key = k

\* A document of a file that is read is staged, or still to be; the transaction
\* is for the next one.
Seen ==
    /\ parsed \in [Procs -> SUBSET Seq(Documents)]
    /\ \A p \in Procs : Open(p) => todo[p][1] = Entry(InTx(p).doc)
    /\ \A p \in Procs : pc[p] = "done" => todo[p] = <<>>
    /\ \A p \in Procs : pc[p] \in {"doc", "lines", "done"} =>
           \A ds \in parsed[p] : \A i \in DOMAIN ds :
               invoice[Key(ds[i])] # None \/ Ahead(p, Key(ds[i]))

(* What a step does to the keys that are staged: a commit adds the key of its   *)
(* transaction, nothing else adds or removes one, and the documents stay.       *)
LEMMA KeysStaged ==
  ASSUME ReadsDocuments, IInv, [Next]_vars
  PROVE  /\ \A k \in Keys : invoice[k] # None =>
                invoice'[k] # None /\ Staged'[k].doc = Staged[k].doc
         /\ (\A p \in Procs : ~Commit(p)) => \A k \in Keys : invoice[k] = None => invoice'[k] = None
  <1>1. ASSUME NEW k \in Keys, invoice[k] # None
        PROVE  invoice'[k] # None /\ Staged'[k].doc = Staged[k].doc
    <2>1. PICK d \in Documents, s \in Statuses :
              invoice[k] = [header |-> Header(d), status |-> s] /\ invoice_line[k] = d.lines
      BY <1>1 DEF IInv, WholeStore, Whole
    <2>2. Staged[k] = [doc |-> d, status |-> s]
      BY <1>1, <2>1, Documented DEF Staged
    <2>3. Staged[k] # None
      BY <1>1, StagedNotNone
    <2>4. [Promise!Next]_Staged
      BY RefinesNext
    <2>5. \E u \in Statuses : Staged'[k] = [doc |-> d, status |-> u]
      <3>1. CASE \E e \in AllEntries, status \in {"validated", "failed"} : Promise!Stage(e, status)
        BY <2>2, <2>3, <3>1 DEF Promise!Stage
      <3>2. CASE \E status \in Statuses : Promise!Move(status)
        BY <2>2, <3>2 DEF Promise!Move
      <3>3. CASE Staged' = Staged
        BY <2>2, <3>3
      <3> QED
        BY <2>4, <3>1, <3>2, <3>3 DEF Promise!Next
    <2>6. Staged'[k] # None
      BY <2>5, NoneAssumption DEF Statuses
    <2>7. invoice'[k] # None
      BY <2>6 DEF Staged
    <2> QED
      BY <2>2, <2>5, <2>7
  <1>2. ASSUME \A p \in Procs : ~Commit(p), NEW k \in Keys, invoice[k] = None
        PROVE  invoice'[k] = None
    <2>1. CASE \E p \in Procs : Parse(p) \/ Insert(p) \/ InsertLine(p) \/ Finish(p) \/ Fails(p)
      BY <1>2, <2>1 DEF Parse, Insert, InsertLine, Finish, Fails, store
    <2>2. CASE \E j \in Keys, status \in NewStatuses : UpdateStatus(j, status)
      BY <1>2, <2>2 DEF UpdateStatus, IInv
    <2>3. CASE Requeue
      BY <1>2, <2>3 DEF Requeue
    <2>4. CASE UNCHANGED vars
      BY <1>2, <2>4 DEF vars, store
    <2> QED
      BY <1>2, <2>1, <2>2, <2>3, <2>4 DEF Next, Step
  <1> QED
    BY <1>1, <1>2

(* What one process does, as its own variables show it; it leaves those of the  *)
(* others alone.                                                                *)
LEMMA Moves ==
  ASSUME ReadsDocuments, IInv, Seen, NEW p \in Procs, Step(p) \/ Fails(p)
  PROVE  /\ \A q \in Procs \ {p} : /\ pc'[q] = pc[q] /\ todo'[q] = todo[q]
                                   /\ parsed'[q] = parsed[q] /\ tx'[q] = tx[q]
         /\ \/ pc'[p] \in {"error", "crash"}
            \/ /\ pc'[p] = "doc" /\ pc[p] = "start"
               /\ \E parse \in Parses : parsed'[p] = {parse.docs} /\ todo'[p] = parse.todo
            \/ /\ pc[p] \in {"doc", "lines"} /\ pc'[p] = "doc" /\ todo[p] # <<>>
               /\ parsed'[p] = parsed[p] /\ todo'[p] = Tail(todo[p])
               /\ invoice'[Head(todo[p]).key] # None
            \/ /\ pc[p] \in {"doc", "lines"} /\ pc'[p] = "lines"
               /\ parsed'[p] = parsed[p] /\ todo'[p] = todo[p]
               /\ InTx(p)'.doc = Head(todo[p]).doc
            \/ /\ pc[p] = "doc" /\ pc'[p] = "done" /\ todo[p] = <<>>
               /\ parsed'[p] = parsed[p] /\ todo'[p] = todo[p]
         /\ parsed' \in [Procs -> SUBSET Seq(Documents)]
  <1> USE DEF IInv, TxTypes, Seen, GoTo
  <1>1. CASE Parse(p)
    <2>1. CASE \A parse \in Parses : parse.of # source[p]
      <3>1. pc' = [pc EXCEPT ![p] = "error"] /\ UNCHANGED <<parsed, todo, tx>>
        BY <1>1, <2>1 DEF Parse
      <3> QED
        BY <3>1
    <2>2. CASE ~\A parse \in Parses : parse.of # source[p]
      <3>1. PICK parse \in Parses :
                /\ pc' = [pc EXCEPT ![p] = "doc"] /\ parsed' = [parsed EXCEPT ![p] = {parse.docs}]
                /\ todo' = [todo EXCEPT ![p] = parse.todo]
        BY <1>1, <2>2 DEF Parse
      <3>2. parse.docs \in Seq(Documents)
        BY StagesDocuments
      <3>3. parsed' \in [Procs -> SUBSET Seq(Documents)]
        BY <3>1, <3>2
      <3>4. pc[p] = "start" /\ UNCHANGED tx
        BY <1>1 DEF Parse
      <3>5. pc'[p] = "doc" /\ parsed'[p] = {parse.docs} /\ todo'[p] = parse.todo
        BY <3>1
      <3> QED
        BY <3>1, <3>3, <3>4, <3>5
    <2> QED
      BY <2>1, <2>2
  <1>2. CASE Insert(p)
    <2>1. CASE Exists(Head(todo[p]).key)
      <3>1. /\ pc[p] = "doc" /\ todo[p] # <<>> /\ UNCHANGED <<pc, tx, parsed, invoice>>
            /\ todo' = [todo EXCEPT ![p] = Tail(@)]
        BY <1>2, <2>1 DEF Insert, Upserted, store
      <3> QED
        BY <2>1, <3>1 DEF Exists
    <2>2. CASE ~Exists(Head(todo[p]).key)
      <3>1. /\ pc[p] = "doc" /\ UNCHANGED <<todo, parsed>> /\ pc' = [pc EXCEPT ![p] = "lines"]
            /\ tx' = [tx EXCEPT ![p] = <<Transaction(Head(todo[p]))>>]
        BY <1>2, <2>2 DEF Insert
      <3>2. tx'[p] = <<Transaction(Head(todo[p]))>>
        BY <3>1
      <3>3. InTx(p)'.doc = Head(todo[p]).doc
        BY <3>2 DEF InTx, Transaction
      <3> QED
        BY <3>1, <3>3
    <2> QED
      BY <2>1, <2>2
  <1>3. CASE InsertLine(p)
    <2> DEFINE u == [tx[p][1] EXCEPT !.lines = Append(@, tx[p][1].doc.lines[Len(@) + 1])]
    <2>1. /\ pc[p] = "lines" /\ UNCHANGED <<pc, todo, parsed>>
          /\ tx' = [tx EXCEPT ![p] = [@ EXCEPT ![1] = u]]
      BY <1>3 DEF InsertLine
    <2>2. tx[p] \in Seq(Tx) /\ Len(tx[p]) = 1 /\ todo[p] # <<>> /\ todo[p] \in Seq(AllEntries)
      BY <2>1 DEF Open
    <2>3. u.doc = tx[p][1].doc
      BY <2>2 DEF Tx
    <2>4. tx'[p][1] = u
      BY <2>1, <2>2
    <2>5. todo[p][1] = Entry(InTx(p).doc) /\ Head(todo[p]) = todo[p][1]
      BY <2>1, <2>2 DEF Open
    <2>6. InTx(p)'.doc = Head(todo[p]).doc
      BY <2>3, <2>4, <2>5 DEF InTx, Entry
    <2> QED
      BY <2>1, <2>6
  <1>4. CASE Commit(p)
    <2>1. PICK t : t = InTx(p)
      OBVIOUS
    <2>2. t.key = Key(t.doc) /\ invoice'[t.key] # None
      BY <1>4, <2>1, CommitStages
    <2>3. /\ pc[p] = "lines" /\ tx' = [tx EXCEPT ![p] = <<>>] /\ UNCHANGED parsed
          /\ \/ pc' = [pc EXCEPT ![p] = "doc"] /\ todo' = [todo EXCEPT ![p] = Tail(@)]
             \/ pc' = [pc EXCEPT ![p] = "error"] /\ UNCHANGED todo
      BY <1>4 DEF Commit, Upserted
    <2>4. Open(p) /\ todo[p] # <<>> /\ todo[p] \in Seq(AllEntries)
      BY <2>3 DEF Open
    <2>5. Head(todo[p]) = Entry(t.doc)
      BY <2>1, <2>4
    <2>6. Head(todo[p]).key = t.key
      BY <2>2, <2>5 DEF Entry
    <2> QED
      BY <2>2, <2>3, <2>4, <2>6
  <1>5. CASE Finish(p)
    BY <1>5 DEF Finish
  <1>6. CASE Fails(p)
    BY <1>6 DEF Fails, RolledBack
  <1> QED
    BY <1>1, <1>2, <1>3, <1>4, <1>5, <1>6 DEF Step

(* What is read is staged or ahead: a document leaves the head of the queue     *)
(* only when its key is staged.                                                 *)
LEMMA SeenNext == ReadsDocuments /\ IInv /\ Seen /\ [Next]_vars => Seen'
  <1> SUFFICES ASSUME ReadsDocuments, IInv, Seen, [Next]_vars PROVE Seen'
    OBVIOUS
  <1>0. IInv'
    BY InvNext
  <1>1. ASSUME NEW q \in Procs, NEW ds \in parsed[q], NEW i \in DOMAIN ds
        PROVE  /\ Key(ds[i]) \in Keys
               /\ invoice[Key(ds[i])] # None => invoice'[Key(ds[i])] # None
    <2>1. ds \in Seq(Documents)
      BY DEF Seen
    <2>2. ds[i] \in Documents
      BY <2>1
    <2> QED
      BY <2>2, KeysStaged DEF Keys
  <1>2. ASSUME NEW q \in Procs, pc'[q] = pc[q], todo'[q] = todo[q], parsed'[q] = parsed[q], tx'[q] = tx[q]
        PROVE  /\ Open(q)' => todo'[q][1] = Entry(InTx(q)'.doc)
               /\ pc'[q] = "done" => todo'[q] = <<>>
               /\ pc'[q] \in {"doc", "lines", "done"} =>
                      \A ds \in parsed'[q] : \A i \in DOMAIN ds :
                          invoice'[Key(ds[i])] # None \/ Ahead(q, Key(ds[i]))'
    BY <1>1, <1>2 DEF Seen, Open, InTx, Ahead
  <1>3. ASSUME NEW p \in Procs, Step(p) \/ Fails(p)
        PROVE  Seen'
    <2>1. /\ \A q \in Procs \ {p} : /\ pc'[q] = pc[q] /\ todo'[q] = todo[q]
                                    /\ parsed'[q] = parsed[q] /\ tx'[q] = tx[q]
          /\ parsed' \in [Procs -> SUBSET Seq(Documents)]
      BY <1>3, Moves
    <2>2. todo[p] \in Seq(AllEntries) /\ todo'[p] \in Seq(AllEntries)
      BY <1>0 DEF IInv, TxTypes
    <2> DEFINE Mine == /\ Open(p)' => todo'[p][1] = Entry(InTx(p)'.doc)
                       /\ pc'[p] = "done" => todo'[p] = <<>>
                       /\ pc'[p] \in {"doc", "lines", "done"} =>
                              \A ds \in parsed'[p] : \A i \in DOMAIN ds :
                                  invoice'[Key(ds[i])] # None \/ Ahead(p, Key(ds[i]))'
    <2>3. ASSUME pc'[p] \in {"error", "crash"}
          PROVE  Mine
      BY <2>3 DEF Open
    <2>4. ASSUME /\ pc'[p] = "doc"
                 /\ \E parse \in Parses : parsed'[p] = {parse.docs} /\ todo'[p] = parse.todo
          PROVE  Mine
      <3>1. PICK parse \in Parses : parsed'[p] = {parse.docs} /\ todo'[p] = parse.todo
        BY <2>4
      <3>2. \A i \in DOMAIN parse.docs : \E j \in DOMAIN parse.todo : parse.todo[j].key = Key(parse.docs[i])
        BY StagesDocuments
      <3> QED
        BY <2>4, <3>1, <3>2 DEF Open, Ahead
    <2>5. ASSUME /\ pc[p] \in {"doc", "lines"} /\ pc'[p] = "doc" /\ todo[p] # <<>>
                 /\ parsed'[p] = parsed[p] /\ todo'[p] = Tail(todo[p])
                 /\ invoice'[Head(todo[p]).key] # None
          PROVE  Mine
      <3> SUFFICES ASSUME NEW ds \in parsed[p], NEW i \in DOMAIN ds, invoice'[Key(ds[i])] = None
                   PROVE  Ahead(p, Key(ds[i]))'
        BY <2>5 DEF Open
      <3>1. invoice[Key(ds[i])] = None
        BY <1>1
      <3>2. PICK j \in DOMAIN todo[p] : todo[p][j].key = Key(ds[i])
        BY <2>5, <3>1 DEF Seen, Ahead
      <3>3. j # 1
        BY <2>2, <2>5, <3>2
      <3>4. j - 1 \in DOMAIN todo'[p] /\ todo'[p][j - 1] = todo[p][j]
        BY <2>2, <2>5, <3>2, <3>3
      <3> QED
        BY <3>2, <3>4 DEF Ahead
    <2>6. ASSUME /\ pc[p] \in {"doc", "lines"} /\ pc'[p] = "lines"
                 /\ parsed'[p] = parsed[p] /\ todo'[p] = todo[p]
                 /\ InTx(p)'.doc = Head(todo[p]).doc
          PROVE  Mine
      <3>1. todo'[p] # <<>>
        BY <1>0, <2>6 DEF IInv, TxTypes, Open
      <3>2. Head(todo[p]) = todo[p][1] /\ todo[p][1] \in AllEntries
        BY <2>2, <2>6, <3>1
      <3>3. PICK d \in Documents : todo[p][1] = Entry(d)
        BY <3>2 DEF AllEntries
      <3>4. Entry(d).doc = d
        BY DEF Entry
      <3>5. todo'[p][1] = Entry(InTx(p)'.doc)
        BY <2>6, <3>2, <3>3, <3>4
      <3> QED
        BY <1>1, <2>6, <3>5 DEF Seen, Ahead
    <2>7. ASSUME /\ pc[p] = "doc" /\ pc'[p] = "done" /\ todo[p] = <<>>
                 /\ parsed'[p] = parsed[p] /\ todo'[p] = todo[p]
          PROVE  Mine
      BY <1>1, <2>7 DEF Seen, Ahead, Open
    <2>8. Mine
      BY <1>3, <2>3, <2>4, <2>5, <2>6, <2>7, Moves
    <2> QED
      BY <1>2, <2>1, <2>8 DEF Seen
  <1>4. CASE UNCHANGED procs
    BY <1>2, <1>4 DEF procs, Seen
  <1>5. CASE \E k \in Keys, status \in NewStatuses : UpdateStatus(k, status)
    BY <1>4, <1>5 DEF UpdateStatus
  <1>6. CASE Requeue
    BY <1>4, <1>6 DEF Requeue
  <1>7. CASE UNCHANGED vars
    BY <1>4, <1>7 DEF vars
  <1> QED
    BY <1>3, <1>5, <1>6, <1>7 DEF Next

(* Every document of a file whose process is done is staged, by that process or *)
(* by another, whatever became of the others: dedup drops no key, a conflict    *)
(* shows a committed row, and rows are never deleted (lib.rs:63-76).            *)
THEOREM DoneStaged == ASSUME ReadsDocuments PROVE Spec => []DoneIsStaged
  <1>1. Init => Seen
    BY DEF Init, Seen, Open
  <1>2. ReadsDocuments
    OBVIOUS
  <1>3. IInv /\ [Next]_vars => IInv'
    BY <1>2, InvNext
  <1>4. IInv /\ Seen /\ [Next]_vars => Seen'
    BY <1>2, SeenNext
  <1>5. Seen => DoneIsStaged
    BY DEF Seen, DoneIsStaged, Ahead
  <1> QED
    BY InvInit, <1>1, <1>3, <1>4, <1>5, PTL DEF Spec

-------------------------------------------------------------------------------
(* The reports                                                                  *)

Report == [parsed : Int, staged : Int, duplicates : Int, rejected : Int]

\* A report accounts for all but what is still to be staged.
Balanced(r, left) == r.parsed = r.staged + r.duplicates + r.rejected + left

Reported ==
    /\ report \in [Procs -> Report]
    /\ \A p \in Procs : pc[p] = "start" => report[p] = NoReport /\ todo[p] = <<>>
    /\ \A p \in Procs : Balanced(report[p], Len(todo[p]))

RowsCounted == faults \in Nat /\ IsFiniteSet(AcceptedRows) /\ EachCountedOnce

(* A document at the head of the queue is counted once, one way or another.     *)
LEMMA CountedBalanced ==
  ASSUME NEW r \in Report, NEW S, NEW rest \in Seq(S), rest # <<>>, Balanced(r, Len(rest)),
         NEW d, NEW inserted \in BOOLEAN
  PROVE  /\ Counted(r, d, inserted) \in Report
         /\ Balanced(Counted(r, d, inserted), Len(Tail(rest)))
         /\ Counted(r, d, inserted).staged =
                IF Accepted(d) /\ inserted THEN r.staged + 1 ELSE r.staged
  <1> DEFINE R == [r EXCEPT !.rejected = @ + 1]
             G == [r EXCEPT !.staged = @ + 1]
             U == [r EXCEPT !.duplicates = @ + 1]
  <1>1. Len(rest) \in Nat /\ Len(Tail(rest)) = Len(rest) - 1
    OBVIOUS
  <1>2. R \in Report /\ R.staged = r.staged /\ Balanced(R, Len(Tail(rest)))
    <2>1. /\ R.parsed = r.parsed /\ R.staged = r.staged /\ R.duplicates = r.duplicates
          /\ R.rejected = r.rejected + 1
      BY DEF Report
    <2>2. R \in Report
      BY DEF Report
    <2> HIDE DEF R
    <2> QED
      BY <1>1, <2>1, <2>2 DEF Report, Balanced
  <1>3. G \in Report /\ G.staged = r.staged + 1 /\ Balanced(G, Len(Tail(rest)))
    <2>1. /\ G.parsed = r.parsed /\ G.staged = r.staged + 1 /\ G.duplicates = r.duplicates
          /\ G.rejected = r.rejected
      BY DEF Report
    <2>2. G \in Report
      BY DEF Report
    <2> HIDE DEF G
    <2> QED
      BY <1>1, <2>1, <2>2 DEF Report, Balanced
  <1>4. U \in Report /\ U.staged = r.staged /\ Balanced(U, Len(Tail(rest)))
    <2>1. /\ U.parsed = r.parsed /\ U.staged = r.staged /\ U.duplicates = r.duplicates + 1
          /\ U.rejected = r.rejected
      BY DEF Report
    <2>2. U \in Report
      BY DEF Report
    <2> HIDE DEF U
    <2> QED
      BY <1>1, <2>1, <2>2 DEF Report, Balanced
  <1>5. /\ ~Accepted(d) => Counted(r, d, inserted) = R
        /\ Accepted(d) /\ inserted => Counted(r, d, inserted) = G
        /\ Accepted(d) /\ ~inserted => Counted(r, d, inserted) = U
    BY DEF Counted
  <1> HIDE DEF R, G, U
  <1>6. CASE Accepted(d) /\ inserted
    BY <1>3, <1>5, <1>6, Zenon
  <1>7. CASE ~(Accepted(d) /\ inserted)
    BY <1>2, <1>4, <1>5, <1>7, Zenon
  <1> QED
    BY <1>6, <1>7

(* What one process writes in its report.                                       *)
LEMMA Reports ==
  ASSUME ReadsDocuments, IInv, Seen, Reported, NEW p \in Procs, Step(p) \/ Fails(p)
  PROVE  /\ pc'[p] # "start" /\ Balanced(report'[p], Len(todo'[p]))
         /\ report' \in [Procs -> Report]
         /\ \A q \in Procs \ {p} : report'[q] = report[q]
         /\ \/ ~Commit(p) /\ report'[p].staged = report[p].staged
            \/ /\ Commit(p) /\ NoFault
               /\ report'[p].staged = IF Accepted(InTx(p).doc) THEN report[p].staged + 1
                                      ELSE report[p].staged
            \/ Commit(p) /\ Fault("reply") /\ report'[p].staged = report[p].staged
  <1> DEFINE Done(label, r, left) ==
                 /\ pc' = [pc EXCEPT ![p] = label] /\ label # "start"
                 /\ report' = [report EXCEPT ![p] = r]
                 /\ todo' = [todo EXCEPT ![p] = left]
                 /\ r \in Report /\ Balanced(r, Len(left))
  <1>0. /\ pc \in [Procs -> PCs] /\ todo \in [Procs -> Seq(AllEntries)]
        /\ report \in [Procs -> Report] /\ Balanced(report[p], Len(todo[p]))
        /\ report[p] \in Report /\ todo[p] \in Seq(AllEntries)
    BY DEF IInv, TxTypes, Reported
  <1>1. ASSUME NEW label, NEW r, NEW left, Done(label, r, left)
        PROVE  /\ pc'[p] # "start" /\ Balanced(report'[p], Len(todo'[p]))
               /\ report' \in [Procs -> Report] /\ report'[p] = r
               /\ \A q \in Procs \ {p} : report'[q] = report[q]
    BY <1>0, <1>1
  <1>2. ASSUME UNCHANGED <<report, todo>>, pc'[p] # "start"
        PROVE  /\ pc'[p] # "start" /\ Balanced(report'[p], Len(todo'[p]))
               /\ report' \in [Procs -> Report] /\ report'[p] = report[p]
               /\ \A q \in Procs \ {p} : report'[q] = report[q]
    BY <1>0, <1>2
  <1>3. Commit(p) => pc[p] = "lines" /\ AllInserted(p)
    BY DEF Commit
  <1>4. CASE Parse(p)
    <2>1. ~Commit(p) /\ pc[p] = "start"
      BY <1>3, <1>4 DEF Parse
    <2>2. CASE \A parse \in Parses : parse.of # source[p]
      <3>1. UNCHANGED <<report, todo>> /\ pc'[p] # "start"
        BY <1>0, <1>4, <2>2 DEF Parse, GoTo
      <3> QED
        BY <1>2, <2>1, <3>1
    <2>3. CASE ~\A parse \in Parses : parse.of # source[p]
      <3>1. PICK parse \in Parses :
                /\ GoTo(p, "doc") /\ todo' = [todo EXCEPT ![p] = parse.todo]
                /\ report' = [report EXCEPT ![p].parsed = Len(parse.docs),
                                            ![p].duplicates = Len(parse.docs) - Len(parse.todo)]
        BY <1>4, <2>3 DEF Parse
      <3>2. Len(parse.docs) \in Nat /\ Len(parse.todo) \in Nat
        BY StagesDocuments
      <3>3. report[p] = NoReport
        BY <2>1 DEF Reported
      <3> DEFINE a == Len(parse.docs)
                 b == Len(parse.docs) - Len(parse.todo)
                 r == [[report[p] EXCEPT !.parsed = a] EXCEPT !.duplicates = b]
      <3>4. report' = [report EXCEPT ![p] = r]
        BY <1>0, <3>1
      <3>5. r \in Report /\ Balanced(r, Len(parse.todo)) /\ r.staged = report[p].staged
        <4>1. a \in Int /\ b \in Int /\ a = b + Len(parse.todo)
          BY <3>2
        <4> HIDE DEF a, b
        <4>2. /\ r \in Report /\ r.parsed = a /\ r.duplicates = b
              /\ r.staged = report[p].staged /\ r.rejected = report[p].rejected
          BY <1>0, <4>1 DEF Report
        <4>3. report[p].staged = 0 /\ report[p].rejected = 0
          BY <3>3 DEF NoReport
        <4> HIDE DEF r
        <4> QED
          BY <3>2, <4>1, <4>2, <4>3 DEF Balanced
      <3> HIDE DEF r
      <3>6. Done("doc", r, parse.todo)
        BY <3>1, <3>4, <3>5 DEF GoTo
      <3> QED
        BY <1>1, <2>1, <3>5, <3>6
    <2> QED
      BY <2>2, <2>3
  <1>5. CASE Insert(p)
    <2>1. ~Commit(p) /\ pc[p] = "doc" /\ todo[p] # <<>>
      BY <1>3, <1>5 DEF Insert
    <2>2. CASE Exists(Head(todo[p]).key)
      <3> DEFINE d == Head(todo[p]).doc
      <3>1. /\ UNCHANGED pc /\ todo' = [todo EXCEPT ![p] = Tail(@)]
            /\ report' = [report EXCEPT ![p] = Counted(@, d, FALSE)]
        BY <1>5, <2>2 DEF Insert, Upserted
      <3>2. /\ Counted(report[p], d, FALSE) \in Report
            /\ Balanced(Counted(report[p], d, FALSE), Len(Tail(todo[p])))
            /\ Counted(report[p], d, FALSE).staged = report[p].staged
        <4>1. FALSE \in BOOLEAN /\ ~(Accepted(d) /\ FALSE)
          OBVIOUS
        <4> HIDE DEF d
        <4> QED
          BY <1>0, <2>1, <4>1, CountedBalanced, Zenon
      <3> HIDE DEF d
      <3>3. Done("doc", Counted(report[p], d, FALSE), Tail(todo[p]))
        BY <1>0, <2>1, <3>1, <3>2
      <3> QED
        BY <1>1, <2>1, <3>2, <3>3
    <2>3. CASE ~Exists(Head(todo[p]).key)
      <3>1. UNCHANGED <<report, todo>> /\ pc'[p] # "start"
        BY <1>0, <1>5, <2>3 DEF Insert, GoTo
      <3> QED
        BY <1>2, <2>1, <3>1
    <2> QED
      BY <2>2, <2>3
  <1>6. CASE InsertLine(p)
    <2>1. ~Commit(p) /\ UNCHANGED <<report, todo>> /\ pc'[p] # "start"
      BY <1>3, <1>6 DEF InsertLine
    <2> QED
      BY <1>2, <2>1
  <1>7. CASE Commit(p)
    <2> DEFINE d == Head(todo[p]).doc
    <2>1. Open(p) /\ todo[p] # <<>> /\ todo[p][1] = Entry(InTx(p).doc)
      BY <1>3, <1>7 DEF Open, IInv, TxTypes, Seen
    <2>2. d = InTx(p).doc
      BY <1>0, <2>1 DEF Entry
    <2>3. CASE Fault("reply") /\ GoTo(p, "error") /\ UNCHANGED <<todo, report>>
      <3>1. UNCHANGED <<report, todo>> /\ pc'[p] # "start"
        BY <1>0, <2>3 DEF GoTo
      <3> QED
        BY <1>2, <1>7, <2>3, <3>1
    <2>4. CASE NoFault /\ Upserted(p, TRUE) /\ GoTo(p, "doc")
      <3>1. /\ Counted(report[p], d, TRUE) \in Report
            /\ Balanced(Counted(report[p], d, TRUE), Len(Tail(todo[p])))
            /\ Counted(report[p], d, TRUE).staged =
                   IF Accepted(d) THEN report[p].staged + 1 ELSE report[p].staged
        BY <1>0, <2>1, CountedBalanced
      <3>2. /\ todo' = [todo EXCEPT ![p] = Tail(@)]
            /\ report' = [report EXCEPT ![p] = Counted(@, d, TRUE)]
        BY <2>4 DEF Upserted
      <3>3. Done("doc", Counted(report[p], d, TRUE), Tail(todo[p]))
        BY <1>0, <2>4, <3>1, <3>2 DEF GoTo
      <3> HIDE DEF d, Done
      <3> QED
        BY <1>1, <1>7, <2>2, <2>4, <3>1, <3>3
    <2> QED
      BY <1>7, <2>3, <2>4 DEF Commit
  <1>8. CASE Finish(p)
    <2>1. ~Commit(p) /\ UNCHANGED <<report, todo>> /\ pc'[p] # "start"
      BY <1>0, <1>3, <1>8 DEF Finish, GoTo
    <2> QED
      BY <1>2, <2>1
  <1>9. CASE Fails(p) /\ ~Commit(p)
    <2>1. UNCHANGED <<report, todo>> /\ pc'[p] # "start"
      BY <1>0, <1>9 DEF Fails, GoTo
    <2> QED
      BY <1>2, <1>9, <2>1
  <1> HIDE DEF Done
  <1> QED
    BY <1>4, <1>5, <1>6, <1>7, <1>8, <1>9 DEF Step

(* Every report stays balanced.                                                 *)
LEMMA ReportedNext == ReadsDocuments /\ IInv /\ Seen /\ Reported /\ [Next]_vars => Reported'
  <1> SUFFICES ASSUME ReadsDocuments, IInv, Seen, Reported, [Next]_vars PROVE Reported'
    OBVIOUS
  <1>1. ASSUME NEW p \in Procs, Step(p) \/ Fails(p)
        PROVE  Reported'
    <2>1. /\ pc'[p] # "start" /\ Balanced(report'[p], Len(todo'[p]))
          /\ report' \in [Procs -> Report]
          /\ \A q \in Procs \ {p} : report'[q] = report[q]
      BY <1>1, Reports
    <2>2. \A q \in Procs \ {p} : pc'[q] = pc[q] /\ todo'[q] = todo[q]
      BY <1>1, Moves
    <2>3. ASSUME NEW q \in Procs
          PROVE  /\ pc'[q] = "start" => report'[q] = NoReport /\ todo'[q] = <<>>
                 /\ Balanced(report'[q], Len(todo'[q]))
      BY <2>1, <2>2 DEF Reported
    <2> QED
      BY <2>1, <2>3 DEF Reported, Balanced
  <1>2. CASE UNCHANGED procs
    BY <1>2 DEF procs, Reported, Balanced
  <1>3. CASE \E k \in Keys, status \in NewStatuses : UpdateStatus(k, status)
    BY <1>2, <1>3 DEF UpdateStatus
  <1>4. CASE Requeue \/ UNCHANGED vars
    BY <1>2, <1>4 DEF Requeue, vars
  <1> QED
    BY <1>1, <1>3, <1>4 DEF Next

(* A step that commits nothing leaves the accepted rows as they are.            *)
LEMMA RowsStay ==
  ASSUME ReadsDocuments, IInv, [Next]_vars, \A p \in Procs : ~Commit(p)
  PROVE  AcceptedRows' = AcceptedRows
  BY KeysStaged DEF AcceptedRows

(* A commit adds the row of its document, if that is accepted.                  *)
LEMMA RowAdded ==
  ASSUME IInv, NEW p \in Procs, Commit(p), NEW t, t = InTx(p)
  PROVE  /\ t.key \notin AcceptedRows
         /\ AcceptedRows' = IF Accepted(t.doc) THEN AcceptedRows \union {t.key} ELSE AcceptedRows
  <1>1. /\ t.key \in Keys /\ invoice[t.key] = None /\ invoice'[t.key] # None
        /\ \A k \in Keys : k # t.key => invoice'[k] = invoice[k]
        /\ Staged' = [Staged EXCEPT ![t.key] = [doc |-> t.doc, status |-> t.status]]
    BY CommitStages
  <1>2. Staged'[t.key].doc = t.doc /\ \A k \in Keys : k # t.key => Staged'[k] = Staged[k]
    <2>1. DOMAIN Staged = Keys
      BY DEF Staged
    <2> HIDE DEF Staged
    <2> QED
      BY <1>1, <2>1
  <1>3. \A k \in Keys : k \in AcceptedRows' <=> k \in AcceptedRows \/ (k = t.key /\ Accepted(t.doc))
    BY <1>1, <1>2 DEF AcceptedRows
  <1>4. t.key \notin AcceptedRows
    BY <1>1 DEF AcceptedRows
  <1>5. AcceptedRows \subseteq Keys /\ AcceptedRows' \subseteq Keys
    BY DEF AcceptedRows
  <1> HIDE DEF AcceptedRows
  <1> QED
    BY <1>1, <1>3, <1>4, <1>5

(* Each process has counted what it has staged: a commit that is answered adds  *)
(* one row and one to one report, a commit whose answer is lost one uncounted   *)
(* row and one fault.                                                           *)
LEMMA RowsCountedNext ==
  ReadsDocuments /\ IInv /\ Seen /\ Reported /\ RowsCounted /\ [Next]_vars => RowsCounted'
  <1> SUFFICES ASSUME ReadsDocuments, IInv, Seen, Reported, RowsCounted, [Next]_vars
               PROVE  RowsCounted'
    OBVIOUS
  <1> DEFINE ByOf(rows, by, p) == {k \in rows : by[k] = p}
  <1>1. PICK uncounted \in SUBSET AcceptedRows :
            /\ Cardinality(uncounted) <= faults
            /\ \E countedBy \in [AcceptedRows \ uncounted -> Procs] : \A p \in Procs :
                   report[p].staged = Cardinality(ByOf(AcceptedRows \ uncounted, countedBy, p))
    BY DEF RowsCounted, EachCountedOnce
  <1> DEFINE Rows0 == AcceptedRows \ uncounted
  <1>2. PICK countedBy \in [Rows0 -> Procs] :
            \A p \in Procs : report[p].staged = Cardinality(ByOf(Rows0, countedBy, p))
    BY <1>1
  <1>3. /\ faults \in Nat /\ IsFiniteSet(AcceptedRows) /\ IsFiniteSet(uncounted)
        /\ Cardinality(uncounted) \in Nat
        /\ \A p \in Procs : IsFiniteSet(ByOf(Rows0, countedBy, p))
    BY FS_Subset, FS_CardinalityType DEF RowsCounted
  <1>4. faults' \in Nat /\ faults' >= faults /\ \A kind : Fault(kind) => faults' = faults + 1
    <2>1. faults' = faults \/ faults' = faults + 1
      BY DEF Next, Step, Parse, Insert, InsertLine, Commit, Finish, Fails, UpdateStatus, Requeue,
             Fault, NoFault, vars
    <2> QED
      BY <1>3, <2>1 DEF Fault
  <1>5. ASSUME NEW u \in SUBSET AcceptedRows', IsFiniteSet(AcceptedRows'),
               Cardinality(u) <= faults',
               NEW by \in [AcceptedRows' \ u -> Procs],
               \A p \in Procs : report'[p].staged = Cardinality(ByOf(AcceptedRows' \ u, by, p))
        PROVE  RowsCounted'
    BY <1>4, <1>5 DEF RowsCounted, EachCountedOnce
  <1> HIDE DEF Rows0
  <1>6. ASSUME AcceptedRows' = AcceptedRows, \A p \in Procs : report'[p].staged = report[p].staged
        PROVE  RowsCounted'
    <2>1. /\ uncounted \in SUBSET AcceptedRows' /\ IsFiniteSet(AcceptedRows')
          /\ AcceptedRows' \ uncounted = Rows0
      BY <1>3, <1>6 DEF Rows0
    <2>2. Cardinality(uncounted) <= faults'
      BY <1>1, <1>3, <1>4
    <2>3. \A p \in Procs : report'[p].staged = Cardinality(ByOf(AcceptedRows' \ uncounted, countedBy, p))
      BY <1>2, <1>6, <2>1
    <2> HIDE DEF ByOf
    <2> QED
      BY <1>2, <1>5, <2>1, <2>2, <2>3
  <1>7. ASSUME \A p \in Procs : ~Commit(p)
        PROVE  RowsCounted'
    <2>1. AcceptedRows' = AcceptedRows
      BY <1>7, RowsStay
    <2>2. ASSUME NEW p \in Procs, Step(p) \/ Fails(p)
          PROVE  \A q \in Procs : report'[q].staged = report[q].staged
      BY <1>7, <2>2, Reports
    <2>3. UNCHANGED procs => UNCHANGED report
      BY DEF procs
    <2>4. \A q \in Procs : report'[q].staged = report[q].staged
      BY <2>2, <2>3 DEF Next, UpdateStatus, Requeue, vars
    <2> QED
      BY <1>6, <2>1, <2>4
  <1>8. ASSUME NEW p \in Procs, Commit(p)
        PROVE  RowsCounted'
    <2>1. PICK t : t = InTx(p)
      OBVIOUS
    <2>2. /\ t.key \notin AcceptedRows
          /\ AcceptedRows' = IF Accepted(t.doc) THEN AcceptedRows \union {t.key} ELSE AcceptedRows
      BY <1>8, <2>1, RowAdded
    <2>3. /\ \A q \in Procs \ {p} : report'[q] = report[q]
          /\ \/ /\ NoFault
                /\ report'[p].staged = IF Accepted(t.doc) THEN report[p].staged + 1
                                       ELSE report[p].staged
             \/ Fault("reply") /\ report'[p].staged = report[p].staged
      BY <1>8, <2>1, Reports DEF Step
    <2>4. CASE ~Accepted(t.doc)
      <3>1. \A q \in Procs : report'[q].staged = report[q].staged
        BY <2>3, <2>4
      <3> QED
        BY <1>6, <2>2, <2>4, <3>1
    <2>5. CASE Accepted(t.doc) /\ report'[p].staged = report[p].staged + 1
      <3> DEFINE by == [k \in Rows0 \union {t.key} |-> IF k = t.key THEN p ELSE countedBy[k]]
      <3>1. AcceptedRows' = AcceptedRows \union {t.key} /\ IsFiniteSet(AcceptedRows')
        <4>1. AcceptedRows' = AcceptedRows \union {t.key}
          BY <2>2, <2>5
        <4> QED
          BY <1>3, <4>1, FS_AddElement
      <3>2. t.key \notin Rows0 /\ AcceptedRows' \ uncounted = Rows0 \union {t.key}
        BY <1>1, <2>2, <3>1 DEF Rows0
      <3>3. by \in [AcceptedRows' \ uncounted -> Procs]
        BY <1>2, <3>2
      <3>4. ASSUME NEW q \in Procs
            PROVE  report'[q].staged = Cardinality(ByOf(AcceptedRows' \ uncounted, by, q))
        <4>1. CASE q = p
          <5>1. /\ ByOf(AcceptedRows' \ uncounted, by, p) = ByOf(Rows0, countedBy, p) \union {t.key}
                /\ t.key \notin ByOf(Rows0, countedBy, p)
            BY <3>2
          <5>2. Cardinality(ByOf(Rows0, countedBy, p) \union {t.key})
                    = Cardinality(ByOf(Rows0, countedBy, p)) + 1
            <6> HIDE DEF ByOf
            <6> QED
              BY <1>3, <5>1, FS_AddElement
          <5> QED
            BY <1>2, <2>5, <4>1, <5>1, <5>2
        <4>2. CASE q # p
          <5>1. ByOf(AcceptedRows' \ uncounted, by, q) = ByOf(Rows0, countedBy, q)
            BY <3>2, <4>2
          <5> QED
            BY <1>2, <2>3, <4>2, <5>1
        <4> QED
          BY <4>1, <4>2
      <3>5. uncounted \in SUBSET AcceptedRows' /\ Cardinality(uncounted) <= faults'
        BY <1>1, <1>3, <1>4, <3>1
      <3> HIDE DEF by, ByOf
      <3> QED
        BY <1>5, <3>1, <3>3, <3>4, <3>5
    <2>6. CASE Accepted(t.doc) /\ Fault("reply") /\ report'[p].staged = report[p].staged
      <3> DEFINE u == uncounted \union {t.key}
      <3>1. AcceptedRows' = AcceptedRows \union {t.key} /\ IsFiniteSet(AcceptedRows')
        <4>1. AcceptedRows' = AcceptedRows \union {t.key}
          BY <2>2, <2>6
        <4> QED
          BY <1>3, <4>1, FS_AddElement
      <3>2. u \in SUBSET AcceptedRows' /\ AcceptedRows' \ u = Rows0
        BY <1>1, <2>2, <3>1 DEF Rows0
      <3>3. Cardinality(u) <= faults'
        <4>1. Cardinality(u) = Cardinality(uncounted) + 1
          BY <1>1, <1>3, <2>2, FS_AddElement
        <4>2. faults' = faults + 1
          BY <1>4, <2>6
        <4> HIDE DEF u
        <4> QED
          BY <1>1, <1>3, <4>1, <4>2
      <3>4. \A q \in Procs : report'[q].staged = report[q].staged
        BY <2>3, <2>6
      <3> HIDE DEF u
      <3>5. countedBy \in [AcceptedRows' \ u -> Procs]
        BY <1>2, <3>2
      <3>6. \A q \in Procs : report'[q].staged = Cardinality(ByOf(AcceptedRows' \ u, countedBy, q))
        BY <1>2, <3>2, <3>4
      <3> HIDE DEF ByOf
      <3> QED
        BY <1>5, <3>1, <3>2, <3>3, <3>5, <3>6
    <2> QED
      BY <2>3, <2>4, <2>5, <2>6
  <1> QED
    BY <1>7, <1>8

(* The reports add up: each accounts for every document of its file, and each   *)
(* accepted row is counted as staged by one process, unless the answer to its   *)
(* commit was lost (lib.rs:24-31).                                              *)
THEOREM ReportsAddUp == ASSUME ReadsDocuments PROVE Spec => []ReportsTrue
  <1>1. Init => Seen /\ Reported /\ RowsCounted
    <2> SUFFICES ASSUME Init PROVE Seen /\ Reported /\ RowsCounted
      OBVIOUS
    <2>1. Seen
      BY DEF Init, Seen, Open
    <2>2. Reported
      <3>1. NoReport \in Report /\ Balanced(NoReport, 0) /\ Len(<<>>) = 0
        BY DEF NoReport, Report, Balanced
      <3> QED
        BY <3>1 DEF Init, Reported
    <2>3. AcceptedRows = {}
      BY DEF Init, AcceptedRows
    <2>4. IsFiniteSet({}) /\ Cardinality({}) = 0
      BY FS_EmptySet
    <2> DEFINE none == [k \in {} |-> 0]
    <2>5. none \in [AcceptedRows \ {} -> Procs]
      BY <2>3
    <2>6. \A p \in Procs : {k \in AcceptedRows \ {} : none[k] = p} = {} /\ report[p].staged = 0
      BY <2>3 DEF Init, NoReport
    <2> HIDE DEF none
    <2>7. EachCountedOnce
      <3>1. {} \in SUBSET AcceptedRows /\ faults = 0
        BY DEF Init
      <3> QED
        BY <2>4, <2>5, <2>6, <3>1 DEF EachCountedOnce
    <2> QED
      BY <2>1, <2>2, <2>3, <2>4, <2>7 DEF RowsCounted, Init
  <1>2. ReadsDocuments
    OBVIOUS
  <1>3. IInv /\ [Next]_vars => IInv'
    BY <1>2, InvNext
  <1>4. IInv /\ Seen /\ [Next]_vars => Seen'
    BY <1>2, SeenNext
  <1>5. IInv /\ Seen /\ Reported /\ [Next]_vars => Reported'
    BY <1>2, ReportedNext
  <1>6. IInv /\ Seen /\ Reported /\ RowsCounted /\ [Next]_vars => RowsCounted'
    BY <1>2, RowsCountedNext
  <1>7. Seen /\ Reported /\ RowsCounted => ReportsTrue
    <2> SUFFICES ASSUME Seen, Reported, NEW p \in Procs, pc[p] = "done"
                 PROVE  report[p].parsed = report[p].staged + report[p].duplicates + report[p].rejected
      BY DEF RowsCounted, ReportsTrue
    <2>1. todo[p] = <<>> /\ report[p] \in Report /\ Balanced(report[p], Len(todo[p]))
      BY DEF Seen, Reported
    <2>2. Len(todo[p]) = 0
      BY <2>1
    <2> QED
      BY <2>1, <2>2 DEF Balanced, Report
  <1> QED
    BY InvInit, <1>1, <1>3, <1>4, <1>5, <1>6, <1>7, PTL DEF Spec

===============================================================================

-------------------------- MODULE PurchasesProofs ---------------------------
(***************************************************************************)
(* Proofs about Purchases, for every set of episodes and every bound.      *)
(***************************************************************************)
EXTENDS Purchases, SequenceTheorems, FiniteSetTheorems, TLAPS

USE PurchasesAssumption

\* RecordsArePaid is not inductive by itself: a record is built from the captured
\* "index" lists, and a fresh key exists because keys are no more than grants.
Paid ==
    /\ TypeOK
    /\ lastKey <= Len(bought)
    /\ Len(bought) + Len(ops) <= MaxBought + MaxOps
    /\ RecordsArePaid
    /\ dictIndex \subseteq Bought
    /\ \A i \in DOMAIN ops : ops[i].idx \subseteq Bought

-----------------------------------------------------------------------------
(* What the operators return *)

\* What the app sees of a record is the record or a write on its way.
LEMMA NewestPaid ==
    ASSUME TypeOK, RecordsArePaid, NEW k \in Keys
    PROVE  Newest(k) \subseteq Bought /\ Newest(k) \subseteq Episodes
<1>1. queue \in Seq(RecordWrite) /\ records \in [Keys -> SUBSET Episodes]
  BY DEF TypeOK
<1>2. CASE LastWrite(k) = {}
  BY <1>1, <1>2 DEF Newest, RecordsArePaid
<1>3. CASE LastWrite(k) # {}
  <2>1. PICK i \in DOMAIN queue : Newest(k) = queue[i].eps
    BY <1>3 DEF Newest, LastWrite
  <2>2. queue[i] \in RecordWrite
    BY <1>1
  <2> QED
    BY <2>1, <2>2 DEF RecordsArePaid, RecordWrite
<1> QED
  BY <1>2, <1>3

\* The books built from the records are well formed and paid for.
LEMMA PurchasedBooksPaid ==
    ASSUME TypeOK, RecordsArePaid
    PROVE  /\ PurchasedBooks \subseteq Book
           /\ \A b \in PurchasedBooks : b.eps \subseteq Bought
BY NewestPaid DEF PurchasedBooks, Book

\* The book on the screen, and the book redrawn.
LEMMA ShownPaid ==
    ASSUME TypeOK, RecordsArePaid
    PROVE  /\ Shown \in Book
           /\ Shown.eps \subseteq Bought
BY DEF Shown, TypeOK, RecordsArePaid

LEMMA DrawnPaid ==
    ASSUME NEW b \in Book
    PROVE  Drawn(b) \in Book /\ Drawn(b).eps = b.eps
BY DEF Drawn, Book

\* Showing a paid book leaves paid books behind.
LEMMA ShowPaid ==
    ASSUME TypeOK, NEW b \in Book, Show(b), NEW S, b.eps \subseteq S,
           listed.eps \subseteq S, detail.book.eps \subseteq S
    PROVE  /\ listed' \in Book
           /\ detail' \in [on : {"closed", "listed", "copy"}, book : Book]
           /\ listed'.eps \subseteq S
           /\ detail'.book.eps \subseteq S
BY DEF Show, TypeOK

\* Rewriting the purchases in flight one by one keeps their number.
LEMMA OpsMapped ==
    ASSUME NEW q \in Seq(Op), NEW r, r = [i \in DOMAIN q |-> r[i]],
           \A i \in DOMAIN q : r[i] \in Op
    PROVE  r \in Seq(Op) /\ Len(r) = Len(q) /\ DOMAIN r = DOMAIN q
<1>1. DOMAIN q = 1..Len(q) /\ Len(q) \in Nat
  OBVIOUS
<1> QED
  BY <1>1

\* A purchase put in flight comes last.
LEMMA OpsAppended ==
    ASSUME NEW q \in Seq(Op), NEW op \in Op
    PROVE  /\ Append(q, op) \in Seq(Op) /\ Len(Append(q, op)) = Len(q) + 1
           /\ \A i \in DOMAIN Append(q, op) :
                  Append(q, op)[i] = op \/ (i \in DOMAIN q /\ Append(q, op)[i] = q[i])
<1>1. DOMAIN q = 1..Len(q) /\ Len(q) \in Nat /\ DOMAIN Append(q, op) = 1..(Len(q) + 1)
  OBVIOUS
<1>2. \A i \in 1..(Len(q) + 1) : Append(q, op)[i] = IF i <= Len(q) THEN q[i] ELSE op
  BY <1>1
<1> QED
  BY <1>1, <1>2

-----------------------------------------------------------------------------
(* Paid is inductive *)

LEMMA PaidInit == Init => Paid
<1> SUFFICES ASSUME Init PROVE Paid
  OBVIOUS
<1> USE DEF Init
<1>1. FreshBook \in Book
  BY DEF FreshBook, Book
<1>2. /\ records \in [Keys -> SUBSET Episodes]
      /\ queue \in Seq(RecordWrite)
      /\ ops \in Seq(Op)
      /\ bought \in Seq(Episodes)
      /\ Len(bought) + Len(ops) <= MaxBought + MaxOps
      /\ lastKey <= Len(bought)
  BY DEF NoKey
<1>3. TypeOK
  BY <1>1, <1>2 DEF TypeOK, NoKey
<1>4. RecordsArePaid
  BY DEF RecordsArePaid, FreshBook
<1> QED
  BY <1>2, <1>3, <1>4 DEF Paid

LEMMA PaidStep == Paid /\ [Next]_vars => Paid'
<1> SUFFICES ASSUME Paid, [Next]_vars PROVE Paid'
  OBVIOUS
<1> USE DEF screen
<1>0. /\ TypeOK /\ RecordsArePaid
      /\ Keys \subseteq Nat
      /\ FreshBook \in Book /\ FreshBook.eps = {}
      /\ ops \in Seq(Op) /\ Len(ops) \in Nat
      /\ bought \in Seq(Episodes) /\ Len(bought) \in Nat
      /\ lastKey \in Nat /\ lastKey <= Len(bought)
      /\ Len(bought) + Len(ops) <= MaxBought + MaxOps
      /\ dictIndex \subseteq Bought /\ dictIndex \subseteq Episodes
      /\ \A i \in DOMAIN ops : ops[i] \in Op /\ ops[i].idx \subseteq Bought
  <2>1. ops \in Seq(Op) /\ bought \in Seq(Episodes)
    BY DEF Paid, TypeOK
  <2>2. \A i \in DOMAIN ops : ops[i] \in Op
    BY <2>1
  <2> QED
    BY <2>1, <2>2 DEF Paid, TypeOK, Keys, NoKey, FreshBook, Book
<1>1. CASE FetchStart
  BY <1>1 DEF FetchStart, Paid, TypeOK, RecordsArePaid, Bought
<1>2. CASE FetchAnswer
  <2>1. PurchasedBooks \subseteq Book /\ \A b \in PurchasedBooks : b.eps \subseteq Bought
    BY <1>0, PurchasedBooksPaid
  <2>2. TypeOK'
    BY <1>2, <2>1 DEF FetchAnswer, Paid, TypeOK
  <2>3. RecordsArePaid'
    BY <1>2, <2>1 DEF FetchAnswer, Paid, RecordsArePaid, Bought
  <2> QED
    BY <1>2, <2>2, <2>3 DEF FetchAnswer, Paid, Bought
<1>3. CASE FetchApply
  BY <1>3 DEF FetchApply, Paid, TypeOK, RecordsArePaid, Bought
<1>4. CASE RefreshCatalogue
  <2>1. \A i \in DOMAIN ops : ops'[i] \in Op /\ ops'[i].idx \subseteq Bought
    BY <1>0, <1>4 DEF RefreshCatalogue, Op
  <2>2. ops' \in Seq(Op) /\ Len(ops') = Len(ops) /\ DOMAIN ops' = DOMAIN ops
    <3>1. ops' = [i \in DOMAIN ops |-> ops'[i]]
      BY <1>4 DEF RefreshCatalogue
    <3>2. ops \in Seq(Op) /\ \A i \in DOMAIN ops : ops'[i] \in Op
      BY <1>0, <2>1
    <3> QED
      BY <3>1, <3>2, OpsMapped
  <2>3. TypeOK'
    BY <1>0, <1>4, <2>2 DEF RefreshCatalogue, TypeOK
  <2>4. RecordsArePaid'
    <3>1. Bought' = Bought /\ records' = records /\ queue' = queue /\ cache' = cache /\ fetch' = fetch
      BY <1>4 DEF RefreshCatalogue, Bought
    <3>2. listed'.eps = {} /\ detail'.book \in {listed, detail.book}
      BY <1>0, <1>4 DEF RefreshCatalogue
    <3> QED
      BY <1>0, <3>1, <3>2 DEF RecordsArePaid
  <2> QED
    <3>1. bought' = bought /\ lastKey' = lastKey /\ dictIndex' \subseteq Bought
      BY <1>0, <1>4 DEF RefreshCatalogue
    <3>2. Bought' = Bought
      BY <3>1 DEF Bought
    <3>3. \A i \in DOMAIN ops' : ops'[i].idx \subseteq Bought'
      BY <2>1, <2>2, <3>2
    <3> QED
      BY <1>0, <2>2, <2>3, <2>4, <3>1, <3>2, <3>3 DEF Paid
<1>5. CASE OpenDetail
  <2>1. CASE cache = {} /\ detail' = [on |-> "listed", book |-> FreshBook] /\ listed' = Drawn(listed)
             /\ hidden' = listed.eps
    <3>1. Drawn(listed) \in Book /\ Drawn(listed).eps = listed.eps /\ listed.eps \subseteq Episodes
      BY <1>0, DrawnPaid DEF TypeOK, Book
    <3>2. TypeOK'
      BY <1>0, <1>5, <2>1, <3>1 DEF OpenDetail, TypeOK
    <3>3. RecordsArePaid'
      BY <1>0, <1>5, <2>1, <3>1 DEF OpenDetail, RecordsArePaid, Bought
    <3> QED
      BY <1>0, <1>5, <3>2, <3>3 DEF OpenDetail, Paid, Bought
  <2>2. ASSUME NEW b \in cache,
               detail' = [on |-> "copy", book |-> Drawn([b EXCEPT !.flagged = {}])],
               hidden' = b.eps, listed' = listed
        PROVE  Paid'
    <3> DEFINE c == [b EXCEPT !.flagged = {}]
    <3>1. b \in Book /\ b.eps \subseteq Bought
      BY <1>0 DEF TypeOK, RecordsArePaid
    <3>2. c \in Book /\ c.eps = b.eps /\ b.eps \subseteq Episodes
      BY <3>1 DEF Book
    <3>3. Drawn(c) \in Book /\ Drawn(c).eps = b.eps
      BY <3>2, DrawnPaid
    <3>4. TypeOK'
      BY <1>0, <1>5, <2>2, <3>2, <3>3 DEF OpenDetail, TypeOK
    <3>5. RecordsArePaid'
      BY <1>0, <1>5, <2>2, <3>1, <3>3 DEF OpenDetail, RecordsArePaid, Bought
    <3> QED
      BY <1>0, <1>5, <3>4, <3>5 DEF OpenDetail, Paid, Bought
  <2> QED
    BY <1>5, <2>1, <2>2 DEF OpenDetail
<1>6. CASE CloseDetail
  <2>1. \A i \in DOMAIN ops : ops'[i] \in Op /\ ops'[i].idx \subseteq Bought
    BY <1>0, <1>6 DEF CloseDetail, Op
  <2>2. ops' \in Seq(Op) /\ Len(ops') = Len(ops) /\ DOMAIN ops' = DOMAIN ops
    <3>1. ops' = [i \in DOMAIN ops |-> ops'[i]]
      BY <1>6 DEF CloseDetail
    <3>2. ops \in Seq(Op) /\ \A i \in DOMAIN ops : ops'[i] \in Op
      BY <1>0, <2>1
    <3> QED
      BY <3>1, <3>2, OpsMapped
  <2>3. TypeOK'
    BY <1>0, <1>6, <2>2 DEF CloseDetail, TypeOK
  <2>4. RecordsArePaid'
    BY <1>0, <1>6 DEF CloseDetail, RecordsArePaid, Bought
  <2> QED
    <3>1. bought' = bought /\ lastKey' = lastKey /\ dictIndex' \subseteq Bought
      BY <1>0, <1>6 DEF CloseDetail
    <3>2. Bought' = Bought
      BY <3>1 DEF Bought
    <3>3. \A i \in DOMAIN ops' : ops'[i].idx \subseteq Bought'
      BY <2>1, <2>2, <3>2
    <3> QED
      BY <1>0, <2>2, <2>3, <2>4, <3>1, <3>2, <3>3 DEF Paid
<1>7. ASSUME NEW e \in Episodes, TapPurchase(e) PROVE Paid'
  BY <1>0, <1>7 DEF TapPurchase, Paid, TypeOK, RecordsArePaid, Bought
<1>8. CASE NotNow
  BY <1>0, <1>8 DEF NotNow, Paid, TypeOK, RecordsArePaid, Bought
<1>9. CASE ConfirmPurchase
  <2> DEFINE op == [e |-> confirm, key |-> Shown.key, live |-> TRUE, idx |-> {}, owned |-> TRUE]
  <2>1. Shown \in Book /\ Shown.eps \subseteq Bought
    BY <1>0, ShownPaid
  <2>2. /\ Shown.eps \subseteq Episodes /\ Shown.key \in Keys \cup {NoKey}
        /\ confirm \in Episodes
    BY <1>0, <1>9, <2>1 DEF Book, ConfirmPurchase, TypeOK
  <2>3. op \in Op
    BY <2>2 DEF Op
  <2>4. /\ ops' = Append(ops, op) /\ dictIndex' = Shown.eps /\ bought' = bought
        /\ Len(ops) < MaxOps /\ Len(bought) < MaxBought
    BY <1>9 DEF ConfirmPurchase, IndexToRemember
  <2>5. /\ ops' \in Seq(Op) /\ Len(ops') = Len(ops) + 1
        /\ \A i \in DOMAIN ops' : ops'[i] = op \/ (i \in DOMAIN ops /\ ops'[i] = ops[i])
    BY <1>0, <2>3, <2>4, OpsAppended
  <2>6. \A i \in DOMAIN ops' : ops'[i].idx \subseteq Bought
    BY <1>0, <2>5
  <2>7. TypeOK'
    BY <1>0, <1>9, <2>2, <2>4, <2>5 DEF ConfirmPurchase, TypeOK
  <2>8. RecordsArePaid'
    BY <1>0, <1>9 DEF ConfirmPurchase, RecordsArePaid, Bought
  <2>9. Len(bought') + Len(ops') <= MaxBought + MaxOps
    BY <1>0, <2>4, <2>5
  <2> QED
    BY <1>0, <1>9, <2>1, <2>4, <2>6, <2>7, <2>8, <2>9 DEF ConfirmPurchase, Paid, Bought
<1>10. CASE PurchaseGranted
  <2> DEFINE op == Head(ops)
             key == RecordKey(op)
             rec == [key |-> key, eps |-> Index(op) \cup {op.e}]
             book == [eps |-> Shown.eps \cup {op.e}, key |-> key,
                      flagged |-> Shown.flagged \cup {First}]
  <2>1. ops # <<>> /\ bought' = Append(bought, op.e) /\ ops' = Tail(ops)
    BY <1>10 DEF PurchaseGranted
  <2>2. /\ op \in Op /\ op.idx \subseteq Bought
        /\ ops' \in Seq(Op) /\ Len(ops') = Len(ops) - 1
        /\ \A i \in DOMAIN ops' : i + 1 \in DOMAIN ops /\ ops'[i] = ops[i + 1]
    BY <1>0, <2>1
  <2>3. /\ op.e \in Episodes /\ op.key \in Keys \cup {NoKey} /\ op.idx \subseteq Episodes
        /\ op.owned \in BOOLEAN
    BY <2>2 DEF Op
  <2>4. bought' \in Seq(Episodes) /\ Len(bought') = Len(bought) + 1
    BY <1>0, <2>1, <2>3
  <2>5. Bought' = Bought \cup {op.e}
    <3>1. DOMAIN bought' = 1..(Len(bought) + 1) /\ DOMAIN bought = 1..Len(bought)
      BY <1>0, <2>4
    <3>2. \A i \in 1..(Len(bought) + 1) : bought'[i] = IF i <= Len(bought) THEN bought[i] ELSE op.e
      BY <1>0, <2>1, <2>3
    <3> QED
      BY <1>0, <3>1, <3>2 DEF Bought
  <2>6. key \in Keys /\ lastKey' \in Keys \cup {NoKey} /\ lastKey' <= Len(bought')
    <3>1. lastKey + 1 <= MaxBought + MaxOps
      BY <1>0, <2>1, <2>2
    <3>2. lastKey + 1 \in Keys
      BY <1>0, <3>1 DEF Keys
    <3>3. lastKey' = IF op.key = NoKey THEN key ELSE lastKey
      BY <1>10 DEF PurchaseGranted
    <3> QED
      BY <1>0, <2>3, <2>4, <3>2, <3>3 DEF RecordKey, TypeOK
  <2>7. Index(op) \subseteq Bought /\ Index(op) \subseteq Episodes
    BY <1>0, <2>2, <2>3 DEF Index
  <2>8. rec \in RecordWrite /\ rec.eps \subseteq Bought'
    BY <2>3, <2>5, <2>6, <2>7 DEF RecordWrite
  <2>9. /\ queue' = Append(queue, rec) /\ queue \in Seq(RecordWrite)
    BY <1>0, <1>10 DEF PurchaseGranted, TypeOK
  <2>10. /\ queue' \in Seq(RecordWrite)
         /\ \A i \in DOMAIN queue' : queue'[i].eps \subseteq Bought'
    <3>1. \A i \in DOMAIN queue : queue[i].eps \subseteq Bought'
      BY <1>0, <2>5 DEF RecordsArePaid
    <3>2. DOMAIN queue' = 1..(Len(queue) + 1) /\ DOMAIN queue = 1..Len(queue) /\ Len(queue) \in Nat
      BY <2>8, <2>9
    <3>3. \A i \in 1..(Len(queue) + 1) : queue'[i] = IF i <= Len(queue) THEN queue[i] ELSE rec
      BY <2>8, <2>9
    <3> QED
      BY <2>8, <2>9, <3>1, <3>2, <3>3
  <2>11. book \in Book /\ book.eps \subseteq Bought'
    <3>1. Shown \in Book /\ Shown.eps \subseteq Bought
      BY <1>0, ShownPaid
    <3> QED
      BY <2>3, <2>5, <2>6, <3>1 DEF Book
  <2>12. /\ listed' \in Book /\ listed'.eps \subseteq Bought'
         /\ detail' \in [on : {"closed", "listed", "copy"}, book : Book]
         /\ detail'.book.eps \subseteq Bought'
    <3>1. listed.eps \subseteq Bought' /\ detail.book.eps \subseteq Bought'
      BY <1>0, <2>5 DEF RecordsArePaid
    <3>2. CASE op.owned
      <4>1. Show(book)
        BY <1>10, <3>2 DEF PurchaseGranted
      <4> QED
        BY <1>0, <2>11, <3>1, <4>1, ShowPaid
    <3>3. CASE ~op.owned
      <4>1. listed' = listed /\ detail' = detail
        BY <1>10, <3>3 DEF PurchaseGranted
      <4> QED
        BY <1>0, <3>1, <4>1 DEF TypeOK
    <3> QED
      BY <3>2, <3>3
  <2>13. /\ success' \in BOOLEAN /\ trapped' \in BOOLEAN
         /\ UNCHANGED <<records, cache, fetch, dictIndex, hidden, confirm, mishaps>>
    BY <1>0, <1>10 DEF PurchaseGranted, TypeOK
  <2>14. TypeOK'
    BY <1>0, <2>2, <2>4, <2>6, <2>10, <2>12, <2>13 DEF TypeOK
  <2>15. RecordsArePaid'
    BY <1>0, <2>5, <2>10, <2>12, <2>13 DEF RecordsArePaid
  <2>16. \A i \in DOMAIN ops' : ops'[i].idx \subseteq Bought'
    BY <1>0, <2>2, <2>5
  <2>17. Len(bought') + Len(ops') <= MaxBought + MaxOps
    BY <1>0, <2>2, <2>4
  <2>18. dictIndex' \subseteq Bought'
    BY <1>0, <2>5, <2>13
  <2> QED
    BY <2>6, <2>14, <2>15, <2>16, <2>17, <2>18 DEF Paid
<1>11. CASE PurchaseRefused
  <2> DEFINE op == Head(ops)
             book == [Shown EXCEPT !.flagged = @ \ {op.e}]
  <2>1. ops # <<>> /\ ops' = Tail(ops)
    BY <1>11 DEF PurchaseRefused
  <2>2. /\ op \in Op
        /\ ops' \in Seq(Op) /\ Len(ops') = Len(ops) - 1
        /\ \A i \in DOMAIN ops' : i + 1 \in DOMAIN ops /\ ops'[i] = ops[i + 1]
    BY <1>0, <2>1
  <2>3. book \in Book /\ book.eps \subseteq Bought
    <3>1. Shown \in Book /\ Shown.eps \subseteq Bought
      BY <1>0, ShownPaid
    <3> QED
      BY <3>1 DEF Book
  <2>4. /\ trapped' \in BOOLEAN
        /\ UNCHANGED <<records, queue, lastKey, cache, fetch, dictIndex, hidden, confirm, success, bought, mishaps>>
    BY <1>0, <1>11 DEF PurchaseRefused, TypeOK
  <2>5. Bought' = Bought
    BY <2>4 DEF Bought
  <2>6. /\ listed' \in Book /\ listed'.eps \subseteq Bought
        /\ detail' \in [on : {"closed", "listed", "copy"}, book : Book]
        /\ detail'.book.eps \subseteq Bought
    <3>1. listed.eps \subseteq Bought /\ detail.book.eps \subseteq Bought
      BY <1>0 DEF RecordsArePaid
    <3>2. CASE op.owned
      <4>1. Show(book)
        BY <1>11, <3>2 DEF PurchaseRefused
      <4> QED
        BY <1>0, <2>3, <3>1, <4>1, ShowPaid
    <3>3. CASE ~op.owned
      <4>1. listed' = listed /\ detail' = detail
        BY <1>11, <3>3 DEF PurchaseRefused
      <4> QED
        BY <1>0, <3>1, <4>1 DEF TypeOK
    <3> QED
      BY <3>2, <3>3
  <2>7. TypeOK'
    BY <1>0, <2>2, <2>4, <2>6 DEF TypeOK
  <2>8. RecordsArePaid'
    BY <1>0, <2>4, <2>5, <2>6 DEF RecordsArePaid
  <2> QED
    BY <1>0, <2>2, <2>4, <2>5, <2>7, <2>8 DEF Paid
<1>12. CASE ReadAfterSuccess
  <2>1. /\ success' \in BOOLEAN
        /\ UNCHANGED <<records, queue, lastKey, cache, fetch, dictIndex, confirm, ops, trapped, bought, mishaps>>
    BY <1>12 DEF ReadAfterSuccess
  <2>2. Bought' = Bought
    BY <2>1 DEF Bought
  <2>3. /\ listed' \in Book /\ listed'.eps \subseteq Bought
        /\ detail' \in [on : {"closed", "listed", "copy"}, book : Book]
        /\ detail'.book.eps \subseteq Bought
        /\ hidden' \subseteq Episodes
    <3>1. listed.eps \subseteq Bought /\ detail.book.eps \subseteq Bought
      BY <1>0 DEF RecordsArePaid
    <3>2. CASE confirm = NoEpisode
      <4>1. Show(Drawn(Shown)) /\ hidden' = Shown.eps
        BY <1>12, <3>2 DEF ReadAfterSuccess
      <4>2. /\ Drawn(Shown) \in Book /\ Drawn(Shown).eps \subseteq Bought
            /\ Shown.eps \subseteq Episodes
        BY <1>0, ShownPaid, DrawnPaid DEF Book
      <4> QED
        BY <1>0, <3>1, <4>1, <4>2, ShowPaid
    <3>3. CASE confirm # NoEpisode
      <4>1. listed' = listed /\ detail' = detail /\ hidden' = hidden
        BY <1>12, <3>3 DEF ReadAfterSuccess
      <4> QED
        BY <1>0, <3>1, <4>1 DEF TypeOK
    <3> QED
      BY <3>2, <3>3
  <2>4. TypeOK'
    BY <1>0, <2>1, <2>3 DEF TypeOK
  <2>5. RecordsArePaid'
    BY <1>0, <2>1, <2>2, <2>3 DEF RecordsArePaid
  <2> QED
    BY <1>0, <2>1, <2>2, <2>4, <2>5 DEF Paid
<1>13. ASSUME queue # <<>>, queue' = Tail(queue)
       PROVE  /\ Head(queue).key \in Keys /\ Head(queue).eps \subseteq Episodes
              /\ Head(queue).eps \subseteq Bought
              /\ queue' \in Seq(RecordWrite)
              /\ \A i \in DOMAIN queue' : queue'[i].eps \subseteq Bought
  <2>1. queue \in Seq(RecordWrite) /\ \A i \in DOMAIN queue : queue[i].eps \subseteq Bought
    BY <1>0 DEF TypeOK, RecordsArePaid
  <2>2. /\ Head(queue) \in RecordWrite /\ Head(queue).eps \subseteq Bought
        /\ queue' \in Seq(RecordWrite)
        /\ \A i \in DOMAIN queue' : i + 1 \in DOMAIN queue /\ queue'[i] = queue[i + 1]
    BY <1>13, <2>1
  <2> QED
    BY <2>1, <2>2 DEF RecordWrite
<1>14. CASE Deliver
  <2>1. /\ queue # <<>> /\ queue' = Tail(queue)
        /\ records' = [records EXCEPT ![Head(queue).key] = Head(queue).eps]
        /\ UNCHANGED <<lastKey, cache, fetch, listed, dictIndex, screen, ops, trapped, bought, mishaps>>
    BY <1>14 DEF Deliver
  <2>2. Bought' = Bought
    BY <2>1 DEF Bought
  <2>3. records' \in [Keys -> SUBSET Episodes] /\ \A k \in Keys : records'[k] \subseteq Bought
    BY <1>0, <1>13, <2>1 DEF TypeOK, RecordsArePaid
  <2>4. TypeOK'
    BY <1>0, <1>13, <2>1, <2>3 DEF TypeOK
  <2>5. RecordsArePaid'
    BY <1>0, <1>13, <2>1, <2>2, <2>3 DEF RecordsArePaid
  <2> QED
    BY <1>0, <2>1, <2>2, <2>4, <2>5 DEF Paid
<1>15. CASE Reject
  <2>1. /\ queue # <<>> /\ queue' = Tail(queue)
        /\ mishaps' = mishaps \cup {"lost"}
        /\ UNCHANGED <<records, lastKey, cache, fetch, listed, dictIndex, screen, ops, trapped, bought>>
    BY <1>15 DEF Reject
  <2>2. Bought' = Bought
    BY <2>1 DEF Bought
  <2>3. TypeOK'
    BY <1>0, <1>13, <2>1 DEF TypeOK
  <2>4. RecordsArePaid'
    BY <1>0, <1>13, <2>1, <2>2 DEF RecordsArePaid
  <2> QED
    BY <1>0, <2>1, <2>2, <2>3, <2>4 DEF Paid
<1>16. CASE Relaunch
  <2>1. TypeOK'
    <3>1. UNCHANGED <<records, lastKey, bought>> /\ mishaps' \subseteq {"overlap", "stale", "lost"}
      BY <1>0, <1>16 DEF Relaunch, TypeOK
    <3>2. /\ queue' = <<>> /\ ops' = <<>> /\ cache' = {} /\ listed' = FreshBook
          /\ fetch' = [phase |-> "none", snap |-> {}] /\ dictIndex' = {} /\ hidden' = {}
          /\ detail' = [on |-> "closed", book |-> FreshBook]
          /\ confirm' = NoEpisode /\ success' = FALSE /\ trapped' = FALSE
      BY <1>16 DEF Relaunch, Forget
    <3>3. queue' \in Seq(RecordWrite) /\ ops' \in Seq(Op)
      BY <3>2
    <3> QED
      BY <1>0, <3>1, <3>2, <3>3 DEF TypeOK
  <2>2. RecordsArePaid'
    BY <1>0, <1>16 DEF Relaunch, Forget, RecordsArePaid, Bought
  <2>3. ops' = <<>> /\ dictIndex' = {} /\ UNCHANGED <<lastKey, bought>>
    BY <1>16 DEF Relaunch, Forget
  <2> QED
    BY <1>0, <2>1, <2>2, <2>3 DEF Paid
<1>17. CASE UNCHANGED vars
  BY <1>0, <1>17 DEF vars, Paid, TypeOK, RecordsArePaid, Bought
<1> QED
  BY <1>1, <1>2, <1>3, <1>4, <1>5, <1>6, <1>7, <1>8, <1>9, <1>10, <1>11, <1>12,
     <1>14, <1>15, <1>16, <1>17 DEF Next

-----------------------------------------------------------------------------
(* The theorems *)

LEMMA PaidInvariant == Spec => []Paid
BY PaidInit, PaidStep, PTL DEF Spec

\* Type correctness: in particular a childByAutoId key is made only for a granted
\* purchase, so the bound on keys is never reached.
THEOREM PurchasesTypeOK == Spec => []TypeOK
<1>1. Paid => TypeOK
  BY DEF Paid
<1> QED
  BY <1>1, PaidInvariant, PTL

\* Nothing unpaid is ever recorded: purchaseBook (TSFirebaseAPI.swift:200) writes a
\* record only when the coins were taken, and no stale list of episodes, overlapping
\* purchase, refused write or relaunch brings an unpaid episode into a record, a
\* record on its way or a copy of one.
THEOREM PurchasesRecordsArePaid == Spec => []RecordsArePaid
<1>1. Paid => RecordsArePaid
  BY DEF Paid
<1> QED
  BY <1>1, PaidInvariant, PTL

-----------------------------------------------------------------------------
(* What steps have in common *)

LEMMA MishapsGrow ==
    ASSUME [Next]_vars PROVE mishaps \subseteq mishaps'
BY DEF Next, vars, FetchStart, FetchAnswer, FetchApply, RefreshCatalogue, OpenDetail, CloseDetail, TapPurchase,
       NotNow, ConfirmPurchase, PurchaseGranted, PurchaseRefused, ReadAfterSuccess, Deliver, Reject, Relaunch

LEMMA BoughtAppended ==
    ASSUME TypeOK, NEW e \in Episodes, bought' = Append(bought, e)
    PROVE  Bought' = Bought \cup {e} /\ Len(bought') = Len(bought) + 1
<1>0. bought \in Seq(Episodes) /\ Len(bought) \in Nat
  BY DEF TypeOK
<1>1. DOMAIN bought' = 1..(Len(bought) + 1) /\ DOMAIN bought = 1..Len(bought) /\ Len(bought') = Len(bought) + 1
  BY <1>0
<1>2. \A i \in 1..(Len(bought) + 1) : bought'[i] = IF i <= Len(bought) THEN bought[i] ELSE e
  BY <1>0
<1> QED
  BY <1>0, <1>1, <1>2 DEF Bought

\* The screen shows the book it is given; no other list changes.
LEMMA ShowShows ==
    ASSUME TypeOK, NEW b, Show(b)
    PROVE  /\ Shown' = b /\ detail'.on = detail.on
           /\ detail.on # "listed" => listed' = listed
<1>1. CASE detail.on = "listed"
  BY <1>1 DEF Show, Shown
<1>2. CASE detail.on # "listed"
  BY <1>2 DEF Show, Shown, TypeOK
<1> QED
  BY <1>1, <1>2

\* A redrawn book flags what it lists, or what it flagged if it lists nothing.
LEMMA DrawnFlags ==
    ASSUME NEW b \in Book
    PROVE  Drawn(b).flagged = IF b.eps = {} THEN b.flagged ELSE b.eps
BY DEF Drawn, Book

\* The callback's purchase and the ones behind it.
LEMMA OpsTail ==
    ASSUME TypeOK, ops # <<>>, ops' = Tail(ops)
    PROVE  /\ Head(ops) \in Op /\ 1 \in DOMAIN ops /\ Head(ops) = ops[1]
           /\ Len(ops') = Len(ops) - 1 /\ Len(ops) \in Nat
           /\ Len(ops) <= 1 => ops' = <<>>
<1>0. ops \in Seq(Op)
  BY DEF TypeOK
<1>1. ops' \in Seq(Op) /\ Len(ops') = Len(ops) - 1 /\ Len(ops) \in Nat /\ Len(ops) # 0
  BY <1>0, EmptySeq
<1>2. Len(ops) <= 1 => ops' = <<>>
  BY <1>1, EmptySeq
<1> QED
  BY <1>0, <1>1, <1>2

\* The record a granted purchase writes is well formed: there is a key left for it.
LEMMA GrantedWrite ==
    ASSUME Paid, PurchaseGranted
    PROVE  [key |-> RecordKey(Head(ops)), eps |-> Index(Head(ops)) \cup {Head(ops).e}] \in RecordWrite
<1> DEFINE op == Head(ops)
<1>0. TypeOK /\ ops # <<>> /\ ops' = Tail(ops)
  BY DEF Paid, PurchaseGranted
<1>1. op \in Op /\ Len(ops) \in Nat /\ Len(ops) # 0
  BY <1>0, OpsTail, EmptySeq DEF TypeOK
<1>2. lastKey \in Nat /\ Len(bought) \in Nat /\ lastKey + 1 <= MaxBought + MaxOps
  BY <1>0, <1>1 DEF Paid, TypeOK, Keys, NoKey
<1>3. RecordKey(op) \in Keys
  BY <1>1, <1>2 DEF RecordKey, Keys, NoKey, Op
<1>4. Index(op) \cup {op.e} \subseteq Episodes
  BY <1>0, <1>1 DEF Index, Op, TypeOK
<1> QED
  BY <1>3, <1>4 DEF RecordWrite

-----------------------------------------------------------------------------
(* Where episodes come from *)

\* Every copy of a record, wherever it is kept, lists episodes of S only.
Within(S) ==
    /\ \A k \in Keys : records[k] \subseteq S
    /\ \A i \in DOMAIN queue : queue[i].eps \subseteq S
    /\ \A b \in cache \cup fetch.snap \cup {listed, detail.book} : b.eps \subseteq S
    /\ dictIndex \subseteq S
    /\ \A i \in DOMAIN ops : ops[i].idx \subseteq S

LEMMA WithinShown ==
    ASSUME TypeOK, NEW S, Within(S)
    PROVE  Shown \in Book /\ Shown.eps \subseteq S
BY DEF Shown, TypeOK, Within

LEMMA WithinBooks ==
    ASSUME TypeOK, NEW S, Within(S), NEW b \in PurchasedBooks
    PROVE  b.eps \subseteq S
<1>1. PICK k \in Keys : b.eps = Newest(k)
  BY DEF PurchasedBooks
<1>2. CASE LastWrite(k) = {}
  BY <1>1, <1>2 DEF Newest, Within
<1>3. CASE LastWrite(k) # {}
  <2>1. PICK i \in DOMAIN queue : Newest(k) = queue[i].eps
    BY <1>3 DEF Newest, LastWrite
  <2> QED
    BY <1>1, <2>1 DEF Within
<1> QED
  BY <1>2, <1>3

\* No step makes an episode up: a granted purchase brings its own in.
LEMMA WithinKept ==
    ASSUME Paid, NEW S, Within(S), [Next]_vars, PurchaseGranted => Head(ops).e \in S
    PROVE  Within(S)'
<1> USE DEF screen
<1>0. /\ TypeOK
      /\ FreshBook.eps = {}
      /\ ops \in Seq(Op) /\ queue \in Seq(RecordWrite)
      /\ \A i \in DOMAIN ops : ops[i] \in Op /\ ops[i].idx \subseteq S
      /\ listed.eps \subseteq S /\ detail.book.eps \subseteq S
      /\ \A b \in cache \cup fetch.snap : b.eps \subseteq S
  <2>1. ops \in Seq(Op)
    BY DEF Paid, TypeOK
  <2>2. \A i \in DOMAIN ops : ops[i] \in Op
    BY <2>1
  <2> QED
    BY <2>1, <2>2 DEF Paid, TypeOK, FreshBook, Within
<1>1. CASE FetchStart \/ FetchApply \/ NotNow \/ \E e \in Episodes : TapPurchase(e)
  BY <1>1 DEF FetchStart, FetchApply, NotNow, TapPurchase, Within
<1>2. CASE FetchAnswer
  BY <1>0, <1>2, WithinBooks DEF FetchAnswer, Within
<1>3. CASE RefreshCatalogue
  <2>1. \A i \in DOMAIN ops' : ops'[i].idx \subseteq S
    BY <1>0, <1>3 DEF RefreshCatalogue, Within, Op
  <2>2. listed'.eps = {} /\ detail'.book \in {listed, detail.book}
    BY <1>0, <1>3 DEF RefreshCatalogue
  <2> QED
    BY <1>3, <2>1, <2>2 DEF RefreshCatalogue, Within
<1>4. CASE OpenDetail
  <2>1. CASE cache = {} /\ detail' = [on |-> "listed", book |-> FreshBook] /\ listed' = Drawn(listed)
    <3>1. Drawn(listed).eps = listed.eps
      BY <1>0, DrawnPaid DEF TypeOK
    <3> QED
      BY <1>0, <1>4, <2>1, <3>1 DEF OpenDetail, Within
  <2>2. ASSUME NEW b \in cache, detail' = [on |-> "copy", book |-> Drawn([b EXCEPT !.flagged = {}])],
               listed' = listed
        PROVE  Within(S)'
    <3>1. [b EXCEPT !.flagged = {}] \in Book /\ [b EXCEPT !.flagged = {}].eps = b.eps
      BY <1>0 DEF TypeOK, Book
    <3>2. Drawn([b EXCEPT !.flagged = {}]).eps = b.eps
      BY <3>1, DrawnPaid
    <3> QED
      BY <1>0, <1>4, <2>2, <3>2 DEF OpenDetail, Within
  <2> QED
    BY <1>4, <2>1, <2>2 DEF OpenDetail
<1>5. CASE CloseDetail
  <2>1. \A i \in DOMAIN ops' : ops'[i].idx \subseteq S
    BY <1>0, <1>5 DEF CloseDetail, Op
  <2> QED
    BY <1>0, <1>5, <2>1 DEF CloseDetail, Within
<1>6. CASE ConfirmPurchase
  <2> DEFINE op == [e |-> confirm, key |-> Shown.key, live |-> TRUE, idx |-> {}, owned |-> TRUE]
  <2>1. Shown \in Book /\ Shown.eps \subseteq S
    BY <1>0, WithinShown
  <2>2. op \in Op
    BY <1>0, <1>6, <2>1 DEF Op, Book, ConfirmPurchase, TypeOK
  <2>3. ops' = Append(ops, op) /\ dictIndex' = Shown.eps
    BY <1>6 DEF ConfirmPurchase, IndexToRemember
  <2>4. \A i \in DOMAIN ops' : ops'[i] = op \/ (i \in DOMAIN ops /\ ops'[i] = ops[i])
    BY <1>0, <2>2, <2>3, OpsAppended
  <2>5. \A i \in DOMAIN ops' : ops'[i].idx \subseteq S
    BY <1>0, <2>4
  <2> QED
    BY <1>6, <2>1, <2>3, <2>5 DEF ConfirmPurchase, Within
<1>7. ASSUME NEW b \in Book, Show(b), b.eps \subseteq S
      PROVE  listed'.eps \subseteq S /\ detail'.book.eps \subseteq S
  BY <1>0, <1>7, ShowPaid
<1>8. ASSUME ops # <<>>, ops' = Tail(ops)
      PROVE  /\ Head(ops) \in Op /\ Head(ops).idx \subseteq S
             /\ \A i \in DOMAIN ops' : ops'[i].idx \subseteq S
  <2>1. /\ Head(ops) = ops[1] /\ 1 \in DOMAIN ops
        /\ \A i \in DOMAIN ops' : i + 1 \in DOMAIN ops /\ ops'[i] = ops[i + 1]
    BY <1>0, <1>8
  <2> QED
    BY <1>0, <2>1
<1>9. CASE PurchaseGranted
  <2>1. PICK rec : rec = [key |-> RecordKey(Head(ops)), eps |-> Index(Head(ops)) \cup {Head(ops).e}]
    OBVIOUS
  <2>2. /\ ops # <<>> /\ ops' = Tail(ops) /\ queue' = Append(queue, rec)
        /\ UNCHANGED <<records, cache, fetch, dictIndex>>
    BY <1>9, <2>1 DEF PurchaseGranted
  <2>3. rec \in RecordWrite
    BY <1>9, <2>1, GrantedWrite
  <2>4. rec.eps \subseteq S
    BY <1>8, <1>9, <2>1, <2>2 DEF Index, Within
  <2>5. \A i \in DOMAIN queue' : queue'[i] = rec \/ (i \in DOMAIN queue /\ queue'[i] = queue[i])
    BY <1>0, <2>2, <2>3
  <2>6. listed'.eps \subseteq S /\ detail'.book.eps \subseteq S
    <3> DEFINE book == [eps |-> Shown.eps \cup {Head(ops).e}, key |-> RecordKey(Head(ops)),
                        flagged |-> Shown.flagged \cup {First}]
    <3>1. Shown \in Book /\ Shown.eps \subseteq S
      BY <1>0, WithinShown
    <3>2. book \in Book /\ book.eps \subseteq S
      BY <1>8, <1>9, <2>1, <2>2, <2>3, <3>1 DEF Book, RecordWrite, Op
    <3>3. Show(book) \/ (listed' = listed /\ detail' = detail)
      BY <1>9 DEF PurchaseGranted
    <3> QED
      BY <1>0, <1>7, <3>2, <3>3
  <2> QED
    BY <1>8, <2>2, <2>4, <2>5, <2>6 DEF Within
<1>10. CASE PurchaseRefused
  <2>1. /\ ops # <<>> /\ ops' = Tail(ops)
        /\ UNCHANGED <<records, queue, cache, fetch, dictIndex>>
    BY <1>10 DEF PurchaseRefused
  <2>2. listed'.eps \subseteq S /\ detail'.book.eps \subseteq S
    <3> DEFINE book == [Shown EXCEPT !.flagged = @ \ {Head(ops).e}]
    <3>1. Shown \in Book /\ Shown.eps \subseteq S
      BY <1>0, WithinShown
    <3>2. book \in Book /\ book.eps \subseteq S
      BY <3>1 DEF Book
    <3>3. Show(book) \/ (listed' = listed /\ detail' = detail)
      BY <1>10 DEF PurchaseRefused
    <3> QED
      BY <1>0, <1>7, <3>2, <3>3
  <2> QED
    BY <1>8, <2>1, <2>2 DEF Within
<1>11. CASE ReadAfterSuccess
  <2>1. Drawn(Shown) \in Book /\ Drawn(Shown).eps \subseteq S
    BY <1>0, WithinShown, DrawnPaid
  <2>2. Show(Drawn(Shown)) \/ (listed' = listed /\ detail' = detail)
    BY <1>11 DEF ReadAfterSuccess
  <2>3. listed'.eps \subseteq S /\ detail'.book.eps \subseteq S
    BY <1>0, <1>7, <2>1, <2>2
  <2> QED
    BY <1>11, <2>3 DEF ReadAfterSuccess, Within
<1>12. ASSUME queue # <<>>, queue' = Tail(queue)
       PROVE  /\ Head(queue) \in RecordWrite /\ Head(queue).eps \subseteq S
              /\ \A i \in DOMAIN queue' : queue'[i].eps \subseteq S
  <2>1. /\ Head(queue) = queue[1] /\ 1 \in DOMAIN queue
        /\ \A i \in DOMAIN queue' : i + 1 \in DOMAIN queue /\ queue'[i] = queue[i + 1]
    BY <1>0, <1>12
  <2> QED
    BY <1>0, <2>1 DEF Within
<1>13. CASE Deliver
  <2>1. \A k \in Keys : records'[k] \subseteq S
    BY <1>0, <1>12, <1>13 DEF Deliver, TypeOK, Within
  <2> QED
    BY <1>12, <1>13, <2>1 DEF Deliver, Within
<1>14. CASE Reject
  BY <1>12, <1>14 DEF Reject, Within
<1>15. CASE Relaunch
  BY <1>0, <1>15 DEF Relaunch, Forget, Within
<1>16. CASE UNCHANGED vars
  BY <1>16 DEF vars, Within
<1> QED
  BY <1>1, <1>2, <1>3, <1>4, <1>5, <1>6, <1>9, <1>10, <1>11, <1>13, <1>14, <1>15, <1>16 DEF Next

\* A relaunched app knows what the server lists.
LEMMA WithinRelaunch ==
    ASSUME Relaunch, NEW S, \A k \in Keys : records[k] \subseteq S
    PROVE  Within(S)'
<1>1. /\ records' = records /\ queue' = <<>> /\ ops' = <<>> /\ cache' = {} /\ dictIndex' = {}
      /\ fetch'.snap = {} /\ listed' = FreshBook /\ detail'.book = FreshBook
  BY DEF Relaunch, Forget
<1>2. FreshBook.eps = {} /\ DOMAIN queue' = {} /\ DOMAIN ops' = {}
  BY <1>1 DEF FreshBook
<1> QED
  BY <1>1, <1>2 DEF Within

-----------------------------------------------------------------------------
(* One purchase at a time: what the alerts, the purchases in flight and the  *)
(* flags of the screen are to one another                                    *)

Open == detail.on # "closed"

Alone ==
    /\ Len(ops) <= 1
    /\ ops # <<>> => confirm = NoEpisode /\ ~success /\ ~trapped
    /\ confirm # NoEpisode => ~success /\ Open
    /\ success => Open /\ Shown.eps # {}
    /\ \A i \in DOMAIN ops : ops[i].owned => Open
    /\ detail.on # "listed" => listed.flagged \subseteq Bought
    /\ ~success => Shown.flagged \subseteq Bought

LEMMA AloneInit == Init => Alone
<1> SUFFICES ASSUME Init PROVE Alone
  OBVIOUS
<1>1. ops = <<>> /\ Len(ops) = 0 /\ DOMAIN ops = {}
  BY EmptySeq DEF Init
<1> QED
  BY <1>1 DEF Init, Alone, Shown, FreshBook, Open

LEMMA AloneStep ==
    ASSUME Paid, Alone, [Next]_vars, "overlap" \notin mishaps'
    PROVE  Alone'
<1>0. /\ TypeOK /\ RecordsArePaid
      /\ ops \in Seq(Op) /\ Len(ops) \in Nat
      /\ listed \in Book /\ detail \in [on : {"closed", "listed", "copy"}, book : Book]
      /\ Shown \in Book /\ Shown.eps \subseteq Bought /\ listed.eps \subseteq Bought
  BY ShownPaid DEF Paid, TypeOK, RecordsArePaid
<1>a. ASSUME UNCHANGED <<ops, confirm, success, trapped, detail, listed, bought>>
      PROVE  Alone'
  BY <1>a DEF Alone, Shown, Open, Bought
<1>1. CASE FetchStart \/ FetchAnswer \/ FetchApply \/ Deliver \/ Reject
  BY <1>1, <1>a DEF FetchStart, FetchAnswer, FetchApply, Deliver, Reject, screen
<1>2. CASE RefreshCatalogue
  <2>1. Len(ops') = Len(ops) /\ DOMAIN ops' = DOMAIN ops /\ (ops # <<>> <=> ops' # <<>>)
        /\ \A i \in DOMAIN ops : ops'[i].owned = ops[i].owned
    <3>0. dictIndex \subseteq Episodes /\ \A i \in DOMAIN ops : ops[i] \in Op
      BY <1>0 DEF TypeOK
    <3>1. \A i \in DOMAIN ops : ops'[i] \in Op /\ ops'[i].owned = ops[i].owned
      BY <1>2, <3>0 DEF RefreshCatalogue, Op
    <3>2. ops' = [i \in DOMAIN ops |-> ops'[i]]
      BY <1>2 DEF RefreshCatalogue
    <3>3. ops' \in Seq(Op) /\ Len(ops') = Len(ops) /\ DOMAIN ops' = DOMAIN ops
      BY <1>0, <3>1, <3>2, OpsMapped
    <3> QED
      BY <1>0, <3>1, <3>3, EmptySeq
  <2>2. /\ detail'.on # "listed" /\ (Open' <=> Open) /\ Shown' = Shown
        /\ listed'.flagged = {}
    BY <1>0, <1>2 DEF RefreshCatalogue, Shown, Open, FreshBook
  <2>3. UNCHANGED <<confirm, success, trapped, bought>>
    BY <1>2 DEF RefreshCatalogue
  <2> QED
    BY <2>1, <2>2, <2>3 DEF Alone, Bought
<1>3. CASE OpenDetail
  <2>1. UNCHANGED <<confirm, success, trapped, bought, ops>> /\ ~Open
    BY <1>3 DEF OpenDetail, Open
  <2>2. confirm = NoEpisode /\ ~success /\ Shown = detail.book
    BY <2>1 DEF Alone, Open, Shown
  <2>3. CASE detail' = [on |-> "listed", book |-> FreshBook] /\ listed' = Drawn(listed)
    <3>1. Shown' = Drawn(listed) /\ Open' /\ detail'.on = "listed"
      BY <2>3 DEF Shown, Open
    <3>2. listed.flagged \subseteq Bought
      BY <2>1 DEF Alone, Open
    <3>3. Shown'.flagged \subseteq Bought
      BY <1>0, <3>1, <3>2, DrawnFlags
    <3> QED
      BY <2>1, <2>2, <3>1, <3>3 DEF Alone, Bought
  <2>4. ASSUME NEW b \in cache, detail' = [on |-> "copy", book |-> Drawn([b EXCEPT !.flagged = {}])],
               listed' = listed
        PROVE  Alone'
    <3> DEFINE c == [b EXCEPT !.flagged = {}]
    <3>1. c \in Book /\ c.eps = b.eps /\ c.flagged = {} /\ b.eps \subseteq Bought
      BY <1>0 DEF TypeOK, RecordsArePaid, Book
    <3>2. Shown' = Drawn(c) /\ Open' /\ detail'.on = "copy"
      BY <2>4 DEF Shown, Open
    <3> HIDE DEF c
    <3>3. Shown'.flagged \subseteq Bought
      BY <3>1, <3>2, DrawnFlags
    <3>4. listed'.flagged \subseteq Bought
      BY <2>1, <2>4 DEF Alone, Open
    <3> QED
      BY <2>1, <2>2, <3>2, <3>3, <3>4 DEF Alone, Bought
  <2> QED
    BY <1>3, <2>3, <2>4 DEF OpenDetail
<1>4. CASE CloseDetail
  <2>1. Len(ops') = Len(ops) /\ DOMAIN ops' = DOMAIN ops /\ (ops # <<>> <=> ops' # <<>>)
        /\ \A i \in DOMAIN ops : ~ops'[i].owned
    <3>0. \A i \in DOMAIN ops : ops[i] \in Op
      BY <1>0
    <3>1. \A i \in DOMAIN ops : ops'[i] \in Op /\ ~ops'[i].owned
      BY <1>4, <3>0 DEF CloseDetail, Op
    <3>2. ops' = [i \in DOMAIN ops |-> ops'[i]]
      BY <1>4 DEF CloseDetail
    <3>3. ops' \in Seq(Op) /\ Len(ops') = Len(ops) /\ DOMAIN ops' = DOMAIN ops
      BY <1>0, <3>1, <3>2, OpsMapped
    <3> QED
      BY <1>0, <3>1, <3>3, EmptySeq
  <2>2. /\ UNCHANGED <<listed, confirm, success, trapped, bought>>
        /\ confirm = NoEpisode /\ ~success /\ Open
        /\ detail' = [on |-> "closed", book |-> FreshBook]
    BY <1>4 DEF CloseDetail, Open
  <2>3. Shown'.flagged = {} /\ detail'.on = "closed"
    BY <2>2 DEF Shown, FreshBook
  <2>4. listed.flagged \subseteq Bought
    BY <2>2 DEF Alone, Shown
  <2> QED
    BY <2>1, <2>2, <2>3, <2>4 DEF Alone, Bought
<1>5. ASSUME NEW e \in Episodes, TapPurchase(e) PROVE Alone'
  <2>1. ops = <<>>
    BY <1>5 DEF TapPurchase
  <2> QED
    BY <1>5, <2>1 DEF TapPurchase, Alone, Open, Shown, Bought
<1>6. CASE NotNow
  BY <1>6 DEF NotNow, Alone, Open, Shown, Bought
<1>7. CASE ConfirmPurchase
  <2> DEFINE op == [e |-> confirm, key |-> Shown.key, live |-> TRUE, idx |-> {}, owned |-> TRUE]
  <2>1. ops = <<>> /\ Open /\ ~success /\ ~trapped /\ ops' = Append(ops, op)
    BY <1>7 DEF ConfirmPurchase, Alone
  <2>2. Len(ops') = 1
    BY <2>1, EmptySeq
  <2>3. UNCHANGED <<listed, detail, success, trapped, bought>> /\ confirm' = NoEpisode
    BY <1>7 DEF ConfirmPurchase
  <2> QED
    BY <2>1, <2>2, <2>3 DEF Alone, Open, Shown, Bought
<1>8. CASE PurchaseGranted
  <2> DEFINE op == Head(ops)
             book == [eps |-> Shown.eps \cup {op.e}, key |-> RecordKey(op),
                      flagged |-> Shown.flagged \cup {First}]
  <2>1. ops # <<>> /\ ops' = Tail(ops) /\ bought' = Append(bought, op.e)
    BY <1>8 DEF PurchaseGranted
  <2>2. op \in Op /\ op = ops[1] /\ 1 \in DOMAIN ops /\ ops' = <<>> /\ Len(ops') = 0 /\ DOMAIN ops' = {}
    BY <1>0, <2>1, OpsTail, EmptySeq DEF Alone
  <2>3. Bought \subseteq Bought'
    BY <1>0, <2>1, <2>2, BoughtAppended DEF Op
  <2>4. confirm' = NoEpisode /\ ~success
    BY <1>8, <2>1 DEF PurchaseGranted, Alone
  <2>5. CASE op.owned
    <3>1. Show(book) /\ success' = TRUE
      BY <1>8, <2>5 DEF PurchaseGranted
    <3>2. Shown' = book /\ detail'.on = detail.on /\ (detail.on # "listed" => listed' = listed)
      BY <1>0, <3>1, ShowShows
    <3>3. Shown'.eps # {}
      BY <3>2
    <3>4. Open' /\ (detail'.on # "listed" => listed'.flagged \subseteq Bought')
      BY <2>2, <2>3, <2>5, <3>2 DEF Alone, Open
    <3> QED
      BY <2>2, <2>4, <3>1, <3>3, <3>4 DEF Alone
  <2>6. CASE ~op.owned
    <3>1. UNCHANGED <<listed, detail, success>>
      BY <1>8, <2>6 DEF PurchaseGranted
    <3> QED
      BY <2>2, <2>3, <2>4, <3>1 DEF Alone, Shown
  <2> QED
    BY <2>5, <2>6
<1>9. CASE PurchaseRefused
  <2> DEFINE op == Head(ops)
             book == [Shown EXCEPT !.flagged = @ \ {op.e}]
  <2>1. ops # <<>> /\ ops' = Tail(ops) /\ UNCHANGED <<confirm, success, bought>>
    BY <1>9 DEF PurchaseRefused
  <2>2. ops' = <<>> /\ Len(ops') = 0 /\ DOMAIN ops' = {} /\ confirm = NoEpisode /\ ~success
    BY <1>0, <2>1, OpsTail, EmptySeq DEF Alone
  <2>3. book.flagged \subseteq Bought /\ Shown.flagged \subseteq Bought
    BY <1>0, <2>2 DEF Alone, Book
  <2>4. CASE op.owned
    <3>1. Show(book)
      BY <1>9, <2>4 DEF PurchaseRefused
    <3>2. Shown' = book /\ detail'.on = detail.on /\ (detail.on # "listed" => listed' = listed)
      BY <1>0, <3>1, ShowShows
    <3> HIDE DEF book
    <3> QED
      BY <2>1, <2>2, <2>3, <3>2 DEF Alone, Open, Bought
  <2>5. CASE ~op.owned
    <3>1. UNCHANGED <<listed, detail>>
      BY <1>9, <2>5 DEF PurchaseRefused
    <3> QED
      BY <2>1, <2>2, <2>3, <3>1 DEF Alone, Shown, Bought
  <2> QED
    BY <2>4, <2>5
<1>10. CASE ReadAfterSuccess
  <2>1. success /\ ops = <<>> /\ confirm = NoEpisode /\ Open /\ Shown.eps # {}
    BY <1>10 DEF ReadAfterSuccess, Alone
  <2>2. Show(Drawn(Shown)) /\ success' = FALSE /\ UNCHANGED <<confirm, ops, trapped, bought>>
    BY <1>10, <2>1 DEF ReadAfterSuccess
  <2>3. Shown' = Drawn(Shown) /\ detail'.on = detail.on /\ (detail.on # "listed" => listed' = listed)
    BY <1>0, <2>2, ShowShows
  <2>4. Shown'.flagged \subseteq Bought
    BY <1>0, <2>1, <2>3, DrawnFlags
  <2> QED
    BY <2>1, <2>2, <2>3, <2>4 DEF Alone, Open, Bought
<1>11. CASE Relaunch
  <2>1. ops' = <<>> /\ Len(ops') = 0 /\ DOMAIN ops' = {}
    BY <1>11, EmptySeq DEF Relaunch, Forget
  <2> QED
    BY <1>11, <2>1 DEF Relaunch, Forget, Alone, Shown, FreshBook, Open
<1>12. CASE UNCHANGED vars
  BY <1>12, <1>a DEF vars, screen
<1> QED
  BY <1>1, <1>2, <1>3, <1>4, <1>5, <1>6, <1>7, <1>8, <1>9, <1>10, <1>11, <1>12 DEF Next

LEMMA AloneInvariant == Spec => []("overlap" \notin mishaps => Alone)
<1>1. Paid /\ ("overlap" \notin mishaps => Alone) /\ [Next]_vars => ("overlap" \notin mishaps => Alone)'
  BY AloneStep, MishapsGrow
<1> QED
  BY <1>1, AloneInit, PaidInvariant, PTL DEF Spec

\* The list opens for reading only what was paid for: the isPurchased flags of the
\* open screen are of bought episodes whenever no success alert is up, however old
\* the list it was opened with, unless purchases overlapped.
THEOREM PurchasesFlaggedArePaid == Spec => []FlaggedArePaid
<1>1. ("overlap" \notin mishaps => Alone) => FlaggedArePaid
  BY DEF Alone, FlaggedArePaid
<1> QED
  BY <1>1, AloneInvariant, PTL


-----------------------------------------------------------------------------
(* The newest version of a record while writes are on their way *)

LastIn(q, k) ==
    {i \in DOMAIN q : q[i].key = k /\ \A j \in DOMAIN q : q[j].key = k => j <= i}

NewestIn(q, rs, k) ==
    IF LastIn(q, k) = {} THEN rs[k] ELSE q[CHOOSE i \in LastIn(q, k) : TRUE].eps

LEMMA NewestIsIn ==
    ASSUME NEW k
    PROVE  /\ Newest(k) = NewestIn(queue, records, k)
           /\ Newest(k)' = NewestIn(queue', records', k)
BY DEF Newest, LastWrite, NewestIn, LastIn

\* There is at most one last write to a record.
LEMMA LastIsOne ==
    ASSUME NEW q \in Seq(RecordWrite), NEW rs, NEW k, NEW i \in LastIn(q, k)
    PROVE  NewestIn(q, rs, k) = q[i].eps /\ LastIn(q, k) = {i}
<1>1. \A j \in LastIn(q, k) : j = i
  BY DEF LastIn
<1> QED
  BY <1>1 DEF NewestIn

LEMMA LastAppended ==
    ASSUME NEW q \in Seq(RecordWrite), NEW w \in RecordWrite, NEW rs, NEW k
    PROVE  NewestIn(Append(q, w), rs, k) = IF k = w.key THEN w.eps ELSE NewestIn(q, rs, k)
<1> DEFINE r == Append(q, w)
<1>0. /\ r \in Seq(RecordWrite) /\ Len(q) \in Nat
      /\ DOMAIN q = 1..Len(q) /\ DOMAIN r = 1..(Len(q) + 1)
      /\ r[Len(q) + 1] = w /\ \A i \in 1..Len(q) : r[i] = q[i]
  OBVIOUS
<1> HIDE DEF r
<1>1. CASE k = w.key
  <2>1. Len(q) + 1 \in LastIn(r, k)
    BY <1>0, <1>1 DEF LastIn
  <2>2. NewestIn(r, rs, k) = r[Len(q) + 1].eps
    BY <1>0, <2>1, LastIsOne
  <2> QED
    BY <1>0, <1>1, <2>2 DEF r
<1>2. CASE k # w.key
  <2>1. LastIn(r, k) = LastIn(q, k)
    BY <1>0, <1>2 DEF LastIn
  <2>2. CASE LastIn(q, k) = {}
    BY <1>2, <2>1, <2>2 DEF NewestIn, r
  <2>3. ASSUME NEW i \in LastIn(q, k) PROVE NewestIn(r, rs, k) = NewestIn(q, rs, k)
    <3>0. i \in 1..Len(q)
      BY <1>0, <2>3 DEF LastIn
    <3>1. NewestIn(q, rs, k) = q[i].eps
      BY <2>3, LastIsOne
    <3>2. NewestIn(r, rs, k) = r[i].eps
      BY <1>0, <2>1, <2>3, LastIsOne
    <3> QED
      BY <1>0, <3>0, <3>1, <3>2
  <2> QED
    BY <1>2, <2>2, <2>3 DEF r
<1> QED
  BY <1>1, <1>2

LEMMA LastTail ==
    ASSUME NEW q \in Seq(RecordWrite), q # <<>>, NEW k, NEW j \in 1..(Len(q) - 1)
    PROVE  /\ Tail(q)[j] = q[j + 1]
           /\ j \in LastIn(Tail(q), k) <=> j + 1 \in LastIn(q, k)
<1>0. /\ Len(q) \in Nat /\ Len(q) # 0
      /\ DOMAIN q = 1..Len(q) /\ DOMAIN Tail(q) = 1..(Len(q) - 1)
      /\ \A i \in 1..(Len(q) - 1) : Tail(q)[i] = q[i + 1]
  BY EmptySeq
<1>1. ASSUME j \in LastIn(Tail(q), k) PROVE j + 1 \in LastIn(q, k)
  <2>1. q[j + 1].key = k
    BY <1>0, <1>1 DEF LastIn
  <2>2. ASSUME NEW m \in 1..Len(q), q[m].key = k PROVE m <= j + 1
    <3>1. CASE m = 1
      BY <3>1
    <3>2. CASE m # 1
      <4>1. m - 1 \in 1..(Len(q) - 1) /\ (m - 1) + 1 = m
        BY <1>0, <2>2, <3>2
      <4>2. Tail(q)[m - 1] = q[m]
        BY <1>0, <4>1
      <4>3. m - 1 <= j
        BY <1>0, <1>1, <2>2, <4>1, <4>2 DEF LastIn
      <4> QED
        BY <4>1, <4>3
    <3> QED
      BY <3>1, <3>2
  <2> QED
    BY <1>0, <2>1, <2>2 DEF LastIn
<1>2. ASSUME j + 1 \in LastIn(q, k) PROVE j \in LastIn(Tail(q), k)
  <2>1. Tail(q)[j].key = k
    BY <1>0, <1>2 DEF LastIn
  <2>2. ASSUME NEW m \in 1..(Len(q) - 1), Tail(q)[m].key = k PROVE m <= j
    <3>1. m + 1 \in 1..Len(q) /\ q[m + 1].key = k
      BY <1>0, <2>2
    <3>2. m + 1 <= j + 1
      BY <1>0, <1>2, <3>1 DEF LastIn
    <3> QED
      BY <3>2
  <2> QED
    BY <1>0, <2>1, <2>2 DEF LastIn
<1> QED
  BY <1>0, <1>1, <1>2

\* Among the writes to a record there is a last one.  (It holds of every finite
\* queue; as an invariant it needs no induction over the queue's length.)
LastWritten == \A i \in DOMAIN queue : LastIn(queue, queue[i].key) # {}

LEMMA WriteAppended ==
    ASSUME TypeOK, LastWritten, NEW w \in RecordWrite, queue' = Append(queue, w), records' = records
    PROVE  /\ LastWritten'
           /\ \A k \in Keys : Newest(k)' = IF k = w.key THEN w.eps ELSE Newest(k)
<1>0. queue \in Seq(RecordWrite)
  BY DEF TypeOK
<1>1. /\ DOMAIN queue = 1..Len(queue) /\ DOMAIN queue' = 1..(Len(queue) + 1) /\ Len(queue) \in Nat
      /\ queue'[Len(queue) + 1] = w /\ \A i \in 1..Len(queue) : queue'[i] = queue[i]
  BY <1>0
<1>2. ASSUME NEW i \in DOMAIN queue' PROVE LastIn(queue', queue'[i].key) # {}
  <2>1. CASE queue'[i].key = w.key
    <3>1. Len(queue) + 1 \in LastIn(queue', queue'[i].key)
      BY <1>1, <2>1 DEF LastIn
    <3> QED
      BY <3>1
  <2>2. CASE queue'[i].key # w.key
    <3>1. i \in DOMAIN queue /\ queue'[i] = queue[i]
      BY <1>1, <2>2
    <3>2. PICK m : m \in LastIn(queue, queue[i].key)
      BY <3>1 DEF LastWritten
    <3>3. m \in LastIn(queue', queue[i].key)
      BY <1>1, <2>2, <3>1, <3>2 DEF LastIn
    <3> QED
      BY <3>1, <3>3
  <2> QED
    BY <2>1, <2>2
<1>3. \A k \in Keys : Newest(k)' = IF k = w.key THEN w.eps ELSE Newest(k)
  BY <1>0, NewestIsIn, LastAppended
<1> QED
  BY <1>2, <1>3 DEF LastWritten

LEMMA LastWrittenTail ==
    ASSUME TypeOK, LastWritten, queue # <<>>, queue' = Tail(queue)
    PROVE  LastWritten'
<1>0. queue \in Seq(RecordWrite)
  BY DEF TypeOK
<1>1. /\ DOMAIN queue = 1..Len(queue) /\ DOMAIN queue' = 1..(Len(queue) - 1) /\ Len(queue) \in Nat
      /\ \A i \in DOMAIN queue' : i + 1 \in DOMAIN queue /\ queue'[i] = queue[i + 1]
  BY <1>0, EmptySeq
<1> SUFFICES ASSUME NEW i \in DOMAIN queue' PROVE LastIn(queue', queue'[i].key) # {}
  BY DEF LastWritten
<1> DEFINE k == queue[i + 1].key
<1>2. PICK m : m \in LastIn(queue, k)
  BY <1>1 DEF LastWritten
<1>3. m \in 1..Len(queue) /\ i + 1 <= m /\ i \in Nat /\ i >= 1
  BY <1>1, <1>2 DEF LastIn
<1>4. m - 1 \in 1..(Len(queue) - 1) /\ (m - 1) + 1 = m
  BY <1>1, <1>3
<1>5. m - 1 \in LastIn(queue', k)
  BY <1>0, <1>2, <1>4, LastTail
<1> QED
  BY <1>1, <1>5

\* A delivery changes nothing the app can see.
LEMMA DeliveredUnseen ==
    ASSUME TypeOK, LastWritten, Deliver, NEW k \in Keys
    PROVE  Newest(k)' = Newest(k)
<1>0. queue \in Seq(RecordWrite) /\ records \in [Keys -> SUBSET Episodes]
  BY DEF TypeOK
<1>1. /\ queue # <<>> /\ queue' = Tail(queue)
      /\ records' = [records EXCEPT ![Head(queue).key] = Head(queue).eps]
  BY DEF Deliver
<1>2. /\ Len(queue) \in Nat /\ Len(queue) # 0 /\ DOMAIN queue = 1..Len(queue)
      /\ DOMAIN queue' = 1..(Len(queue) - 1)
      /\ Head(queue) = queue[1] /\ queue' \in Seq(RecordWrite) /\ 1 \in DOMAIN queue
  BY <1>0, <1>1, EmptySeq
<1>3. CASE LastIn(queue, k) = {}
  <2>1. Head(queue).key # k
    BY <1>2, <1>3 DEF LastWritten
  <2>2. LastIn(queue', k) = {}
    <3>1. ASSUME NEW j \in LastIn(queue', k) PROVE FALSE
      <4>1. j \in 1..(Len(queue) - 1)
        BY <1>2, <3>1 DEF LastIn
      <4>2. j + 1 \in LastIn(queue, k)
        BY <1>0, <1>1, <3>1, <4>1, LastTail
      <4> QED
        BY <1>3, <4>2
    <3> QED
      BY <3>1
  <2> QED
    BY <1>0, <1>1, <1>3, <2>1, <2>2, NewestIsIn DEF NewestIn
<1>4. ASSUME 1 \in LastIn(queue, k) PROVE Newest(k)' = Newest(k)
  <2>0. queue[1].key = k
    BY <1>4 DEF LastIn
  <2>1. Newest(k) = queue[1].eps /\ LastIn(queue, k) = {1} /\ queue[1].key = k
    BY <1>0, <1>4, <2>0, NewestIsIn, LastIsOne
  <2>2. LastIn(queue', k) = {}
    <3>1. ASSUME NEW j \in LastIn(queue', k) PROVE FALSE
      <4>1. j \in 1..(Len(queue) - 1)
        BY <1>2, <3>1 DEF LastIn
      <4>2. j + 1 \in LastIn(queue, k)
        BY <1>0, <1>1, <3>1, <4>1, LastTail
      <4> QED
        BY <2>1, <4>1, <4>2
    <3> QED
      BY <3>1
  <2> QED
    BY <1>0, <1>1, <1>2, <2>1, <2>2, NewestIsIn DEF NewestIn
<1>5. ASSUME NEW i \in LastIn(queue, k), i # 1 PROVE Newest(k)' = Newest(k)
  <2>1. i - 1 \in 1..(Len(queue) - 1) /\ (i - 1) + 1 = i
    BY <1>2, <1>5 DEF LastIn
  <2>2. i - 1 \in LastIn(queue', k) /\ queue'[i - 1] = queue[i]
    BY <1>0, <1>1, <1>5, <2>1, LastTail
  <2>3. Newest(k)' = queue'[i - 1].eps
    BY <1>2, <2>2, NewestIsIn, LastIsOne
  <2>4. Newest(k) = queue[i].eps
    BY <1>0, <1>5, NewestIsIn, LastIsOne
  <2> QED
    BY <2>2, <2>3, <2>4
<1> QED
  BY <1>3, <1>4, <1>5


LEMMA LastWrittenStep ==
    ASSUME Paid, LastWritten, [Next]_vars
    PROVE  LastWritten'
<1>0. TypeOK /\ RecordsArePaid
  BY DEF Paid
<1>a. ASSUME queue' = queue PROVE LastWritten'
  BY <1>a DEF LastWritten
<1>1. CASE PurchaseGranted
  <2> DEFINE w == [key |-> RecordKey(Head(ops)), eps |-> Index(Head(ops)) \cup {Head(ops).e}]
  <2>1. w \in RecordWrite /\ queue' = Append(queue, w) /\ records' = records
    BY <1>1, GrantedWrite DEF PurchaseGranted
  <2> QED
    BY <1>0, <2>1, WriteAppended
<1>2. CASE Deliver \/ Reject
  BY <1>0, <1>2, LastWrittenTail DEF Deliver, Reject
<1>3. CASE Relaunch
  BY <1>3, EmptySeq DEF Relaunch, Forget, LastWritten
<1>4. CASE \/ FetchStart \/ FetchAnswer \/ FetchApply \/ RefreshCatalogue
           \/ OpenDetail \/ CloseDetail
           \/ (\E e \in Episodes : TapPurchase(e)) \/ NotNow \/ ConfirmPurchase
           \/ PurchaseRefused \/ ReadAfterSuccess
  BY <1>4, <1>a DEF FetchStart, FetchAnswer, FetchApply, RefreshCatalogue, OpenDetail, CloseDetail, TapPurchase,
                    NotNow, ConfirmPurchase, PurchaseRefused, ReadAfterSuccess
<1>5. CASE UNCHANGED vars
  BY <1>5, <1>a DEF vars
<1> QED
  BY <1>1, <1>2, <1>3, <1>4, <1>5 DEF Next

-----------------------------------------------------------------------------
(* While nothing has gone wrong there is one record and it is the truth *)

\* The key a book should have: that of the record, or none while there is none.
RightKey(key) == IF Bought = {} THEN key = NoKey ELSE key \in Keys /\ Newest(key) = Bought

Recorded ==
    /\ \A k \in Keys : Newest(k) \in {{}, Bought}
    /\ \A j, k \in Keys : Newest(j) # {} /\ Newest(k) # {} => j = k
    /\ Bought # {} => \E k \in Keys : Newest(k) = Bought
    /\ IsFiniteSet(Bought) /\ Cardinality(Bought) = Len(bought)

\* What the screen, the alert and a purchase in flight go by.
Working ==
    /\ Open /\ ~trapped => /\ Shown.eps = Bought /\ RightKey(Shown.key)
                           /\ ~success => hidden = Bought
    /\ confirm # NoEpisode => confirm \notin Bought
    /\ \A i \in DOMAIN ops : Index(ops[i]) = Bought /\ ops[i].e \notin Bought /\ RightKey(ops[i].key)

LEMMA UpToDateBook ==
    ASSUME Recorded, NEW b, UpToDate(b)
    PROVE  b.eps = Bought /\ RightKey(b.key)
<1>1. CASE PurchasedBooks = {}
  <2>1. \A k \in Keys : Newest(k) = {}
    BY <1>1 DEF PurchasedBooks
  <2>2. Bought = {}
    BY <2>1 DEF Recorded
  <2> QED
    BY <1>1, <2>2 DEF UpToDate, RightKey
<1>2. CASE PurchasedBooks # {}
  <2>1. PICK k \in Keys : Newest(k) # {} /\ b.eps = Newest(k) /\ b.key = k
    BY <1>2 DEF UpToDate, PurchasedBooks
  <2>2. Newest(k) = Bought
    BY <2>1 DEF Recorded
  <2> QED
    BY <2>1, <2>2 DEF RightKey
<1> QED
  BY <1>1, <1>2

LEMMA RightBookUpToDate ==
    ASSUME Recorded, NEW b, b.eps = Bought, RightKey(b.key)
    PROVE  UpToDate(b)
<1>1. CASE Bought = {}
  <2>1. PurchasedBooks = {}
    BY <1>1 DEF Recorded, PurchasedBooks
  <2> QED
    BY <1>1, <2>1 DEF UpToDate, RightKey
<1>2. CASE Bought # {}
  <2>1. b.key \in Keys /\ Newest(b.key) = Bought
    BY <1>2 DEF RightKey
  <2>2. [eps |-> Newest(b.key), key |-> b.key, flagged |-> Newest(b.key)] \in PurchasedBooks
    BY <1>2, <2>1 DEF PurchasedBooks
  <2> QED
    BY <2>1, <2>2 DEF UpToDate
<1> QED
  BY <1>1, <1>2

\* A step that writes no record and grants nothing.
LEMMA RecordedKept ==
    ASSUME Recorded, \A k \in Keys : Newest(k)' = Newest(k), bought' = bought
    PROVE  /\ Recorded' /\ Bought' = Bought
           /\ \A key : RightKey(key)' <=> RightKey(key)
<1>1. Bought' = Bought
  BY DEF Bought
<1> QED
  BY <1>1 DEF Recorded, RightKey

\* The record written when a purchase is granted takes the place of the only one.
LEMMA RecordedGranted ==
    ASSUME Paid, LastWritten, Recorded, Working, PurchaseGranted
    PROVE  /\ Recorded'
           /\ Head(ops).e \notin Bought /\ Bought' = Bought \cup {Head(ops).e}
           /\ \A k : k = RecordKey(Head(ops)) => RightKey(k)'
<1> DEFINE op == Head(ops)
           key == RecordKey(op)
           w == [key |-> key, eps |-> Index(op) \cup {op.e}]
<1>0. TypeOK /\ RecordsArePaid /\ ops # <<>> /\ ops' = Tail(ops) /\ bought' = Append(bought, op.e)
  BY DEF Paid, PurchaseGranted
<1>1. op \in Op /\ op = ops[1] /\ 1 \in DOMAIN ops /\ op.e \in Episodes
  BY <1>0, OpsTail DEF Op
<1>2. Index(op) = Bought /\ op.e \notin Bought /\ RightKey(op.key)
  BY <1>1 DEF Working
<1>3. Bought' = Bought \cup {op.e} /\ Len(bought') = Len(bought) + 1
  BY <1>0, <1>1, BoughtAppended
<1>4. w \in RecordWrite /\ queue' = Append(queue, w) /\ records' = records
  BY GrantedWrite DEF PurchaseGranted
<1>5. \A k \in Keys : Newest(k)' = IF k = key THEN Bought' ELSE Newest(k)
  <2> HIDE DEF key
  <2>1. w.key = key /\ w.eps = Bought'
    BY <1>2, <1>3
  <2> HIDE DEF w
  <2> QED
    BY <1>0, <1>4, <2>1, WriteAppended
<1>6. key \in Keys
  BY <1>4 DEF RecordWrite
<1>7. \A k \in Keys : k # key => Newest(k) = {}
  <2>1. CASE Bought = {}
    BY <2>1 DEF Recorded
  <2>2. CASE Bought # {}
    <3>1. op.key \in Keys /\ Newest(op.key) = Bought
      BY <1>2, <2>2 DEF RightKey
    <3>2. key = op.key
      BY <3>1 DEF RecordKey, Keys, NoKey
    <3> QED
      BY <2>2, <3>1, <3>2 DEF Recorded
  <2> QED
    BY <2>1, <2>2
<1>8. IsFiniteSet(Bought') /\ Cardinality(Bought') = Len(bought')
  <2>1. IsFiniteSet(Bought) /\ Cardinality(Bought) = Len(bought)
    BY DEF Recorded
  <2>2. op.e \notin Bought /\ Bought' = Bought \cup {op.e} /\ Len(bought') = Len(bought) + 1
    BY <1>2, <1>3
  <2> DEFINE S == Bought
             T == Bought'
             e == op.e
  <2>3. T = S \cup {e} /\ e \notin S /\ IsFiniteSet(S)
    BY <2>1, <2>2
  <2> HIDE DEF op, S, T, e
  <2>4. IsFiniteSet(T) /\ Cardinality(T) = Cardinality(S) + 1
    BY <2>3, FS_AddElement
  <2> QED
    BY <2>1, <2>2, <2>4 DEF S, T
<1>9. Bought' # {}
  BY <1>3
<1> HIDE DEF key, w
<1>10. Recorded'
  BY <1>5, <1>6, <1>7, <1>8, <1>9 DEF Recorded
<1>11. \A k : k = key => RightKey(k)'
  BY <1>5, <1>6, <1>9 DEF RightKey
<1> QED
  BY <1>2, <1>3, <1>10, <1>11 DEF key


LEMMA WorkingKept ==
    ASSUME Working, \A key : RightKey(key)' <=> RightKey(key), Bought' = Bought,
           UNCHANGED <<dictIndex, hidden, confirm, success, ops, trapped>>,
           Open' <=> Open, Shown' = Shown
    PROVE  Working'
BY DEF Working, Index

LEMMA FaithfulStep ==
    ASSUME Paid, LastWritten, Alone, Recorded, Working, [Next]_vars, mishaps' = {}
    PROVE  Recorded' /\ Working'
<1>0. /\ TypeOK /\ RecordsArePaid
      /\ ops \in Seq(Op) /\ Len(ops) \in Nat
      /\ detail \in [on : {"closed", "listed", "copy"}, book : Book]
      /\ Shown \in Book /\ listed \in Book /\ cache \subseteq Book
      /\ \A i \in DOMAIN ops : ops[i] \in Op
  <2>1. ops \in Seq(Op)
    BY DEF Paid, TypeOK
  <2>2. \A i \in DOMAIN ops : ops[i] \in Op
    BY <2>1
  <2> QED
    BY <2>1, <2>2, ShownPaid DEF Paid, TypeOK
<1>a. ASSUME UNCHANGED <<queue, records, bought>>
      PROVE  Recorded' /\ Bought' = Bought /\ \A key : RightKey(key)' <=> RightKey(key)
  <2>1. \A k \in Keys : Newest(k)' = Newest(k)
    BY <1>a, NewestIsIn
  <2> QED
    BY <1>a, <2>1, RecordedKept
<1>b. ASSUME UNCHANGED <<queue, records, bought, dictIndex, hidden, confirm, success, ops, trapped, listed, detail>>
      PROVE  Recorded' /\ Working'
  BY <1>a, <1>b, WorkingKept DEF Open, Shown
<1>1. CASE FetchStart \/ FetchAnswer \/ FetchApply
  BY <1>1, <1>b DEF FetchStart, FetchAnswer, FetchApply, screen
<1>2. CASE RefreshCatalogue
  <2>1. Recorded' /\ Bought' = Bought /\ \A key : RightKey(key)' <=> RightKey(key)
    BY <1>2, <1>a DEF RefreshCatalogue
  <2>2. (Open' <=> Open) /\ Shown' = Shown /\ UNCHANGED <<hidden, confirm, success, trapped>>
    BY <1>0, <1>2 DEF RefreshCatalogue, Open, Shown
  <2>3. DOMAIN ops' = DOMAIN ops
    BY <1>2 DEF RefreshCatalogue
  <2>4. \A i \in DOMAIN ops : Index(ops[i])' = Index(ops[i]) /\ ops'[i].e = ops[i].e /\ ops'[i].key = ops[i].key
    BY <1>0, <1>2 DEF RefreshCatalogue, Index, Op
  <2> QED
    BY <2>1, <2>2, <2>3, <2>4 DEF Working
<1>3. CASE OpenDetail
  <2>1. Recorded' /\ Bought' = Bought /\ \A key : RightKey(key)' <=> RightKey(key)
    BY <1>3, <1>a DEF OpenDetail
  <2>2. UNCHANGED <<dictIndex, confirm, success, ops, trapped>>
    BY <1>3 DEF OpenDetail
  <2>3. PICK b \in Book : UpToDate(b) /\ hidden' = b.eps /\ Shown'.eps = b.eps /\ Shown'.key = b.key
    <3>1. CASE detail' = [on |-> "listed", book |-> FreshBook] /\ listed' = Drawn(listed)
               /\ hidden' = listed.eps /\ mishaps' = IF UpToDate(listed) THEN mishaps ELSE mishaps \cup {"stale"}
      <4>1. Shown' = Drawn(listed) /\ UpToDate(listed)
        BY <3>1 DEF Shown
      <4>2. Drawn(listed).eps = listed.eps /\ Drawn(listed).key = listed.key
        BY <1>0 DEF Drawn, Book
      <4> QED
        BY <1>0, <3>1, <4>1, <4>2
    <3>2. ASSUME NEW b \in cache, detail' = [on |-> "copy", book |-> Drawn([b EXCEPT !.flagged = {}])],
                 hidden' = b.eps, mishaps' = IF UpToDate(b) THEN mishaps ELSE mishaps \cup {"stale"}
          PROVE  b \in Book /\ UpToDate(b) /\ hidden' = b.eps /\ Shown'.eps = b.eps /\ Shown'.key = b.key
      <4>1. Shown' = Drawn([b EXCEPT !.flagged = {}]) /\ UpToDate(b) /\ b \in Book
        BY <1>0, <3>2 DEF Shown
      <4>2. /\ Drawn([b EXCEPT !.flagged = {}]).eps = b.eps
            /\ Drawn([b EXCEPT !.flagged = {}]).key = b.key
        BY <4>1 DEF Drawn, Book
      <4> QED
        BY <3>2, <4>1, <4>2
    <3> QED
      BY <1>3, <3>1, <3>2 DEF OpenDetail
  <2>4. b.eps = Bought /\ RightKey(b.key)
    BY <2>3, UpToDateBook
  <2>5. Shown'.eps = Bought' /\ hidden' = Bought' /\ \A k : k = Shown'.key => RightKey(k)'
    BY <2>1, <2>3, <2>4
  <2>6. RightKey(Shown.key)'
    BY <2>5
  <2> QED
    BY <2>1, <2>2, <2>5, <2>6 DEF Working, Index
<1>4. CASE CloseDetail
  <2>1. Recorded' /\ Bought' = Bought /\ \A key : RightKey(key)' <=> RightKey(key)
    BY <1>4, <1>a DEF CloseDetail
  <2>2. ~Open' /\ UNCHANGED <<confirm, success, trapped, dictIndex>>
    BY <1>4 DEF CloseDetail, Open
  <2>3. DOMAIN ops' = DOMAIN ops
    BY <1>4 DEF CloseDetail
  <2>4. \A i \in DOMAIN ops : Index(ops[i])' = Index(ops[i]) /\ ops'[i].e = ops[i].e /\ ops'[i].key = ops[i].key
    BY <1>0, <1>4 DEF CloseDetail, Index, Op
  <2> QED
    BY <2>1, <2>2, <2>3, <2>4 DEF Working
<1>5. ASSUME NEW e \in Episodes, TapPurchase(e) PROVE Recorded' /\ Working'
  <2>1. Recorded' /\ Bought' = Bought /\ \A key : RightKey(key)' <=> RightKey(key)
    BY <1>5, <1>a DEF TapPurchase
  <2>2. e \notin Bought
    BY <1>5 DEF TapPurchase, Working, Open
  <2>3. confirm' = e /\ UNCHANGED <<listed, detail, hidden, success, trapped, dictIndex, ops>>
    BY <1>5 DEF TapPurchase
  <2> QED
    BY <2>1, <2>2, <2>3 DEF Working, Open, Shown, Index
<1>6. CASE NotNow
  <2>1. Recorded' /\ Bought' = Bought /\ \A key : RightKey(key)' <=> RightKey(key)
    BY <1>6, <1>a DEF NotNow
  <2>2. confirm' = NoEpisode /\ UNCHANGED <<listed, detail, hidden, success, trapped, dictIndex, ops>>
    BY <1>6 DEF NotNow
  <2> QED
    BY <2>1, <2>2 DEF Working, Open, Shown, Index
<1>7. CASE ConfirmPurchase
  <2> DEFINE op == [e |-> confirm, key |-> Shown.key, live |-> TRUE, idx |-> {}, owned |-> TRUE]
  <2>1. Recorded' /\ Bought' = Bought /\ \A key : RightKey(key)' <=> RightKey(key)
    BY <1>7, <1>a DEF ConfirmPurchase
  <2>2. /\ ops = <<>> /\ ops' = Append(ops, op) /\ dictIndex' = Shown.eps /\ confirm' = NoEpisode
        /\ UNCHANGED <<listed, detail, hidden, success, trapped>>
        /\ Open /\ ~trapped /\ confirm \notin Bought
    BY <1>7 DEF ConfirmPurchase, IndexToRemember, Alone, Working
  <2>3. Shown.eps = Bought /\ RightKey(Shown.key)
    BY <2>2 DEF Working
  <2>4. DOMAIN ops' = {1} /\ ops'[1] = op
    BY <2>2, EmptySeq
  <2>5. Index(ops[1])' = Bought' /\ ops'[1].e \notin Bought' /\ ops'[1].key = Shown.key
    BY <2>1, <2>2, <2>3, <2>4 DEF Index
  <2>6. \A k : k = ops'[1].key => RightKey(k)'
    BY <2>1, <2>3, <2>5
  <2>7. RightKey(ops[1].key)'
    BY <2>6
  <2> QED
    BY <2>1, <2>2, <2>4, <2>5, <2>7 DEF Working, Open, Shown
<1>8. CASE PurchaseGranted
  <2> DEFINE op == Head(ops)
             book == [eps |-> Shown.eps \cup {op.e}, key |-> RecordKey(op),
                      flagged |-> Shown.flagged \cup {First}]
  <2>1. /\ Recorded' /\ op.e \notin Bought /\ Bought' = Bought \cup {op.e}
        /\ \A k : k = RecordKey(op) => RightKey(k)'
    BY <1>8, RecordedGranted
  <2>2. /\ ~trapped /\ ops # <<>> /\ ops' = Tail(ops) /\ UNCHANGED <<hidden, confirm>>
        /\ 1 \in DOMAIN ops /\ op = ops[1]
    BY <1>0, <1>8, OpsTail DEF PurchaseGranted
  <2>3. ops' = <<>> /\ DOMAIN ops' = {} /\ confirm = NoEpisode
    BY <1>0, <2>2, OpsTail, EmptySeq DEF Alone
  <2>4. CASE op.owned
    <3>1. Open /\ Shown.eps = Bought
      BY <2>2, <2>4 DEF Alone, Working
    <3>2. Show(book) /\ success' = TRUE
      BY <1>8, <2>4 DEF PurchaseGranted
    <3>3. Shown' = book
      BY <1>0, <3>2, ShowShows
    <3>4. Shown'.eps = Bought' /\ Shown'.key = RecordKey(op)
      BY <2>1, <3>1, <3>3
    <3>5. \A k : k = Shown'.key => RightKey(k)'
      BY <2>1, <3>4
    <3>6. RightKey(Shown.key)'
      BY <3>5
    <3> QED
      BY <2>1, <2>2, <2>3, <3>2, <3>4, <3>6 DEF Working
  <2>5. CASE ~op.owned
    <3>1. trapped'
      BY <1>8, <2>5 DEF PurchaseGranted
    <3> QED
      BY <2>1, <2>2, <2>3, <3>1 DEF Working
  <2> QED
    BY <2>4, <2>5
<1>9. CASE PurchaseRefused
  <2> DEFINE op == Head(ops)
             book == [Shown EXCEPT !.flagged = @ \ {op.e}]
  <2>1. Recorded' /\ Bought' = Bought /\ \A key : RightKey(key)' <=> RightKey(key)
    BY <1>9, <1>a DEF PurchaseRefused
  <2>2. ~trapped /\ ops # <<>> /\ ops' = Tail(ops) /\ UNCHANGED <<hidden, confirm, success>>
    BY <1>9 DEF PurchaseRefused
  <2>3. ops' = <<>> /\ DOMAIN ops' = {} /\ confirm = NoEpisode
    BY <1>0, <2>2, OpsTail, EmptySeq DEF Alone
  <2>4. CASE op.owned
    <3>1. Show(book)
      BY <1>9, <2>4 DEF PurchaseRefused
    <3>2. Shown' = book /\ detail'.on = detail.on
      BY <1>0, <3>1, ShowShows
    <3>3. Shown'.eps = Shown.eps /\ Shown'.key = Shown.key
      BY <1>0, <3>2 DEF Book
    <3>4. Open /\ Shown.eps = Bought /\ RightKey(Shown.key) /\ (~success => hidden = Bought)
      BY <1>0, <2>2, <2>4, OpsTail DEF Alone, Working
    <3>5. \A k : k = Shown'.key => RightKey(k)'
      BY <2>1, <3>3, <3>4
    <3>6. RightKey(Shown.key)'
      BY <3>5
    <3> QED
      BY <2>1, <2>2, <2>3, <3>3, <3>4, <3>6 DEF Working
  <2>5. CASE ~op.owned
    <3>1. trapped'
      BY <1>9, <2>5 DEF PurchaseRefused
    <3> QED
      BY <2>1, <2>2, <2>3, <3>1 DEF Working
  <2> QED
    BY <2>4, <2>5
<1>10. CASE ReadAfterSuccess
  <2>1. Recorded' /\ Bought' = Bought /\ \A key : RightKey(key)' <=> RightKey(key)
    BY <1>10, <1>a DEF ReadAfterSuccess
  <2>2. success /\ ~trapped /\ Open /\ confirm = NoEpisode /\ ops = <<>>
    BY <1>10 DEF ReadAfterSuccess, Alone
  <2>3. /\ Show(Drawn(Shown)) /\ hidden' = Shown.eps /\ UNCHANGED <<confirm, ops, trapped, dictIndex>>
    BY <1>10, <2>2 DEF ReadAfterSuccess
  <2>4. Shown' = Drawn(Shown)
    BY <1>0, <2>3, ShowShows
  <2>5. Shown'.eps = Shown.eps /\ Shown'.key = Shown.key
    BY <1>0, <2>4 DEF Drawn, Book
  <2>6. Shown.eps = Bought /\ RightKey(Shown.key)
    BY <2>2 DEF Working
  <2>7. \A k : k = Shown'.key => RightKey(k)'
    BY <2>1, <2>5, <2>6
  <2>8. RightKey(Shown.key)'
    BY <2>7
  <2>9. DOMAIN ops' = {}
    BY <2>2, <2>3, EmptySeq
  <2> QED
    BY <2>1, <2>2, <2>3, <2>5, <2>6, <2>8, <2>9 DEF Working
<1>11. CASE Deliver
  <2>1. \A k \in Keys : Newest(k)' = Newest(k)
    BY <1>0, <1>11, DeliveredUnseen
  <2>2. /\ bought' = bought
        /\ UNCHANGED <<dictIndex, hidden, confirm, success, ops, trapped, listed, detail>>
    BY <1>11 DEF Deliver, screen
  <2>3. Recorded' /\ Bought' = Bought /\ \A key : RightKey(key)' <=> RightKey(key)
    BY <2>1, <2>2, RecordedKept
  <2> QED
    BY <2>2, <2>3, WorkingKept DEF Open, Shown
<1>12. CASE Reject
  BY <1>12 DEF Reject
<1>13. CASE Relaunch
  <2>1. queue = <<>>
    BY <1>13 DEF Relaunch
  <2>2. UNCHANGED <<queue, records, bought>>
    BY <1>13, <2>1 DEF Relaunch, Forget
  <2>3. Recorded'
    BY <1>a, <2>2
  <2>4. ~Open' /\ confirm' = NoEpisode /\ DOMAIN ops' = {}
    BY <1>13, EmptySeq DEF Relaunch, Forget, Open
  <2> QED
    BY <2>3, <2>4 DEF Working
<1>14. CASE UNCHANGED vars
  BY <1>14, <1>b DEF vars, screen
<1> QED
  BY <1>1, <1>2, <1>3, <1>4, <1>5, <1>6, <1>7, <1>8, <1>9, <1>10, <1>11, <1>12, <1>13, <1>14 DEF Next

LEMMA FaithfulInit == Init => LastWritten /\ Recorded /\ Working
<1> SUFFICES ASSUME Init PROVE LastWritten /\ Recorded /\ Working
  OBVIOUS
<1>1. /\ queue = <<>> /\ DOMAIN queue = {} /\ bought = <<>> /\ DOMAIN bought = {} /\ Len(bought) = 0
      /\ ops = <<>> /\ DOMAIN ops = {}
      /\ records = [k \in Keys |-> {}] /\ detail.on = "closed" /\ confirm = NoEpisode
  BY EmptySeq DEF Init
<1>2. LastWritten
  BY <1>1 DEF LastWritten
<1>3. Bought = {}
  BY <1>1 DEF Bought
<1>4. \A k \in Keys : Newest(k) = {}
  BY <1>1, NewestIsIn DEF NewestIn, LastIn
<1>5. IsFiniteSet(Bought) /\ Cardinality(Bought) = Len(bought)
  BY <1>1, <1>3, FS_EmptySet
<1>6. Recorded
  BY <1>3, <1>4, <1>5 DEF Recorded
<1>7. Working
  BY <1>1 DEF Working, Open
<1> QED
  BY <1>2, <1>6, <1>7

\* The inductive invariant of OneFaithfulRecord, next to Paid.
Faithful ==
    /\ LastWritten
    /\ "overlap" \notin mishaps => Alone
    /\ mishaps = {} => Recorded /\ Working

LEMMA FaithfulInvariant == Spec => []Faithful
<1>1. Init => Faithful
  BY FaithfulInit, AloneInit DEF Faithful
<1>2. Paid /\ Faithful /\ [Next]_vars => Faithful'
  <2> SUFFICES ASSUME Paid, Faithful, [Next]_vars PROVE Faithful'
    OBVIOUS
  <2>1. LastWritten'
    BY LastWrittenStep DEF Faithful
  <2>2. "overlap" \notin mishaps' => Alone'
    BY AloneStep, MishapsGrow DEF Faithful
  <2>3. mishaps' = {} => Recorded' /\ Working'
    BY FaithfulStep, MishapsGrow DEF Faithful
  <2> QED
    BY <2>1, <2>2, <2>3 DEF Faithful
<1> QED
  BY <1>1, <1>2, PaidInvariant, PTL DEF Spec

\* Buying works when nothing interferes: however many episodes are bought one after
\* another, over catalogue refreshes, reopened screens, relaunches and late
\* deliveries, purchaseBook keeps one record of the comic, which lists each
\* episode paid for, paid for once, and the open screen works from it.
THEOREM PurchasesOneFaithfulRecord == Spec => []OneFaithfulRecord
<1>1. Faithful => OneFaithfulRecord
  <2> SUFFICES ASSUME Recorded, Working
               PROVE  /\ Cardinality({k \in Keys : Newest(k) # {}}) <= 1
                      /\ UNION {Newest(k) : k \in Keys} = Bought
                      /\ Cardinality(Bought) = Len(bought)
                      /\ (detail.on # "closed" /\ ~trapped) => UpToDate(Shown)
    BY DEF Faithful, OneFaithfulRecord
  <2>1. Cardinality({k \in Keys : Newest(k) # {}}) <= 1
    <3>1. CASE {k \in Keys : Newest(k) # {}} = {}
      BY <3>1, FS_EmptySet
    <3>2. ASSUME NEW j \in Keys, Newest(j) # {} PROVE Cardinality({k \in Keys : Newest(k) # {}}) = 1
      <4>1. {k \in Keys : Newest(k) # {}} = {j}
        BY <3>2 DEF Recorded
      <4> QED
        BY <4>1, FS_Singleton
    <3> QED
      BY <3>1, <3>2
  <2>2. UNION {Newest(k) : k \in Keys} = Bought
    BY DEF Recorded
  <2>3. (detail.on # "closed" /\ ~trapped) => UpToDate(Shown)
    BY RightBookUpToDate DEF Working, Open
  <2> QED
    BY <2>1, <2>2, <2>3 DEF Recorded
<1> QED
  BY <1>1, FaithfulInvariant, PTL


-----------------------------------------------------------------------------
(* What the server lists it keeps: a write never lists less than what it     *)
(* overwrites, though writes are lost                                        *)

\* Nothing under key k, on the server or on its way, is missing in S.
Kept(k, S) ==
    /\ records[k] \subseteq S
    /\ \A i \in DOMAIN queue : queue[i].key = k => queue[i].eps \subseteq S

\* A book with this key and these episodes knows all there is under the key.
Knows(key, eps) == key <= lastKey /\ (key # NoKey => Kept(key, eps))

\* Keys not made yet are not used, and the writes to a key list more and more.
WritesGrow ==
    /\ \A k \in Keys : k > lastKey => Kept(k, {})
    /\ \A i \in DOMAIN queue : records[queue[i].key] \subseteq queue[i].eps
    /\ \A i, j \in DOMAIN queue :
          i <= j /\ queue[i].key = queue[j].key => queue[i].eps \subseteq queue[j].eps

\* So it is because the open screen and the purchase in flight know their record,
\* and a purchase that has its screen has the list and the key of it.
Knowing ==
    /\ Open /\ ~trapped => Knows(Shown.key, Shown.eps)
    /\ \A i \in DOMAIN ops :
          /\ Knows(ops[i].key, Index(ops[i]))
          /\ ops[i].owned => Index(ops[i]) = Shown.eps /\ ops[i].key = Shown.key

\* A step that writes nothing.
LEMMA KnowsAsBefore ==
    ASSUME UNCHANGED <<records, queue, lastKey>>, NEW key, NEW eps
    PROVE  Knows(key, eps)' <=> Knows(key, eps)
BY DEF Knows, Kept

\* The newest version of a record lists all that its older versions list.
LEMMA NewestKeeps ==
    ASSUME TypeOK, LastWritten, WritesGrow, NEW k \in Keys
    PROVE  Kept(k, Newest(k))
<1>0. queue \in Seq(RecordWrite) /\ DOMAIN queue \subseteq Nat
  BY DEF TypeOK
<1>1. CASE LastIn(queue, k) = {}
  <2>1. Newest(k) = records[k]
    BY <1>1, NewestIsIn DEF NewestIn
  <2>2. \A i \in DOMAIN queue : queue[i].key # k
    BY <1>1 DEF LastWritten
  <2> QED
    BY <2>1, <2>2 DEF Kept
<1>2. ASSUME NEW i \in LastIn(queue, k) PROVE Kept(k, Newest(k))
  <2>1. Newest(k) = queue[i].eps
    BY <1>0, <1>2, NewestIsIn, LastIsOne
  <2>2. i \in DOMAIN queue /\ queue[i].key = k /\ \A j \in DOMAIN queue : queue[j].key = k => j <= i
    BY <1>2 DEF LastIn
  <2> QED
    BY <2>1, <2>2 DEF WritesGrow, Kept
<1> QED
  BY <1>1, <1>2

LEMMA UpToDateKnows ==
    ASSUME TypeOK, LastWritten, WritesGrow, NEW b, UpToDate(b)
    PROVE  Knows(b.key, b.eps)
<1>0. lastKey \in Nat /\ queue \in Seq(RecordWrite)
  BY DEF TypeOK, Keys, NoKey
<1>1. CASE PurchasedBooks = {}
  BY <1>0, <1>1 DEF UpToDate, Knows, NoKey
<1>2. CASE PurchasedBooks # {}
  <2>1. PICK k \in Keys : Newest(k) # {} /\ b.eps = Newest(k) /\ b.key = k
    BY <1>2 DEF UpToDate, PurchasedBooks
  <2>2. Kept(k, Newest(k))
    BY NewestKeeps
  <2>3. k <= lastKey
    <3>1. SUFFICES ASSUME k > lastKey PROVE FALSE
      BY <1>0 DEF Keys
    <3>2. Kept(k, {})
      BY <3>1 DEF WritesGrow
    <3>3. CASE LastIn(queue, k) = {}
      BY <2>1, <3>2, <3>3, NewestIsIn DEF NewestIn, Kept
    <3>4. ASSUME NEW i \in LastIn(queue, k) PROVE FALSE
      <4>1. Newest(k) = queue[i].eps
        BY <1>0, <3>4, NewestIsIn, LastIsOne
      <4>2. i \in DOMAIN queue /\ queue[i].key = k
        BY <3>4 DEF LastIn
      <4> QED
        BY <2>1, <3>2, <4>1, <4>2 DEF Kept
    <3> QED
      BY <3>3, <3>4
  <2> QED
    BY <2>1, <2>2, <2>3 DEF Knows
<1> QED
  BY <1>1, <1>2

\* Taking the oldest write, refusing it and dying leave the writes behind it.
LEMMA FewerWrites ==
    ASSUME TypeOK, Deliver \/ Reject \/ Relaunch
    PROVE  /\ lastKey' = lastKey
           /\ \A i \in DOMAIN queue' : i \in Nat /\ i + 1 \in DOMAIN queue /\ queue'[i] = queue[i + 1]
           /\ \A k \in Keys : \/ records'[k] = records[k]
                              \/ /\ 1 \in DOMAIN queue /\ queue[1].key = k
                                 /\ records'[k] = queue[1].eps
<1>0. queue \in Seq(RecordWrite) /\ records \in [Keys -> SUBSET Episodes]
  BY DEF TypeOK
<1>1. ASSUME queue # <<>>, queue' = Tail(queue)
      PROVE  /\ 1 \in DOMAIN queue /\ Head(queue) = queue[1]
             /\ \A i \in DOMAIN queue' : i \in Nat /\ i + 1 \in DOMAIN queue /\ queue'[i] = queue[i + 1]
  BY <1>0, <1>1, EmptySeq
<1>2. CASE Deliver
  BY <1>0, <1>1, <1>2 DEF Deliver
<1>3. CASE Reject
  BY <1>1, <1>3 DEF Reject
<1>4. CASE Relaunch
  <2>1. DOMAIN queue' = {}
    BY <1>4, EmptySeq DEF Relaunch, Forget
  <2> QED
    BY <1>4, <2>1 DEF Relaunch
<1> QED
  BY <1>2, <1>3, <1>4

LEMMA ServerKeeps ==
    ASSUME TypeOK, WritesGrow, Deliver \/ Reject \/ Relaunch
    PROVE  /\ WritesGrow'
           /\ \A k \in Keys : Deliver => records[k] \subseteq records'[k]
           /\ \A key \in Keys \cup {NoKey} : \A eps : Knows(key, eps) => Knows(key, eps)'
<1>0. /\ lastKey' = lastKey
      /\ \A i \in DOMAIN queue' : i \in Nat /\ i + 1 \in DOMAIN queue /\ queue'[i] = queue[i + 1]
      /\ \A k \in Keys : \/ records'[k] = records[k]
                         \/ /\ 1 \in DOMAIN queue /\ queue[1].key = k
                            /\ records'[k] = queue[1].eps
  BY FewerWrites
<1>1. \A i \in DOMAIN queue : queue[i].key \in Keys /\ i \in Nat /\ 1 <= i
  <2>1. queue \in Seq(RecordWrite)
    BY DEF TypeOK
  <2>2. \A i \in DOMAIN queue : queue[i] \in RecordWrite /\ i \in 1..Len(queue)
    BY <2>1
  <2> QED
    BY <2>1, <2>2 DEF RecordWrite
<1>2. ASSUME NEW k \in Keys, NEW S, Kept(k, S) PROVE Kept(k, S)'
  <2>1. records'[k] \subseteq S
    BY <1>0, <1>2 DEF Kept
  <2>2. \A i \in DOMAIN queue' : queue'[i].key = k => queue'[i].eps \subseteq S
    BY <1>0, <1>2 DEF Kept
  <2> QED
    BY <2>1, <2>2 DEF Kept
<1>3. \A k \in Keys : k > lastKey' => Kept(k, {})'
  BY <1>0, <1>2 DEF WritesGrow
<1>4. ASSUME NEW i \in DOMAIN queue' PROVE records'[queue'[i].key] \subseteq queue'[i].eps
  <2>1. i + 1 \in DOMAIN queue /\ queue'[i] = queue[i + 1] /\ queue[i + 1].key \in Keys /\ 1 <= i + 1
    BY <1>0, <1>1, <1>4
  <2>2. CASE records'[queue[i + 1].key] = records[queue[i + 1].key]
    BY <2>1, <2>2 DEF WritesGrow
  <2>3. CASE /\ 1 \in DOMAIN queue /\ queue[1].key = queue[i + 1].key
             /\ records'[queue[i + 1].key] = queue[1].eps
    BY <2>1, <2>3 DEF WritesGrow
  <2> QED
    BY <1>0, <2>1, <2>2, <2>3
<1>5. ASSUME NEW i \in DOMAIN queue', NEW j \in DOMAIN queue', i <= j, queue'[i].key = queue'[j].key
      PROVE  queue'[i].eps \subseteq queue'[j].eps
  <2>1. /\ i + 1 \in DOMAIN queue /\ queue'[i] = queue[i + 1]
        /\ j + 1 \in DOMAIN queue /\ queue'[j] = queue[j + 1] /\ i + 1 <= j + 1
    BY <1>0, <1>5
  <2> QED
    BY <1>5, <2>1 DEF WritesGrow
<1>6. ASSUME NEW k \in Keys, Deliver PROVE records[k] \subseteq records'[k]
  BY <1>0 DEF WritesGrow
<1>7. ASSUME NEW key \in Keys \cup {NoKey}, NEW eps, Knows(key, eps) PROVE Knows(key, eps)'
  BY <1>0, <1>2, <1>7 DEF Knows
<1> QED
  BY <1>3, <1>4, <1>5, <1>6, <1>7 DEF WritesGrow

\* The write of a granted purchase lists all there is under its key.
LEMMA GrantedGrows ==
    ASSUME Paid, Alone, WritesGrow, Knowing, PurchaseGranted,
           NEW key, NEW eps, key = RecordKey(Head(ops)), eps = Index(Head(ops)) \cup {Head(ops).e}
    PROVE  WritesGrow' /\ Knows(key, eps)'
<1> DEFINE op == Head(ops)
           w == [key |-> key, eps |-> eps]
<1>0. /\ TypeOK /\ queue \in Seq(RecordWrite) /\ lastKey \in Nat
      /\ \A i \in DOMAIN queue : i \in Nat /\ i <= Len(queue)
      /\ \A k \in Keys : k \in Nat /\ k # NoKey
  BY DEF Paid, TypeOK, Keys, NoKey
<1>1. w \in RecordWrite /\ queue' = Append(queue, w) /\ records' = records
  BY GrantedWrite DEF PurchaseGranted
<1>2. key \in Keys /\ op \in Op /\ op = ops[1] /\ 1 \in DOMAIN ops
  BY <1>0, <1>1, OpsTail DEF RecordWrite, PurchaseGranted
<1>3. Knows(op.key, Index(op))
  BY <1>2 DEF Knowing
<1>4. /\ lastKey' \in Nat /\ lastKey <= lastKey' /\ key <= lastKey'
      /\ Kept(key, eps)
  <2>1. CASE op.key = NoKey
    <3>1. key = lastKey + 1 /\ lastKey' = key
      BY <2>1 DEF RecordKey, PurchaseGranted
    <3>2. Kept(key, {})
      BY <1>0, <1>2, <3>1 DEF WritesGrow
    <3> QED
      BY <1>0, <1>2, <3>1, <3>2 DEF Kept
  <2>2. CASE op.key # NoKey
    <3>1. key = op.key /\ lastKey' = lastKey
      BY <2>2 DEF RecordKey, PurchaseGranted
    <3>2. key <= lastKey /\ Kept(key, Index(op))
      BY <1>3, <2>2, <3>1 DEF Knows
    <3> QED
      BY <1>0, <3>1, <3>2 DEF Kept
  <2> QED
    BY <2>1, <2>2
<1>5. /\ DOMAIN queue = 1..Len(queue) /\ DOMAIN queue' = 1..(Len(queue) + 1) /\ Len(queue) \in Nat
      /\ queue'[Len(queue) + 1] = w /\ \A i \in DOMAIN queue : queue'[i] = queue[i]
  BY <1>0, <1>1
<1>6. \A i \in DOMAIN queue' : (i \in DOMAIN queue /\ queue'[i] = queue[i]) \/ (i = Len(queue) + 1 /\ queue'[i] = w)
  BY <1>5
<1>7. w.key = key /\ w.eps = eps
  OBVIOUS
<1> HIDE DEF w, op
<1>8. Kept(key, eps)'
  BY <1>1, <1>4, <1>6, <1>7 DEF Kept
<1>9. ASSUME NEW k \in Keys, k > lastKey' PROVE Kept(k, {})'
  <2>1. k > lastKey /\ k # key
    BY <1>0, <1>2, <1>4, <1>9
  <2>2. Kept(k, {})
    BY <2>1 DEF WritesGrow
  <2> QED
    BY <1>1, <1>6, <1>7, <2>1, <2>2 DEF Kept
<1>10. ASSUME NEW i \in DOMAIN queue' PROVE records'[queue'[i].key] \subseteq queue'[i].eps
  BY <1>1, <1>4, <1>6, <1>7 DEF WritesGrow, Kept
<1>11. ASSUME NEW i \in DOMAIN queue', NEW j \in DOMAIN queue', i <= j, queue'[i].key = queue'[j].key
       PROVE  queue'[i].eps \subseteq queue'[j].eps
  <2>1. CASE j \in DOMAIN queue
    <3>1. i \in DOMAIN queue
      BY <1>5, <1>11, <2>1
    <3> QED
      BY <1>5, <1>11, <2>1, <3>1 DEF WritesGrow
  <2>2. CASE j = Len(queue) + 1
    <3>1. queue'[j] = w
      BY <1>5, <2>2
    <3>2. CASE i \in DOMAIN queue
      BY <1>4, <1>5, <1>7, <1>11, <3>1, <3>2 DEF Kept
    <3>3. CASE i = j
      BY <3>3
    <3> QED
      BY <1>5, <1>6, <2>2, <3>2, <3>3
  <2> QED
    BY <1>6, <2>1, <2>2
<1> QED
  BY <1>4, <1>8, <1>9, <1>10, <1>11 DEF WritesGrow, Knows

\* What makes the screen and the purchases know after a step.
LEMMA KnowingMade ==
    ASSUME \A key, eps : Open' /\ ~trapped' /\ key = Shown'.key /\ eps = Shown'.eps => Knows(key, eps)',
           \A i \in DOMAIN ops' :
              /\ \A key, eps : key = ops'[i].key /\ eps = Index(ops[i])' => Knows(key, eps)'
              /\ ops'[i].owned => Index(ops[i])' = Shown'.eps /\ ops'[i].key = Shown'.key
    PROVE  Knowing'
<1>1. Open' /\ ~trapped' => Knows(Shown.key, Shown.eps)'
  OBVIOUS
<1>2. \A i \in DOMAIN ops' : Knows(ops[i].key, Index(ops[i]))'
  OBVIOUS
<1> QED
  BY <1>1, <1>2 DEF Knowing

\* The steps of the app itself, and what a purchase knows when it is confirmed.
LEMMA GrowingStep ==
    ASSUME Paid, LastWritten, Alone, Alone', WritesGrow, Knowing, [Next]_vars, mishaps' \subseteq {"lost"}
    PROVE  WritesGrow' /\ Knowing'
<1>0. /\ TypeOK
      /\ ops \in Seq(Op) /\ \A i \in DOMAIN ops : ops[i] \in Op
      /\ Shown \in Book /\ listed \in Book /\ cache \subseteq Book
      /\ detail \in [on : {"closed", "listed", "copy"}, book : Book]
  <2>1. ops \in Seq(Op)
    BY DEF Paid, TypeOK
  <2>2. \A i \in DOMAIN ops : ops[i] \in Op
    BY <2>1
  <2> QED
    BY <2>1, <2>2, ShownPaid DEF Paid, TypeOK
<1>a. ASSUME UNCHANGED <<records, queue, lastKey>>
      PROVE  WritesGrow' /\ \A key, eps : Knows(key, eps) => Knows(key, eps)'
  BY <1>a, KnowsAsBefore DEF WritesGrow, Kept
<1>b. ASSUME UNCHANGED <<records, queue, lastKey, dictIndex, ops, trapped, listed, detail>>
      PROVE  WritesGrow' /\ Knowing'
  <2>1. WritesGrow' /\ \A key, eps : Knows(key, eps) => Knows(key, eps)'
    BY <1>a, <1>b
  <2> QED
    BY <1>b, <2>1 DEF Knowing, Open, Shown, Index, Knows, Kept
<1>1. CASE FetchStart \/ FetchAnswer \/ FetchApply \/ NotNow \/ \E e \in Episodes : TapPurchase(e)
  BY <1>1, <1>b DEF FetchStart, FetchAnswer, FetchApply, NotNow, TapPurchase, screen
<1>2. CASE RefreshCatalogue
  <2>1. WritesGrow' /\ \A key, eps : Knows(key, eps) => Knows(key, eps)'
    BY <1>2, <1>a DEF RefreshCatalogue
  <2>2. (Open' <=> Open) /\ Shown' = Shown /\ trapped' = trapped /\ DOMAIN ops' = DOMAIN ops
    BY <1>0, <1>2 DEF RefreshCatalogue, Open, Shown
  <2>3. \A i \in DOMAIN ops : /\ Index(ops[i])' = Index(ops[i])
                             /\ ops'[i].key = ops[i].key /\ ops'[i].owned = ops[i].owned
    BY <1>0, <1>2 DEF RefreshCatalogue, Index, Op
  <2> QED
    BY <2>1, <2>2, <2>3, KnowingMade DEF Knowing
<1>3. CASE OpenDetail
  <2>1. WritesGrow' /\ \A key, eps : Knows(key, eps) => Knows(key, eps)'
    BY <1>3, <1>a DEF OpenDetail
  <2>2. UNCHANGED <<dictIndex, ops, trapped>> /\ ~Open
    BY <1>3 DEF OpenDetail, Open
  <2>3. PICK b \in Book : UpToDate(b) /\ Shown'.eps = b.eps /\ Shown'.key = b.key
    <3>1. CASE detail' = [on |-> "listed", book |-> FreshBook] /\ listed' = Drawn(listed)
               /\ mishaps' = IF UpToDate(listed) THEN mishaps ELSE mishaps \cup {"stale"}
      <4>1. Shown' = Drawn(listed) /\ UpToDate(listed)
        BY <3>1 DEF Shown
      <4>2. Drawn(listed).eps = listed.eps /\ Drawn(listed).key = listed.key
        BY <1>0 DEF Drawn, Book
      <4> QED
        BY <1>0, <4>1, <4>2
    <3>2. ASSUME NEW b \in cache, detail' = [on |-> "copy", book |-> Drawn([b EXCEPT !.flagged = {}])],
                 mishaps' = IF UpToDate(b) THEN mishaps ELSE mishaps \cup {"stale"}
          PROVE  b \in Book /\ UpToDate(b) /\ Shown'.eps = b.eps /\ Shown'.key = b.key
      <4>1. Shown' = Drawn([b EXCEPT !.flagged = {}]) /\ UpToDate(b) /\ b \in Book
        BY <1>0, <3>2 DEF Shown
      <4>2. /\ Drawn([b EXCEPT !.flagged = {}]).eps = b.eps
            /\ Drawn([b EXCEPT !.flagged = {}]).key = b.key
        BY <4>1 DEF Drawn, Book
      <4> QED
        BY <4>1, <4>2
    <3> QED
      BY <1>3, <3>1, <3>2 DEF OpenDetail
  <2>4. Knows(b.key, b.eps)'
    BY <1>0, <2>1, <2>3, UpToDateKnows
  <2>5. \A key, eps : key = Shown'.key /\ eps = Shown'.eps => Knows(key, eps)'
    BY <2>3, <2>4
  <2>6. ASSUME NEW i \in DOMAIN ops
        PROVE  Index(ops[i])' = Index(ops[i]) /\ ops'[i] = ops[i] /\ ~ops[i].owned
    BY <2>2 DEF Index, Alone
  <2> QED
    BY <2>1, <2>2, <2>5, <2>6, KnowingMade DEF Knowing
<1>4. CASE CloseDetail
  <2>1. WritesGrow' /\ \A key, eps : Knows(key, eps) => Knows(key, eps)'
    BY <1>4, <1>a DEF CloseDetail
  <2>2. ~Open' /\ DOMAIN ops' = DOMAIN ops
    BY <1>4 DEF CloseDetail, Open
  <2>3. \A i \in DOMAIN ops : Index(ops[i])' = Index(ops[i]) /\ ops'[i].key = ops[i].key /\ ~ops'[i].owned
    BY <1>0, <1>4 DEF CloseDetail, Index, Op
  <2> QED
    BY <2>1, <2>2, <2>3, KnowingMade DEF Knowing
<1>5. CASE ConfirmPurchase
  <2> DEFINE op == [e |-> confirm, key |-> Shown.key, live |-> TRUE, idx |-> {}, owned |-> TRUE]
  <2>1. WritesGrow' /\ \A key, eps : Knows(key, eps) => Knows(key, eps)'
    BY <1>5, <1>a DEF ConfirmPurchase
  <2>2. /\ ops = <<>> /\ ops' = Append(ops, op) /\ dictIndex' = Shown.eps
        /\ UNCHANGED <<listed, detail, trapped>>
        /\ Open /\ ~trapped
    BY <1>5 DEF ConfirmPurchase, IndexToRemember, Alone
  <2>3. DOMAIN ops' = {1} /\ ops'[1] = op /\ Shown' = Shown /\ (Open' <=> Open)
    BY <2>2, EmptySeq DEF Shown, Open
  <2>4. Index(ops[1])' = Shown.eps /\ ops'[1].key = Shown.key
    BY <2>2, <2>3 DEF Index
  <2>5. \A key, eps : key = Shown.key /\ eps = Shown.eps => Knows(key, eps)'
    BY <2>1, <2>2 DEF Knowing
  <2> QED
    BY <2>1, <2>2, <2>3, <2>4, <2>5, KnowingMade
<1>6. CASE PurchaseGranted
  <2> DEFINE op == Head(ops)
             book == [eps |-> Shown.eps \cup {op.e}, key |-> RecordKey(op),
                      flagged |-> Shown.flagged \cup {First}]
  <2>1. PICK key, eps : key = RecordKey(op) /\ eps = Index(op) \cup {op.e}
    OBVIOUS
  <2>2. WritesGrow' /\ Knows(key, eps)'
    BY <1>6, <2>1, GrantedGrows
  <2>3. ops # <<>> /\ ops' = Tail(ops) /\ op = ops[1] /\ 1 \in DOMAIN ops
    BY <1>0, <1>6, OpsTail DEF PurchaseGranted
  <2>4. DOMAIN ops' = {}
    BY <1>0, <2>3, OpsTail, EmptySeq DEF Alone
  <2>5. CASE op.owned
    <3>1. Show(book)
      BY <1>6, <2>5 DEF PurchaseGranted
    <3>2. Shown' = book
      BY <1>0, <3>1, ShowShows
    <3>3. Index(op) = Shown.eps
      BY <2>3, <2>5 DEF Knowing
    <3>4. Shown'.key = key /\ Shown'.eps = eps
      BY <2>1, <3>2, <3>3
    <3> QED
      BY <2>2, <2>4, <3>4, KnowingMade
  <2>6. CASE ~op.owned
    <3>1. trapped'
      BY <1>6, <2>6 DEF PurchaseGranted
    <3> QED
      BY <2>2, <2>4, <3>1, KnowingMade
  <2> QED
    BY <2>5, <2>6
<1>7. CASE PurchaseRefused
  <2> DEFINE op == Head(ops)
             book == [Shown EXCEPT !.flagged = @ \ {op.e}]
  <2>1. WritesGrow' /\ \A key, eps : Knows(key, eps) => Knows(key, eps)'
    BY <1>7, <1>a DEF PurchaseRefused
  <2>2. ~trapped /\ ops # <<>> /\ ops' = Tail(ops) /\ op = ops[1] /\ 1 \in DOMAIN ops
    BY <1>0, <1>7, OpsTail DEF PurchaseRefused
  <2>3. DOMAIN ops' = {}
    BY <1>0, <2>2, OpsTail, EmptySeq DEF Alone
  <2>4. CASE op.owned
    <3>1. Show(book)
      BY <1>7, <2>4 DEF PurchaseRefused
    <3>2. Shown' = book
      BY <1>0, <3>1, ShowShows
    <3>3. Shown'.eps = Shown.eps /\ Shown'.key = Shown.key
      BY <1>0, <3>2 DEF Book
    <3>4. Open
      BY <2>2, <2>4 DEF Alone
    <3>5. \A key, eps : key = Shown'.key /\ eps = Shown'.eps => Knows(key, eps)'
      BY <2>1, <2>2, <3>3, <3>4 DEF Knowing
    <3> QED
      BY <2>1, <2>3, <3>5, KnowingMade
  <2>5. CASE ~op.owned
    <3>1. trapped'
      BY <1>7, <2>5 DEF PurchaseRefused
    <3> QED
      BY <2>1, <2>3, <3>1, KnowingMade
  <2> QED
    BY <2>4, <2>5
<1>8. CASE ReadAfterSuccess
  <2>1. WritesGrow' /\ \A key, eps : Knows(key, eps) => Knows(key, eps)'
    BY <1>8, <1>a DEF ReadAfterSuccess
  <2>2. ~trapped /\ Open /\ confirm = NoEpisode /\ ops = <<>> /\ ops' = ops
    BY <1>8 DEF ReadAfterSuccess, Alone
  <2>3. Show(Drawn(Shown))
    BY <1>8, <2>2 DEF ReadAfterSuccess
  <2>4. Shown' = Drawn(Shown) /\ DOMAIN ops' = {}
    BY <1>0, <2>2, <2>3, ShowShows, EmptySeq
  <2>5. Shown'.eps = Shown.eps /\ Shown'.key = Shown.key
    BY <1>0, <2>4 DEF Drawn, Book
  <2>6. \A key, eps : key = Shown'.key /\ eps = Shown'.eps => Knows(key, eps)'
    BY <2>1, <2>2, <2>5 DEF Knowing
  <2> QED
    BY <2>1, <2>4, <2>6, KnowingMade
<1>9. CASE Deliver \/ Reject
  <2>1. WritesGrow' /\ \A key \in Keys \cup {NoKey} : \A eps : Knows(key, eps) => Knows(key, eps)'
    BY <1>0, <1>9, ServerKeeps
  <2>2. UNCHANGED <<dictIndex, ops, trapped, listed, detail>>
    BY <1>9 DEF Deliver, Reject, screen
  <2>3. (Open' <=> Open) /\ Shown' = Shown /\ Shown.key \in Keys \cup {NoKey}
    BY <1>0, <2>2 DEF Open, Shown, Book
  <2>4. \A i \in DOMAIN ops : Index(ops[i])' = Index(ops[i]) /\ ops[i].key \in Keys \cup {NoKey}
    BY <1>0, <2>2 DEF Index, Op
  <2> QED
    BY <2>1, <2>2, <2>3, <2>4, KnowingMade DEF Knowing
<1>10. CASE Relaunch
  <2>1. WritesGrow'
    BY <1>0, <1>10, ServerKeeps
  <2>2. ~Open' /\ DOMAIN ops' = {}
    BY <1>10, EmptySeq DEF Relaunch, Forget, Open
  <2> QED
    BY <2>1, <2>2, KnowingMade
<1>11. CASE UNCHANGED vars
  BY <1>11, <1>b DEF vars, screen
<1> QED
  BY <1>1, <1>2, <1>3, <1>4, <1>5, <1>6, <1>7, <1>8, <1>9, <1>10, <1>11 DEF Next

LEMMA GrowingInit == Init => WritesGrow /\ Knowing
<1> SUFFICES ASSUME Init PROVE WritesGrow /\ Knowing
  OBVIOUS
<1>1. /\ DOMAIN queue = {} /\ DOMAIN ops = {} /\ ~Open
      /\ \A k \in Keys : records[k] = {}
  BY EmptySeq DEF Init, Open
<1> QED
  BY <1>1 DEF WritesGrow, Kept, Knowing

\* The invariant behind PurchasesRecordsGrow, next to Paid and Faithful.
Growing == mishaps \subseteq {"lost"} => WritesGrow /\ Knowing

LEMMA GrowingInvariant == Spec => []Growing
<1>1. Init => Growing
  BY GrowingInit DEF Growing
<1>2. Paid /\ Faithful /\ Faithful' /\ Growing /\ [Next]_vars => Growing'
  <2> SUFFICES ASSUME Paid, Faithful, Faithful', Growing, [Next]_vars, mishaps' \subseteq {"lost"}
               PROVE  WritesGrow' /\ Knowing'
    BY DEF Growing
  <2>1. mishaps \subseteq {"lost"}
    BY MishapsGrow
  <2>2. LastWritten /\ Alone /\ Alone' /\ WritesGrow /\ Knowing
    BY <2>1 DEF Faithful, Growing
  <2> QED
    BY <2>2, GrowingStep
<1> QED
  BY <1>1, <1>2, PaidInvariant, FaithfulInvariant, PTL DEF Spec

\* Only the server's taking a write changes a record.
LEMMA RecordsDelivered ==
    ASSUME [Next]_vars
    PROVE  records' = records \/ Deliver
BY DEF Next, vars, FetchStart, FetchAnswer, FetchApply, RefreshCatalogue, OpenDetail, CloseDetail, TapPurchase,
       NotNow, ConfirmPurchase, PurchaseGranted, PurchaseRefused, ReadAfterSuccess, Reject, Relaunch

\* A record never loses an episode, though purchaseBook's setValue overwrites it
\* with a list remembered from before (TSFirebaseAPI.swift:200): however many writes
\* are refused or die with the process, as long as purchases do not overlap and no
\* screen is opened with a stale list.
THEOREM PurchasesRecordsGrow ==
    Spec => [][mishaps' \subseteq {"lost"} => \A k \in Keys : records[k] \subseteq records'[k]]_vars
<1> DEFINE Grow == mishaps' \subseteq {"lost"} => \A k \in Keys : records[k] \subseteq records'[k]
<1>1. Paid /\ Growing /\ [Next]_vars => [Grow]_vars
  <2> SUFFICES ASSUME Paid, Growing, [Next]_vars, mishaps' \subseteq {"lost"}, NEW k \in Keys
               PROVE  records[k] \subseteq records'[k]
    OBVIOUS
  <2>1. TypeOK /\ WritesGrow
    BY MishapsGrow DEF Paid, Growing
  <2> QED
    BY <2>1, RecordsDelivered, ServerKeeps
<1>2. Spec => [][Grow]_vars
  <2> HIDE DEF Grow
  <2> QED
    BY <1>1, PaidInvariant, GrowingInvariant, PTL DEF Spec
<1> QED
  BY <1>2 DEF Grow

=============================================================================

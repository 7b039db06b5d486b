----------------------------- MODULE Purchases ------------------------------
(***************************************************************************)
(* Buying the episodes of one comic: DetailViewController, the purchase    *)
(* records under PurchasedBook/<uID>/<auto id>, and the copies of them the *)
(* app works from: TSFirebaseAPI.arrPurchasedComicDict, the TSBook shared  *)
(* with the catalogue lists, the TSBook of the open detail screen and the  *)
(* "index" entry of the catalogue dictionary.                              *)
(*                                                                         *)
(* A purchase is an asynchronous redeemCoins (module CoinWallet; here its  *)
(* outcome is either) whose callback overwrites a whole record with a list *)
(* of episodes remembered from before.  The record written depends on      *)
(* which copy the detail screen was opened with.                           *)
(***************************************************************************)
EXTENDS Integers, Sequences, FiniteSets

CONSTANTS
    Episodes,      \* the episodes (table rows) of the comic
    First,         \* row 0
    NoEpisode,     \* no confirmation alert is open
    MaxOps,        \* bound: purchases in flight
    MaxBought      \* bound: no purchase is confirmed once this many were granted

ASSUME PurchasesAssumption ==
    /\ First \in Episodes
    /\ NoEpisode \notin Episodes
    /\ MaxOps \in Nat /\ MaxBought \in Nat

NoKey == 0                          \* bookId ""
Keys == 1..(MaxBought + MaxOps)     \* childByAutoId keys, in the order they are made

VARIABLES
    records,     \* the server's PurchasedBook/<uID>: episodes of each record, {} if none
    queue,       \* record writes not yet applied by the server, oldest first
    lastKey,     \* the last childByAutoId key made
    cache,       \* arrPurchasedComicDict
    fetch,       \* a fetchPurchaseData in flight
    listed,      \* the TSBook the catalogue lists hold
    dictIndex,   \* "index" of the catalogue dictionary (arrPopularComicDict)
    detail,      \* the detail screen: closed, on the listed TSBook, or on a copy
    hidden,      \* rows whose download button is hidden
    confirm,     \* the episode a confirmation alert asks about
    success,     \* the success alert is up
    ops,         \* purchases in flight, in the order they were confirmed
    trapped,     \* the process hit a trap ([unowned self] of a closed screen)
    bought,      \* history: the episodes whose redeem was granted, in order
    mishaps      \* history: "overlap", "stale" copy used, "lost" write

screen == <<detail, hidden, confirm, success>>
vars == <<records, queue, lastKey, cache, fetch, listed, dictIndex, detail, hidden,
          confirm, success, ops, trapped, bought, mishaps>>

-----------------------------------------------------------------------------
(* Types *)

\* A TSBook: index, bookId and the episodes whose isPurchased flag is 1.
Book == [eps : SUBSET Episodes, key : Keys \cup {NoKey}, flagged : SUBSET Episodes]
FreshBook == [eps |-> {}, key |-> NoKey, flagged |-> {}]

\* A setValue of a whole record.
RecordWrite == [key : Keys, eps : SUBSET Episodes]

\* A purchase in flight: its episode, the captured bookId, whether it still reads
\* the catalogue's own dictionary (else the "index" of the replaced one), and
\* whether the screen it reports to is still there.
Op == [e : Episodes, key : Keys \cup {NoKey}, live : BOOLEAN, idx : SUBSET Episodes, owned : BOOLEAN]

TypeOK ==
    /\ records \in [Keys -> SUBSET Episodes]
    /\ queue \in Seq(RecordWrite)
    /\ lastKey \in Keys \cup {NoKey}
    /\ cache \subseteq Book
    /\ fetch \in [phase : {"none", "asked", "answered"}, snap : SUBSET Book]
    /\ listed \in Book
    /\ dictIndex \subseteq Episodes
    /\ detail \in [on : {"closed", "listed", "copy"}, book : Book]
    /\ hidden \subseteq Episodes
    /\ confirm \in Episodes \cup {NoEpisode}
    /\ success \in BOOLEAN
    /\ ops \in Seq(Op)
    /\ trapped \in BOOLEAN
    /\ bought \in Seq(Episodes)
    /\ mishaps \subseteq {"overlap", "stale", "lost"}

-----------------------------------------------------------------------------
(* The database as the app sees it *)

\* The last write on its way to record k, if there is one.
LastWrite(k) ==
    {i \in DOMAIN queue : queue[i].key = k /\ \A j \in DOMAIN queue : queue[j].key = k => j <= i}

\* Writes on their way shadow the record the server has.
Newest(k) ==
    IF LastWrite(k) = {} THEN records[k]
    ELSE queue[CHOOSE i \in LastWrite(k) : TRUE].eps

\* The TSBooks fetchPurchaseData builds; the key travels as "bookId".
PurchasedBooks ==
    {[eps |-> Newest(k), key |-> k, flagged |-> Newest(k)] : k \in {j \in Keys : Newest(j) # {}}}

Bought == {bought[i] : i \in DOMAIN bought}

\* The copy says what the database says.
UpToDate(book) ==
    IF PurchasedBooks = {} THEN book.eps = {} /\ book.key = NoKey
    ELSE \E b \in PurchasedBooks : b.eps = book.eps /\ b.key = book.key

\* Nothing of the app's memory survives; the server keeps its records.
Forget ==
    /\ queue' = <<>>
    /\ cache' = {}
    /\ fetch' = [phase |-> "none", snap |-> {}]
    /\ listed' = FreshBook
    /\ dictIndex' = {}
    /\ detail' = [on |-> "closed", book |-> FreshBook]
    /\ hidden' = {}
    /\ confirm' = NoEpisode
    /\ success' = FALSE
    /\ ops' = <<>>
    /\ trapped' = FALSE

Init ==
    /\ records = [k \in Keys |-> {}]
    /\ queue = <<>>
    /\ lastKey = NoKey
    /\ cache = {}
    /\ fetch = [phase |-> "none", snap |-> {}]
    /\ listed = FreshBook
    /\ dictIndex = {}
    /\ detail = [on |-> "closed", book |-> FreshBook]
    /\ hidden = {}
    /\ confirm = NoEpisode
    /\ success = FALSE
    /\ ops = <<>>
    /\ trapped = FALSE
    /\ bought = <<>>
    /\ mishaps = {}

-----------------------------------------------------------------------------
(* Lists: the catalogue and the purchased books *)

\* Home, "see all" and the profile ask for the purchase records when they appear.
FetchStart ==
    /\ ~trapped
    /\ fetch.phase = "none"
    /\ fetch' = [phase |-> "asked", snap |-> {}]
    /\ UNCHANGED <<records, queue, lastKey, cache, listed, dictIndex, screen, ops, trapped, bought, mishaps>>

FetchAnswer ==
    /\ fetch.phase = "asked"
    /\ fetch' = [phase |-> "answered", snap |-> PurchasedBooks]
    /\ UNCHANGED <<records, queue, lastKey, cache, listed, dictIndex, screen, ops, trapped, bought, mishaps>>

FetchApply ==
    /\ ~trapped
    /\ fetch.phase = "answered"
    /\ cache' = fetch.snap
    /\ fetch' = [phase |-> "none", snap |-> {}]
    /\ UNCHANGED <<records, queue, lastKey, listed, dictIndex, screen, ops, trapped, bought, mishaps>>

\* fetchPopularData: new dictionaries and new TSBooks replace the old ones;
\* whoever holds the old objects keeps them.
RefreshCatalogue ==
    /\ ~trapped
    /\ listed' = FreshBook
    /\ dictIndex' = {}
    /\ ops' = [i \in DOMAIN ops |-> IF ops[i].live
                                  THEN [ops[i] EXCEPT !.live = FALSE, !.idx = dictIndex]
                                  ELSE ops[i]]
    /\ detail' = IF detail.on = "listed" THEN [on |-> "copy", book |-> listed] ELSE detail
    /\ UNCHANGED <<records, queue, lastKey, cache, fetch, hidden, confirm, success, trapped, bought, mishaps>>

-----------------------------------------------------------------------------
(* The detail screen *)

Shown == IF detail.on = "listed" THEN listed ELSE detail.book

\* Plausible bug: a redraw sets the flags of bought rows and resets none.
DrawnWithoutReset(book) == [book EXCEPT !.flagged = @ \cup book.eps]

\* cellForRowAt on every row: with an empty index the flags are left alone.
Drawn(book) == IF book.eps = {} THEN book ELSE [book EXCEPT !.flagged = book.eps]

Show(book) ==
    IF detail.on = "listed"
    THEN listed' = book /\ UNCHANGED detail
    ELSE detail' = [detail EXCEPT !.book = book] /\ UNCHANGED listed

\* openDetailScreen: the first cached record with the title, else the listed
\* book itself.  The order of the records is that of a dictionary's keys.
OpenDetail ==
    /\ ~trapped
    /\ detail.on = "closed"
    /\ \/ /\ cache = {}
          /\ detail' = [on |-> "listed", book |-> FreshBook]
          /\ listed' = Drawn(listed)
          /\ hidden' = listed.eps
          /\ mishaps' = IF UpToDate(listed) THEN mishaps ELSE mishaps \cup {"stale"}
       \/ \E b \in cache :
          /\ detail' = [on |-> "copy", book |-> Drawn([b EXCEPT !.flagged = {}])]
          /\ hidden' = b.eps
          /\ mishaps' = IF UpToDate(b) THEN mishaps ELSE mishaps \cup {"stale"}
          /\ UNCHANGED listed
    /\ UNCHANGED <<records, queue, lastKey, cache, fetch, dictIndex, confirm, success, ops, trapped, bought>>

\* Back: the purchases in flight lose the screen they report to.
CloseDetail ==
    /\ ~trapped
    /\ detail.on # "closed"
    /\ confirm = NoEpisode /\ ~success
    /\ detail' = [on |-> "closed", book |-> FreshBook]
    /\ hidden' = {}
    /\ ops' = [i \in DOMAIN ops |-> [ops[i] EXCEPT !.owned = FALSE]]
    /\ UNCHANGED <<records, queue, lastKey, cache, fetch, listed, dictIndex, confirm, success, trapped, bought, mishaps>>

\* The download button of row e: a confirmation alert.
TapPurchase(e) ==
    /\ ~trapped
    /\ detail.on # "closed"
    /\ confirm = NoEpisode /\ ~success
    /\ e \notin hidden
    /\ confirm' = e
    /\ mishaps' = IF ops = <<>> THEN mishaps ELSE mishaps \cup {"overlap"}
    /\ UNCHANGED <<records, queue, lastKey, cache, fetch, listed, dictIndex, detail, hidden, success, ops, trapped, bought>>

NotNow ==
    /\ ~trapped
    /\ confirm # NoEpisode /\ ~success
    /\ confirm' = NoEpisode
    /\ UNCHANGED <<records, queue, lastKey, cache, fetch, listed, dictIndex, detail, hidden, success, ops, trapped, bought, mishaps>>

\* Plausible bug: the dictionary is given the episode before the coins are taken.
RememberEarly(e) == Shown.eps \cup {e}

\* Plausible bug: the book's list is not put into the dictionary.
RememberNothing(e) == {}

\* The list of episodes put into the catalogue dictionary, e not yet among them.
IndexToRemember(e) == Shown.eps

\* YES: "index" of the catalogue dictionary := index of the book, the bookId of
\* this moment is captured, and the coins are asked for.
ConfirmPurchase ==
    /\ ~trapped
    /\ confirm # NoEpisode /\ ~success
    /\ Len(ops) < MaxOps /\ Len(bought) < MaxBought
    /\ dictIndex' = IndexToRemember(confirm)
    /\ ops' = Append(ops, [e |-> confirm, key |-> Shown.key, live |-> TRUE, idx |-> {}, owned |-> TRUE])
    /\ confirm' = NoEpisode
    /\ UNCHANGED <<records, queue, lastKey, cache, fetch, listed, detail, hidden, success, trapped, bought, mishaps>>

-----------------------------------------------------------------------------
(* The callback of purchaseBook *)

Index(op) == IF op.live THEN dictIndex ELSE op.idx

\* Plausible bugs: "" is used as a bookId; every purchase makes a new record.
KeyAsCaptured(op) == op.key
AlwaysNewKey(op) == lastKey + 1

\* A book without a record gets one under the next childByAutoId.
RecordKey(op) == IF op.key = NoKey THEN lastKey + 1 ELSE op.key

\* The coins were taken: the record is written whole, under the captured bookId
\* or under a new key; then the screen takes the episode in, flags row 0 (its
\* closure's "index" is the alert button's) and reports success.
PurchaseGranted ==
    LET op  == Head(ops)
        key == RecordKey(op)
    IN  /\ ~trapped
        /\ ops # <<>>
        /\ queue' = Append(queue, [key |-> key, eps |-> Index(op) \cup {op.e}])
        /\ lastKey' = IF op.key = NoKey THEN key ELSE lastKey
        /\ bought' = Append(bought, op.e)
        /\ ops' = Tail(ops)
        /\ IF op.owned
           THEN /\ Show([eps |-> Shown.eps \cup {op.e}, key |-> key,
                         flagged |-> Shown.flagged \cup {First}])
                /\ success' = TRUE
                /\ UNCHANGED trapped
           ELSE /\ trapped' = TRUE
                /\ UNCHANGED <<listed, detail, success>>
        /\ UNCHANGED <<records, cache, fetch, dictIndex, hidden, confirm, mishaps>>

\* The coins did not suffice.  The OK of the alert that says so, which runs
\* purchaseBook's closure (TSFirebaseAPI.redeemCoins), is taken with it.
PurchaseRefused ==
    LET op == Head(ops)
    IN  /\ ~trapped
        /\ ops # <<>>
        /\ ops' = Tail(ops)
        /\ IF op.owned
           THEN /\ Show([Shown EXCEPT !.flagged = @ \ {op.e}])
                /\ UNCHANGED trapped
           ELSE /\ trapped' = TRUE
                /\ UNCHANGED <<listed, detail>>
        /\ UNCHANGED <<records, queue, lastKey, cache, fetch, dictIndex, hidden, confirm, success, bought, mishaps>>

\* OK on the success alert opens the reader; coming back redraws the table.
\* With a confirmation alert underneath the reader cannot be presented.
ReadAfterSuccess ==
    /\ ~trapped
    /\ success
    /\ success' = FALSE
    /\ IF confirm = NoEpisode
       THEN Show(Drawn(Shown)) /\ hidden' = Shown.eps
       ELSE UNCHANGED <<listed, detail, hidden>>
    /\ UNCHANGED <<records, queue, lastKey, cache, fetch, dictIndex, confirm, ops, trapped, bought, mishaps>>

-----------------------------------------------------------------------------
(* The server and the process *)

Deliver ==
    /\ queue # <<>>
    /\ records' = [records EXCEPT ![Head(queue).key] = Head(queue).eps]
    /\ queue' = Tail(queue)
    /\ UNCHANGED <<lastKey, cache, fetch, listed, dictIndex, screen, ops, trapped, bought, mishaps>>

\* setValue is given no completion block: a refused write is not noticed.
Reject ==
    /\ queue # <<>>
    /\ queue' = Tail(queue)
    /\ mishaps' = mishaps \cup {"lost"}
    /\ UNCHANGED <<records, lastKey, cache, fetch, listed, dictIndex, screen, ops, trapped, bought>>

Relaunch ==
    /\ Forget
    /\ mishaps' = IF queue = <<>> THEN mishaps ELSE mishaps \cup {"lost"}
    /\ UNCHANGED <<records, lastKey, bought>>

Next ==
    \/ FetchStart \/ FetchAnswer \/ FetchApply \/ RefreshCatalogue
    \/ OpenDetail \/ CloseDetail
    \/ (\E e \in Episodes : TapPurchase(e)) \/ NotNow \/ ConfirmPurchase
    \/ PurchaseGranted \/ PurchaseRefused \/ ReadAfterSuccess
    \/ Deliver \/ Reject \/ Relaunch

Spec == Init /\ [][Next]_vars

-----------------------------------------------------------------------------
(* What buying promises *)

\* No record, on the server or on its way, and no copy of one lists an episode
\* whose coins were not taken: purchaseBook writes only when redeemCoins says so.
RecordsArePaid ==
    /\ \A k \in Keys : records[k] \subseteq Bought
    /\ \A i \in DOMAIN queue : queue[i].eps \subseteq Bought
    /\ \A b \in cache \cup fetch.snap \cup {listed, detail.book} : b.eps \subseteq Bought

\* As long as purchases do not overlap, the detail screen is opened on current
\* data and no write is lost, the comic has one record, it lists exactly what
\* was paid for, nothing was paid for twice, and the open screen agrees.
OneFaithfulRecord ==
    mishaps = {} =>
        /\ Cardinality({k \in Keys : Newest(k) # {}}) <= 1
        /\ UNION {Newest(k) : k \in Keys} = Bought
        /\ Cardinality(Bought) = Len(bought)
        /\ (detail.on # "closed" /\ ~trapped) => UpToDate(Shown)

\* An episode the list would open for reading has been paid for, however old the
\* data the screen was opened on and whatever was lost: unless purchases overlapped,
\* the wrong flag of row 0 does not outlive the alert.
FlaggedArePaid ==
    (detail.on # "closed" /\ ~success /\ "overlap" \notin mishaps) => Shown.flagged \subseteq Bought

\* "Episode purchased successfully" (DetailViewController): what was paid for, one
\* purchase at a time and with no write lost on the way, stays in the records.
PurchasesAreKept ==
    mishaps \subseteq {"stale"} => Bought \subseteq UNION {Newest(k) : k \in Keys}

=============================================================================

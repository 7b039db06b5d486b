--------------------------------- MODULE Shop ---------------------------------
(***************************************************************************)
(* Buying with coins: CoinWallet and Purchases together, for one account   *)
(* signed in on one phone and the episodes of one comic.                   *)
(*                                                                         *)
(* purchaseBook hands redeemCoins a closure, so the callback that takes    *)
(* the coins is the one that grants the episode, and the two writes they   *)
(* make, the balance and then the record, leave the phone in this order on *)
(* one connection.  What falls between them is this module's affair.       *)
(***************************************************************************)
EXTENDS Integers, Sequences, FiniteSets

CONSTANTS
    Me, Phone,                                       \* the account and its phone
    Packs, BookCoin, NoUser, Absent, Unanswered,     \* as in CoinWallet
    Episodes, First, NoEpisode,                      \* as in Purchases
    Void,                                            \* as in Bookshop
    MaxOps, MaxCredit, MaxBought                     \* bounds, as in both

\* What both assume of them.
ASSUME ShopAssumption ==
    /\ Packs \subseteq Nat
    /\ BookCoin \in Nat
    /\ MaxOps \in Nat /\ MaxCredit \in Nat /\ MaxBought \in Nat
    /\ NoUser # Me
    /\ Absent \notin Int /\ Unanswered \notin Int
    /\ Absent # Unanswered
    /\ Absent \notin [balance : Int, bought : Nat, episodes : Nat]
    /\ First \in Episodes
    /\ NoEpisode \notin Episodes
    /\ Void \notin [purse : Int, owned : SUBSET Episodes]

VARIABLES
    \* CoinWallet; coinOps and coinTrap are its ops and trapped
    points, uid, coins, coinOps, pending, coinTrap, credited, debited, sound,
    \* Purchases
    records, queue, lastKey, cache, fetch, listed, dictIndex, detail, hidden,
    confirm, success, ops, trapped, bought, mishaps,
    \* the writes on their way, of both kinds, oldest first
    wire,
    \* history: coin operations overlapped, or the server refused a balance
    spoiled

Wallet == INSTANCE CoinWallet WITH
            Users <- {Me}, Devices <- {Phone}, MaxDebits <- MaxBought,
            ops <- coinOps, trapped <- coinTrap

Purchases == INSTANCE Purchases

walletVars == <<points, uid, coins, coinOps, pending, coinTrap, credited, debited, sound>>
purchaseVars == <<records, queue, lastKey, cache, fetch, listed, dictIndex, detail, hidden,
                  confirm, success, ops, trapped, bought, mishaps>>
vars == <<walletVars, purchaseVars, wire, spoiled>>

TypeOK ==
    /\ Wallet!TypeOK
    /\ Purchases!TypeOK
    /\ wire \in Seq({"coins", "record"})
    /\ spoiled \subseteq {"overlap", "refusal"}

Init ==
    /\ Wallet!Init
    /\ Purchases!Init
    /\ wire = <<>>
    /\ spoiled = {}

-----------------------------------------------------------------------------
(* The user *)

\* The process lives and its user is in the tabs.
InTabs == uid[Phone] = Me /\ ~coinTrap[Phone] /\ ~trapped

Login ==
    /\ Wallet!Login(Phone, Me)
    /\ UNCHANGED <<purchaseVars, wire, spoiled>>

NoteOverlap ==
    spoiled' = IF Wallet!Contended(Phone, Me) THEN spoiled \cup {"overlap"} ELSE spoiled

\* BuyCoinViewController.
BuyCoins(n) ==
    /\ InTabs
    /\ Wallet!StartAdd(Phone, n)
    /\ NoteOverlap
    /\ UNCHANGED <<purchaseVars, wire>>

\* YES on the confirmation alert: purchaseBook, redeemCoins, getCoins.
ConfirmPurchase ==
    /\ InTabs
    /\ Purchases!ConfirmPurchase
    /\ Wallet!StartRedeem(Phone)
    /\ NoteOverlap
    /\ UNCHANGED wire

Issued(kind) == {i \in DOMAIN coinOps[Phone] : coinOps[Phone][i].kind = kind}

\* A screen that is popped leaves the coin operations it issued without a receiver.
Abandon(kind) ==
    IF Issued(kind) = {}
    THEN UNCHANGED walletVars
    ELSE /\ Wallet!Leave(Phone)
         /\ coinOps'[Phone] = Wallet!Disown(coinOps[Phone], Issued(kind))

CloseDetail ==
    /\ InTabs
    /\ Purchases!CloseDetail
    /\ Abandon("redeem")
    /\ UNCHANGED <<wire, spoiled>>

CloseBuyCoins ==
    /\ InTabs
    /\ Issued("add") # {}
    /\ Abandon("add")
    /\ UNCHANGED <<purchaseVars, wire, spoiled>>

\* What Purchases does without coins: lists, alerts, reader.
Browse ==
    /\ InTabs
    /\ \/ Purchases!FetchStart \/ Purchases!FetchAnswer \/ Purchases!FetchApply
       \/ Purchases!RefreshCatalogue \/ Purchases!OpenDetail
       \/ \E e \in Episodes : Purchases!TapPurchase(e)
       \/ Purchases!NotNow \/ Purchases!ReadAfterSuccess
    /\ UNCHANGED <<walletVars, wire, spoiled>>

-----------------------------------------------------------------------------
(* Callbacks: getCoins' closure calls redeemCoins', that calls purchaseBook's *)

BalanceAnswered ==
    /\ Wallet!Answer(Phone, Me)
    /\ UNCHANGED <<purchaseVars, wire, spoiled>>

CoinsAdded ==
    /\ InTabs
    /\ Wallet!AddCallback(Phone)
    /\ wire' = Append(wire, "coins")
    /\ UNCHANGED <<purchaseVars, spoiled>>

\* (fault) the record is written before the coins.
RecordFirst == wire \o <<"record", "coins">>

\* redeemCoins writes the balance, then calls back, and purchaseBook the record.
CoinsThenRecord == wire \o <<"coins", "record">>

\* (fault) the answer that the coins suffice is taken for the one that they do not.
EpisodePaidOnly ==
    /\ InTabs
    /\ Wallet!RedeemCallback(Phone)
    /\ Purchases!PurchaseRefused
    /\ wire' = Append(wire, "coins")
    /\ UNCHANGED spoiled

EpisodeGranted ==
    /\ InTabs
    /\ Wallet!RedeemCallback(Phone)
    /\ Purchases!PurchaseGranted
    /\ wire' = CoinsThenRecord
    /\ UNCHANGED spoiled

EpisodeRefused ==
    /\ InTabs
    /\ Wallet!RefuseCallback(Phone)
    /\ Purchases!PurchaseRefused
    /\ UNCHANGED <<wire, spoiled>>

-----------------------------------------------------------------------------
(* The connection and the process *)

Deliver ==
    /\ wire # <<>>
    /\ wire' = Tail(wire)
    /\ \/ Head(wire) = "coins"  /\ Wallet!Deliver(Phone, Me) /\ UNCHANGED purchaseVars
       \/ Head(wire) = "record" /\ Purchases!Deliver /\ UNCHANGED walletVars
    /\ UNCHANGED spoiled

Refuse ==
    /\ wire # <<>>
    /\ wire' = Tail(wire)
    /\ \/ /\ Head(wire) = "coins"
          /\ Wallet!Reject(Phone, Me)
          /\ spoiled' = spoiled \cup {"refusal"}
          /\ UNCHANGED purchaseVars
       \/ /\ Head(wire) = "record"
          /\ Purchases!Reject
          /\ UNCHANGED <<walletVars, spoiled>>

Relaunch ==
    /\ Wallet!Relaunch(Phone)
    /\ Purchases!Relaunch
    /\ wire' = <<>>
    /\ UNCHANGED spoiled

Next ==
    \/ Login
    \/ \E n \in Packs : BuyCoins(n)
    \/ ConfirmPurchase \/ CloseDetail \/ CloseBuyCoins \/ Browse
    \/ BalanceAnswered \/ CoinsAdded \/ EpisodeGranted \/ EpisodeRefused
    \/ Deliver \/ Refuse \/ Relaunch

Spec == Init /\ [][Next]_vars

-----------------------------------------------------------------------------
(* Properties *)

Held == IF points[Me] = Absent THEN 0 ELSE points[Me]
Owned == UNION {records[k] : k \in Purchases!Keys}

\* On the server there is never an episode that was not paid for there: wherever the
\* process dies between the two writes of a purchase, and whatever was read, bought
\* or lost before, the balance and the price of what is listed are covered by the
\* packs bought.  Overlapping operations and refused balances are excepted.
PaidAtServer ==
    spoiled = {} => Held + BookCoin * Cardinality(Owned) <= credited[Me]

\* An episode the server lists stays listed: a process that dies takes the purchases
\* still on their way with it, a refused write takes its own, but none takes one that
\* has arrived, though every purchase writes the whole list anew.  Only purchases that
\* overlap and a screen opened on old data are excepted.
OwnedNeverShrinks ==
    [][mishaps' \subseteq {"lost"} => Owned \subseteq Owned']_vars

\* Nothing has happened that the code does not handle.
Clean == sound[Me] /\ mishaps = {} /\ spoiled = {}

\* Once its writes have arrived, an account that met none of the mishaps has on the
\* server, in coins and in episodes listed at their price, exactly the packs bought:
\* no coin was taken without the episode arriving, none was taken twice for one.
PaidIsListed ==
    Clean /\ pending[Phone][Me] = <<>> /\ queue = <<>> =>
        Held + BookCoin * Cardinality(Owned) = credited[Me]

\* The shop implements the bookshop, as the phone sees the account, until one of the
\* mishaps: what is confirmed in several steps is one purchase, of an episode not
\* owned, for its price.
Bookshop == INSTANCE Bookshop WITH
    account <- IF Clean
               THEN [purse |-> Wallet!Purse(Me),
                     owned |-> UNION {Purchases!Newest(k) : k \in Purchases!Keys}]
               ELSE Void

ImplementsBookshop == Bookshop!Spec
==============================================================================

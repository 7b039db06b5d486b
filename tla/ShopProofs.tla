------------------------------ MODULE ShopProofs ------------------------------
(***************************************************************************)
(* Proofs about Shop, for every set of episodes, packs, price and bounds.  *)
(* The invariants of the wallet and of the purchases hold in the shop, as  *)
(* each of its steps is a step of either or of both; what they do not say  *)
(* is in which order the two kinds of writes arrive.                       *)
(***************************************************************************)
EXTENDS Shop, SequenceTheorems, FiniteSetTheorems, TLAPS

W == INSTANCE WalletLedgerProofs WITH
        Users <- {Me}, Devices <- {Phone}, MaxDebits <- MaxBought,
        ops <- coinOps, trapped <- coinTrap

P == INSTANCE PurchasesProofs

-----------------------------------------------------------------------------
(* What the two components guarantee *)

LEMMA WalletInit == W!Init => W!WalletInv
BY ShopAssumption, W!WalletInvInit

LEMMA WalletStep == W!WalletInv /\ [W!Next]_walletVars => W!WalletInv'
BY ShopAssumption, W!WalletInvStep DEF walletVars, W!vars

LEMMA PurchasesInit == P!Init => P!Paid
BY ShopAssumption, P!PaidInit

LEMMA PurchasesStep == P!Paid /\ [P!Next]_purchaseVars => P!Paid'
BY ShopAssumption, P!PaidStep DEF purchaseVars, P!vars

-----------------------------------------------------------------------------
(* A step of the shop is a step of the wallet and of the purchases *)

LEMMA SameInit == (Wallet!Init <=> W!Init) /\ (Purchases!Init <=> P!Init)
<1>1. Wallet!Init <=> W!Init
  BY DEF Wallet!Init, W!Init
<1>2. Purchases!Init <=> P!Init
  BY DEF Purchases!Init, P!Init, Purchases!Keys, P!Keys, Purchases!NoKey, P!NoKey,
         Purchases!FreshBook, P!FreshBook
<1> QED
  BY <1>1, <1>2

LEMMA SameAsk ==
    /\ Wallet!Contended(Phone, uid[Phone]) <=> W!Contended(Phone, uid[Phone])
    /\ Wallet!Contended(Phone, Me) <=> W!Contended(Phone, Me)
    /\ \A kind, n : Wallet!Ask(Phone, kind, n) <=> W!Ask(Phone, kind, n)
<1>1. ASSUME NEW kind, NEW n PROVE Wallet!Ask(Phone, kind, n) <=> W!Ask(Phone, kind, n)
  <2> DEFINE c == Wallet!Cardinality(Wallet!InFlight)
             d == W!Cardinality(W!InFlight)
             v == IF Wallet!Cached(Phone, uid[Phone]) THEN Wallet!LocalView(Phone, uid[Phone])
                                                       ELSE Unanswered
             w == IF W!Cached(Phone, uid[Phone]) THEN W!LocalView(Phone, uid[Phone])
                                                  ELSE Unanswered
             Q(s) == [coinOps EXCEPT ![Phone] = Append(@,
                        [kind |-> kind, n |-> n, uid |-> uid[Phone], owned |-> TRUE, snap |-> s])]
  <2>1. c = d
    BY Zenon DEF Wallet!InFlight, W!InFlight, Wallet!Cardinality, W!Cardinality
  <2>2. Wallet!Cached(Phone, uid[Phone]) <=> W!Cached(Phone, uid[Phone])
    BY Zenon DEF Wallet!Cached, W!Cached
  <2>3. Wallet!LocalView(Phone, uid[Phone]) = W!LocalView(Phone, uid[Phone])
    BY Zenon DEF Wallet!LocalView, W!LocalView
  <2>4. v = w
    BY <2>2, <2>3
  <2>5. Wallet!Ask(Phone, kind, n) <=>
            /\ ~coinTrap[Phone] /\ uid[Phone] # NoUser /\ c < MaxOps
            /\ coinOps' = Q(v)
            /\ UNCHANGED <<points, uid, coins, pending, coinTrap, credited, debited>>
    BY DEF Wallet!Ask
  <2>6. W!Ask(Phone, kind, n) <=>
            /\ ~coinTrap[Phone] /\ uid[Phone] # NoUser /\ d < MaxOps
            /\ coinOps' = Q(w)
            /\ UNCHANGED <<points, uid, coins, pending, coinTrap, credited, debited>>
    BY DEF W!Ask
  <2> HIDE DEF c, d, v, w, Q
  <2> QED
    BY <2>1, <2>4, <2>5, <2>6
<1> QED
  BY <1>1 DEF Wallet!Contended, W!Contended

LEMMA WalletMoves == [Next]_vars => [W!Next]_walletVars
<1> SUFFICES ASSUME [Next]_vars PROVE [W!Next]_walletVars
  OBVIOUS
<1>0. ASSUME W!Next PROVE [W!Next]_walletVars
  BY <1>0
<1>1. CASE Login
  BY <1>0, <1>1 DEF Login, W!Next, Wallet!Login, W!Login, Wallet!Taint, W!Taint
<1>2. ASSUME NEW n \in Packs, BuyCoins(n) PROVE [W!Next]_walletVars
  <2>1. W!StartAdd(Phone, n)
    BY <1>2, SameAsk DEF BuyCoins, Wallet!StartAdd, W!StartAdd, Wallet!Taint, W!Taint
  <2> QED
    BY <1>0, <2>1 DEF W!Next
<1>3. CASE ConfirmPurchase
  <2>1. W!StartRedeem(Phone)
    BY <1>3, SameAsk DEF ConfirmPurchase, Wallet!StartRedeem, W!StartRedeem, Wallet!Taint, W!Taint
  <2> QED
    BY <1>0, <2>1 DEF W!Next
<1>4. CASE CloseDetail \/ CloseBuyCoins
  <2>1. UNCHANGED walletVars \/ W!Leave(Phone)
    BY <1>4 DEF CloseDetail, CloseBuyCoins, Abandon, Wallet!Leave, W!Leave, Wallet!Disown, W!Disown
  <2> QED
    BY <1>0, <2>1 DEF W!Next
<1>5. CASE Browse
  BY <1>5 DEF Browse
<1>6. CASE BalanceAnswered
  <2>1. W!Answer(Phone, Me)
    BY <1>6 DEF BalanceAnswered, Wallet!Answer, W!Answer, Wallet!AnswerAll, W!AnswerAll,
                Wallet!LocalView, W!LocalView
  <2> QED
    BY <1>0, <2>1 DEF W!Next
<1>7. CASE CoinsAdded
  <2>1. W!AddCallback(Phone)
    BY <1>7 DEF CoinsAdded, Wallet!AddCallback, W!AddCallback, Wallet!CallbackDue, W!CallbackDue,
                Wallet!Held, W!Held, Wallet!Write, W!Write, Wallet!AnswerAll, W!AnswerAll,
                Wallet!Complete, W!Complete, Wallet!Taint, W!Taint, Wallet!Mixed, W!Mixed
  <2> QED
    BY <1>0, <2>1 DEF W!Next, W!Callback
<1>8. CASE EpisodeGranted
  <2>1. W!RedeemCallback(Phone)
    BY <1>8 DEF EpisodeGranted, Wallet!RedeemCallback, W!RedeemCallback,
                Wallet!CallbackDue, W!CallbackDue, Wallet!Affordable, W!Affordable,
                Wallet!Held, W!Held, Wallet!Write, W!Write, Wallet!AnswerAll, W!AnswerAll,
                Wallet!Complete, W!Complete, Wallet!Taint, W!Taint, Wallet!Mixed, W!Mixed
  <2> QED
    BY <1>0, <2>1 DEF W!Next, W!Callback
<1>9. CASE EpisodeRefused
  <2>1. W!RefuseCallback(Phone)
    BY <1>9 DEF EpisodeRefused, Wallet!RefuseCallback, W!RefuseCallback,
                Wallet!CallbackDue, W!CallbackDue, Wallet!Affordable, W!Affordable,
                Wallet!Held, W!Held, Wallet!Complete, W!Complete, Wallet!Taint, W!Taint,
                Wallet!Mixed, W!Mixed
  <2> QED
    BY <1>0, <2>1 DEF W!Next, W!Callback
<1>10. CASE Deliver
  <2>1. UNCHANGED walletVars \/ W!Deliver(Phone, Me)
    BY <1>10 DEF Deliver, Wallet!Deliver, W!Deliver
  <2> QED
    BY <1>0, <2>1 DEF W!Next
<1>11. CASE Refuse
  <2>1. UNCHANGED walletVars \/ W!Reject(Phone, Me)
    BY <1>11 DEF Refuse, Wallet!Reject, W!Reject, Wallet!Taint, W!Taint
  <2> QED
    BY <1>0, <2>1 DEF W!Next
<1>12. CASE Relaunch
  <2>1. W!Relaunch(Phone)
    BY <1>12 DEF Relaunch, Wallet!Relaunch, W!Relaunch, Wallet!Taint, W!Taint
  <2> QED
    BY <1>0, <2>1 DEF W!Next
<1>13. CASE UNCHANGED vars
  BY <1>13 DEF vars
<1> QED
  BY <1>1, <1>2, <1>3, <1>4, <1>5, <1>6, <1>7, <1>8, <1>9, <1>10, <1>11, <1>12, <1>13 DEF Next

LEMMA PurchasesMove == [Next]_vars => [P!Next]_purchaseVars
<1> SUFFICES ASSUME [Next]_vars PROVE [P!Next]_purchaseVars
  OBVIOUS
<1> USE DEF Purchases!screen, P!screen
<1>0. ASSUME P!Next PROVE [P!Next]_purchaseVars
  BY <1>0
<1>1. CASE Login \/ (\E n \in Packs : BuyCoins(n)) \/ CloseBuyCoins \/ BalanceAnswered \/ CoinsAdded
  BY <1>1 DEF Login, BuyCoins, CloseBuyCoins, BalanceAnswered, CoinsAdded
<1>2. CASE ConfirmPurchase
  <2>1. P!ConfirmPurchase
    BY <1>2 DEF ConfirmPurchase, Purchases!ConfirmPurchase, P!ConfirmPurchase,
                Purchases!IndexToRemember, P!IndexToRemember, Purchases!Shown, P!Shown
  <2> QED
    BY <1>0, <2>1 DEF P!Next
<1>3. CASE CloseDetail
  <2>1. P!CloseDetail
    BY <1>3 DEF CloseDetail, Purchases!CloseDetail, P!CloseDetail, Purchases!FreshBook, P!FreshBook,
                Purchases!NoKey, P!NoKey
  <2> QED
    BY <1>0, <2>1 DEF P!Next
<1>4. CASE Browse
  <2>1. ASSUME Purchases!FetchStart PROVE P!FetchStart
    BY <2>1 DEF Purchases!FetchStart, P!FetchStart
  <2>2. ASSUME Purchases!FetchAnswer PROVE P!FetchAnswer
    BY <2>2 DEF Purchases!FetchAnswer, P!FetchAnswer, Purchases!PurchasedBooks, P!PurchasedBooks,
                Purchases!Newest, P!Newest, Purchases!LastWrite, P!LastWrite, Purchases!Keys, P!Keys
  <2>3. ASSUME Purchases!FetchApply PROVE P!FetchApply
    BY <2>3 DEF Purchases!FetchApply, P!FetchApply
  <2>4. ASSUME Purchases!RefreshCatalogue PROVE P!RefreshCatalogue
    BY <2>4 DEF Purchases!RefreshCatalogue, P!RefreshCatalogue, Purchases!FreshBook, P!FreshBook,
                Purchases!NoKey, P!NoKey
  <2>5. ASSUME Purchases!OpenDetail PROVE P!OpenDetail
    BY <2>5 DEF Purchases!OpenDetail, P!OpenDetail, Purchases!FreshBook, P!FreshBook,
                Purchases!NoKey, P!NoKey, Purchases!Drawn, P!Drawn, Purchases!UpToDate, P!UpToDate,
                Purchases!PurchasedBooks, P!PurchasedBooks,
                Purchases!Newest, P!Newest, Purchases!LastWrite, P!LastWrite, Purchases!Keys, P!Keys
  <2>6. ASSUME NEW e \in Episodes, Purchases!TapPurchase(e) PROVE P!TapPurchase(e)
    BY <2>6 DEF Purchases!TapPurchase, P!TapPurchase
  <2>7. ASSUME Purchases!NotNow PROVE P!NotNow
    BY <2>7 DEF Purchases!NotNow, P!NotNow
  <2>8. ASSUME Purchases!ReadAfterSuccess PROVE P!ReadAfterSuccess
    BY <2>8 DEF Purchases!ReadAfterSuccess, P!ReadAfterSuccess, Purchases!Show, P!Show,
                Purchases!Drawn, P!Drawn, Purchases!Shown, P!Shown
  <2> QED
    BY <1>0, <1>4, <2>1, <2>2, <2>3, <2>4, <2>5, <2>6, <2>7, <2>8 DEF Browse, P!Next
<1>5. CASE EpisodeGranted
  <2>1. P!PurchaseGranted
    BY <1>5 DEF EpisodeGranted, Purchases!PurchaseGranted, P!PurchaseGranted,
                Purchases!RecordKey, P!RecordKey, Purchases!Index, P!Index, Purchases!NoKey, P!NoKey,
                Purchases!Show, P!Show, Purchases!Shown, P!Shown
  <2> QED
    BY <1>0, <2>1 DEF P!Next
<1>6. CASE EpisodeRefused
  <2>1. P!PurchaseRefused
    BY <1>6 DEF EpisodeRefused, Purchases!PurchaseRefused, P!PurchaseRefused,
                Purchases!Show, P!Show, Purchases!Shown, P!Shown
  <2> QED
    BY <1>0, <2>1 DEF P!Next
<1>7. CASE Deliver
  <2>1. UNCHANGED purchaseVars \/ P!Deliver
    BY <1>7 DEF Deliver, Purchases!Deliver, P!Deliver
  <2> QED
    BY <1>0, <2>1 DEF P!Next
<1>8. CASE Refuse
  <2>1. UNCHANGED purchaseVars \/ P!Reject
    BY <1>8 DEF Refuse, Purchases!Reject, P!Reject
  <2> QED
    BY <1>0, <2>1 DEF P!Next
<1>9. CASE Relaunch
  <2>1. P!Relaunch
    BY <1>9 DEF Relaunch, Purchases!Relaunch, P!Relaunch, Purchases!Forget, P!Forget,
                Purchases!FreshBook, P!FreshBook, Purchases!NoKey, P!NoKey
  <2> QED
    BY <1>0, <2>1 DEF P!Next
<1>10. CASE UNCHANGED vars
  BY <1>10 DEF vars
<1> QED
  BY <1>1, <1>2, <1>3, <1>4, <1>5, <1>6, <1>7, <1>8, <1>9, <1>10 DEF Next

-----------------------------------------------------------------------------
(* Types *)

\* The two components' inductive invariants, and the types of what joins them.
Parts ==
    /\ W!WalletInv
    /\ P!Paid
    /\ wire \in Seq({"coins", "record"})
    /\ spoiled \subseteq {"overlap", "refusal"}

LEMMA PartsInit == Init => Parts
BY SameInit, WalletInit, PurchasesInit DEF Init, Parts

LEMMA PartsStep == Parts /\ [Next]_vars => Parts'
<1> SUFFICES ASSUME Parts, [Next]_vars PROVE Parts'
  OBVIOUS
<1>0. wire \in Seq({"coins", "record"}) /\ spoiled \subseteq {"overlap", "refusal"}
  BY DEF Parts
<1>1. W!WalletInv' /\ P!Paid'
  BY WalletMoves, WalletStep, PurchasesMove, PurchasesStep DEF Parts
<1>2. wire' \in Seq({"coins", "record"})
  <2>1. CASE CoinsAdded
    BY <1>0, <2>1 DEF CoinsAdded
  <2>2. CASE EpisodeGranted
    <3>1. <<"coins", "record">> \in Seq({"coins", "record"})
      OBVIOUS
    <3> QED
      BY <1>0, <2>2, <3>1 DEF EpisodeGranted, CoinsThenRecord
  <2>3. CASE Deliver \/ Refuse
    BY <1>0, <2>3 DEF Deliver, Refuse
  <2>4. CASE Relaunch
    BY <2>4 DEF Relaunch
  <2>5. CASE UNCHANGED wire
    BY <1>0, <2>5
  <2>6. UNCHANGED vars \/ Login \/ (\E n \in Packs : BuyCoins(n)) \/ ConfirmPurchase \/ CloseDetail
            \/ CloseBuyCoins \/ Browse \/ BalanceAnswered \/ EpisodeRefused => UNCHANGED wire
    BY DEF vars, Login, BuyCoins, ConfirmPurchase, CloseDetail, CloseBuyCoins, Browse,
           BalanceAnswered, EpisodeRefused
  <2> QED
    BY <2>1, <2>2, <2>3, <2>4, <2>5, <2>6 DEF Next
<1>3. spoiled' \subseteq spoiled \cup {"overlap", "refusal"}
  BY DEF Next, vars, Login, BuyCoins, ConfirmPurchase, CloseDetail, CloseBuyCoins, Browse,
         BalanceAnswered, CoinsAdded, EpisodeGranted, EpisodeRefused, Deliver, Refuse, Relaunch,
         NoteOverlap
<1> QED
  BY <1>0, <1>1, <1>2, <1>3 DEF Parts

LEMMA PartsInvariant == Spec => []Parts
BY PartsInit, PartsStep, PTL DEF Spec

\* Type correctness of the shop: what redeemCoins' callback hands to purchaseBook's
\* leaves both components in states of theirs, and the bounds of neither are passed.
THEOREM ShopTypeOK == Spec => []TypeOK
<1>1. Parts => TypeOK
  <2> SUFFICES ASSUME Parts PROVE TypeOK
    OBVIOUS
  <2>1. Wallet!TypeOK
    <3>1. W!TypeOK
      BY DEF Parts, W!WalletInv, W!Solvent
    <3> QED
      BY <3>1 DEF W!TypeOK, Wallet!TypeOK, W!Snapshot, Wallet!Snapshot, W!Op, Wallet!Op
  <2>2. Purchases!TypeOK
    <3>1. P!TypeOK
      BY DEF Parts, P!Paid
    <3> QED
      BY <3>1 DEF P!TypeOK, Purchases!TypeOK, P!Keys, Purchases!Keys, P!NoKey, Purchases!NoKey,
                  P!Book, Purchases!Book, P!RecordWrite, Purchases!RecordWrite, P!Op, Purchases!Op
  <2> QED
    BY <2>1, <2>2 DEF Parts, TypeOK
<1> QED
  BY <1>1, PartsInvariant, PTL

-----------------------------------------------------------------------------
(* The shop implements the bookshop *)

\* In the shop the wallet and the purchases behave as by themselves.
LEMMA ShopIsBoth == Spec => W!Spec /\ P!Spec
<1>1. Init => W!Init /\ P!Init
  BY SameInit DEF Init
<1>2. [Next]_vars => [W!Next]_(W!vars)
  BY WalletMoves DEF walletVars, W!vars
<1>3. [Next]_vars => [P!Next]_(P!vars)
  BY PurchasesMove DEF purchaseVars, P!vars
<1> QED
  BY <1>1, <1>2, <1>3, PTL DEF Spec, W!Spec, P!Spec

LEMMA FaithfulInShop == Spec => []P!Faithful
<1>1. P!Spec => []P!Faithful
  BY ShopAssumption, P!FaithfulInvariant
<1> QED
  BY <1>1, ShopIsBoth, PTL

\* The account as the phone sees it, and as the history has it.
Seen ==
    IF Clean THEN [purse |-> Wallet!Purse(Me),
                   owned |-> UNION {Purchases!Newest(k) : k \in Purchases!Keys}]
             ELSE Void

Told ==
    IF Clean THEN [purse |-> credited[Me] - BookCoin * debited[Me], owned |-> P!Bought]
             ELSE Void

Agree == Seen = Told

LEMMA SeenAsTold == Parts /\ P!Faithful => Agree
<1> SUFFICES ASSUME Parts, P!Faithful, Clean PROVE Seen = Told
  BY DEF Agree, Seen, Told
<1>1. Wallet!Purse(Me) = credited[Me] - BookCoin * debited[Me]
  <2>1. W!Accountable(Me)
    BY DEF Parts, W!WalletInv, Clean
  <2>2. W!Purse(Me) = W!Earned(Me)
    BY <2>1, ShopAssumption, W!PurseIsEarned
  <2>3. Wallet!Purse(Me) = W!Purse(Me)
    BY Zenon DEF Wallet!Purse, W!Purse, Wallet!LocalView, W!LocalView
  <2> QED
    BY <2>2, <2>3 DEF W!Earned
<1>2. UNION {Purchases!Newest(k) : k \in Purchases!Keys} = P!Bought
  <2>1. P!Recorded
    BY DEF P!Faithful, Clean
  <2>2. UNION {P!Newest(k) : k \in P!Keys} = P!Bought
    BY <2>1 DEF P!Recorded
  <2>3. UNION {Purchases!Newest(k) : k \in Purchases!Keys} = UNION {P!Newest(k) : k \in P!Keys}
    BY Zenon DEF Purchases!Newest, P!Newest, Purchases!LastWrite, P!LastWrite, Purchases!Keys, P!Keys
  <2> QED
    BY <2>2, <2>3
<1> QED
  BY <1>1, <1>2 DEF Seen, Told

\* An account that is still clean was clean before.
LEMMA CleanBefore == Parts /\ [Next]_vars /\ Clean' => Clean
<1> SUFFICES ASSUME Parts, [Next]_vars, Clean' PROVE Clean
  OBVIOUS
<1>1. mishaps = {}
  <2>1. [P!Next]_(P!vars)
    BY PurchasesMove DEF purchaseVars, P!vars
  <2>2. mishaps \subseteq mishaps'
    BY <2>1, ShopAssumption, P!MishapsGrow
  <2> QED
    BY <2>2 DEF Clean
<1>2. spoiled = {}
  BY DEF Clean, Next, vars, Login, BuyCoins, ConfirmPurchase, CloseDetail, CloseBuyCoins, Browse,
         BalanceAnswered, CoinsAdded, EpisodeGranted, EpisodeRefused, Deliver, Refuse, Relaunch,
         NoteOverlap
<1>3. sound[Me]
  <2>1. [W!Next]_walletVars
    BY WalletMoves
  <2> QED
    BY <2>1 DEF Clean, walletVars, W!Next, W!StartShow, W!StartAdd, W!StartRedeem, W!Ask, W!Answer,
                W!Deliver, W!Reject, W!Login, W!Callback, W!ShowCallback, W!AddCallback,
                W!RedeemCallback, W!RefuseCallback, W!Leave, W!Logout, W!Relaunch, W!Taint
<1> QED
  BY <1>1, <1>2, <1>3 DEF Clean

\* Nothing is credited, debited or granted.
\* Only the two callbacks that write a balance credit, debit or grant.
LEMMA SalesOnly ==
    ASSUME [Next]_vars
    PROVE  CoinsAdded \/ EpisodeGranted \/ UNCHANGED <<credited, debited, bought>>
<1>1. ASSUME UNCHANGED walletVars PROVE UNCHANGED <<credited, debited>>
  BY <1>1 DEF walletVars
<1>2. ASSUME UNCHANGED purchaseVars PROVE UNCHANGED bought
  BY <1>2 DEF purchaseVars
<1>3. CASE CloseDetail \/ CloseBuyCoins
  <2>1. UNCHANGED bought
    BY <1>2, <1>3 DEF CloseDetail, CloseBuyCoins, Purchases!CloseDetail
  <2>2. UNCHANGED <<credited, debited>>
    BY <1>1, <1>3 DEF CloseDetail, CloseBuyCoins, Abandon, Wallet!Leave
  <2> QED
    BY <2>1, <2>2
<1>4. CASE Browse
  <2>1. UNCHANGED bought
    BY <1>4 DEF Browse, Purchases!FetchStart, Purchases!FetchAnswer, Purchases!FetchApply,
           Purchases!RefreshCatalogue, Purchases!OpenDetail, Purchases!TapPurchase,
           Purchases!NotNow, Purchases!ReadAfterSuccess
  <2>2. UNCHANGED <<credited, debited>>
    BY <1>1, <1>4 DEF Browse
  <2> QED
    BY <2>1, <2>2
<1>5. CASE Login \/ (\E n \in Packs : BuyCoins(n)) \/ ConfirmPurchase \/ BalanceAnswered
  BY <1>2, <1>5 DEF Login, BuyCoins, ConfirmPurchase, BalanceAnswered, Wallet!Login,
         Wallet!StartAdd, Wallet!StartRedeem, Wallet!Ask, Wallet!Answer, Purchases!ConfirmPurchase
<1>6. CASE EpisodeRefused \/ Deliver \/ Refuse \/ Relaunch
  BY <1>1, <1>2, <1>6 DEF EpisodeRefused, Deliver, Refuse, Relaunch, Wallet!RefuseCallback,
         Purchases!PurchaseRefused, Wallet!Deliver, Purchases!Deliver, Wallet!Reject,
         Purchases!Reject, Wallet!Relaunch, Purchases!Relaunch
<1>7. CASE UNCHANGED vars
  BY <1>7 DEF vars, walletVars, purchaseVars
<1> QED
  BY <1>3, <1>4, <1>5, <1>6, <1>7 DEF Next

LEMMA NothingSold ==
    ASSUME Agree, Agree', Clean' => Clean,
           credited'[Me] = credited[Me], debited'[Me] = debited[Me], bought' = bought
    PROVE  [Bookshop!Next]_Seen
<1>1. CASE Clean'
  <2>1. Told' = Told
    BY <1>1 DEF Told, P!Bought
  <2> QED
    BY <2>1 DEF Agree
<1>2. CASE ~Clean'
  <2>1. Bookshop!GiveUp
    BY <1>2 DEF Bookshop!GiveUp, Seen
  <2> QED
    BY <2>1 DEF Bookshop!Next
<1> QED
  BY <1>1, <1>2

LEMMA PackFillsPurse ==
    ASSUME Parts, Agree, Agree', Clean' => Clean, CoinsAdded
    PROVE  [Bookshop!Next]_Seen
<1>1. /\ Head(coinOps[Phone]).n \in Packs
      /\ credited[Me] \in Nat /\ debited[Me] \in Nat
      /\ uid[Phone] = Me
  <2>1. W!Solvent /\ W!Priced /\ Wallet!CallbackDue(Phone, "add") /\ uid[Phone] = Me
    BY DEF Parts, W!WalletInv, CoinsAdded, Wallet!AddCallback, InTabs
  <2>2. coinOps[Phone] \in Seq(W!SolventOp) /\ credited[Me] \in Nat /\ debited[Me] \in Nat
    BY <2>1 DEF W!Solvent, W!TypeOK
  <2>3. coinOps[Phone] # <<>> /\ Head(coinOps[Phone]).kind = "add"
    BY <2>1 DEF Wallet!CallbackDue
  <2>4. 1 \in DOMAIN coinOps[Phone] /\ Head(coinOps[Phone]) = coinOps[Phone][1]
    BY <2>2, <2>3
  <2> QED
    BY <2>1, <2>2, <2>3, <2>4 DEF W!Priced
<1>2. /\ credited'[Me] = credited[Me] + Head(coinOps[Phone]).n
      /\ debited' = debited /\ bought' = bought
  BY <1>1 DEF CoinsAdded, Wallet!AddCallback, purchaseVars
<1> DEFINE n == Head(coinOps[Phone]).n
           paid == BookCoin * debited[Me]
<1>3. CASE Clean'
  <2>0. n \in Int /\ n \in Packs
    <3>1. n \in Packs
      BY <1>1
    <3> HIDE DEF n
    <3> QED
      BY <3>1, ShopAssumption
  <2>1. paid \in Int
    <3>1. \A a, b \in Nat : a * b \in Int
      OBVIOUS
    <3> HIDE DEF n
    <3> QED
      BY <1>1, <3>1, ShopAssumption
  <2>2. Told = [purse |-> credited[Me] - paid, owned |-> P!Bought]
    BY <1>3 DEF Told
  <2>3. Told' = [purse |-> (credited[Me] + n) - paid, owned |-> P!Bought]
    <3>1. P!Bought' = P!Bought
      BY <1>2 DEF P!Bought
    <3> QED
      BY <1>2, <1>3, <3>1 DEF Told
  <2> HIDE DEF n, paid
  <2>4. Told' = [Told EXCEPT !.purse = @ + n]
    BY <1>1, <2>0, <2>1, <2>2, <2>3
  <2>5. P!Bought \subseteq Episodes
    <3>1. bought \in Seq(Episodes)
      BY DEF Parts, P!Paid, P!TypeOK
    <3> QED
      BY <3>1 DEF P!Bought
  <2>6. Told # Void
    BY <1>1, <2>1, <2>2, <2>5, ShopAssumption
  <2>7. Seen # Void /\ Seen' = [Seen EXCEPT !.purse = @ + n]
    BY <2>4, <2>6 DEF Agree
  <2>8. Bookshop!FillPurse(n)
    BY <2>7 DEF Bookshop!FillPurse, Seen
  <2> QED
    BY <2>0, <2>8 DEF Bookshop!Next
<1>4. CASE ~Clean'
  <2>1. Bookshop!GiveUp
    BY <1>4 DEF Bookshop!GiveUp, Seen
  <2> QED
    BY <2>1 DEF Bookshop!Next
<1> QED
  BY <1>3, <1>4

LEMMA EpisodeIsBought ==
    ASSUME Parts, P!Faithful, Agree, Agree', Clean' => Clean, EpisodeGranted
    PROVE  [Bookshop!Next]_Seen
<1>1. /\ Wallet!RedeemCallback(Phone) /\ Purchases!PurchaseGranted /\ uid[Phone] = Me
      /\ W!Solvent /\ W!Priced /\ P!TypeOK
  BY DEF EpisodeGranted, InTabs, Parts, W!WalletInv, P!Paid
<1>2. /\ credited[Me] \in Nat /\ debited[Me] \in Nat
      /\ coinOps[Phone] # <<>> /\ Head(coinOps[Phone]).kind = "redeem"
      /\ Head(coinOps[Phone]).snap # Unanswered
      /\ Head(coinOps[Phone]).n = BookCoin
  <2>1. /\ coinOps[Phone] \in Seq(W!SolventOp) /\ credited[Me] \in Nat /\ debited[Me] \in Nat
    BY <1>1 DEF W!Solvent, W!TypeOK
  <2>2. /\ coinOps[Phone] # <<>> /\ Head(coinOps[Phone]).kind = "redeem"
        /\ Head(coinOps[Phone]).snap # Unanswered
    BY <1>1 DEF Wallet!RedeemCallback, Wallet!CallbackDue
  <2>3. 1 \in DOMAIN coinOps[Phone] /\ Head(coinOps[Phone]) = coinOps[Phone][1]
    BY <2>1, <2>2
  <2> QED
    BY <1>1, <2>1, <2>2, <2>3 DEF W!Priced
<1>3. PICK e : e = Head(ops).e
  OBVIOUS
<1>4. /\ e \in Episodes /\ bought \in Seq(Episodes) /\ bought' = Append(bought, e)
      /\ 1 \in DOMAIN ops /\ e = ops[1].e
  <2>1. ops \in Seq(P!Op) /\ bought \in Seq(Episodes)
    BY <1>1 DEF P!TypeOK
  <2>2. ops # <<>> /\ bought' = Append(bought, e)
    BY <1>1, <1>3 DEF Purchases!PurchaseGranted
  <2>3. 1 \in DOMAIN ops /\ Head(ops) = ops[1] /\ ops[1] \in P!Op
    BY <2>1, <2>2
  <2> QED
    BY <1>3, <2>1, <2>2, <2>3 DEF P!Op
<1>5. /\ credited' = credited /\ debited'[Me] = debited[Me] + 1
      /\ P!Bought' = P!Bought \cup {e} /\ P!Bought \subseteq Episodes
  <2>1. credited' = credited /\ debited'[Me] = debited[Me] + 1
    BY <1>1 DEF Wallet!RedeemCallback
  <2>2. P!Bought' = P!Bought \cup {e}
    BY <1>1, <1>4, ShopAssumption, P!BoughtAppended
  <2> QED
    BY <1>4, <2>1, <2>2 DEF P!Bought
<1> DEFINE paid == BookCoin * debited[Me]
           purse == credited[Me] - paid
<1>6. CASE Clean'
  <2>1. paid \in Int /\ BookCoin * (debited[Me] + 1) = paid + BookCoin
    BY <1>2, ShopAssumption
  <2>2. Told = [purse |-> purse, owned |-> P!Bought]
    BY <1>6 DEF Told
  <2>3. Told' = [purse |-> credited[Me] - (paid + BookCoin), owned |-> P!Bought \cup {e}]
    BY <1>5, <1>6, <2>1 DEF Told
  <2>4. purse >= BookCoin
    <3>1. Wallet!Held(Phone, Head(coinOps[Phone])) >= BookCoin
      BY <1>1, <1>2 DEF Wallet!RedeemCallback, Wallet!Affordable
    <3>2. Head(coinOps[Phone]).uid = Me
      BY <1>1, <1>6 DEF Wallet!RedeemCallback, Wallet!Taint, Wallet!Mixed, Clean
    <3>3. W!Accountable(Me)
      BY <1>6 DEF Parts, W!WalletInv, Clean
    <3>4. W!Changes(Head(coinOps[Phone]), Me)
      BY <1>2, <3>2 DEF W!Changes
    <3>5. W!Held(Phone, Head(coinOps[Phone])) = W!Earned(Me)
      BY <1>1, <1>2, <3>3, <3>4, ShopAssumption, W!HeldIsEarned
    <3> QED
      BY <3>1, <3>5 DEF W!Held, Wallet!Held, W!Earned
  <2>5. e \notin P!Bought
    BY <1>4, <1>6 DEF P!Faithful, P!Working, Clean
  <2> HIDE DEF paid
  <2>6. purse \in Int /\ credited[Me] - (paid + BookCoin) = purse - BookCoin
    BY <1>2, <2>1, ShopAssumption
  <2> HIDE DEF purse
  <2>7. Told # Void
    BY <1>5, <2>2, <2>6, ShopAssumption
  <2>8. /\ Seen # Void /\ Seen.purse >= BookCoin /\ e \notin Seen.owned
        /\ Seen' = [purse |-> Seen.purse - BookCoin, owned |-> Seen.owned \cup {e}]
    BY <2>2, <2>3, <2>4, <2>5, <2>6, <2>7 DEF Agree
  <2>9. Bookshop!Buy(e)
    BY <2>8 DEF Bookshop!Buy, Seen
  <2> QED
    BY <1>4, <2>9 DEF Bookshop!Next
<1>7. CASE ~Clean'
  <2>1. Bookshop!GiveUp
    BY <1>7 DEF Bookshop!GiveUp, Seen
  <2> QED
    BY <2>1 DEF Bookshop!Next
<1> QED
  BY <1>6, <1>7

\* The shop implements the bookshop: while nothing interferes, what purchaseBook,
\* redeemCoins and their two writes make of a confirmed purchase is one step, which
\* takes the price of an episode that was not owned out of a purse that covers it,
\* and no other step of either component shows.
THEOREM ShopImplementsBookshop == Spec => ImplementsBookshop
<1>1. Init => Bookshop!Init
  <2> SUFFICES ASSUME Init PROVE Bookshop!Init
    OBVIOUS
  <2>1. Wallet!Purse(Me) = 0 /\ Clean
    BY DEF Init, Wallet!Init, Purchases!Init, Wallet!Purse, Clean
  <2>2. P!Recorded /\ P!Bought = {}
    <3>1. P!Init
      BY SameInit DEF Init
    <3>2. P!Recorded
      BY <3>1, ShopAssumption, P!FaithfulInit
    <3>3. bought = <<>>
      BY <3>1 DEF P!Init
    <3> QED
      BY <3>2, <3>3, EmptySeq DEF P!Bought
  <2>3. UNION {Purchases!Newest(k) : k \in Purchases!Keys} = UNION {P!Newest(k) : k \in P!Keys}
    BY Zenon DEF Purchases!Newest, P!Newest, Purchases!LastWrite, P!LastWrite, Purchases!Keys, P!Keys
  <2>4. UNION {P!Newest(k) : k \in P!Keys} = {}
    BY <2>2 DEF P!Recorded
  <2> QED
    BY <2>1, <2>3, <2>4 DEF Bookshop!Init
<1>2. ASSUME Parts, P!Faithful, Agree, Agree', [Next]_vars
      PROVE  [Bookshop!Next]_Seen
  <2>0. Clean' => Clean
    BY <1>2, CleanBefore
  <2>1. CASE CoinsAdded
    BY <1>2, <2>0, <2>1, PackFillsPurse
  <2>2. CASE EpisodeGranted
    BY <1>2, <2>0, <2>2, EpisodeIsBought
  <2>3. ASSUME credited' = credited, debited' = debited, bought' = bought
        PROVE  [Bookshop!Next]_Seen
    BY <1>2, <2>0, <2>3, NothingSold
  <2>4. \/ CoinsAdded \/ EpisodeGranted
        \/ UNCHANGED <<credited, debited, bought>>
    BY <1>2, SalesOnly
  <2> QED
    BY <2>1, <2>2, <2>3, <2>4
<1> QED
  BY <1>1, <1>2, SeenAsTold, PartsInvariant, FaithfulInShop, PTL
     DEF Spec, ImplementsBookshop, Bookshop!Spec, Seen

-----------------------------------------------------------------------------
(* The order of the writes.  Walking along the wire, c and r count the writes *)
(* of either kind: after i of them the server holds a balance and lists the   *)
(* episodes of some records, and the one must be covered by the other.        *)

Path(w, n, m, c, r) ==
    /\ c \in [0..Len(w) -> 0..n] /\ r \in [0..Len(w) -> 0..m]
    /\ c[0] = 0 /\ r[0] = 0
    /\ c[Len(w)] = n /\ r[Len(w)] = m
    /\ \A i \in 1..Len(w) : /\ c[i] = c[i - 1] + (IF w[i] = "coins" THEN 1 ELSE 0)
                            /\ r[i] = r[i - 1] + (IF w[i] = "record" THEN 1 ELSE 0)
    /\ \A i, j \in 0..Len(w) : i <= j => c[i] <= c[j] /\ r[i] <= r[j]

LEMMA PathAppended ==
    ASSUME NEW w \in Seq({"coins", "record"}), NEW t \in {"coins", "record"},
           NEW n \in Nat, NEW m \in Nat, NEW c, NEW r, Path(w, n, m, c, r),
           NEW a, a = (IF t = "coins" THEN 1 ELSE 0),
           NEW b, b = (IF t = "record" THEN 1 ELSE 0)
    PROVE  \E d, s : /\ Path(Append(w, t), n + a, m + b, d, s)
                     /\ \A i \in 0..Len(w) : d[i] = c[i] /\ s[i] = r[i]
<1>0. a \in {0, 1} /\ b \in {0, 1}
  OBVIOUS
<1>1. PICK v : v = Append(w, t)
  OBVIOUS
<1>2. /\ Len(w) \in Nat /\ Len(v) = Len(w) + 1
      /\ v[Len(w) + 1] = t /\ \A i \in 1..Len(w) : v[i] = w[i]
  BY <1>1
<1>3. PICK l \in Nat : l = Len(w)
  BY <1>2
<1>4. /\ c \in [0..l -> 0..n] /\ r \in [0..l -> 0..m] /\ c[0] = 0 /\ r[0] = 0
      /\ c[l] = n /\ r[l] = m
      /\ \A i \in 1..l : /\ c[i] = c[i - 1] + (IF w[i] = "coins" THEN 1 ELSE 0)
                         /\ r[i] = r[i - 1] + (IF w[i] = "record" THEN 1 ELSE 0)
      /\ \A i, j \in 0..l : i <= j => c[i] <= c[j] /\ r[i] <= r[j]
  BY <1>3 DEF Path
<1>5. PICK d : d = [i \in 0..(l + 1) |-> IF i <= l THEN c[i] ELSE n + a]
  OBVIOUS
<1>6. PICK s : s = [i \in 0..(l + 1) |-> IF i <= l THEN r[i] ELSE m + b]
  OBVIOUS
<1>7. /\ \A i \in 0..l : d[i] = c[i] /\ s[i] = r[i] /\ c[i] \in 0..n /\ r[i] \in 0..m
      /\ d[l + 1] = n + a /\ s[l + 1] = m + b
      /\ DOMAIN d = 0..(l + 1) /\ DOMAIN s = 0..(l + 1)
  BY <1>4, <1>5, <1>6
<1>8. d \in [0..(l + 1) -> 0..(n + a)] /\ s \in [0..(l + 1) -> 0..(m + b)]
  BY <1>0, <1>4, <1>5, <1>6
<1>9. d[0] = 0 /\ s[0] = 0
  BY <1>4, <1>7
<1>10. ASSUME NEW i \in 1..(l + 1)
       PROVE  /\ d[i] = d[i - 1] + (IF v[i] = "coins" THEN 1 ELSE 0)
              /\ s[i] = s[i - 1] + (IF v[i] = "record" THEN 1 ELSE 0)
  <2>1. CASE i = l + 1
    <3>1. d[i - 1] = n /\ s[i - 1] = m /\ v[i] = t
      BY <1>2, <1>3, <1>4, <1>7, <2>1
    <3> QED
      BY <1>7, <2>1, <3>1
  <2>2. CASE i \in 1..l
    <3>1. /\ i \in 0..l /\ i - 1 \in 0..l /\ v[i] = w[i]
      BY <1>2, <1>3, <2>2
    <3>2. d[i] = c[i] /\ s[i] = r[i] /\ d[i - 1] = c[i - 1] /\ s[i - 1] = r[i - 1]
      BY <1>7, <3>1
    <3> QED
      BY <1>4, <2>2, <3>1, <3>2
  <2> QED
    BY <2>1, <2>2
<1>11. ASSUME NEW i \in 0..(l + 1), NEW j \in 0..(l + 1), i <= j
       PROVE  d[i] <= d[j] /\ s[i] <= s[j]
  <2>1. CASE j = l + 1
    <3>1. i = l + 1 \/ i \in 0..l
      OBVIOUS
    <3>2. d[i] \in 0..(n + a) /\ s[i] \in 0..(m + b)
      BY <1>8
    <3> QED
      BY <1>0, <1>7, <2>1, <3>2
  <2>2. CASE j \in 0..l
    <3>1. i \in 0..l
      BY <1>11, <2>2
    <3> QED
      BY <1>4, <1>7, <1>11, <2>2, <3>1
  <2> QED
    BY <2>1, <2>2
<1>12. Path(v, n + a, m + b, d, s)
  BY <1>2, <1>3, <1>7, <1>8, <1>9, <1>10, <1>11 DEF Path
<1> QED
  BY <1>1, <1>3, <1>7, <1>12

LEMMA PathTail ==
    ASSUME NEW w \in Seq({"coins", "record"}), w # <<>>,
           NEW n \in Nat, NEW m \in Nat, NEW c, NEW r, Path(w, n, m, c, r),
           NEW a, a = (IF Head(w) = "coins" THEN 1 ELSE 0),
           NEW b, b = (IF Head(w) = "record" THEN 1 ELSE 0)
    PROVE  /\ a <= n /\ b <= m
           /\ \E d, s : /\ Path(Tail(w), n - a, m - b, d, s)
                        /\ \A i \in 0..(Len(w) - 1) :
                              /\ i + 1 \in 0..Len(w)
                              /\ c[i + 1] \in a..n /\ r[i + 1] \in b..m
                              /\ d[i] = c[i + 1] - a /\ s[i] = r[i + 1] - b
<1>0. a \in {0, 1} /\ b \in {0, 1}
  OBVIOUS
<1>1. PICK v : v = Tail(w)
  OBVIOUS
<1>2. /\ Len(w) \in Nat /\ Len(w) # 0 /\ Len(v) = Len(w) - 1 /\ Head(w) = w[1]
      /\ \A i \in 1..(Len(w) - 1) : v[i] = w[i + 1]
  BY <1>1, EmptySeq
<1>3. PICK l \in Nat : l = Len(w) - 1 /\ Len(w) = l + 1
  BY <1>2
<1>4. /\ c \in [0..(l + 1) -> 0..n] /\ r \in [0..(l + 1) -> 0..m] /\ c[0] = 0 /\ r[0] = 0
      /\ c[l + 1] = n /\ r[l + 1] = m
      /\ \A i \in 1..(l + 1) : /\ c[i] = c[i - 1] + (IF w[i] = "coins" THEN 1 ELSE 0)
                               /\ r[i] = r[i - 1] + (IF w[i] = "record" THEN 1 ELSE 0)
      /\ \A i, j \in 0..(l + 1) : i <= j => c[i] <= c[j] /\ r[i] <= r[j]
  BY <1>3 DEF Path
<1>5. c[1] = a /\ r[1] = b
  <2>1. 1 \in 1..(l + 1) /\ 1 - 1 = 0
    OBVIOUS
  <2>2. c[1] = c[0] + (IF w[1] = "coins" THEN 1 ELSE 0) /\ r[1] = r[0] + (IF w[1] = "record" THEN 1 ELSE 0)
    BY <1>4, <2>1
  <2> QED
    BY <1>2, <1>4, <2>2
<1>6. PICK d : d = [i \in 0..l |-> c[i + 1] - a]
  OBVIOUS
<1>7. PICK s : s = [i \in 0..l |-> r[i + 1] - b]
  OBVIOUS
<1>8. ASSUME NEW i \in 0..l
      PROVE  /\ i + 1 \in 0..(l + 1) /\ i + 1 \in 1..(l + 1)
             /\ c[i + 1] \in a..n /\ r[i + 1] \in b..m
             /\ d[i] = c[i + 1] - a /\ s[i] = r[i + 1] - b
  <2>1. i + 1 \in 0..(l + 1) /\ i + 1 \in 1..(l + 1) /\ 1 \in 0..(l + 1) /\ 1 <= i + 1
    OBVIOUS
  <2>2. c[i + 1] \in 0..n /\ r[i + 1] \in 0..m /\ c[1] <= c[i + 1] /\ r[1] <= r[i + 1]
    BY <1>4, <2>1
  <2>3. c[i + 1] \in a..n /\ r[i + 1] \in b..m
    BY <1>0, <1>5, <2>2
  <2> QED
    BY <1>6, <1>7, <2>1, <2>3
<1>9. DOMAIN d = 0..l /\ DOMAIN s = 0..l
  BY <1>6, <1>7
<1>10. d \in [0..l -> 0..(n - a)] /\ s \in [0..l -> 0..(m - b)]
  <2>1. ASSUME NEW i \in 0..l PROVE d[i] \in 0..(n - a) /\ s[i] \in 0..(m - b)
    <3>1. PICK x \in a..n : x = c[i + 1]
      BY <1>8
    <3>2. PICK y \in b..m : y = r[i + 1]
      BY <1>8
    <3>3. d[i] = x - a /\ s[i] = y - b
      BY <1>8, <3>1, <3>2
    <3> QED
      BY <1>0, <3>3
  <2> QED
    BY <1>6, <1>7, <2>1
<1>11. d[0] = 0 /\ s[0] = 0 /\ d[l] = n - a /\ s[l] = m - b
  <2>1. 0 \in 0..l /\ l \in 0..l /\ 0 + 1 = 1
    OBVIOUS
  <2>2. d[0] = c[1] - a /\ s[0] = r[1] - b /\ d[l] = c[l + 1] - a /\ s[l] = r[l + 1] - b
    BY <1>8, <2>1
  <2> QED
    BY <1>0, <1>4, <1>5, <2>2
<1>12. a <= n /\ b <= m
  <2>1. l \in 0..l
    OBVIOUS
  <2> QED
    BY <1>0, <1>8, <2>1
<1>13. ASSUME NEW i \in 1..l
       PROVE  /\ d[i] = d[i - 1] + (IF v[i] = "coins" THEN 1 ELSE 0)
              /\ s[i] = s[i - 1] + (IF v[i] = "record" THEN 1 ELSE 0)
  <2>1. i \in 0..l /\ i - 1 \in 0..l /\ (i - 1) + 1 = i /\ (i + 1) - 1 = i /\ i + 1 \in 1..(l + 1)
    OBVIOUS
  <2>2. v[i] = w[i + 1]
    BY <1>2, <1>3
  <2>3. /\ d[i] = c[i + 1] - a /\ s[i] = r[i + 1] - b /\ d[i - 1] = c[i] - a /\ s[i - 1] = r[i] - b
        /\ c[i] \in Int /\ r[i] \in Int
    <3>1. PICK j \in 0..l : j = i - 1 /\ j + 1 = i
      BY <2>1
    <3>2. d[j] = c[j + 1] - a /\ s[j] = r[j + 1] - b /\ c[j + 1] \in a..n /\ r[j + 1] \in b..m
      BY <1>8
    <3> QED
      BY <1>0, <1>8, <2>1, <3>1, <3>2
  <2>4. /\ c[i + 1] = c[i] + (IF v[i] = "coins" THEN 1 ELSE 0)
        /\ r[i + 1] = r[i] + (IF v[i] = "record" THEN 1 ELSE 0)
    BY <1>4, <2>1, <2>2
  <2> QED
    BY <1>0, <2>3, <2>4
<1>14. ASSUME NEW i \in 0..l, NEW j \in 0..l, i <= j
       PROVE  d[i] <= d[j] /\ s[i] <= s[j]
  <2>1. i + 1 \in 0..(l + 1) /\ j + 1 \in 0..(l + 1) /\ i + 1 <= j + 1
    BY <1>14
  <2>2. c[i + 1] <= c[j + 1] /\ r[i + 1] <= r[j + 1]
    BY <1>4, <2>1
  <2> QED
    BY <1>0, <1>8, <2>2
<1>15. Path(v, n - a, m - b, d, s)
  BY <1>2, <1>3, <1>9, <1>10, <1>11, <1>13, <1>14 DEF Path
<1> QED
  BY <1>1, <1>3, <1>8, <1>12, <1>15

\* Balance v and the price of the episodes S are covered by what was credited.
Backed(v, S, credit) ==
    IF v = Absent THEN S = {} ELSE v + BookCoin * Cardinality(S) <= credit

\* The balance after k writes of coins; the episodes listed after k writes of records.
ValueOf(point, p, k) == IF k = 0 THEN point ELSE p[k]
CoverOf(own, q, k) == own \cup UNION {q[j].eps : j \in 1..k}

Ordered(w, p, q, point, own, credit) ==
    \E c, r : /\ Path(w, Len(p), Len(q), c, r)
             /\ \A i \in 0..Len(w) : Backed(ValueOf(point, p, c[i]), CoverOf(own, q, r[i]), credit)

LEMMA PricesGrow ==
    ASSUME NEW a \in Nat, NEW b \in Nat, a <= b
    PROVE  BookCoin * a <= BookCoin * b /\ BookCoin * a \in Nat /\ BookCoin * b \in Nat
<1>1. \A k, x, y \in Nat : x <= y => k * x <= k * y /\ k * x \in Nat /\ k * y \in Nat
  OBVIOUS
<1> QED
  BY <1>1, ShopAssumption

\* Less is backed by more.
LEMMA BackedLess ==
    ASSUME NEW v \in Nat \cup {Absent}, NEW T, IsFiniteSet(T), NEW S, S \subseteq T,
           NEW old \in Nat, NEW new \in Nat, old <= new, Backed(v, T, old)
    PROVE  Backed(v, S, new)
<1>1. CASE v = Absent
  BY <1>1 DEF Backed
<1>2. CASE v # Absent
  <2>1. Cardinality(T) \in Nat /\ Cardinality(S) \in Nat /\ Cardinality(S) <= Cardinality(T)
    BY FS_Subset, FS_CardinalityType
  <2>2. PICK x \in Nat, y \in Nat : /\ x = BookCoin * Cardinality(S) /\ y = BookCoin * Cardinality(T)
                                   /\ x <= y
    BY <2>1, PricesGrow
  <2>3. v \in Nat /\ v + y <= old
    BY <1>2, <2>2 DEF Backed
  <2>4. v + x <= new
    BY <2>2, <2>3
  <2> QED
    BY <1>2, <2>2, <2>4 DEF Backed
<1> QED
  BY <1>1, <1>2

\* A balance that is backed is no more than what was credited.
LEMMA BackedValue ==
    ASSUME NEW v \in Nat, NEW S, IsFiniteSet(S), NEW credit \in Nat, Backed(v, S, credit)
    PROVE  v <= credit
<1>1. PICK x \in Nat : x = BookCoin * Cardinality(S)
  BY FS_CardinalityType, PricesGrow
<1>2. v + x <= credit
  BY <1>1, ShopAssumption DEF Backed
<1> QED
  BY <1>2

\* One episode more for its price.
LEMMA BackedBought ==
    ASSUME NEW S, IsFiniteSet(S), NEW e, NEW rest \in Nat, NEW credit \in Nat,
           Backed(rest + BookCoin, S, credit)
    PROVE  IsFiniteSet(S \cup {e}) /\ Backed(rest, S \cup {e}, credit)
<1>1. IsFiniteSet(S \cup {e}) /\ Cardinality(S) \in Nat
      /\ Cardinality(S \cup {e}) \in Nat /\ Cardinality(S \cup {e}) <= Cardinality(S) + 1
  BY FS_AddElement, FS_CardinalityType
<1>2. PICK x \in Nat : x = BookCoin * Cardinality(S \cup {e})
  BY <1>1, PricesGrow
<1>3. PICK y \in Nat : y = BookCoin * Cardinality(S)
  BY <1>1, PricesGrow
<1>4. x <= y + BookCoin
  <2>1. BookCoin * (Cardinality(S) + 1) = BookCoin * Cardinality(S) + BookCoin
    BY <1>1, ShopAssumption
  <2>2. x <= BookCoin * (Cardinality(S) + 1)
    BY <1>1, <1>2, PricesGrow
  <2> QED
    BY <1>3, <2>1, <2>2
<1>5. (rest + BookCoin) + y <= credit
  BY <1>3, ShopAssumption DEF Backed
<1>6. rest + x <= credit
  BY <1>4, <1>5, ShopAssumption
<1> QED
  BY <1>1, <1>2, <1>6, ShopAssumption DEF Backed

LEMMA OrderedEmpty ==
    ASSUME NEW point, NEW own, NEW credit, Backed(point, own, credit)
    PROVE  Ordered(<<>>, <<>>, <<>>, point, own, credit)
<1>1. PICK z : z = [i \in 0..0 |-> 0]
  OBVIOUS
<1>2. z \in [0..0 -> 0..0] /\ z[0] = 0
  BY <1>1
<1>3. Len(<<>>) = 0
  BY EmptySeq
<1>4. Path(<<>>, 0, 0, z, z)
  BY <1>2, <1>3 DEF Path
<1>5. CoverOf(own, <<>>, 0) = own
  BY DEF CoverOf
<1>6. \A i \in 0..0 : Backed(ValueOf(point, <<>>, z[i]), CoverOf(own, <<>>, z[i]), credit)
  BY <1>2, <1>5 DEF ValueOf
<1> QED
  BY <1>3, <1>4, <1>6 DEF Ordered

\* What the server holds now.
LEMMA OrderedNow ==
    ASSUME NEW w \in Seq({"coins", "record"}), NEW p, NEW q, NEW point, NEW own, NEW credit,
           Ordered(w, p, q, point, own, credit)
    PROVE  Backed(point, own, credit)
<1>1. PICK c, r : /\ Path(w, Len(p), Len(q), c, r)
                  /\ \A i \in 0..Len(w) : Backed(ValueOf(point, p, c[i]), CoverOf(own, q, r[i]), credit)
  BY DEF Ordered
<1>2. 0 \in 0..Len(w)
  OBVIOUS
<1>3. c[0] = 0 /\ r[0] = 0
  BY <1>1 DEF Path
<1>4. CoverOf(own, q, 0) = own
  BY DEF CoverOf
<1>5. Backed(ValueOf(point, p, 0), CoverOf(own, q, 0), credit)
  BY <1>1, <1>2, <1>3
<1> QED
  BY <1>4, <1>5 DEF ValueOf

\* The writes on their way: balances, and records of episodes out of T.
Writes(p, q, point, own, T) ==
    /\ p \in Seq(Nat) /\ point \in Nat \cup {Absent}
    /\ q \in Seq(P!RecordWrite)
    /\ IsFiniteSet(T) /\ own \subseteq T /\ \A j \in 1..Len(q) : q[j].eps \subseteq T

LEMMA WritesMean ==
    ASSUME NEW p, NEW q, NEW point, NEW own, NEW T, Writes(p, q, point, own, T)
    PROVE  /\ Len(p) \in Nat /\ Len(q) \in Nat
           /\ \A k \in 0..Len(p) : ValueOf(point, p, k) \in Nat \cup {Absent}
           /\ \A k \in 0..Len(q) : CoverOf(own, q, k) \subseteq T
<1>1. /\ Len(p) \in Nat /\ Len(q) \in Nat /\ \A k \in 1..Len(p) : p[k] \in Nat
      /\ point \in Nat \cup {Absent}
      /\ own \subseteq T /\ \A j \in 1..Len(q) : q[j].eps \subseteq T
  BY DEF Writes
<1>2. \A k \in 0..Len(p) : ValueOf(point, p, k) \in Nat \cup {Absent}
  BY <1>1 DEF ValueOf
<1>3. ASSUME NEW k \in 0..Len(q) PROVE CoverOf(own, q, k) \subseteq T
  <2>1. \A j \in 1..k : j \in 1..Len(q)
    BY <1>1
  <2> QED
    BY <1>1, <2>1 DEF CoverOf
<1> QED
  BY <1>1, <1>2, <1>3

LEMMA OrderedCoins ==
    ASSUME NEW w \in Seq({"coins", "record"}), NEW p, NEW q, NEW point, NEW own, NEW T,
           Writes(p, q, point, own, T), NEW old \in Nat, NEW new \in Nat, old <= new,
           Ordered(w, p, q, point, own, old), NEW v \in Nat, Backed(v, T, new)
    PROVE  Ordered(Append(w, "coins"), Append(p, v), q, point, own, new)
<1>0. /\ Len(w) \in Nat /\ Len(p) \in Nat /\ Len(q) \in Nat /\ p \in Seq(Nat) /\ IsFiniteSet(T)
      /\ Len(Append(w, "coins")) = Len(w) + 1 /\ Len(Append(p, v)) = Len(p) + 1
      /\ Append(p, v)[Len(p) + 1] = v /\ \A k \in 1..Len(p) : Append(p, v)[k] = p[k]
  BY DEF Writes
<1>1. PICK c, r : /\ Path(w, Len(p), Len(q), c, r)
                  /\ \A i \in 0..Len(w) : Backed(ValueOf(point, p, c[i]), CoverOf(own, q, r[i]), old)
  BY DEF Ordered
<1>2. PICK d, s : /\ Path(Append(w, "coins"), Len(p) + 1, Len(q) + 0, d, s)
                  /\ \A i \in 0..Len(w) : d[i] = c[i] /\ s[i] = r[i]
  BY <1>0, <1>1, PathAppended
<1>3. Path(Append(w, "coins"), Len(Append(p, v)), Len(q), d, s)
  BY <1>0, <1>2
<1>4. ASSUME NEW i \in 0..(Len(w) + 1)
      PROVE  Backed(ValueOf(point, Append(p, v), d[i]), CoverOf(own, q, s[i]), new)
  <2>1. CASE i \in 0..Len(w)
    <3>1. d[i] \in 0..Len(p) /\ s[i] \in 0..Len(q) /\ d[i] = c[i] /\ s[i] = r[i]
      BY <1>1, <1>2, <2>1 DEF Path
    <3>2. PICK x \in Nat \cup {Absent} : x = ValueOf(point, p, d[i])
      BY <3>1, WritesMean
    <3>3. ValueOf(point, Append(p, v), d[i]) = x
      BY <1>0, <3>1, <3>2 DEF ValueOf
    <3>4. PICK S : S = CoverOf(own, q, s[i])
      OBVIOUS
    <3>5. Backed(x, S, old)
      BY <1>1, <2>1, <3>1, <3>2, <3>4
    <3>6. IsFiniteSet(S)
      BY <1>0, <3>1, <3>4, WritesMean, FS_Subset
    <3>7. Backed(x, S, new)
      BY <3>5, <3>6, BackedLess
    <3> QED
      BY <3>3, <3>4, <3>7
  <2>2. CASE i = Len(w) + 1
    <3>1. d[i] = Len(p) + 1 /\ s[i] = Len(q)
      BY <1>0, <1>3, <2>2 DEF Path
    <3>2. ValueOf(point, Append(p, v), Len(p) + 1) = v
      BY <1>0 DEF ValueOf
    <3>3. PICK S : S = CoverOf(own, q, Len(q)) /\ S \subseteq T
      BY <1>0, WritesMean
    <3>4. Backed(v, S, new)
      <4>1. new <= new /\ v \in Nat \cup {Absent}
        OBVIOUS
      <4> QED
        BY <1>0, <3>3, <4>1, BackedLess
    <3> QED
      BY <3>1, <3>2, <3>3, <3>4
  <2> QED
    BY <1>0, <2>1, <2>2
<1> QED
  BY <1>0, <1>3, <1>4 DEF Ordered

LEMMA OrderedRecord ==
    ASSUME NEW w \in Seq({"coins", "record"}), NEW p, NEW q, NEW point, NEW own, NEW T,
           NEW x \in P!RecordWrite, Writes(p, Append(q, x), point, own, T), q \in Seq(P!RecordWrite),
           NEW credit \in Nat, Ordered(w, p, q, point, own, credit),
           Backed(ValueOf(point, p, Len(p)), T, credit)
    PROVE  Ordered(Append(w, "record"), p, Append(q, x), point, own, credit)
<1>0. /\ Len(w) \in Nat /\ Len(p) \in Nat /\ Len(q) \in Nat /\ IsFiniteSet(T)
      /\ Len(Append(w, "record")) = Len(w) + 1 /\ Len(Append(q, x)) = Len(q) + 1
      /\ \A k \in 1..Len(q) : Append(q, x)[k] = q[k]
  BY DEF Writes
<1>1. PICK c, r : /\ Path(w, Len(p), Len(q), c, r)
                  /\ \A i \in 0..Len(w) : Backed(ValueOf(point, p, c[i]), CoverOf(own, q, r[i]), credit)
  BY DEF Ordered
<1>2. PICK d, s : /\ Path(Append(w, "record"), Len(p) + 0, Len(q) + 1, d, s)
                  /\ \A i \in 0..Len(w) : d[i] = c[i] /\ s[i] = r[i]
  BY <1>0, <1>1, PathAppended
<1>3. Path(Append(w, "record"), Len(p), Len(Append(q, x)), d, s)
  BY <1>0, <1>2
<1>4. ASSUME NEW i \in 0..(Len(w) + 1)
      PROVE  Backed(ValueOf(point, p, d[i]), CoverOf(own, Append(q, x), s[i]), credit)
  <2>1. CASE i \in 0..Len(w)
    <3>1. s[i] \in 0..Len(q) /\ d[i] = c[i] /\ s[i] = r[i]
      BY <1>1, <1>2, <2>1 DEF Path
    <3>2. \A j \in 1..s[i] : j \in 1..Len(q)
      BY <1>0, <3>1
    <3>3. CoverOf(own, Append(q, x), s[i]) = CoverOf(own, q, s[i])
      BY <1>0, <3>2 DEF CoverOf
    <3> QED
      BY <1>1, <2>1, <3>1, <3>3
  <2>2. CASE i = Len(w) + 1
    <3>1. d[i] = Len(p) /\ s[i] = Len(Append(q, x)) /\ Len(Append(q, x)) \in 0..Len(Append(q, x))
      BY <1>0, <1>3, <2>2 DEF Path
    <3>2. PICK S : S = CoverOf(own, Append(q, x), s[i]) /\ S \subseteq T
      BY <3>1, WritesMean
    <3>3. PICK v \in Nat \cup {Absent} : v = ValueOf(point, p, Len(p))
      <4>1. Len(p) \in 0..Len(p)
        BY <1>0
      <4> QED
        BY <4>1, WritesMean
    <3>4. Backed(v, S, credit)
      BY <1>0, <3>2, <3>3, BackedLess
    <3> QED
      BY <3>1, <3>2, <3>3, <3>4
  <2> QED
    BY <1>0, <2>1, <2>2
<1> QED
  BY <1>0, <1>3, <1>4 DEF Ordered

\* A balance arrives.
LEMMA OrderedCoinsSent ==
    ASSUME NEW w \in Seq({"coins", "record"}), w # <<>>, Head(w) = "coins",
           NEW p, NEW q, NEW point, NEW own, NEW T, Writes(p, q, point, own, T),
           NEW credit, Ordered(w, p, q, point, own, credit), p # <<>>
    PROVE  Ordered(Tail(w), Tail(p), q, Head(p), own, credit)
<1>0. /\ Len(w) \in Nat /\ Len(p) \in Nat /\ Len(q) \in Nat
      /\ Len(Tail(w)) = Len(w) - 1 /\ Len(Tail(p)) = Len(p) - 1 /\ Head(p) = p[1]
      /\ \A k \in 1..(Len(p) - 1) : Tail(p)[k] = p[k + 1]
  BY DEF Writes
<1>1. PICK c, r : /\ Path(w, Len(p), Len(q), c, r)
                  /\ \A i \in 0..Len(w) : Backed(ValueOf(point, p, c[i]), CoverOf(own, q, r[i]), credit)
  BY DEF Ordered
<1>2. PICK d, s : /\ Path(Tail(w), Len(p) - 1, Len(q) - 0, d, s)
                  /\ \A i \in 0..(Len(w) - 1) :
                        /\ i + 1 \in 0..Len(w)
                        /\ c[i + 1] \in 1..Len(p) /\ r[i + 1] \in 0..Len(q)
                        /\ d[i] = c[i + 1] - 1 /\ s[i] = r[i + 1] - 0
  BY <1>0, <1>1, PathTail
<1>3. Path(Tail(w), Len(Tail(p)), Len(q), d, s)
  BY <1>0, <1>2
<1>4. ASSUME NEW i \in 0..(Len(w) - 1)
      PROVE  Backed(ValueOf(Head(p), Tail(p), d[i]), CoverOf(own, q, s[i]), credit)
  <2>1. PICK k \in 1..Len(p) : k = c[i + 1] /\ d[i] = k - 1
    BY <1>2
  <2>2. ValueOf(Head(p), Tail(p), d[i]) = ValueOf(point, p, c[i + 1])
    BY <1>0, <2>1 DEF ValueOf
  <2>3. s[i] = r[i + 1] /\ i + 1 \in 0..Len(w)
    BY <1>0, <1>2
  <2> QED
    BY <1>1, <2>2, <2>3
<1> QED
  BY <1>0, <1>3, <1>4 DEF Ordered

\* A record arrives, or is refused.
LEMMA OrderedRecordGone ==
    ASSUME NEW w \in Seq({"coins", "record"}), w # <<>>, Head(w) = "record",
           NEW p, NEW q, NEW point, NEW own, NEW T, Writes(p, q, point, own, T),
           NEW credit \in Nat, Ordered(w, p, q, point, own, credit), q # <<>>,
           NEW then, then \subseteq own \cup Head(q).eps
    PROVE  Ordered(Tail(w), p, Tail(q), point, then, credit)
<1>0. /\ Len(w) \in Nat /\ Len(p) \in Nat /\ Len(q) \in Nat /\ IsFiniteSet(T)
      /\ Len(Tail(w)) = Len(w) - 1 /\ Len(Tail(q)) = Len(q) - 1 /\ Head(q) = q[1]
      /\ \A k \in 1..(Len(q) - 1) : Tail(q)[k] = q[k + 1]
  BY DEF Writes
<1>1. PICK c, r : /\ Path(w, Len(p), Len(q), c, r)
                  /\ \A i \in 0..Len(w) : Backed(ValueOf(point, p, c[i]), CoverOf(own, q, r[i]), credit)
  BY DEF Ordered
<1>2. PICK d, s : /\ Path(Tail(w), Len(p) - 0, Len(q) - 1, d, s)
                  /\ \A i \in 0..(Len(w) - 1) :
                        /\ i + 1 \in 0..Len(w)
                        /\ c[i + 1] \in 0..Len(p) /\ r[i + 1] \in 1..Len(q)
                        /\ d[i] = c[i + 1] - 0 /\ s[i] = r[i + 1] - 1
  BY <1>0, <1>1, PathTail
<1>3. Path(Tail(w), Len(p), Len(Tail(q)), d, s)
  BY <1>0, <1>2
<1>4. ASSUME NEW i \in 0..(Len(w) - 1)
      PROVE  Backed(ValueOf(point, p, d[i]), CoverOf(then, Tail(q), s[i]), credit)
  <2>1. PICK k \in 1..Len(q) : k = r[i + 1] /\ s[i] = k - 1
    BY <1>2
  <2>2. CoverOf(then, Tail(q), k - 1) \subseteq CoverOf(own, q, k)
    <3>1. \A j \in 1..(k - 1) : Tail(q)[j] = q[j + 1] /\ j + 1 \in 1..k
      BY <1>0, <2>1
    <3>2. 1 \in 1..k
      BY <2>1
    <3> QED
      BY <1>0, <3>1, <3>2 DEF CoverOf
  <2>3. d[i] = c[i + 1] /\ i + 1 \in 0..Len(w) /\ c[i + 1] \in 0..Len(p)
    <3>1. PICK x \in 0..Len(p) : x = c[i + 1] /\ d[i] = x - 0 /\ i + 1 \in 0..Len(w)
      BY <1>2
    <3> QED
      BY <1>0, <3>1
  <2>4. PICK v \in Nat \cup {Absent} : v = ValueOf(point, p, d[i])
    BY <2>3, WritesMean
  <2>5. PICK S : S = CoverOf(own, q, k) /\ S \subseteq T /\ IsFiniteSet(S)
    <3>1. k \in 0..Len(q)
      BY <2>1
    <3> QED
      BY <1>0, <3>1, WritesMean, FS_Subset
  <2>6. Backed(v, S, credit)
    BY <1>1, <2>1, <2>3, <2>4, <2>5
  <2>7. Backed(v, CoverOf(then, Tail(q), k - 1), credit)
    <3>1. credit <= credit
      OBVIOUS
    <3> QED
      BY <2>2, <2>5, <2>6, <3>1, BackedLess
  <2> QED
    BY <2>1, <2>4, <2>7
<1> QED
  BY <1>0, <1>3, <1>4 DEF Ordered

-----------------------------------------------------------------------------
(* Nothing unpaid at the server *)

Local == W!LocalView(Phone, Me)

\* At most one operation changes coins, and it has read what the phone sees.
OneAtATime ==
    /\ Len(coinOps[Phone]) <= 1
    /\ \A i \in DOMAIN coinOps[Phone] :
          coinOps[Phone][i].kind # "show" /\ coinOps[Phone][i].snap \in {Unanswered, Local}

\* What the phone sees covers all episodes it knows of, and what the server holds
\* covers what it lists, now and after each of the writes on their way.
Covered ==
    /\ coins[Phone] <= credited[Me]
    /\ \E S : IsFiniteSet(S) /\ P!Within(S) /\ Backed(Local, S, credited[Me])
    /\ Ordered(wire, pending[Phone][Me], queue, points[Me], Owned, credited[Me])

AllCovered == spoiled = {} => OneAtATime /\ Covered

\* The parts of the state the wallet's balances are made of.
LEMMA WalletTypes ==
    ASSUME Parts
    PROVE  /\ points[Me] \in Nat \cup {Absent} /\ coins[Phone] \in Nat
           /\ pending[Phone][Me] \in Seq(Nat) /\ credited[Me] \in Nat
           /\ coinOps[Phone] \in Seq(W!SolventOp) /\ Len(coinOps[Phone]) \in Nat
           /\ \A i \in DOMAIN coinOps[Phone] : coinOps[Phone][i].uid = Me
           /\ points \in [{Me} -> Nat \cup {Absent}] /\ coins \in [{Phone} -> Nat]
           /\ pending \in [{Phone} -> [{Me} -> Seq(Nat)]]
           /\ coinOps \in [{Phone} -> Seq(W!SolventOp)]
           /\ credited \in [{Me} -> Nat] /\ debited \in [{Me} -> Nat]
<1>1. W!Solvent
  BY DEF Parts, W!WalletInv
<1>2. coinOps[Phone] \in Seq(W!SolventOp)
  BY <1>1 DEF W!Solvent
<1>3. \A i \in DOMAIN coinOps[Phone] : coinOps[Phone][i] \in W!SolventOp
  BY <1>2
<1> QED
  BY <1>1, <1>2, <1>3 DEF W!Solvent, W!TypeOK, W!SolventOp, W!Op

LEMMA LocalIs ==
    ASSUME Parts
    PROVE  /\ Local = ValueOf(points[Me], pending[Phone][Me], Len(pending[Phone][Me]))
           /\ Local \in Nat \cup {Absent}
           /\ Wallet!LocalView(Phone, Me) = Local
<1>1. pending[Phone][Me] \in Seq(Nat) /\ points[Me] \in Nat \cup {Absent}
  BY WalletTypes
<1>2. /\ Len(pending[Phone][Me]) \in Nat
      /\ pending[Phone][Me] = <<>> <=> Len(pending[Phone][Me]) = 0
  BY <1>1, EmptySeq
<1>3. Local = ValueOf(points[Me], pending[Phone][Me], Len(pending[Phone][Me]))
  BY <1>1, <1>2 DEF Local, W!LocalView, ValueOf
<1>4. Local \in Nat \cup {Absent}
  BY <1>1, <1>2, <1>3 DEF ValueOf
<1>5. Wallet!LocalView(Phone, Me) = Local
  BY DEF Local, W!LocalView, Wallet!LocalView
<1> QED
  BY <1>3, <1>4, <1>5

LEMMA QueueTypes ==
    ASSUME Parts
    PROVE  /\ queue \in Seq(P!RecordWrite) /\ Len(queue) \in Nat
           /\ P!Keys = Purchases!Keys
           /\ records \in [P!Keys -> SUBSET Episodes]
<1>1. P!TypeOK
  BY DEF Parts, P!Paid
<1>2. P!Keys = Purchases!Keys
  BY DEF P!Keys, Purchases!Keys
<1> QED
  BY <1>1, <1>2 DEF P!TypeOK

LEMMA WithinWrites ==
    ASSUME Parts, NEW S, IsFiniteSet(S), P!Within(S)
    PROVE  Writes(pending[Phone][Me], queue, points[Me], Owned, S)
<1>1. Owned \subseteq S
  BY QueueTypes DEF P!Within, Owned
<1>2. \A j \in 1..Len(queue) : queue[j].eps \subseteq S
  BY QueueTypes DEF P!Within
<1> QED
  BY <1>1, <1>2, WalletTypes, QueueTypes DEF Writes

\* Without a record queued no episode is new.
LEMMA WithinStays ==
    ASSUME Parts, NEW S, P!Within(S), [Next]_vars, Len(queue') <= Len(queue)
    PROVE  P!Within(S)'
<1>1. P!Paid
  BY DEF Parts
<1>2. [P!Next]_(P!vars)
  BY PurchasesMove DEF purchaseVars, P!vars
<1>3. ASSUME P!PurchaseGranted PROVE FALSE
  <2>1. PICK x \in P!RecordWrite : queue' = Append(queue, x)
    BY <1>1, <1>3, ShopAssumption, P!GrantedWrite DEF P!PurchaseGranted
  <2>2. Len(queue') = Len(queue) + 1
    BY <2>1, QueueTypes
  <2> QED
    BY <2>2, QueueTypes
<1> QED
  BY <1>1, <1>2, <1>3, ShopAssumption, P!WithinKept

\* A step that writes nothing, and nothing arrives.
LEMMA CoveredKept ==
    ASSUME Parts, Covered, [Next]_vars,
           UNCHANGED <<points, pending, credited, records, queue, wire>>,
           coins'[Phone] <= credited[Me]
    PROVE  Covered'
<1>1. PICK S : IsFiniteSet(S) /\ P!Within(S) /\ Backed(Local, S, credited[Me])
  BY DEF Covered
<1>2. P!Within(S)'
  BY <1>1, WithinStays, QueueTypes
<1>3. Local' = Local /\ Owned' = Owned
  BY DEF Local, W!LocalView, Owned, Purchases!Keys
<1>4. Ordered(wire, pending[Phone][Me], queue, points[Me], Owned, credited[Me])'
  BY <1>3 DEF Covered
<1>5. Backed(Local', S, credited'[Me]) /\ coins'[Phone] <= credited'[Me]
  BY <1>1, <1>3
<1> QED
  BY <1>1, <1>2, <1>4, <1>5 DEF Covered

\* What a callback works with.
Due == Head(coinOps[Phone])
Holding == Wallet!Held(Phone, Due)

LEMMA HoldingBacked ==
    ASSUME Parts, OneAtATime, coins[Phone] <= credited[Me],
           coinOps[Phone] # <<>>, Due.snap # Unanswered,
           NEW S, IsFiniteSet(S), Backed(Local, S, credited[Me])
    PROVE  /\ Holding \in Nat /\ Backed(Holding, S, credited[Me]) /\ Holding <= credited[Me]
           /\ Tail(coinOps[Phone]) = <<>> /\ Due = coinOps[Phone][1] /\ 1 \in DOMAIN coinOps[Phone]
<1>1. /\ coinOps[Phone] \in Seq(W!SolventOp) /\ Len(coinOps[Phone]) = 1
      /\ Due = coinOps[Phone][1] /\ 1 \in DOMAIN coinOps[Phone]
  <2>1. coinOps[Phone] \in Seq(W!SolventOp) /\ Len(coinOps[Phone]) \in Nat
    BY WalletTypes
  <2>2. Len(coinOps[Phone]) # 0
    BY <2>1, EmptySeq
  <2>3. Len(coinOps[Phone]) <= 1
    BY DEF OneAtATime
  <2>4. Len(coinOps[Phone]) = 1
    <3>1. PICK l \in Nat : l = Len(coinOps[Phone])
      BY <2>1
    <3>2. l # 0 /\ l <= 1
      BY <2>2, <2>3, <3>1
    <3>3. l = 1
      BY <3>2
    <3> QED
      BY <3>1, <3>3
  <2> QED
    BY <2>1, <2>4 DEF Due
<1>2. Due.snap = Local
  BY <1>1 DEF OneAtATime
<1>3. Tail(coinOps[Phone]) = <<>>
  <2>1. Tail(coinOps[Phone]) \in Seq(W!SolventOp) /\ Len(Tail(coinOps[Phone])) = 0
    BY <1>1
  <2> QED
    BY <2>1, EmptySeq
<1>4. Holding \in Nat /\ Backed(Holding, S, credited[Me])
  <2>1. CASE Local = Absent
    <3>1. S = {} /\ Holding = coins[Phone]
      BY <1>2, <2>1 DEF Backed, Holding, Wallet!Held
    <3>2. Cardinality(S) = 0 /\ BookCoin * 0 = 0
      BY <3>1, FS_EmptySet, ShopAssumption
    <3>3. coins[Phone] \in Nat /\ coins[Phone] # Absent
      BY WalletTypes, ShopAssumption
    <3> QED
      BY <3>1, <3>2, <3>3 DEF Backed
  <2>2. CASE Local # Absent
    BY <1>2, <2>2, LocalIs DEF Holding, Wallet!Held
  <2> QED
    BY <2>1, <2>2
<1>5. Holding <= credited[Me]
  BY <1>4, BackedValue, WalletTypes
<1> QED
  BY <1>1, <1>3, <1>4, <1>5

\* The write of a callback.
LEMMA Written ==
    ASSUME Parts, coinOps[Phone] # <<>>, Tail(coinOps[Phone]) = <<>>,
           uid[Phone] = Me, NEW v, Wallet!Write(Phone, v)
    PROVE  /\ pending'[Phone][Me] = Append(pending[Phone][Me], v)
           /\ DOMAIN coinOps'[Phone] = {} /\ Len(coinOps'[Phone]) = 0
<1>1. /\ coinOps' = [coinOps EXCEPT ![Phone] = Wallet!AnswerAll(Tail(@), uid[Phone], v)]
      /\ pending' = [pending EXCEPT ![Phone][uid[Phone]] = Append(@, v)]
  BY ShopAssumption DEF Wallet!Write
<1>2. pending'[Phone][Me] = Append(pending[Phone][Me], v)
  BY <1>1, WalletTypes
<1>3. coinOps'[Phone] = Wallet!AnswerAll(<<>>, Me, v)
  BY <1>1, WalletTypes
<1>4. Wallet!AnswerAll(<<>>, Me, v) = <<>>
  <2>1. DOMAIN <<>> = {}
    OBVIOUS
  <2>2. PICK z : z = Wallet!AnswerAll(<<>>, Me, v)
    OBVIOUS
  <2>3. z = [i \in {} |-> z[i]]
    BY <2>1, <2>2 DEF Wallet!AnswerAll
  <2>4. z \in Seq({}) /\ Len(z) = 0
    <3>1. z = [i \in 1..0 |-> z[i]]
      BY <2>3
    <3> QED
      BY <3>1
  <2> QED
    BY <2>2, <2>4, EmptySeq
<1> QED
  BY <1>2, <1>3, <1>4, EmptySeq

LEMMA OneNone ==
    ASSUME DOMAIN coinOps'[Phone] = {}, Len(coinOps'[Phone]) = 0
    PROVE  OneAtATime'
BY DEF OneAtATime

\* What is written last is what the phone sees.
LEMMA LocalWritten ==
    ASSUME Parts, NEW v \in Nat, pending'[Phone][Me] = Append(pending[Phone][Me], v)
    PROVE  Local' = v
<1>1. PICK p \in Seq(Nat) : p = pending[Phone][Me]
  BY WalletTypes
<1>2. PICK q : q = pending'[Phone][Me]
  OBVIOUS
<1>3. q = Append(p, v)
  BY <1>1, <1>2
<1>4. Len(q) = Len(p) + 1 /\ q[Len(p) + 1] = v /\ Len(p) \in Nat
  BY <1>1, <1>3
<1>5. q # <<>>
  BY <1>4, EmptySeq
<1>6. Local' = IF q = <<>> THEN points'[Me] ELSE q[Len(q)]
  BY <1>2 DEF Local, W!LocalView
<1> QED
  BY <1>4, <1>5, <1>6

LEMMA CoveredCoinsAdded ==
    ASSUME Parts, Parts', OneAtATime, Covered, [Next]_vars, CoinsAdded
    PROVE  OneAtATime' /\ Covered'
<1>0. PICK n : n = Due.n
  OBVIOUS
<1>1. /\ uid[Phone] = Me /\ coinOps[Phone] # <<>> /\ Due.kind = "add" /\ Due.snap # Unanswered
      /\ coins' = [coins EXCEPT ![Phone] = Holding + n]
      /\ Wallet!Write(Phone, Holding + n)
      /\ credited' = [u \in {Me} |-> credited[u] + IF u = uid[Phone] THEN n ELSE 0]
      /\ points' = points /\ wire' = Append(wire, "coins") /\ UNCHANGED purchaseVars
  BY <1>0 DEF CoinsAdded, InTabs, Wallet!AddCallback, Wallet!CallbackDue, Due, Holding
<1>2. PICK S : IsFiniteSet(S) /\ P!Within(S) /\ Backed(Local, S, credited[Me])
  BY DEF Covered
<1>3. /\ Holding \in Nat /\ Backed(Holding, S, credited[Me]) /\ Holding <= credited[Me]
      /\ Tail(coinOps[Phone]) = <<>> /\ Due = coinOps[Phone][1] /\ 1 \in DOMAIN coinOps[Phone]
  BY <1>1, <1>2, HoldingBacked DEF Covered
<1>4. n \in Nat
  <2>1. n \in Packs
    BY <1>0, <1>1, <1>3 DEF Parts, W!WalletInv, W!Priced
  <2> QED
    BY <2>1, ShopAssumption
<1>5. PICK v \in Nat : v = Holding + n
  BY <1>3, <1>4
<1>6. PICK old \in Nat, new \in Nat : old = credited[Me] /\ new = credited'[Me] /\ new = old + n /\ old <= new
  BY <1>1, <1>4, WalletTypes
<1>7. Backed(v, S, new)
  <2>1. PICK x \in Nat : x = BookCoin * Cardinality(S)
    BY <1>2, FS_CardinalityType, PricesGrow
  <2>2. Holding + x <= old
    BY <1>3, <1>6, <2>1, ShopAssumption DEF Backed
  <2>3. v + x <= new
    BY <1>3, <1>4, <1>5, <1>6, <2>2
  <2> QED
    BY <1>5, <2>1, <2>3, ShopAssumption DEF Backed
<1>8. coins'[Phone] <= credited'[Me]
  <2>1. coins'[Phone] = v
    BY <1>1, <1>5, WalletTypes
  <2> QED
    BY <1>3, <1>4, <1>5, <1>6, <2>1
<1>9. /\ pending'[Phone][Me] = Append(pending[Phone][Me], v)
      /\ OneAtATime'
  BY <1>1, <1>3, <1>5, Written, OneNone
<1>10. UNCHANGED <<queue, records>>
  BY <1>1 DEF purchaseVars
<1>11. Owned' = Owned
  BY <1>10 DEF Owned, Purchases!Keys
<1>12. P!Within(S)'
  BY <1>2, <1>10, WithinStays, QueueTypes
<1>13. Local' = v
  BY <1>5, <1>9, LocalWritten
<1>14. Ordered(Append(wire, "coins"), Append(pending[Phone][Me], v), queue, points[Me], Owned, new)
  <2>1. wire \in Seq({"coins", "record"})
    BY DEF Parts
  <2>2. Writes(pending[Phone][Me], queue, points[Me], Owned, S)
    BY <1>2, WithinWrites
  <2>3. Ordered(wire, pending[Phone][Me], queue, points[Me], Owned, old)
    BY <1>6 DEF Covered
  <2> QED
    BY <1>6, <1>7, <2>1, <2>2, <2>3, OrderedCoins
<1>15. Ordered(wire, pending[Phone][Me], queue, points[Me], Owned, credited[Me])'
  BY <1>1, <1>6, <1>9, <1>10, <1>11, <1>14
<1>16. Backed(Local', S, credited'[Me])
  BY <1>6, <1>7, <1>13
<1> QED
  BY <1>2, <1>8, <1>9, <1>12, <1>15, <1>16 DEF Covered

LEMMA CoveredEpisodeGranted ==
    ASSUME Parts, Parts', OneAtATime, Covered, [Next]_vars, EpisodeGranted
    PROVE  OneAtATime' /\ Covered'
<1>1. /\ uid[Phone] = Me /\ coinOps[Phone] # <<>> /\ Due.kind = "redeem" /\ Due.snap # Unanswered
      /\ coins' = [coins EXCEPT ![Phone] = Holding - Due.n]
      /\ Wallet!Write(Phone, Holding - Due.n) /\ Holding >= Due.n
      /\ credited' = credited /\ points' = points
      /\ wire' = wire \o <<"coins", "record">> /\ Purchases!PurchaseGranted
  BY DEF EpisodeGranted, InTabs, Wallet!RedeemCallback, Wallet!Affordable, Wallet!CallbackDue,
         Due, Holding, CoinsThenRecord
<1>2. PICK S : IsFiniteSet(S) /\ P!Within(S) /\ Backed(Local, S, credited[Me])
  BY DEF Covered
<1>3. /\ Holding \in Nat /\ Backed(Holding, S, credited[Me]) /\ Holding <= credited[Me]
      /\ Tail(coinOps[Phone]) = <<>> /\ Due = coinOps[Phone][1] /\ 1 \in DOMAIN coinOps[Phone]
  BY <1>1, <1>2, HoldingBacked DEF Covered
<1>4. Due.n = BookCoin
  BY <1>1, <1>3 DEF Parts, W!WalletInv, W!Priced
<1>5. PICK v \in Nat : v = Holding - BookCoin /\ v + BookCoin = Holding
  BY <1>1, <1>3, <1>4, ShopAssumption
<1>6. PICK credit \in Nat : credit = credited[Me] /\ credit = credited'[Me] /\ credit <= credit
  BY <1>1, WalletTypes
<1>7. PICK e : e = Head(ops).e
  OBVIOUS
<1>8. PICK T : T = S \cup {e} /\ IsFiniteSet(T) /\ Backed(v, T, credit)
  <2>1. Backed(v + BookCoin, S, credit)
    BY <1>3, <1>5, <1>6
  <2> QED
    BY <1>2, <2>1, BackedBought
<1>9. /\ pending'[Phone][Me] = Append(pending[Phone][Me], v)
      /\ OneAtATime'
  BY <1>1, <1>3, <1>4, <1>5, Written, OneNone
<1>10. coins'[Phone] = v /\ v <= credit
  BY <1>1, <1>3, <1>4, <1>5, <1>6, WalletTypes, ShopAssumption
<1>11. Local' = v
  BY <1>5, <1>9, LocalWritten
<1>12. P!Within(T) /\ P!Within(T)'
  <2>1. P!Within(T)
    BY <1>2, <1>8 DEF P!Within
  <2>2. P!Paid /\ [P!Next]_(P!vars)
    BY PurchasesMove DEF Parts, purchaseVars, P!vars
  <2> QED
    BY <1>7, <1>8, <2>1, <2>2, ShopAssumption, P!WithinKept
<1>13. PICK x \in P!RecordWrite : queue' = Append(queue, x)
  <2>1. PICK x : queue' = Append(queue, x)
    BY <1>1 DEF Purchases!PurchaseGranted
  <2>2. queue' \in Seq(P!RecordWrite) /\ queue \in Seq(P!RecordWrite)
    BY DEF Parts, P!Paid, P!TypeOK
  <2>3. Len(queue') = Len(queue) + 1 /\ queue'[Len(queue) + 1] = x /\ Len(queue) \in Nat
    BY <2>1, <2>2
  <2>4. x \in P!RecordWrite
    BY <2>2, <2>3
  <2> QED
    BY <2>1, <2>4
<1>14. Owned' = Owned
  BY <1>1 DEF Purchases!PurchaseGranted, Owned, Purchases!Keys
<1> DEFINE w1 == Append(wire, "coins")
           p1 == Append(pending[Phone][Me], v)
<1>15. wire \in Seq({"coins", "record"}) /\ w1 \in Seq({"coins", "record"}) /\ wire' = Append(w1, "record")
  BY <1>1 DEF Parts
<1>16. Ordered(w1, p1, queue, points[Me], Owned, credit)
  <2>1. Writes(pending[Phone][Me], queue, points[Me], Owned, T)
    BY <1>8, <1>12, WithinWrites
  <2>2. Ordered(wire, pending[Phone][Me], queue, points[Me], Owned, credit)
    BY <1>6 DEF Covered
  <2> QED
    BY <1>6, <1>8, <1>15, <2>1, <2>2, OrderedCoins
<1>17. Ordered(Append(w1, "record"), p1, Append(queue, x), points[Me], Owned, credit)
  <2>1. Writes(p1, Append(queue, x), points[Me], Owned, T)
    <3>1. Append(queue, x) \in Seq(P!RecordWrite) /\ p1 \in Seq(Nat)
      BY WalletTypes, QueueTypes
    <3>2. Owned \subseteq T
      BY <1>12, QueueTypes DEF P!Within, Owned
    <3>3. \A j \in 1..Len(Append(queue, x)) : Append(queue, x)[j].eps \subseteq T
      BY <1>12, <1>13, <3>1 DEF P!Within
    <3> QED
      BY <1>8, <3>1, <3>2, <3>3, WalletTypes DEF Writes
  <2>2. ValueOf(points[Me], p1, Len(p1)) = v
    BY WalletTypes DEF ValueOf
  <2> HIDE DEF w1, p1
  <2> QED
    BY <1>8, <1>15, <1>16, <2>1, <2>2, QueueTypes, OrderedRecord
<1>18. Ordered(wire, pending[Phone][Me], queue, points[Me], Owned, credited[Me])'
  BY <1>1, <1>6, <1>9, <1>13, <1>14, <1>15, <1>17
<1> QED
  BY <1>6, <1>8, <1>9, <1>10, <1>11, <1>12, <1>18 DEF Covered

LEMMA CoveredDeliver ==
    ASSUME Parts, Parts', OneAtATime, Covered, [Next]_vars, Deliver
    PROVE  OneAtATime' /\ Covered'
<1>1. wire \in Seq({"coins", "record"}) /\ wire # <<>> /\ wire' = Tail(wire)
  BY DEF Parts, Deliver
<1>2. PICK S : IsFiniteSet(S) /\ P!Within(S) /\ Backed(Local, S, credited[Me])
  BY DEF Covered
<1>3. Writes(pending[Phone][Me], queue, points[Me], Owned, S)
  BY <1>2, WithinWrites
<1>4. PICK p \in Seq(Nat) : p = pending[Phone][Me]
  BY WalletTypes
<1>5. CASE Head(wire) = "coins"
  <2>1. /\ p # <<>> /\ points' = [points EXCEPT ![Me] = Head(p)]
        /\ pending' = [pending EXCEPT ![Phone][Me] = Tail(@)]
        /\ UNCHANGED <<coins, coinOps, credited>> /\ UNCHANGED purchaseVars
    BY <1>4, <1>5 DEF Deliver, Wallet!Deliver
  <2>2. points'[Me] = Head(p) /\ pending'[Phone][Me] = Tail(p)
    BY <1>4, <2>1, WalletTypes
  <2>3. queue' = queue /\ Owned' = Owned
    BY <2>1 DEF purchaseVars, Owned, Purchases!Keys
  <2>4. Local' = Local
    <3>1. /\ Len(p) \in Nat /\ Len(p) # 0 /\ Head(p) = p[1] /\ Len(Tail(p)) = Len(p) - 1
          /\ \A i \in 1..(Len(p) - 1) : Tail(p)[i] = p[i + 1]
          /\ (Tail(p) = <<>> <=> Len(Tail(p)) = 0)
      <4>1. Len(p) \in Nat /\ Len(p) # 0
        BY <2>1, EmptySeq
      <4>2. Tail(p) \in Seq(Nat)
        BY <2>1
      <4>3. Tail(p) = <<>> <=> Len(Tail(p)) = 0
        BY <4>2, EmptySeq
      <4> QED
        BY <2>1, <4>1, <4>3
    <3>2. Local = p[Len(p)]
      BY <1>4, <2>1 DEF Local, W!LocalView
    <3>3. Local' = IF Tail(p) = <<>> THEN Head(p) ELSE Tail(p)[Len(Tail(p))]
      BY <2>2 DEF Local, W!LocalView
    <3> QED
      BY <3>1, <3>2, <3>3
  <2>5. P!Within(S)'
    BY <1>2, <2>3, WithinStays, QueueTypes
  <2>6. Ordered(Tail(wire), Tail(p), queue, Head(p), Owned, credited[Me])
    BY <1>1, <1>3, <1>4, <1>5, <2>1, OrderedCoinsSent DEF Covered
  <2>7. Ordered(wire, pending[Phone][Me], queue, points[Me], Owned, credited[Me])'
    BY <1>1, <2>1, <2>2, <2>3, <2>6
  <2>8. OneAtATime'
    BY <2>1, <2>4 DEF OneAtATime
  <2> QED
    BY <1>2, <2>1, <2>4, <2>5, <2>7, <2>8 DEF Covered
<1>6. CASE Head(wire) = "record"
  <2>1. /\ queue # <<>> /\ queue' = Tail(queue) /\ UNCHANGED walletVars
        /\ records' = [records EXCEPT ![Head(queue).key] = Head(queue).eps]
    BY <1>6 DEF Deliver, Purchases!Deliver
  <2>2. UNCHANGED <<points, pending, coins, coinOps, credited>> /\ Local' = Local
    BY <2>1 DEF walletVars, Local, W!LocalView
  <2>3. Owned' \subseteq Owned \cup Head(queue).eps
    <3>1. \A k \in P!Keys : records'[k] \subseteq records[k] \cup Head(queue).eps
      BY <2>1, QueueTypes
    <3>2. Owned = UNION {records[k] : k \in P!Keys} /\ Owned' = UNION {records'[k] : k \in P!Keys}
      BY DEF Owned, Purchases!Keys, P!Keys
    <3> QED
      BY <3>1, <3>2
  <2>4. P!Within(S)'
    <3>1. Len(queue') <= Len(queue)
      BY <2>1, QueueTypes, EmptySeq
    <3> QED
      BY <1>2, <3>1, WithinStays
  <2>5. PICK then : then = Owned'
    OBVIOUS
  <2>6. Ordered(wire, pending[Phone][Me], queue, points[Me], Owned, credited[Me])'
    <3>1. then \subseteq Owned \cup Head(queue).eps
      BY <2>3, <2>5
    <3>2. Ordered(Tail(wire), pending[Phone][Me], Tail(queue), points[Me], then, credited[Me])
      BY <1>1, <1>3, <1>6, <2>1, <3>1, WalletTypes, OrderedRecordGone DEF Covered
    <3> QED
      BY <1>1, <2>1, <2>2, <2>5, <3>2
  <2>7. OneAtATime'
    BY <2>2 DEF OneAtATime
  <2> QED
    BY <1>2, <2>2, <2>4, <2>6, <2>7 DEF Covered
<1> QED
  BY <1>5, <1>6 DEF Deliver

\* A refused balance spoils the account, so what is refused is a record.
LEMMA CoveredRefuse ==
    ASSUME Parts, Parts', OneAtATime, Covered, [Next]_vars, Refuse, spoiled' = {}
    PROVE  OneAtATime' /\ Covered'
<1>1. /\ wire \in Seq({"coins", "record"}) /\ wire # <<>> /\ wire' = Tail(wire)
      /\ Head(wire) = "record"
      /\ queue # <<>> /\ queue' = Tail(queue) /\ UNCHANGED walletVars /\ records' = records
  BY DEF Parts, Refuse, Purchases!Reject
<1>2. PICK S : IsFiniteSet(S) /\ P!Within(S) /\ Backed(Local, S, credited[Me])
  BY DEF Covered
<1>3. Writes(pending[Phone][Me], queue, points[Me], Owned, S)
  BY <1>2, WithinWrites
<1>4. UNCHANGED <<points, pending, coins, coinOps, credited>> /\ Local' = Local /\ Owned' = Owned
  BY <1>1 DEF walletVars, Local, W!LocalView, Owned, Purchases!Keys
<1>5. P!Within(S)'
  <2>1. Len(queue') <= Len(queue)
    BY <1>1, QueueTypes, EmptySeq
  <2> QED
    BY <1>2, <2>1, WithinStays
<1>6. Ordered(Tail(wire), pending[Phone][Me], Tail(queue), points[Me], Owned, credited[Me])
  <2>1. PICK then : then = Owned /\ then \subseteq Owned \cup Head(queue).eps
    OBVIOUS
  <2> QED
    BY <1>1, <1>3, <2>1, WalletTypes, OrderedRecordGone DEF Covered
<1>7. Ordered(wire, pending[Phone][Me], queue, points[Me], Owned, credited[Me])'
  BY <1>1, <1>4, <1>6
<1>8. OneAtATime'
  BY <1>4 DEF OneAtATime
<1> QED
  BY <1>2, <1>4, <1>5, <1>7, <1>8 DEF Covered

\* The process dies: the server alone is left.
LEMMA CoveredRelaunch ==
    ASSUME Parts, Parts', OneAtATime, Covered, [Next]_vars, Relaunch
    PROVE  OneAtATime' /\ Covered'
<1>1. /\ coinOps' = [coinOps EXCEPT ![Phone] = <<>>]
      /\ pending' = [pending EXCEPT ![Phone] = [u \in {Me} |-> <<>>]]
      /\ UNCHANGED <<points, coins, credited, records>> /\ wire' = <<>>
      /\ queue' = <<>> /\ Purchases!Relaunch
  BY DEF Relaunch, Wallet!Relaunch, Purchases!Relaunch, Purchases!Forget
<1>2. pending'[Phone][Me] = <<>> /\ coinOps'[Phone] = <<>>
  BY <1>1, WalletTypes
<1>3. OneAtATime'
  <2>1. DOMAIN coinOps'[Phone] = {} /\ Len(coinOps'[Phone]) = 0
    BY <1>2, EmptySeq
  <2> QED
    BY <2>1, OneNone
<1>4. Local' = points[Me] /\ Owned' = Owned
  BY <1>1, <1>2 DEF Local, W!LocalView, Owned, Purchases!Keys
<1>5. PICK S : S = Owned
  OBVIOUS
<1>6. Backed(points[Me], S, credited[Me])
  <2>1. wire \in Seq({"coins", "record"})
    BY DEF Parts
  <2> QED
    BY <1>5, <2>1, OrderedNow DEF Covered
<1>7. IsFiniteSet(S)
  <2>1. PICK T : IsFiniteSet(T) /\ P!Within(T)
    BY DEF Covered
  <2>2. Owned \subseteq T
    BY <2>1, QueueTypes DEF P!Within, Owned
  <2> QED
    BY <1>5, <2>1, <2>2, FS_Subset
<1>8. P!Within(S)'
  <2>1. P!Relaunch
    BY <1>1 DEF Purchases!Relaunch, P!Relaunch, Purchases!Forget, P!Forget,
                Purchases!FreshBook, P!FreshBook, Purchases!NoKey, P!NoKey
  <2>2. \A k \in P!Keys : records[k] \subseteq S
    BY <1>5, QueueTypes DEF Owned
  <2> QED
    BY <2>1, <2>2, ShopAssumption, P!WithinRelaunch
<1>9. Ordered(<<>>, <<>>, <<>>, points[Me], S, credited[Me])
  BY <1>6, OrderedEmpty
<1>10. Ordered(wire, pending[Phone][Me], queue, points[Me], Owned, credited[Me])'
  BY <1>1, <1>2, <1>4, <1>5, <1>9
<1>11. coins'[Phone] <= credited'[Me]
  BY <1>1 DEF Covered
<1>12. Backed(Local', S, credited'[Me])
  BY <1>1, <1>4, <1>6
<1> QED
  BY <1>3, <1>7, <1>8, <1>10, <1>11, <1>12 DEF Covered

\* An operation that starts alone is the only one.
LEMMA OneAsked ==
    ASSUME Parts, OneAtATime, uid[Phone] = Me, ~Wallet!Contended(Phone, Me),
           NEW kind, kind # "show", NEW n, Wallet!Ask(Phone, kind, n)
    PROVE  OneAtATime'
<1>1. coinOps[Phone] \in Seq(W!SolventOp) /\ coinOps \in [{Phone} -> Seq(W!SolventOp)]
  BY WalletTypes
<1>2. DOMAIN coinOps[Phone] = {}
  BY WalletTypes DEF Wallet!Contended, OneAtATime
<1>3. coinOps[Phone] = <<>>
  <2>1. Len(coinOps[Phone]) \in Nat /\ DOMAIN coinOps[Phone] = 1..Len(coinOps[Phone])
    BY <1>1
  <2>2. Len(coinOps[Phone]) = 0
    <3>1. PICK l \in Nat : l = Len(coinOps[Phone]) /\ 1..l = {}
      BY <1>2, <2>1
    <3>2. l = 0
      <4>1. CASE l >= 1
        <5>1. 1 \in 1..l
          BY <4>1
        <5> QED
          BY <3>1, <5>1
      <4> QED
        BY <4>1
    <3> QED
      BY <3>1, <3>2
  <2> QED
    BY <1>1, <2>2, EmptySeq
<1>4. PICK snap : snap = IF Wallet!Cached(Phone, uid[Phone]) THEN Wallet!LocalView(Phone, uid[Phone])
                                                              ELSE Unanswered
  OBVIOUS
<1>5. PICK r : r = [kind |-> kind, n |-> n, uid |-> uid[Phone], owned |-> TRUE, snap |-> snap]
  OBVIOUS
<1>6. coinOps'[Phone] = Append(<<>>, r)
  BY <1>1, <1>3, <1>4, <1>5 DEF Wallet!Ask
<1>7. r.kind # "show" /\ r.snap \in {Unanswered, Local}
  BY <1>4, <1>5, LocalIs
<1>8. Local' = Local
  BY DEF Wallet!Ask, Local, W!LocalView
<1>9. coinOps'[Phone] = <<r>>
  BY <1>6
<1>10. Len(<<r>>) = 1 /\ DOMAIN <<r>> = {1} /\ <<r>>[1] = r
  OBVIOUS
<1> HIDE DEF Local
<1>11. Len(coinOps'[Phone]) <= 1
  BY <1>9, <1>10
<1>12. \A i \in DOMAIN coinOps'[Phone] :
          coinOps'[Phone][i].kind # "show" /\ coinOps'[Phone][i].snap \in {Unanswered, Local'}
  BY <1>7, <1>8, <1>9, <1>10
<1> QED
  BY <1>11, <1>12 DEF OneAtATime

\* The operations stay the same, or lose a screen, or have their answer.
LEMMA OneKept ==
    ASSUME Parts, OneAtATime, Local' = Local,
           DOMAIN coinOps'[Phone] = DOMAIN coinOps[Phone], Len(coinOps'[Phone]) = Len(coinOps[Phone]),
           \A i \in DOMAIN coinOps[Phone] :
               /\ coinOps'[Phone][i].kind = coinOps[Phone][i].kind
               /\ coinOps'[Phone][i].snap \in {coinOps[Phone][i].snap, Local}
    PROVE  OneAtATime'
BY DEF OneAtATime

LEMMA OneMapped ==
    ASSUME Parts, OneAtATime, Local' = Local,
           \/ \E gone : coinOps' = [coinOps EXCEPT ![Phone] = Wallet!Disown(@, gone)]
           \/ coinOps' = [coinOps EXCEPT ![Phone] = Wallet!AnswerAll(@, Me, Local)]
    PROVE  OneAtATime'
<1>0. coinOps \in [{Phone} -> Seq(W!SolventOp)] /\ coinOps[Phone] \in Seq(W!SolventOp)
  BY WalletTypes
<1>1. PICK q \in Seq(W!SolventOp) : q = coinOps[Phone]
  BY <1>0
<1>2. \A i \in DOMAIN q : q[i] \in W!SolventOp
  OBVIOUS
<1>3. PICK z : z = coinOps'[Phone]
  OBVIOUS
<1>4. /\ DOMAIN z = DOMAIN q
      /\ \A i \in DOMAIN q : z[i].kind = q[i].kind /\ z[i].snap \in {q[i].snap, Local}
  <2>1. ASSUME NEW gone, coinOps' = [coinOps EXCEPT ![Phone] = Wallet!Disown(@, gone)]
        PROVE  /\ DOMAIN z = DOMAIN q
               /\ \A i \in DOMAIN q : z[i].kind = q[i].kind /\ z[i].snap \in {q[i].snap, Local}
    <3>1. z = Wallet!Disown(q, gone)
      BY <1>0, <1>1, <1>3, <2>1
    <3>2. /\ DOMAIN z = DOMAIN q
          /\ \A i \in DOMAIN q : z[i] = q[i] \/ z[i] = [q[i] EXCEPT !.owned = FALSE]
      BY <3>1 DEF Wallet!Disown
    <3>3. \A i \in DOMAIN q : /\ [q[i] EXCEPT !.owned = FALSE].kind = q[i].kind
                              /\ [q[i] EXCEPT !.owned = FALSE].snap = q[i].snap
      BY <1>2 DEF W!SolventOp, W!Op
    <3> QED
      BY <3>2, <3>3
  <2>2. ASSUME coinOps' = [coinOps EXCEPT ![Phone] = Wallet!AnswerAll(@, Me, Local)]
        PROVE  /\ DOMAIN z = DOMAIN q
               /\ \A i \in DOMAIN q : z[i].kind = q[i].kind /\ z[i].snap \in {q[i].snap, Local}
    <3> HIDE DEF Local
    <3>1. z = Wallet!AnswerAll(q, Me, Local)
      BY <1>0, <1>1, <1>3, <2>2
    <3>2. /\ DOMAIN z = DOMAIN q
          /\ \A i \in DOMAIN q : z[i] = q[i] \/ z[i] = [q[i] EXCEPT !.snap = Local]
      BY <3>1 DEF Wallet!AnswerAll
    <3>3. \A i \in DOMAIN q : /\ [q[i] EXCEPT !.snap = Local].kind = q[i].kind
                              /\ [q[i] EXCEPT !.snap = Local].snap = Local
      BY <1>2 DEF W!SolventOp, W!Op
    <3> QED
      BY <3>2, <3>3
  <2> QED
    BY <2>1, <2>2
<1>5. Len(z) = Len(q)
  <2>1. Len(coinOps'[Phone]) = Len(coinOps[Phone])
    <3>1. z = [i \in 1..Len(q) |-> z[i]]
      <4>1. ASSUME NEW gone, coinOps' = [coinOps EXCEPT ![Phone] = Wallet!Disown(@, gone)]
            PROVE  z = [i \in DOMAIN q |-> z[i]]
        BY <1>0, <1>1, <1>3, <4>1 DEF Wallet!Disown
      <4>2. ASSUME coinOps' = [coinOps EXCEPT ![Phone] = Wallet!AnswerAll(@, Me, Local)]
            PROVE  z = [i \in DOMAIN q |-> z[i]]
        BY <1>0, <1>1, <1>3, <4>2 DEF Wallet!AnswerAll
      <4> QED
        BY <4>1, <4>2
    <3> QED
      BY <1>1, <1>3, <3>1
  <2> QED
    BY <1>1, <1>3, <2>1
<1> QED
  BY <1>1, <1>3, <1>4, <1>5, OneKept

LEMMA AllCoveredStep ==
    ASSUME Parts, Parts', AllCovered, [Next]_vars
    PROVE  AllCovered'
<1> SUFFICES ASSUME spoiled' = {} PROVE OneAtATime' /\ Covered'
  BY DEF AllCovered
<1>0. spoiled = {} /\ OneAtATime /\ Covered /\ coins[Phone] <= credited[Me]
  <2>1. spoiled \subseteq spoiled'
    BY DEF Next, vars, Login, BuyCoins, ConfirmPurchase, CloseDetail, CloseBuyCoins, Browse,
           BalanceAnswered, CoinsAdded, EpisodeGranted, EpisodeRefused, Deliver, Refuse, Relaunch,
           NoteOverlap
  <2> QED
    BY <2>1 DEF AllCovered, Covered
<1>1. CASE UNCHANGED <<vars>> \/ Login \/ Browse
  <2>1. UNCHANGED <<points, coins, coinOps, pending, credited, wire, records, queue>>
    BY <1>1 DEF vars, walletVars, purchaseVars, Login, Browse, Wallet!Login,
                Purchases!FetchStart, Purchases!FetchAnswer, Purchases!FetchApply,
                Purchases!RefreshCatalogue, Purchases!OpenDetail, Purchases!TapPurchase,
                Purchases!NotNow, Purchases!ReadAfterSuccess
  <2>2. OneAtATime'
    BY <1>0, <2>1 DEF OneAtATime, Local, W!LocalView
  <2> QED
    BY <1>0, <2>1, <2>2, CoveredKept
<1>2. ASSUME NEW kind, kind # "show", NEW n, Wallet!Ask(Phone, kind, n), InTabs, NoteOverlap,
             UNCHANGED <<wire, records, queue>>
      PROVE  OneAtATime' /\ Covered'
  <2>1. ~Wallet!Contended(Phone, Me) /\ uid[Phone] = Me
    BY <1>2 DEF NoteOverlap, InTabs
  <2>2. OneAtATime'
    BY <1>0, <1>2, <2>1, OneAsked
  <2>3. UNCHANGED <<points, coins, pending, credited>>
    BY <1>2 DEF Wallet!Ask
  <2> QED
    BY <1>0, <1>2, <2>2, <2>3, CoveredKept
<1>3. ASSUME NEW n \in Packs, BuyCoins(n) PROVE OneAtATime' /\ Covered'
  BY <1>2, <1>3 DEF BuyCoins, Wallet!StartAdd, purchaseVars
<1>4. CASE ConfirmPurchase
  BY <1>2, <1>4 DEF ConfirmPurchase, Wallet!StartRedeem, Purchases!ConfirmPurchase
<1>5. CASE CloseDetail \/ CloseBuyCoins
  <2>1. UNCHANGED <<points, coins, pending, credited, wire, records, queue>>
    BY <1>5 DEF CloseDetail, CloseBuyCoins, Abandon, Wallet!Leave, walletVars, purchaseVars,
                Purchases!CloseDetail
  <2>2. Local' = Local
    BY <2>1 DEF Local, W!LocalView
  <2>3. \/ coinOps' = coinOps
        \/ \E gone : coinOps' = [coinOps EXCEPT ![Phone] = Wallet!Disown(@, gone)]
    BY <1>5 DEF CloseDetail, CloseBuyCoins, Abandon, Wallet!Leave, walletVars
  <2>4. CASE coinOps' = coinOps
    BY <1>0, <2>1, <2>2, <2>4, CoveredKept DEF OneAtATime
  <2>5. CASE \E gone : coinOps' = [coinOps EXCEPT ![Phone] = Wallet!Disown(@, gone)]
    BY <1>0, <2>1, <2>2, <2>5, CoveredKept, OneMapped
  <2> QED
    BY <2>3, <2>4, <2>5
<1>6. CASE BalanceAnswered
  <2>1. /\ UNCHANGED <<points, coins, pending, credited, wire, records, queue>>
        /\ coinOps' = [coinOps EXCEPT ![Phone] = Wallet!AnswerAll(@, Me, Local)]
    BY <1>6, LocalIs DEF BalanceAnswered, Wallet!Answer, purchaseVars
  <2>2. Local' = Local
    BY <2>1 DEF Local, W!LocalView
  <2> QED
    BY <1>0, <2>1, <2>2, CoveredKept, OneMapped
<1>7. CASE CoinsAdded
  BY <1>0, <1>7, CoveredCoinsAdded
<1>8. CASE EpisodeGranted
  BY <1>0, <1>8, CoveredEpisodeGranted
<1>9. CASE EpisodeRefused
  <2>1. /\ coinOps[Phone] # <<>> /\ Due.snap # Unanswered
        /\ coins' = [coins EXCEPT ![Phone] = Holding]
        /\ coinOps' = [coinOps EXCEPT ![Phone] = Tail(@)]
        /\ UNCHANGED <<points, pending, credited, wire, records, queue>>
    BY <1>9 DEF EpisodeRefused, Wallet!RefuseCallback, Wallet!CallbackDue, Due, Holding,
                Purchases!PurchaseRefused
  <2>2. PICK S : IsFiniteSet(S) /\ P!Within(S) /\ Backed(Local, S, credited[Me])
    BY <1>0 DEF Covered
  <2>3. Holding <= credited[Me] /\ Tail(coinOps[Phone]) = <<>>
    BY <1>0, <2>1, <2>2, HoldingBacked
  <2>4. coins'[Phone] <= credited[Me] /\ coinOps'[Phone] = <<>>
    BY <2>1, <2>3, WalletTypes
  <2>5. OneAtATime'
    BY <2>4, OneNone, EmptySeq
  <2> QED
    BY <1>0, <2>1, <2>4, <2>5, CoveredKept
<1>10. CASE Deliver
  BY <1>0, <1>10, CoveredDeliver
<1>11. CASE Refuse
  BY <1>0, <1>11, CoveredRefuse
<1>12. CASE Relaunch
  BY <1>0, <1>12, CoveredRelaunch
<1> QED
  BY <1>1, <1>3, <1>4, <1>5, <1>6, <1>7, <1>8, <1>9, <1>10, <1>11, <1>12 DEF Next

LEMMA AllCoveredInit == Init => AllCovered
<1> SUFFICES ASSUME Init PROVE OneAtATime /\ Covered
  BY DEF AllCovered
<1>1. /\ points[Me] = Absent /\ coins[Phone] = 0 /\ credited[Me] = 0
      /\ pending[Phone][Me] = <<>> /\ coinOps[Phone] = <<>> /\ wire = <<>> /\ queue = <<>>
  BY DEF Init, Wallet!Init, Purchases!Init
<1>2. OneAtATime
  <2>1. DOMAIN coinOps[Phone] = {} /\ Len(coinOps[Phone]) = 0
    BY <1>1, EmptySeq
  <2> QED
    BY <2>1 DEF OneAtATime
<1>3. Owned = {} /\ Local = Absent
  BY <1>1 DEF Init, Purchases!Init, Owned, Local, W!LocalView
<1>4. IsFiniteSet({}) /\ Backed(Absent, {}, 0)
  BY FS_EmptySet DEF Backed
<1>5. P!Within({})
  <2>1. P!Init
    BY SameInit DEF Init
  <2>2. /\ DOMAIN queue = {} /\ DOMAIN ops = {} /\ cache = {} /\ fetch.snap = {} /\ dictIndex = {}
        /\ listed.eps = {} /\ detail.book.eps = {} /\ records = [k \in P!Keys |-> {}]
    BY <2>1 DEF P!Init, P!FreshBook
  <2> QED
    BY <2>2 DEF P!Within
<1>6. Ordered(<<>>, <<>>, <<>>, Absent, {}, 0)
  BY <1>4, OrderedEmpty
<1>7. Covered
  BY <1>1, <1>3, <1>4, <1>5, <1>6 DEF Covered
<1> QED
  BY <1>2, <1>7

\* No episode is listed on the server that was not paid for there: redeemCoins writes
\* the balance before purchaseBook writes the record, both go the same way in this
\* order, and each purchase starts from the balance the one before has left, so it
\* holds wherever the process dies and whatever record is refused.
THEOREM ShopPaidAtServer == Spec => []PaidAtServer
<1>1. Parts /\ AllCovered => PaidAtServer
  <2> SUFFICES ASSUME Parts, AllCovered, spoiled = {}
               PROVE  Held + BookCoin * Cardinality(Owned) <= credited[Me]
    BY DEF PaidAtServer
  <2>1. Backed(points[Me], Owned, credited[Me])
    <3>1. wire \in Seq({"coins", "record"})
      BY DEF Parts
    <3> QED
      BY <3>1, OrderedNow DEF AllCovered, Covered
  <2>2. CASE points[Me] = Absent
    <3>1. Owned = {} /\ Held = 0
      BY <2>1, <2>2 DEF Backed, Held
    <3>2. BookCoin * Cardinality(Owned) = 0
      BY <3>1, FS_EmptySet, ShopAssumption
    <3> QED
      BY <3>1, <3>2, WalletTypes
  <2>3. CASE points[Me] # Absent
    BY <2>1, <2>3 DEF Backed, Held
  <2> QED
    BY <2>2, <2>3
<1> QED
  BY <1>1, AllCoveredInit, AllCoveredStep, PartsInvariant, PTL DEF Spec


-----------------------------------------------------------------------------
\* What the server lists it keeps, in the shop too: a refused write and a process
\* that dies take purchases with them, never one that has arrived, as each record
\* written lists all that its older versions list (Growing, in PurchasesProofs).
THEOREM ShopOwnedNeverShrinks == Spec => OwnedNeverShrinks
<1> DEFINE Grow == mishaps' \subseteq {"lost"} => Owned \subseteq Owned'
<1>1. Parts /\ P!Growing /\ [Next]_vars => [Grow]_vars
  <2> SUFFICES ASSUME Parts, P!Growing, [Next]_vars, mishaps' \subseteq {"lost"}
               PROVE  Owned \subseteq Owned'
    OBVIOUS
  <2>1. [P!Next]_(P!vars)
    BY PurchasesMove DEF purchaseVars, P!vars
  <2>2. P!TypeOK
    BY DEF Parts, P!Paid
  <2>3. P!WritesGrow
    BY <2>1, P!MishapsGrow, ShopAssumption DEF P!Growing
  <2>4. records' = records \/ P!Deliver
    BY <2>1, P!RecordsDelivered, ShopAssumption
  <2>5. \A k \in P!Keys : records[k] \subseteq records'[k]
    BY <2>2, <2>3, <2>4, P!ServerKeeps, ShopAssumption
  <2>6. Purchases!Keys = P!Keys
    BY DEF Purchases!Keys, P!Keys
  <2> QED
    BY <2>5, <2>6 DEF Owned
<1>2. P!Spec => []P!Growing
  BY ShopAssumption, P!GrowingInvariant
<1>3. Spec => [][Grow]_vars
  <2> HIDE DEF Grow
  <2> QED
    BY <1>1, <1>2, ShopIsBoth, PartsInvariant, PTL DEF Spec
<1> QED
  BY <1>3 DEF OwnedNeverShrinks, Grow

-----------------------------------------------------------------------------
(* What was paid for is listed, and what the components keep the shop keeps *)

\* Each purchase that took coins is one that granted an episode.
Counted == debited[Me] = Len(bought)

LEMMA CountedStep == Parts /\ Counted /\ [Next]_vars => Counted'
<1> SUFFICES ASSUME Parts, Counted, [Next]_vars PROVE Counted'
  OBVIOUS
<1>1. CASE CoinsAdded
  BY <1>1 DEF CoinsAdded, Wallet!AddCallback, purchaseVars, Counted
<1>2. CASE EpisodeGranted
  <2>1. debited[Me] \in Nat /\ uid[Phone] = Me
    BY <1>2 DEF Parts, W!WalletInv, W!Solvent, W!TypeOK, EpisodeGranted, InTabs
  <2>2. debited'[Me] = debited[Me] + 1
    BY <1>2, <2>1 DEF EpisodeGranted, Wallet!RedeemCallback
  <2>3. bought \in Seq(Episodes)
    BY DEF Parts, P!Paid, P!TypeOK
  <2>4. Len(bought') = Len(bought) + 1
    BY <1>2, <2>3 DEF EpisodeGranted, Purchases!PurchaseGranted
  <2> QED
    BY <2>2, <2>4 DEF Counted
<1>3. CASE UNCHANGED <<credited, debited, bought>>
  BY <1>3 DEF Counted
<1> QED
  BY <1>1, <1>2, <1>3, SalesOnly

LEMMA CountedInit == Init => Counted
<1> SUFFICES ASSUME Init PROVE Counted
  OBVIOUS
<1>1. debited[Me] = 0 /\ bought = <<>>
  BY DEF Init, Wallet!Init, Purchases!Init
<1> QED
  BY <1>1, EmptySeq DEF Counted

\* The coins of an account that met no mishap are those of the packs bought, less the
\* price of each episode listed: as the phone sees it because a sale takes the price
\* and grants the episode in one callback, on the server once both writes are there.
THEOREM ShopPaidIsListed == Spec => []PaidIsListed
<1>1. Parts /\ P!Faithful /\ Counted => PaidIsListed
  <2> SUFFICES ASSUME Parts, P!Faithful, Counted, Clean, pending[Phone][Me] = <<>>, queue = <<>>
               PROVE  Held + BookCoin * Cardinality(Owned) = credited[Me]
    BY DEF PaidIsListed
  <2>1. W!Earned(Me) = Held
    <3>1. W!Accountable(Me)
      BY DEF Parts, W!WalletInv, Clean
    <3>2. W!Purse(Me) = W!Earned(Me)
      BY <3>1, ShopAssumption, W!PurseIsEarned
    <3>3. W!Purse(Me) = Held
      BY DEF W!Purse, Held
    <3> QED
      BY <3>2, <3>3
  <2>2. P!Recorded
    BY DEF P!Faithful, Clean
  <2>3. Owned = P!Bought
    <3>1. ASSUME NEW k \in P!Keys PROVE P!Newest(k) = records[k]
      <4>1. P!LastWrite(k) = {}
        BY EmptySeq DEF P!LastWrite
      <4> QED
        BY <4>1 DEF P!Newest
    <3>2. UNION {P!Newest(k) : k \in P!Keys} = P!Bought
      BY <2>2 DEF P!Recorded
    <3>3. Purchases!Keys = P!Keys
      BY DEF Purchases!Keys, P!Keys
    <3> QED
      BY <3>1, <3>2, <3>3 DEF Owned
  <2>4. Cardinality(Owned) = debited[Me]
    <3>1. P!Cardinality(P!Bought) = Len(bought)
      BY <2>2 DEF P!Recorded
    <3>2. Cardinality(P!Bought) = P!Cardinality(P!Bought)
      BY Zenon DEF Cardinality, P!Cardinality
    <3> QED
      BY <2>3, <3>1, <3>2 DEF Counted
  <2>5. credited[Me] \in Nat /\ debited[Me] \in Nat
    BY DEF Parts, W!WalletInv, W!Solvent, W!TypeOK
  <2>6. PICK paid \in Int : paid = BookCoin * debited[Me]
    BY <2>5, ShopAssumption
  <2>7. Held = credited[Me] - paid
    BY <2>1, <2>6 DEF W!Earned
  <2> QED
    BY <2>4, <2>5, <2>6, <2>7
<1> QED
  BY <1>1, CountedInit, CountedStep, PartsInvariant, FaithfulInShop, PTL DEF Spec

\* What the wallet promises by itself it keeps in the shop, where each of its steps
\* may be a purchase's too.
THEOREM ShopKeepsWallet ==
    Spec => [](Wallet!BalanceNeverNegative /\ Wallet!Conservation)
<1>1. W!Spec => []W!BalanceNeverNegative /\ []W!Conservation
  BY ShopAssumption, W!WalletNeverNegative, W!WalletConservation
<1>2. W!BalanceNeverNegative => Wallet!BalanceNeverNegative
  BY DEF W!BalanceNeverNegative, Wallet!BalanceNeverNegative
<1>3. W!Conservation => Wallet!Conservation
  <2>1. \A u : W!Purse(u) = Wallet!Purse(u)
    BY Zenon DEF Wallet!Purse, W!Purse, Wallet!LocalView, W!LocalView
  <2> QED
    BY <2>1 DEF W!Conservation, Wallet!Conservation
<1> QED
  BY <1>1, <1>2, <1>3, ShopIsBoth, PTL

\* And the purchases theirs, where it is the balance that decides whether a purchase
\* is granted: an episode is recorded or flagged only if it was paid for, and there is
\* one record of the comic, which is the truth.
THEOREM ShopKeepsPurchases ==
    Spec => [](Purchases!RecordsArePaid /\ Purchases!FlaggedArePaid /\ Purchases!OneFaithfulRecord)
<1>1. P!Spec => []P!RecordsArePaid /\ []P!FlaggedArePaid /\ []P!OneFaithfulRecord
  BY ShopAssumption, P!PurchasesRecordsArePaid, P!PurchasesFlaggedArePaid, P!PurchasesOneFaithfulRecord
<1>2. P!RecordsArePaid => Purchases!RecordsArePaid
  BY DEF P!RecordsArePaid, Purchases!RecordsArePaid, P!Keys, Purchases!Keys, P!Bought, Purchases!Bought
<1>3. P!FlaggedArePaid => Purchases!FlaggedArePaid
  BY DEF P!FlaggedArePaid, Purchases!FlaggedArePaid, P!Bought, Purchases!Bought, P!Shown, Purchases!Shown
<1>4. P!OneFaithfulRecord => Purchases!OneFaithfulRecord
  <2>1. Purchases!Keys = P!Keys /\ Purchases!Bought = P!Bought /\ Purchases!Shown = P!Shown
    BY DEF P!Keys, Purchases!Keys, P!Bought, Purchases!Bought, P!Shown, Purchases!Shown
  <2>2. \A k : Purchases!Newest(k) = P!Newest(k)
    BY Zenon DEF Purchases!Newest, P!Newest, Purchases!LastWrite, P!LastWrite
  <2>3. \A S : Purchases!Cardinality(S) = P!Cardinality(S)
    BY Zenon DEF Purchases!Cardinality, P!Cardinality
  <2>4. P!UpToDate(P!Shown) <=> Purchases!UpToDate(Purchases!Shown)
    <3>1. Purchases!PurchasedBooks = P!PurchasedBooks
      BY <2>1, <2>2 DEF Purchases!PurchasedBooks, P!PurchasedBooks
    <3> QED
      BY <2>1, <3>1 DEF Purchases!UpToDate, P!UpToDate, Purchases!NoKey, P!NoKey
  <2>5. {k \in Purchases!Keys : Purchases!Newest(k) # {}} = {k \in P!Keys : P!Newest(k) # {}}
    BY <2>1, <2>2
  <2>6. UNION {Purchases!Newest(k) : k \in Purchases!Keys} = UNION {P!Newest(k) : k \in P!Keys}
    BY <2>1, <2>2
  <2> QED
    BY <2>1, <2>3, <2>4, <2>5, <2>6 DEF P!OneFaithfulRecord, Purchases!OneFaithfulRecord
<1> QED
  BY <1>1, <1>2, <1>3, <1>4, ShopIsBoth, PTL

=============================================================================

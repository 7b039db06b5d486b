----------------------------- MODULE CoinWallet -----------------------------
(***************************************************************************)
(* The coins of an account: TSFirebaseAPI.addCoins / redeemCoins / getCoins*)
(* over the Realtime Database node Points/<uID>, the cached copy in the    *)
(* TSUser singleton, the account switch (login / logout), and the death of *)
(* the app's process.                                                      *)
(*                                                                         *)
(* Every coin operation is a read (observeSingleEvent) whose callback runs *)
(* later on the main queue and then overwrites the node with a value       *)
(* computed from the snapshot (setValue, optimistic and unacknowledged).   *)
(*                                                                         *)
(* TSUser is written to UserDefaults in the step that changes it, so what  *)
(* a relaunch loads is the variables coins and uid themselves.             *)
(***************************************************************************)
EXTENDS Integers, Sequences, FiniteSets

CONSTANTS
    Users,       \* accounts (uIDs)
    Devices,     \* installations of the app
    Packs,       \* coin packs the shop sells: the rows of BuyCoinViewController
    BookCoin,    \* price of an episode: the literal 4 of DetailViewController
    NoUser,      \* TSUser.uID = ""
    Absent,      \* snapshot of a node that does not exist
    Unanswered,  \* a read the database has not answered yet
    MaxOps,      \* bound: coin operations in flight, on all devices together
    MaxCredit,   \* bound: no pack is started once some account was credited this much
    MaxDebits    \* bound: no redeem is started once some account was debited this often

ASSUME WalletAssumption ==
    /\ Packs \subseteq Nat
    /\ BookCoin \in Nat
    /\ MaxOps \in Nat /\ MaxCredit \in Nat /\ MaxDebits \in Nat
    /\ NoUser \notin Users
    /\ Absent \notin Int /\ Unanswered \notin Int
    /\ Absent # Unanswered
    /\ Absent \notin [balance : Int, bought : Nat, episodes : Nat]

VARIABLES
    points,     \* the server's Points node
    uid,        \* TSUser.shared.uID of each device
    coins,      \* TSUser.shared.coins of each device
    ops,        \* coin operations in flight on each device, in the order they were issued
    pending,    \* setValue calls not yet applied by the server, oldest first
    trapped,    \* the process has hit a runtime trap and can only be relaunched
    credited,   \* history: coins added to an account
    debited,    \* history: redeems granted to an account
    sound       \* history: no race, lost write or account switch has touched the account

serverVars == points
deviceVars == <<uid, coins, ops, pending, trapped>>
history == <<credited, debited, sound>>
vars == <<points, uid, coins, ops, pending, trapped, credited, debited, sound>>

-----------------------------------------------------------------------------
(* Types *)

Snapshot == Int \cup {Absent}

\* A coin operation: getCoins for display, addCoins, or redeemCoins.  "owned"
\* says that the screen its completion closure refers to (unowned self) lives.
Op == [kind  : {"show", "add", "redeem"},
       n     : Nat,
       uid   : Users,
       snap  : Snapshot \cup {Unanswered},
       owned : BOOLEAN]

TypeOK ==
    /\ points \in [Users -> Snapshot]
    /\ uid \in [Devices -> Users \cup {NoUser}]
    /\ coins \in [Devices -> Int]
    /\ ops \in [Devices -> Seq(Op)]
    /\ pending \in [Devices -> [Users -> Seq(Int)]]
    /\ trapped \in [Devices -> BOOLEAN]
    /\ credited \in [Users -> Nat]
    /\ debited \in [Users -> Nat]
    /\ sound \in [Users -> BOOLEAN]

Init ==
    /\ points = [u \in Users |-> Absent]
    /\ uid = [d \in Devices |-> NoUser]
    /\ coins = [d \in Devices |-> 0]
    /\ ops = [d \in Devices |-> <<>>]
    /\ pending = [d \in Devices |-> [u \in Users |-> <<>>]]
    /\ trapped = [d \in Devices |-> FALSE]
    /\ credited = [u \in Users |-> 0]
    /\ debited = [u \in Users |-> 0]
    /\ sound = [u \in Users |-> TRUE]

-----------------------------------------------------------------------------
(* The Realtime Database client *)

\* (fault) pending writes do not shadow the server's data.
LocalViewOfServer(d, u) == points[u]

\* Writes not yet acknowledged shadow the server's data (FWriteTree).
LocalView(d, u) ==
    IF pending[d][u] = <<>> THEN points[u] ELSE pending[d][u][Len(pending[d][u])]

\* The client answers a read at once when it holds the node's complete data:
\* a pending overwrite of it, or the view of a listener that has its event.
Cached(d, u) ==
    \/ pending[d][u] # <<>>
    \/ \E i \in DOMAIN ops[d] : ops[d][i].uid = u /\ ops[d][i].snap # Unanswered

\* (fault) the event reaches the oldest listener only.
AnswerFirst(q, u, value) ==
    [i \in DOMAIN q |->
        IF /\ q[i].uid = u /\ q[i].snap = Unanswered
           /\ \A j \in 1..(i - 1) : q[j].uid = u => q[j].snap # Unanswered
        THEN [q[i] EXCEPT !.snap = value] ELSE q[i]]

\* One event reaches every listener of node u that still waits; a listener that
\* has its event ignores later ones (observeSingleEvent).
AnswerAll(q, u, value) ==
    [i \in DOMAIN q |->
        IF q[i].uid = u /\ q[i].snap = Unanswered THEN [q[i] EXCEPT !.snap = value] ELSE q[i]]

Disown(q, gone) ==
    [i \in DOMAIN q |-> IF i \in gone THEN [q[i] EXCEPT !.owned = FALSE] ELSE q[i]]

\* An account stops being accountable: the reason is at each use.
Taint(us) == sound' = [u \in Users |-> sound[u] /\ u \notin us]

InFlight == UNION {{<<d, i>> : i \in DOMAIN ops[d]} : d \in Devices}

\* Another coin-changing operation on u is in flight, or another device holds
\* a write to u the server has not applied.
Contended(d, u) ==
    \/ \E e \in Devices : \E i \in DOMAIN ops[e] :
          ops[e][i].uid = u /\ ops[e][i].kind # "show"
    \/ \E e \in Devices \ {d} : pending[e][u] # <<>>

-----------------------------------------------------------------------------
(* Starting an operation: TSFirebaseAPI.getCoins registers the listener *)

Ask(d, kind, n) ==
    /\ ~trapped[d]
    /\ uid[d] # NoUser
    /\ Cardinality(InFlight) < MaxOps
    /\ ops' = [ops EXCEPT ![d] = Append(@,
                 [kind |-> kind, n |-> n, uid |-> uid[d], owned |-> TRUE,
                  snap |-> IF Cached(d, uid[d]) THEN LocalView(d, uid[d]) ELSE Unanswered])]
    /\ UNCHANGED <<points, uid, coins, pending, trapped, credited, debited>>

\* ProfileViewController.viewDidAppear and BuyCoinViewController.viewWillAppear.
StartShow(d) ==
    /\ Ask(d, "show", 0)
    /\ UNCHANGED sound

\* BuyCoinViewController.btnBuyCoins.
StartAdd(d, n) ==
    /\ Ask(d, "add", n)
    /\ \A u \in Users : credited[u] < MaxCredit
    /\ Taint(IF Contended(d, uid[d]) THEN {uid[d]} ELSE {})

\* DetailViewController.btnPurchaseClicked, through purchaseBook.
StartRedeem(d) ==
    /\ Ask(d, "redeem", BookCoin)
    /\ \A u \in Users : debited[u] < MaxDebits
    /\ Taint(IF Contended(d, uid[d]) THEN {uid[d]} ELSE {})

\* The server answers the listeners of node u on device d.
Answer(d, u) ==
    /\ \E i \in DOMAIN ops[d] : ops[d][i].uid = u /\ ops[d][i].snap = Unanswered
    /\ ops' = [ops EXCEPT ![d] = AnswerAll(@, u, LocalView(d, u))]
    /\ UNCHANGED <<points, uid, coins, pending, trapped, credited, debited, sound>>

-----------------------------------------------------------------------------
(* Callbacks on the main queue, in order *)

\* (fault) the cached coins are trusted and the snapshot ignored.
HeldCached(d, op) == coins[d]

\* What getCoins leaves in TSUser.coins: the snapshot, or the old value when
\* the node does not exist.
Held(d, op) == IF op.snap = Absent THEN coins[d] ELSE op.snap

\* (fault) the check of redeemCoins is missing.
AffordableAlways(d, op) == TRUE

Affordable(d, op) == Held(d, op) >= op.n

CallbackDue(d, kind) ==
    /\ ~trapped[d]
    /\ ops[d] # <<>>
    /\ Head(ops[d]).kind = kind
    /\ Head(ops[d]).snap # Unanswered

\* Points/<TSUser.uID>, with the uID of the moment of the callback, := value.
\* With uID "" the path is refused with an exception before anything is written.
Write(d, value) ==
    IF uid[d] = NoUser
    THEN /\ ops' = [ops EXCEPT ![d] = Tail(@)]
         /\ UNCHANGED pending
    ELSE /\ ops' = [ops EXCEPT ![d] = AnswerAll(Tail(@), uid[d], value)]
         /\ pending' = [pending EXCEPT ![d][uid[d]] = Append(@, value)]

\* The callback of an operation another account began mixes two balances.
Mixed(d) == IF Head(ops[d]).uid # uid[d] THEN {uid[d]} ELSE {}

\* The completion closure captured its screen as unowned: it traps when the
\* screen is gone.
Complete(d) == trapped' = [trapped EXCEPT ![d] = ~Head(ops[d]).owned]

\* (fault) the snapshot is taken for an Int without looking.
ShowCallbackUnchecked(d) ==
    /\ CallbackDue(d, "show")
    /\ coins' = [coins EXCEPT ![d] = Head(ops[d]).snap]
    /\ ops' = [ops EXCEPT ![d] = Tail(@)]
    /\ Complete(d)
    /\ Taint(Mixed(d))
    /\ UNCHANGED <<points, uid, pending, credited, debited>>

ShowCallback(d) ==
    /\ CallbackDue(d, "show")
    /\ coins' = [coins EXCEPT ![d] = Held(d, Head(ops[d]))]
    /\ ops' = [ops EXCEPT ![d] = Tail(@)]
    /\ Complete(d)
    /\ Taint(Mixed(d))
    /\ UNCHANGED <<points, uid, pending, credited, debited>>

AddCallback(d) ==
    LET op == Head(ops[d])
        total == Held(d, op) + op.n
    IN  /\ CallbackDue(d, "add")
        /\ coins' = [coins EXCEPT ![d] = total]
        /\ Write(d, total)
        /\ Complete(d)
        /\ credited' = [u \in Users |-> credited[u] + IF u = uid[d] THEN op.n ELSE 0]
        /\ Taint(Mixed(d))
        /\ UNCHANGED <<points, uid, debited>>

RedeemCallback(d) ==
    LET op == Head(ops[d])
        rest == Held(d, op) - op.n
    IN  /\ CallbackDue(d, "redeem")
        /\ Affordable(d, op)
        /\ coins' = [coins EXCEPT ![d] = rest]
        /\ Write(d, rest)
        /\ Complete(d)
        /\ debited' = [u \in Users |-> debited[u] + IF u = uid[d] THEN 1 ELSE 0]
        /\ Taint(Mixed(d))
        /\ UNCHANGED <<points, uid, credited>>

\* "You have insufficient coin in your account please purchase coin."  The OK of
\* this modal alert, which runs the completion, is taken with the callback.
RefuseCallback(d) ==
    LET op == Head(ops[d])
    IN  /\ CallbackDue(d, "redeem")
        /\ ~Affordable(d, op)
        /\ coins' = [coins EXCEPT ![d] = Held(d, op)]
        /\ ops' = [ops EXCEPT ![d] = Tail(@)]
        /\ Complete(d)
        /\ Taint(Mixed(d))
        /\ UNCHANGED <<points, uid, pending, credited, debited>>

-----------------------------------------------------------------------------
(* Writes on their way to the server *)

\* (fault) the newest write overtakes the older ones.
DeliverNewest(d, u) ==
    /\ pending[d][u] # <<>>
    /\ points' = [points EXCEPT ![u] = LocalView(d, u)]
    /\ pending' = [pending EXCEPT ![d][u] = SubSeq(@, 1, Len(@) - 1)]
    /\ UNCHANGED <<uid, coins, ops, trapped, credited, debited, sound>>

Deliver(d, u) ==
    /\ pending[d][u] # <<>>
    /\ points' = [points EXCEPT ![u] = Head(pending[d][u])]
    /\ pending' = [pending EXCEPT ![d][u] = Tail(@)]
    /\ UNCHANGED <<uid, coins, ops, trapped, credited, debited, sound>>

\* The server refuses a write; the client reverts it and the app, which passes
\* no completion block to setValue, is not told.
Reject(d, u) ==
    /\ pending[d][u] # <<>>
    /\ pending' = [pending EXCEPT ![d][u] = Tail(@)]
    /\ Taint({u})
    /\ UNCHANGED <<points, uid, coins, ops, trapped, credited, debited>>

-----------------------------------------------------------------------------
(* Screens, accounts, process *)

\* A screen is popped: the operations it issued lose it.  Those of a screen of
\* another tab, issued before or after, do not.
Leave(d) ==
    /\ ~trapped[d]
    /\ \E gone \in SUBSET DOMAIN ops[d] : gone # {} /\ ops' = [ops EXCEPT ![d] = Disown(@, gone)]
    /\ UNCHANGED <<points, uid, coins, pending, trapped, credited, debited, sound>>

\* LoginViewController: uID is set, coins keep whatever TSUser held.
Login(d, u) ==
    /\ ~trapped[d]
    /\ uid[d] = NoUser
    /\ uid' = [uid EXCEPT ![d] = u]
    /\ Taint(IF coins[d] # 0 THEN {u} ELSE {})
    /\ UNCHANGED <<points, coins, ops, pending, trapped, credited, debited>>

\* ProfileViewController.navigateToLoginController: TSUser is cleared and every
\* screen is gone; operations in flight and pending writes are not cancelled.
Logout(d) ==
    /\ ~trapped[d]
    /\ uid[d] # NoUser
    /\ uid' = [uid EXCEPT ![d] = NoUser]
    /\ coins' = [coins EXCEPT ![d] = 0]
    /\ ops' = [ops EXCEPT ![d] = Disown(@, DOMAIN @)]
    /\ UNCHANGED <<points, pending, trapped, credited, debited, sound>>

\* The process dies (a trap, the user, the system) and the app is launched
\* again: the client keeps nothing on disk, TSUser is loaded from UserDefaults.
Relaunch(d) ==
    /\ ops' = [ops EXCEPT ![d] = <<>>]
    /\ pending' = [pending EXCEPT ![d] = [u \in Users |-> <<>>]]
    /\ trapped' = [trapped EXCEPT ![d] = FALSE]
    /\ Taint({u \in Users : pending[d][u] # <<>>})
    /\ UNCHANGED <<points, uid, coins, credited, debited>>

-----------------------------------------------------------------------------

Callback(d) ==
    ShowCallback(d) \/ AddCallback(d) \/ RedeemCallback(d) \/ RefuseCallback(d)

Next ==
    \E d \in Devices :
        \/ StartShow(d)
        \/ \E n \in Packs : StartAdd(d, n)
        \/ StartRedeem(d)
        \/ \E u \in Users : Answer(d, u) \/ Deliver(d, u) \/ Reject(d, u) \/ Login(d, u)
        \/ Callback(d)
        \/ Leave(d)
        \/ Logout(d)
        \/ Relaunch(d)

Spec == Init /\ [][Next]_vars

\* The device is online and its main queue is served; a process that trapped is
\* gone.  Nothing is assumed of the user, of refusals or of other relaunches.
Fairness ==
    \A d \in Devices :
        /\ WF_vars(Callback(d))
        /\ WF_vars(trapped[d] /\ Relaunch(d))
        /\ \A u \in Users : WF_vars(Answer(d, u)) /\ WF_vars(~trapped[d] /\ Deliver(d, u))

FairSpec == Spec /\ Fairness

-----------------------------------------------------------------------------
(* What the wallet promises *)

\* What an account owns: the newest write on its way to the server, or else
\* what the server holds; a missing node is an empty purse.
Purse(u) ==
    LET holders == {d \in Devices : pending[d][u] # <<>>}
        newest  == IF holders = {} THEN points[u] ELSE LocalView(CHOOSE d \in holders : TRUE, u)
    IN  IF newest = Absent THEN 0 ELSE newest

\* No balance is ever negative, wherever it is kept: redeemCoins checks the
\* coins it has just read before it takes any, whatever races and whoever is
\* signed in, and every other value written is a sum.
BalanceNeverNegative ==
    /\ \A u \in Users : points[u] # Absent => points[u] >= 0
    /\ \A d \in Devices : coins[d] >= 0
    /\ \A d \in Devices, u \in Users : \A i \in DOMAIN pending[d][u] : pending[d][u][i] >= 0

\* Why: the snapshots in flight are balances some device or the server held, so
\* they are natural numbers too.  Inductive; it implies TypeOK and the above.
SolventOp == {op \in Op : op.snap \in Nat \cup {Absent, Unanswered}}

Solvent ==
    /\ TypeOK
    /\ points \in [Users -> Nat \cup {Absent}]
    /\ coins \in [Devices -> Nat]
    /\ ops \in [Devices -> Seq(SolventOp)]
    /\ pending \in [Devices -> [Users -> Seq(Nat)]]

\* An account no race, lost write or account switch has touched owns exactly
\* what it was credited less what it paid: the read-then-overwrite of addCoins
\* and redeemCoins loses no coin by itself.
Conservation ==
    \A u \in Users : sound[u] => Purse(u) = credited[u] - BookCoin * debited[u]

\* What is left of queue q after a step is r: operations on one balance that had
\* the same number, or both none yet, have the same number, or none, in r.
StayInStep(q, r) ==
    LET gone == IF Len(r) < Len(q) THEN Len(q) - Len(r) ELSE 0
    IN  \A i, j \in DOMAIN r :
            /\ i + gone \in DOMAIN q
            /\ j + gone \in DOMAIN q
            /\ q[i + gone].uid = q[j + gone].uid
            /\ q[i + gone].snap = q[j + gone].snap
            => r[i].snap = r[j].snap

\* Operations of a phone on one balance that have read the same number, or both
\* none yet, keep to one number while both are in flight: one event answers every
\* listener that waits, and an answer is not read again.  So those begun before
\* the first answer all compute from one number, and the later overwrite undoes
\* the earlier.  (One begun after a callback wrote reads the newer number.)
OverlapReadsSameBalance ==
    [][\A d \in Devices : StayInStep(ops[d], ops'[d])]_vars

\* The wallet implements the ledger, on the accounts it is sound for.
Ledger == INSTANCE Ledger WITH
            Void    <- Absent,
            account <- [u \in Users |->
                IF sound[u]
                THEN [balance |-> Purse(u), bought |-> credited[u], episodes |-> debited[u]]
                ELSE Absent]

ImplementsLedger == Ledger!Spec

\* What the server finally holds for an account the ledger vouches for is what
\* was credited less what was paid: the last of the overwrites queued by
\* addCoins and redeemCoins arrives, and it arrives last.
ServerSettles ==
    \A u \in Users :
        <>[](sound[u] => credited[u] - BookCoin * debited[u] =
                            IF points[u] = Absent THEN 0 ELSE points[u])

\* "You have insufficient coin in your account please purchase coin."
\* (TSFirebaseAPI.redeemCoins): what an account spent was in its purse.
SpentWasBought ==
    \A u \in Users : BookCoin * debited[u] <= credited[u]

=============================================================================

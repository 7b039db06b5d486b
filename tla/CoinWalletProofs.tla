-------------------------- MODULE CoinWalletProofs --------------------------
(***************************************************************************)
(* Proofs about CoinWallet, for every set of accounts, devices and packs   *)
(* and every price.                                                        *)
(***************************************************************************)
EXTENDS CoinWallet, TLAPS

USE WalletAssumption

-----------------------------------------------------------------------------
(* The operators on the sequence of operations in flight *)

\* Answering listeners of one node with a natural number or with "absent"
\* keeps the operations well formed.
LEMMA AnswerAllSolvent ==
    ASSUME NEW q \in Seq(SolventOp), NEW u \in Users, NEW v \in Nat \cup {Absent}
    PROVE  AnswerAll(q, u, v) \in Seq(SolventOp)
<1>1. \A i \in DOMAIN q : q[i] \in SolventOp
  OBVIOUS
<1>2. \A i \in DOMAIN q : [q[i] EXCEPT !.snap = v] \in SolventOp
  BY <1>1 DEF SolventOp, Op, Snapshot
<1>3. DOMAIN q = 1..Len(q) /\ Len(q) \in Nat
  OBVIOUS
<1> QED
  BY <1>1, <1>2, <1>3 DEF AnswerAll

\* Popping screens changes nothing but who is left to be told.
LEMMA DisownSolvent ==
    ASSUME NEW q \in Seq(SolventOp), NEW gone
    PROVE  Disown(q, gone) \in Seq(SolventOp)
<1>1. \A i \in DOMAIN q : q[i] \in SolventOp
  OBVIOUS
<1>2. \A i \in DOMAIN q : [q[i] EXCEPT !.owned = FALSE] \in SolventOp
  BY <1>1 DEF SolventOp, Op
<1>3. DOMAIN q = 1..Len(q) /\ Len(q) \in Nat
  OBVIOUS
<1> QED
  BY <1>1, <1>2, <1>3 DEF Disown

\* What a device sees of a balance is a natural number, or nothing.
LEMMA LocalViewSolvent ==
    ASSUME Solvent, NEW d \in Devices, NEW u \in Users
    PROVE  LocalView(d, u) \in Nat \cup {Absent}
<1>1. points[u] \in Nat \cup {Absent} /\ pending[d][u] \in Seq(Nat)
  BY DEF Solvent
<1>2. CASE pending[d][u] = <<>>
  BY <1>1, <1>2 DEF LocalView
<1>3. CASE pending[d][u] # <<>>
  <2>1. Len(pending[d][u]) \in DOMAIN pending[d][u]
    BY <1>1, <1>3
  <2> QED
    BY <1>1, <1>3, <2>1 DEF LocalView
<1> QED
  BY <1>2, <1>3

\* What a due operation finds in TSUser.coins is a natural number.
LEMMA HeldSolvent ==
    ASSUME Solvent, NEW d \in Devices, NEW kind, CallbackDue(d, kind)
    PROVE  /\ Head(ops[d]) \in SolventOp
           /\ Tail(ops[d]) \in Seq(SolventOp)
           /\ Held(d, Head(ops[d])) \in Nat
<1>1. ops[d] \in Seq(SolventOp) /\ ops[d] # <<>> /\ coins[d] \in Nat
  BY DEF Solvent, CallbackDue
<1>2. Head(ops[d]) \in SolventOp /\ Tail(ops[d]) \in Seq(SolventOp)
  BY <1>1
<1>3. Head(ops[d]).snap \in Nat \cup {Absent}
  BY <1>2 DEF CallbackDue, SolventOp
<1> QED
  BY <1>1, <1>2, <1>3 DEF Held

\* A balance written by a callback keeps the queues well formed.
LEMMA WriteSolvent ==
    ASSUME Solvent, NEW d \in Devices, NEW v \in Nat, Write(d, v),
           Tail(ops[d]) \in Seq(SolventOp)
    PROVE  /\ ops' \in [Devices -> Seq(SolventOp)]
           /\ pending' \in [Devices -> [Users -> Seq(Nat)]]
<1>1. ops \in [Devices -> Seq(SolventOp)] /\ pending \in [Devices -> [Users -> Seq(Nat)]]
  BY DEF Solvent
<1>2. CASE uid[d] = NoUser
  BY <1>1, <1>2 DEF Write
<1>3. CASE uid[d] # NoUser
  <2>1. uid[d] \in Users
    BY <1>3 DEF Solvent, TypeOK
  <2>2. AnswerAll(Tail(ops[d]), uid[d], v) \in Seq(SolventOp)
    BY <2>1, AnswerAllSolvent
  <2>3. Append(pending[d][uid[d]], v) \in Seq(Nat)
    BY <1>1, <2>1
  <2>4. ops' = [ops EXCEPT ![d] = AnswerAll(Tail(ops[d]), uid[d], v)]
    BY <1>3 DEF Write
  <2>5. pending' = [pending EXCEPT ![d][uid[d]] = Append(@, v)]
    BY <1>3 DEF Write
  <2>6. ops' \in [Devices -> Seq(SolventOp)]
    BY <1>1, <2>2, <2>4
  <2>7. pending' \in [Devices -> [Users -> Seq(Nat)]]
    BY <1>1, <2>1, <2>3, <2>5
  <2> QED
    BY <2>6, <2>7
<1> QED
  BY <1>2, <1>3

-----------------------------------------------------------------------------
(* Solvent is inductive *)

LEMMA SolventInit == Init => Solvent
BY DEF Init, Solvent, TypeOK, Snapshot

LEMMA SolventStep == Solvent /\ [Next]_vars => Solvent'
<1> SUFFICES ASSUME Solvent, [Next]_vars PROVE Solvent'
  OBVIOUS
<1> USE DEF Solvent, TypeOK, Snapshot
<1>0. SolventOp \subseteq Op /\ Nat \subseteq Int
  BY DEF SolventOp
<1>a. (ops' \in [Devices -> Seq(SolventOp)] => ops' \in [Devices -> Seq(Op)])
  BY <1>0
<1>b. (pending' \in [Devices -> [Users -> Seq(Nat)]] => pending' \in [Devices -> [Users -> Seq(Int)]])
  OBVIOUS
<1>c. \A us : Taint(us) => sound' \in [Users -> BOOLEAN]
  BY DEF Taint
<1>1. ASSUME NEW d \in Devices, NEW kind \in {"show", "add", "redeem"}, NEW n \in Nat,
             Ask(d, kind, n), sound' \in [Users -> BOOLEAN]
      PROVE  Solvent'
  <2>1. uid[d] \in Users
    BY <1>1 DEF Ask
  <2> DEFINE op == [kind |-> kind, n |-> n, uid |-> uid[d], owned |-> TRUE,
                    snap |-> IF Cached(d, uid[d]) THEN LocalView(d, uid[d]) ELSE Unanswered]
  <2>2. op.snap \in Nat \cup {Absent, Unanswered}
    BY <2>1, LocalViewSolvent
  <2>3. op \in SolventOp
    BY <2>1, <2>2 DEF SolventOp, Op
  <2>4. ops' = [ops EXCEPT ![d] = Append(@, op)]
    BY <1>1 DEF Ask
  <2>5. ops' \in [Devices -> Seq(SolventOp)]
    BY <2>3, <2>4
  <2> QED
    BY <1>1, <2>5, <1>a DEF Ask
<1>2. ASSUME NEW d \in Devices, StartShow(d) PROVE Solvent'
  <2>1. Ask(d, "show", 0) /\ sound' = sound
    BY <1>2 DEF StartShow
  <2> QED
    BY <2>1, <1>1
<1>3. ASSUME NEW d \in Devices, NEW n \in Packs, StartAdd(d, n) PROVE Solvent'
  <2>1. Ask(d, "add", n) /\ sound' \in [Users -> BOOLEAN] /\ n \in Nat
    BY <1>3, <1>c DEF StartAdd
  <2> QED
    BY <2>1, <1>1
<1>4. ASSUME NEW d \in Devices, StartRedeem(d) PROVE Solvent'
  <2>1. Ask(d, "redeem", BookCoin) /\ sound' \in [Users -> BOOLEAN]
    BY <1>4, <1>c DEF StartRedeem
  <2> QED
    BY <2>1, <1>1
<1>5. ASSUME NEW d \in Devices, NEW u \in Users, Answer(d, u) PROVE Solvent'
  <2>1. AnswerAll(ops[d], u, LocalView(d, u)) \in Seq(SolventOp)
    BY AnswerAllSolvent, LocalViewSolvent
  <2>2. ops' \in [Devices -> Seq(SolventOp)]
    BY <1>5, <2>1 DEF Answer
  <2> QED
    BY <1>5, <2>2, <1>a DEF Answer
<1>6. ASSUME NEW d \in Devices, ShowCallback(d) PROVE Solvent'
  <2>1. /\ Tail(ops[d]) \in Seq(SolventOp)
        /\ Held(d, Head(ops[d])) \in Nat
    BY <1>6, HeldSolvent DEF ShowCallback
  <2>2. /\ coins' \in [Devices -> Nat]
        /\ ops' \in [Devices -> Seq(SolventOp)]
        /\ trapped' \in [Devices -> BOOLEAN]
        /\ sound' \in [Users -> BOOLEAN]
    BY <1>6, <2>1, <1>c DEF ShowCallback, Complete
  <2> QED
    BY <1>6, <2>2, <1>a DEF ShowCallback
<1>7. ASSUME NEW d \in Devices, AddCallback(d) PROVE Solvent'
  <2> DEFINE total == Held(d, Head(ops[d])) + Head(ops[d]).n
  <2>1. /\ Head(ops[d]) \in SolventOp
        /\ Tail(ops[d]) \in Seq(SolventOp)
        /\ Held(d, Head(ops[d])) \in Nat
    BY <1>7, HeldSolvent DEF AddCallback
  <2>2. Head(ops[d]).n \in Nat /\ total \in Nat
    BY <2>1 DEF SolventOp, Op
  <2>3. Write(d, total)
    BY <1>7 DEF AddCallback
  <2>4. /\ ops' \in [Devices -> Seq(SolventOp)]
        /\ pending' \in [Devices -> [Users -> Seq(Nat)]]
    BY <2>1, <2>2, <2>3, WriteSolvent
  <2>5. /\ coins' \in [Devices -> Nat]
        /\ trapped' \in [Devices -> BOOLEAN]
        /\ sound' \in [Users -> BOOLEAN]
        /\ credited' \in [Users -> Nat]
    BY <1>7, <2>2, <1>c DEF AddCallback, Complete
  <2> QED
    BY <1>7, <2>4, <2>5, <1>a, <1>b DEF AddCallback
<1>8. ASSUME NEW d \in Devices, RedeemCallback(d) PROVE Solvent'
  <2> DEFINE rest == Held(d, Head(ops[d])) - Head(ops[d]).n
  <2>1. /\ Head(ops[d]) \in SolventOp
        /\ Tail(ops[d]) \in Seq(SolventOp)
        /\ Held(d, Head(ops[d])) \in Nat
    BY <1>8, HeldSolvent DEF RedeemCallback
  <2>2. Head(ops[d]).n \in Nat /\ rest \in Nat
    BY <1>8, <2>1 DEF SolventOp, Op, RedeemCallback, Affordable
  <2>3. Write(d, rest)
    BY <1>8 DEF RedeemCallback
  <2>4. /\ ops' \in [Devices -> Seq(SolventOp)]
        /\ pending' \in [Devices -> [Users -> Seq(Nat)]]
    BY <2>1, <2>2, <2>3, WriteSolvent
  <2>5. /\ coins' \in [Devices -> Nat]
        /\ trapped' \in [Devices -> BOOLEAN]
        /\ sound' \in [Users -> BOOLEAN]
        /\ debited' \in [Users -> Nat]
    BY <1>8, <2>2, <1>c DEF RedeemCallback, Complete
  <2> QED
    BY <1>8, <2>4, <2>5, <1>a, <1>b DEF RedeemCallback
<1>9. ASSUME NEW d \in Devices, RefuseCallback(d) PROVE Solvent'
  <2>1. /\ Tail(ops[d]) \in Seq(SolventOp)
        /\ Held(d, Head(ops[d])) \in Nat
    BY <1>9, HeldSolvent DEF RefuseCallback
  <2>2. /\ coins' \in [Devices -> Nat]
        /\ ops' \in [Devices -> Seq(SolventOp)]
        /\ trapped' \in [Devices -> BOOLEAN]
        /\ sound' \in [Users -> BOOLEAN]
    BY <1>9, <2>1, <1>c DEF RefuseCallback, Complete
  <2> QED
    BY <1>9, <2>2, <1>a DEF RefuseCallback
<1>10. ASSUME NEW d \in Devices, NEW u \in Users, Deliver(d, u) PROVE Solvent'
  <2>1. /\ Head(pending[d][u]) \in Nat
        /\ Tail(pending[d][u]) \in Seq(Nat)
    BY <1>10 DEF Deliver
  <2>2. /\ points' \in [Users -> Nat \cup {Absent}]
        /\ pending' \in [Devices -> [Users -> Seq(Nat)]]
    BY <1>10, <2>1 DEF Deliver
  <2>3. points' \in [Users -> Int \cup {Absent}]
    BY <2>2
  <2> QED
    BY <1>10, <2>2, <2>3, <1>b DEF Deliver
<1>11. ASSUME NEW d \in Devices, NEW u \in Users, Reject(d, u) PROVE Solvent'
  <2>1. Tail(pending[d][u]) \in Seq(Nat)
    BY <1>11 DEF Reject
  <2>2. pending' \in [Devices -> [Users -> Seq(Nat)]]
    BY <1>11, <2>1 DEF Reject
  <2> QED
    BY <1>11, <2>2, <1>b, <1>c DEF Reject
<1>12. ASSUME NEW d \in Devices, Leave(d) PROVE Solvent'
  <2>1. PICK gone \in SUBSET DOMAIN ops[d] : ops' = [ops EXCEPT ![d] = Disown(@, gone)]
    BY <1>12 DEF Leave
  <2>2. Disown(ops[d], gone) \in Seq(SolventOp)
    BY DisownSolvent
  <2>3. ops' \in [Devices -> Seq(SolventOp)]
    BY <2>1, <2>2
  <2> QED
    BY <1>12, <2>3, <1>a DEF Leave
<1>13. ASSUME NEW d \in Devices, NEW u \in Users, Login(d, u) PROVE Solvent'
  BY <1>13, <1>c DEF Login
<1>14. ASSUME NEW d \in Devices, Logout(d) PROVE Solvent'
  <2>1. Disown(ops[d], DOMAIN ops[d]) \in Seq(SolventOp)
    BY DisownSolvent
  <2>2. ops' \in [Devices -> Seq(SolventOp)]
    BY <1>14, <2>1 DEF Logout
  <2> QED
    BY <1>14, <2>2, <1>a DEF Logout
<1>15. ASSUME NEW d \in Devices, Relaunch(d) PROVE Solvent'
  <2>1. /\ ops' \in [Devices -> Seq(SolventOp)]
        /\ pending' \in [Devices -> [Users -> Seq(Nat)]]
    BY <1>15 DEF Relaunch
  <2> QED
    BY <1>15, <2>1, <1>a, <1>b, <1>c DEF Relaunch
<1>16. CASE UNCHANGED vars
  BY <1>16 DEF vars
<1> QED
  BY <1>2, <1>3, <1>4, <1>5, <1>6, <1>7, <1>8, <1>9, <1>10, <1>11, <1>12, <1>13,
     <1>14, <1>15, <1>16 DEF Next, Callback

\* Every reachable state of the wallet is well typed and solvent.
THEOREM WalletSolvent == Spec => []Solvent
<1>1. Init => Solvent
  BY SolventInit
<1>2. Solvent /\ [Next]_vars => Solvent'
  BY SolventStep
<1> QED
  BY <1>1, <1>2, PTL DEF Spec

\* Type correctness.
THEOREM WalletTypeOK == Spec => []TypeOK
<1>1. Solvent => TypeOK
  BY DEF Solvent
<1> QED
  BY <1>1, WalletSolvent, PTL

\* No balance is ever negative: redeemCoins (TSFirebaseAPI.swift:143) checks the
\* coins it has just read, and no interleaving gets a write past that check.
THEOREM WalletNeverNegative == Spec => []BalanceNeverNegative
<1>1. Solvent => BalanceNeverNegative
  <2> SUFFICES ASSUME Solvent PROVE BalanceNeverNegative
    OBVIOUS
  <2>1. \A u \in Users : points[u] # Absent => points[u] >= 0
    BY DEF Solvent
  <2>2. \A d \in Devices : coins[d] >= 0
    BY DEF Solvent
  <2>3. ASSUME NEW d \in Devices, NEW u \in Users, NEW i \in DOMAIN pending[d][u]
        PROVE  pending[d][u][i] >= 0
    <3>1. pending[d][u] \in Seq(Nat)
      BY DEF Solvent
    <3> QED
      BY <3>1
  <2> QED
    BY <2>1, <2>2, <2>3 DEF BalanceNeverNegative
<1> QED
  BY <1>1, WalletSolvent, PTL
=============================================================================

------------------------- MODULE WalletLedgerProofs -------------------------
(***************************************************************************)
(* The coins of an account are conserved, and the wallet implements the    *)
(* ledger: proofs for every set of accounts, devices and packs and every   *)
(* price.  The argument is that of a lock nobody holds: while an account   *)
(* is sound, at most one operation that changes its coins is in flight on  *)
(* all the devices together, and what it has read is still the balance.    *)
(***************************************************************************)
EXTENDS CoinWalletProofs, SequenceTheorems

USE WalletAssumption

-----------------------------------------------------------------------------
(* The inductive invariants *)

Holds(d, u) == pending[d][u] # <<>>
Waits(op, u) == op.uid = u /\ op.snap = Unanswered
Changes(op, u) == op.uid = u /\ op.kind # "show"
CoinsIn(value) == IF value = Absent THEN 0 ELSE value
Earned(u) == credited[u] - BookCoin * debited[u]

\* Once a device has the data of a balance, none of its listeners waits for it.
ListenersServed ==
    \A d \in Devices, u \in Users :
        Cached(d, u) => \A i \in DOMAIN ops[d] : ~Waits(ops[d][i], u)

\* The price of an episode and the size of a pack travel with the operation.
Priced ==
    \A d \in Devices : \A i \in DOMAIN ops[d] :
        /\ ops[d][i].kind = "redeem" => ops[d][i].n = BookCoin
        /\ ops[d][i].kind = "add" => ops[d][i].n \in Packs

\* No node, no write to it under way: the account never had a coin.
Blank(u) == points[u] = Absent /\ \A d \in Devices : ~Holds(d, u)

OneHolder(u) ==
    \A d, e \in Devices : Holds(d, u) /\ Holds(e, u) => d = e

OneChange(u) ==
    \A d, e \in Devices : \A i \in DOMAIN ops[d], j \in DOMAIN ops[e] :
        Changes(ops[d][i], u) /\ Changes(ops[e][j], u) => d = e /\ i = j

ChangeAtHolder(u) ==
    \A d, e \in Devices : \A i \in DOMAIN ops[d] :
        Changes(ops[d][i], u) /\ Holds(e, u) => d = e

ReadIsFresh(u) ==
    \A d \in Devices : \A i \in DOMAIN ops[d] :
        Changes(ops[d][i], u) /\ ops[d][i].snap # Unanswered
            => ops[d][i].snap = LocalView(d, u)

BlankIsZero(u) ==
    Blank(u) => \A d \in Devices :
        /\ uid[d] = u => coins[d] = 0
        /\ \A i \in DOMAIN ops[d] :
              ops[d][i].uid = u => ops[d][i].snap \in {Absent, Unanswered}

Balanced(u) ==
    /\ (\A d \in Devices : ~Holds(d, u)) => CoinsIn(points[u]) = Earned(u)
    /\ \A d \in Devices : Holds(d, u) => CoinsIn(LocalView(d, u)) = Earned(u)

Accountable(u) ==
    /\ OneHolder(u)
    /\ OneChange(u)
    /\ ChangeAtHolder(u)
    /\ ReadIsFresh(u)
    /\ BlankIsZero(u)
    /\ Balanced(u)

WalletInv ==
    /\ Solvent
    /\ ListenersServed
    /\ Priced
    /\ \A u \in Users : sound[u] => Accountable(u)

-----------------------------------------------------------------------------
(* Queues of operations *)

\* Queue r is queue q without its first k operations, where the listeners of
\* node x that waited have been answered with v.
Remains(q, r, k, x, v) ==
    \A i \in DOMAIN r :
        /\ i + k \in DOMAIN q
        /\ r[i].kind = q[i + k].kind
        /\ r[i].n = q[i + k].n
        /\ r[i].uid = q[i + k].uid
        /\ Waits(q[i + k], x) => r[i].snap = v
        /\ ~Waits(q[i + k], x) => r[i].snap = q[i + k].snap

\* A queue nothing happens to.
LEMMA RemainsSame ==
    ASSUME NEW q \in Seq(SolventOp)
    PROVE  Remains(q, q, 0, NoUser, Absent)
<1>1. \A i \in DOMAIN q : q[i] \in SolventOp /\ i \in Nat
  OBVIOUS
<1>2. \A i \in DOMAIN q : i + 0 = i /\ q[i].uid # NoUser
  BY <1>1 DEF SolventOp, Op
<1> QED
  BY <1>2 DEF Remains, Waits

\* A queue whose listeners of node u are answered.
LEMMA RemainsAnswerAll ==
    ASSUME NEW q \in Seq(SolventOp), NEW u \in Users, NEW v
    PROVE  Remains(q, AnswerAll(q, u, v), 0, u, v)
<1>1. \A i \in DOMAIN q : q[i] \in SolventOp /\ i \in Nat
  OBVIOUS
<1>2. \A i \in DOMAIN q :
          /\ [q[i] EXCEPT !.snap = v].kind = q[i].kind
          /\ [q[i] EXCEPT !.snap = v].n = q[i].n
          /\ [q[i] EXCEPT !.snap = v].uid = q[i].uid
          /\ [q[i] EXCEPT !.snap = v].snap = v
  BY <1>1 DEF SolventOp, Op
<1>3. \A i \in DOMAIN q : i + 0 = i
  BY <1>1
<1>4. DOMAIN AnswerAll(q, u, v) = DOMAIN q
  BY DEF AnswerAll
<1>5. \A i \in DOMAIN q : AnswerAll(q, u, v)[i] =
          IF Waits(q[i], u) THEN [q[i] EXCEPT !.snap = v] ELSE q[i]
  BY DEF AnswerAll, Waits
<1>6. PICK r : r = AnswerAll(q, u, v)
  OBVIOUS
<1>7. ASSUME NEW i \in DOMAIN q
      PROVE  /\ r[i].kind = q[i].kind /\ r[i].n = q[i].n /\ r[i].uid = q[i].uid
             /\ r[i].snap = IF Waits(q[i], u) THEN v ELSE q[i].snap
  <2>1. CASE Waits(q[i], u)
    BY <1>2, <1>5, <1>6, <2>1
  <2>2. CASE ~Waits(q[i], u)
    BY <1>5, <1>6, <2>2
  <2> QED
    BY <2>1, <2>2
<1>8. Remains(q, r, 0, u, v)
  BY <1>3, <1>4, <1>6, <1>7 DEF Remains
<1> QED
  BY <1>6, <1>8

\* A queue some of whose screens are gone.
LEMMA RemainsDisown ==
    ASSUME NEW q \in Seq(SolventOp), NEW gone
    PROVE  Remains(q, Disown(q, gone), 0, NoUser, Absent)
<1>1. \A i \in DOMAIN q : q[i] \in SolventOp /\ i \in Nat
  OBVIOUS
<1>2. \A i \in DOMAIN q :
          /\ [q[i] EXCEPT !.owned = FALSE].kind = q[i].kind
          /\ [q[i] EXCEPT !.owned = FALSE].n = q[i].n
          /\ [q[i] EXCEPT !.owned = FALSE].uid = q[i].uid
          /\ [q[i] EXCEPT !.owned = FALSE].snap = q[i].snap
  BY <1>1 DEF SolventOp, Op
<1>3. \A i \in DOMAIN q : i + 0 = i /\ ~Waits(q[i], NoUser)
  BY <1>1 DEF SolventOp, Op, Waits
<1>4. DOMAIN Disown(q, gone) = DOMAIN q
  BY DEF Disown
<1>5. \A i \in DOMAIN q : Disown(q, gone)[i] =
          IF i \in gone THEN [q[i] EXCEPT !.owned = FALSE] ELSE q[i]
  BY DEF Disown
<1>6. PICK r : r = Disown(q, gone)
  OBVIOUS
<1>7. ASSUME NEW i \in DOMAIN q
      PROVE  r[i].kind = q[i].kind /\ r[i].n = q[i].n /\ r[i].uid = q[i].uid /\ r[i].snap = q[i].snap
  <2>1. CASE i \in gone
    BY <1>2, <1>5, <1>6, <2>1
  <2>2. CASE i \notin gone
    BY <1>5, <1>6, <2>2
  <2> QED
    BY <2>1, <2>2
<1>8. Remains(q, r, 0, NoUser, Absent)
  BY <1>3, <1>4, <1>6, <1>7 DEF Remains
<1> QED
  BY <1>6, <1>8

\* A queue whose first callback has run.
LEMMA RemainsTail ==
    ASSUME NEW q \in Seq(SolventOp), q # <<>>, NEW v
    PROVE  Remains(q, Tail(q), 1, NoUser, v)
<1>1. \A i \in DOMAIN Tail(q) : i + 1 \in DOMAIN q /\ Tail(q)[i] = q[i + 1]
  OBVIOUS
<1>2. \A i \in DOMAIN q : q[i].uid # NoUser
  BY DEF SolventOp, Op
<1> QED
  BY <1>1, <1>2 DEF Remains, Waits

\* A queue whose first callback has run and written v to node u.
LEMMA RemainsWrite ==
    ASSUME NEW q \in Seq(SolventOp), q # <<>>, NEW u \in Users, NEW v
    PROVE  Remains(q, AnswerAll(Tail(q), u, v), 1, u, v)
<1> DEFINE t == Tail(q)
           r == AnswerAll(t, u, v)
<1>1. t \in Seq(SolventOp)
  OBVIOUS
<1>2. \A i \in DOMAIN t : i + 1 \in DOMAIN q /\ t[i] = q[i + 1] /\ i + 0 = i
  OBVIOUS
<1>3. Remains(t, r, 0, u, v) /\ DOMAIN r = DOMAIN t
  BY <1>1, RemainsAnswerAll DEF AnswerAll
<1> HIDE DEF t, r
<1>4. Remains(q, r, 1, u, v)
  BY <1>2, <1>3 DEF Remains
<1> QED
  BY <1>4 DEF r, t

-----------------------------------------------------------------------------
(* An account a step does not write to *)

\* Whatever a step answers, completes, disowns or drops on device d, and
\* whoever signs in or out, an account stays accountable as long as its node,
\* the writes to it and its history are left alone, its listeners are told the
\* balance they see, and a blank account finds no coins in TSUser.
LEMMA AccountKept ==
    ASSUME Solvent, Solvent', NEW u \in Users, Accountable(u),
           NEW d \in Devices, NEW r, NEW k \in {0, 1}, NEW x, NEW v,
           ops' = [ops EXCEPT ![d] = r],
           Remains(ops[d], r, k, x, v),
           x = u => v = LocalView(d, u),
           points'[u] = points[u],
           \A e \in Devices : pending'[e][u] = pending[e][u],
           credited'[u] = credited[u],
           debited'[u] = debited[u],
           Blank(u) => \A e \in Devices : uid'[e] = u => coins'[e] = 0
    PROVE  Accountable(u)'
<1> DEFINE back(e, i) == IF e = d THEN i + k ELSE i
<1>0. /\ ops \in [Devices -> Seq(SolventOp)]
      /\ ops' \in [Devices -> Seq(SolventOp)]
  BY DEF Solvent
<1>1. \A e \in Devices : /\ Holds(e, u)' <=> Holds(e, u)
                         /\ LocalView(e, u)' = LocalView(e, u)
  BY DEF Holds, LocalView
<1>2. ASSUME NEW e \in Devices, NEW i \in DOMAIN ops'[e]
      PROVE  /\ back(e, i) \in DOMAIN ops[e]
             /\ ops'[e][i].kind = ops[e][back(e, i)].kind
             /\ ops'[e][i].uid = ops[e][back(e, i)].uid
             /\ \/ ops'[e][i].snap = ops[e][back(e, i)].snap
                \/ ops'[e][i].uid = x /\ ops'[e][i].snap = v /\ e = d
  <2>1. CASE e = d
    <3>1. ops'[e] = r
      BY <1>0, <2>1
    <3> QED
      BY <2>1, <3>1 DEF Remains, Waits
  <2>2. CASE e # d
    <3>1. ops'[e] = ops[e]
      BY <1>0, <2>2
    <3> QED
      BY <2>2, <3>1
  <2> QED
    BY <2>1, <2>2
<1>3. \A e \in Devices : \A i, j \in DOMAIN ops'[e] : back(e, i) = back(e, j) => i = j
  <2>1. \A e \in Devices : \A i \in DOMAIN ops'[e] : i \in Nat
    BY <1>0
  <2> QED
    BY <2>1
<1> HIDE DEF back
<1>4. OneHolder(u)'
  BY <1>1 DEF Accountable, OneHolder
<1>5. OneChange(u)'
  <2> SUFFICES ASSUME NEW e \in Devices, NEW f \in Devices,
                      NEW i \in DOMAIN ops'[e], NEW j \in DOMAIN ops'[f],
                      Changes(ops'[e][i], u), Changes(ops'[f][j], u)
               PROVE  e = f /\ i = j
    BY DEF OneChange, Changes
  <2>1. Changes(ops[e][back(e, i)], u) /\ Changes(ops[f][back(f, j)], u)
    BY <1>2 DEF Changes
  <2>2. e = f /\ back(e, i) = back(f, j)
    BY <1>2, <2>1 DEF Accountable, OneChange
  <2> QED
    BY <1>3, <2>2
<1>6. ChangeAtHolder(u)'
  <2> SUFFICES ASSUME NEW e \in Devices, NEW f \in Devices,
                      NEW i \in DOMAIN ops'[e], Changes(ops'[e][i], u), Holds(f, u)'
               PROVE  e = f
    BY DEF ChangeAtHolder, Changes
  <2>1. Changes(ops[e][back(e, i)], u) /\ Holds(f, u)
    BY <1>1, <1>2 DEF Changes
  <2> QED
    BY <1>2, <2>1 DEF Accountable, ChangeAtHolder
<1>7. ReadIsFresh(u)'
  <2> SUFFICES ASSUME NEW e \in Devices, NEW i \in DOMAIN ops'[e],
                      Changes(ops'[e][i], u), ops'[e][i].snap # Unanswered
               PROVE  ops'[e][i].snap = LocalView(e, u)'
    BY DEF ReadIsFresh, Changes
  <2>1. Changes(ops[e][back(e, i)], u) /\ back(e, i) \in DOMAIN ops[e]
    BY <1>2 DEF Changes
  <2>2. CASE ops'[e][i].snap = ops[e][back(e, i)].snap
    BY <1>1, <2>1, <2>2 DEF Accountable, ReadIsFresh
  <2>3. CASE ops'[e][i].uid = x /\ ops'[e][i].snap = v /\ e = d
    BY <1>1, <2>3 DEF Changes
  <2> QED
    BY <1>2, <2>2, <2>3
<1>8. BlankIsZero(u)'
  <2> SUFFICES ASSUME Blank(u)', NEW e \in Devices
               PROVE  /\ uid'[e] = u => coins'[e] = 0
                      /\ \A i \in DOMAIN ops'[e] :
                           ops'[e][i].uid = u => ops'[e][i].snap \in {Absent, Unanswered}
    BY DEF BlankIsZero
  <2>1. Blank(u)
    BY <1>1 DEF Blank
  <2>2. LocalView(d, u) = Absent
    BY <2>1 DEF Blank, Holds, LocalView
  <2>3. ASSUME NEW i \in DOMAIN ops'[e], ops'[e][i].uid = u
        PROVE  ops'[e][i].snap \in {Absent, Unanswered}
    <3>1. ops[e][back(e, i)].snap \in {Absent, Unanswered}
      BY <1>2, <2>1, <2>3 DEF Accountable, BlankIsZero
    <3> QED
      BY <1>2, <2>2, <2>3, <3>1
  <2> QED
    BY <2>1, <2>3
<1>9. Balanced(u)'
  BY <1>1 DEF Accountable, Balanced, Earned
<1> QED
  BY <1>4, <1>5, <1>6, <1>7, <1>8, <1>9 DEF Accountable

-----------------------------------------------------------------------------
(* An account a step writes to *)

\* What a device sees of a balance with a write to it under way is a number.
LEMMA HeldWriteIsNat ==
    ASSUME Solvent, NEW d \in Devices, NEW u \in Users, Holds(d, u)
    PROVE  LocalView(d, u) \in Nat /\ LocalView(d, u) # Absent
<1>1. pending[d][u] \in Seq(Nat) /\ pending[d][u] # <<>>
  BY DEF Solvent, Holds
<1>2. Len(pending[d][u]) \in DOMAIN pending[d][u]
  BY <1>1
<1> QED
  BY <1>1, <1>2 DEF LocalView

\* A coin operation whose callback is due finds what the account has earned,
\* be it in the snapshot or, for a node that does not exist, in TSUser.
LEMMA HeldIsEarned ==
    ASSUME Solvent, NEW u \in Users, Accountable(u), NEW d \in Devices,
           uid[d] = u, ops[d] # <<>>, Changes(Head(ops[d]), u),
           Head(ops[d]).snap # Unanswered
    PROVE  Held(d, Head(ops[d])) = Earned(u)
<1>1. 1 \in DOMAIN ops[d] /\ Head(ops[d]) = ops[d][1]
  BY DEF Solvent
<1>2. Head(ops[d]).snap = LocalView(d, u)
  BY <1>1 DEF Accountable, ReadIsFresh
<1>3. CASE Holds(d, u)
  BY <1>2, <1>3, HeldWriteIsNat DEF Accountable, Balanced, CoinsIn, Held
<1>4. CASE ~Holds(d, u)
  <2>1. \A e \in Devices : ~Holds(e, u)
    BY <1>1, <1>4 DEF Accountable, ChangeAtHolder
  <2>2. CoinsIn(points[u]) = Earned(u)
    BY <2>1 DEF Accountable, Balanced
  <2>3. LocalView(d, u) = points[u]
    BY <1>4 DEF Holds, LocalView
  <2>4. points[u] = Absent => coins[d] = 0
    BY <2>1 DEF Accountable, BlankIsZero, Blank
  <2> QED
    BY <1>2, <2>2, <2>3, <2>4 DEF CoinsIn, Held
<1> QED
  BY <1>3, <1>4

\* The callback of a coin operation queues a write of what the account has
\* earned with it: the account stays accountable.
LEMMA AccountWritten ==
    ASSUME Solvent, Solvent', NEW u \in Users, Accountable(u), NEW d \in Devices,
           uid[d] = u, ops[d] # <<>>, Changes(Head(ops[d]), u),
           NEW v \in Nat, Write(d, v), v = Earned(u)', UNCHANGED points
    PROVE  Accountable(u)'
<1>0. /\ ops \in [Devices -> Seq(SolventOp)]
      /\ ops' \in [Devices -> Seq(SolventOp)]
      /\ pending \in [Devices -> [Users -> Seq(Nat)]]
      /\ u # NoUser
  BY DEF Solvent
<1> DEFINE r == AnswerAll(Tail(ops[d]), u, v)
<1>1. /\ ops' = [ops EXCEPT ![d] = r]
      /\ pending' = [pending EXCEPT ![d][u] = Append(@, v)]
  BY <1>0 DEF Write
<1>2. Remains(ops[d], r, 1, u, v)
  BY <1>0, RemainsWrite
<1> HIDE DEF r
<1>3. 1 \in DOMAIN ops[d] /\ Head(ops[d]) = ops[d][1]
  BY <1>0
<1>4. \A e \in Devices : \A i \in DOMAIN ops'[e] : ~Changes(ops'[e][i], u)
  <2> SUFFICES ASSUME NEW e \in Devices, NEW i \in DOMAIN ops'[e], Changes(ops'[e][i], u)
               PROVE  FALSE
    OBVIOUS
  <2>1. CASE e = d
    <3>1. ops'[e] = r /\ i \in Nat /\ i >= 1
      BY <1>0, <1>1, <2>1
    <3>2. i + 1 \in DOMAIN ops[d] /\ Changes(ops[d][i + 1], u)
      BY <1>2, <2>1, <3>1 DEF Remains, Changes
    <3>3. 1 = i + 1
      BY <1>3, <3>2 DEF Accountable, OneChange
    <3> QED
      BY <3>1, <3>3
  <2>2. CASE e # d
    <3>1. ops'[e] = ops[e]
      BY <1>0, <1>1, <2>2
    <3> QED
      BY <1>3, <2>2, <3>1 DEF Accountable, OneChange
  <2> QED
    BY <2>1, <2>2
<1>5. pending'[d][u] = Append(pending[d][u], v)
  BY <1>0, <1>1
<1>6. Holds(d, u)' /\ LocalView(d, u)' = v
  <2>1. pending[d][u] \in Seq(Nat)
    BY <1>0
  <2>2. Append(pending[d][u], v) # <<>>
    <3>1. Len(Append(pending[d][u], v)) = Len(pending[d][u]) + 1 /\ Len(pending[d][u]) \in Nat
      BY <2>1
    <3>2. Len(Append(pending[d][u], v)) # Len(<<>>)
      BY <3>1
    <3> QED
      BY <3>2
  <2>3. /\ Len(Append(pending[d][u], v)) = Len(pending[d][u]) + 1
        /\ Append(pending[d][u], v)[Len(pending[d][u]) + 1] = v
    BY <2>1
  <2> QED
    BY <1>5, <2>2, <2>3 DEF Holds, LocalView
<1>7. \A e \in Devices : Holds(e, u)' => e = d
  <2> SUFFICES ASSUME NEW e \in Devices, Holds(e, u)', e # d PROVE FALSE
    OBVIOUS
  <2>1. pending'[e][u] = pending[e][u]
    BY <1>0, <1>1
  <2>2. Holds(e, u)
    BY <2>1 DEF Holds
  <2> QED
    BY <1>3, <2>2 DEF Accountable, ChangeAtHolder
<1>8. OneHolder(u)'
  BY <1>7 DEF OneHolder
<1>9. OneChange(u)' /\ ChangeAtHolder(u)' /\ ReadIsFresh(u)'
  BY <1>4 DEF OneChange, ChangeAtHolder, ReadIsFresh, Changes
<1>10. BlankIsZero(u)'
  BY <1>6 DEF BlankIsZero, Blank
<1>11. Balanced(u)'
  <2>1. CoinsIn(LocalView(d, u)') = v
    BY <1>6 DEF CoinsIn
  <2>2. \A e \in Devices : Holds(e, u)' => CoinsIn(LocalView(e, u)') = Earned(u)'
    BY <1>7, <2>1
  <2> QED
    BY <1>6, <2>2 DEF Balanced, CoinsIn
<1> QED
  BY <1>8, <1>9, <1>10, <1>11 DEF Accountable

\* The server applies the oldest write: the newest, which is the balance, is
\* still to come or is the one it has applied.
LEMMA AccountDelivered ==
    ASSUME Solvent, Solvent', NEW u \in Users, Accountable(u), NEW d \in Devices,
           Deliver(d, u)
    PROVE  Accountable(u)'
<1>0. /\ pending \in [Devices -> [Users -> Seq(Nat)]]
      /\ points \in [Users -> Nat \cup {Absent}]
      /\ Holds(d, u)
  BY DEF Solvent, Deliver, Holds
<1> DEFINE p == pending[d][u]
<1>1. /\ points'[u] = Head(p)
      /\ pending'[d][u] = Tail(p)
      /\ \A e \in Devices : e # d => pending'[e][u] = pending[e][u]
      /\ ops' = ops /\ uid' = uid /\ coins' = coins
      /\ credited' = credited /\ debited' = debited
  BY <1>0 DEF Deliver
<1>2. p \in Seq(Nat) /\ p # <<>> /\ Head(p) \in Nat
  BY <1>0 DEF Holds
<1>3. \A e \in Devices : Holds(e, u) => e = d
  BY <1>0 DEF Accountable, OneHolder
<1>4. \A e \in Devices : e # d => ~Holds(e, u)'
  BY <1>1, <1>3 DEF Holds
<1>5. LocalView(d, u) = p[Len(p)]
  BY <1>0 DEF LocalView, Holds
<1>6. LocalView(d, u)' = LocalView(d, u) /\ (Tail(p) = <<>> => Head(p) = LocalView(d, u))
  <2>1. CASE Tail(p) = <<>>
    <3>1. Len(p) = 1
      <4>1. Len(Tail(p)) = 0
        BY <1>2, <2>1, HeadTailProperties, EmptySeq
      <4>2. Len(Tail(p)) = Len(p) - 1 /\ Len(p) \in Nat
        BY <1>2
      <4> QED
        BY <4>1, <4>2
    <3>2. Head(p) = p[Len(p)]
      BY <1>2, <3>1
    <3>3. LocalView(d, u)' = points'[u]
      BY <1>1, <2>1 DEF LocalView
    <3> QED
      BY <1>1, <1>5, <3>2, <3>3
  <2>2. CASE Tail(p) # <<>>
    <3>1. Len(Tail(p)) = Len(p) - 1 /\ Tail(p)[Len(p) - 1] = p[Len(p)]
      BY <1>2, <2>2
    <3>2. LocalView(d, u)' = Tail(p)[Len(Tail(p))]
      BY <1>1, <2>2 DEF LocalView
    <3> QED
      BY <1>5, <2>2, <3>1, <3>2
  <2> QED
    BY <2>1, <2>2
<1> HIDE DEF p
<1>7. OneHolder(u)'
  BY <1>4 DEF OneHolder
<1>8. OneChange(u)'
  BY <1>1 DEF Accountable, OneChange, Changes
<1>9. \A e \in Devices : \A i \in DOMAIN ops[e] : Changes(ops[e][i], u) => e = d
  BY <1>0 DEF Accountable, ChangeAtHolder
<1>10. ChangeAtHolder(u)'
  BY <1>1, <1>4, <1>9 DEF ChangeAtHolder, Changes
<1>11. ReadIsFresh(u)'
  <2> SUFFICES ASSUME NEW e \in Devices, NEW i \in DOMAIN ops'[e],
                      Changes(ops'[e][i], u), ops'[e][i].snap # Unanswered
               PROVE  ops'[e][i].snap = LocalView(e, u)'
    BY DEF ReadIsFresh, Changes
  <2>1. e = d
    BY <1>1, <1>9
  <2> QED
    BY <1>1, <1>6, <2>1 DEF Accountable, ReadIsFresh
<1>12. BlankIsZero(u)'
  BY <1>1, <1>2 DEF BlankIsZero, Blank
<1>13. Balanced(u)'
  <2>1. CoinsIn(LocalView(d, u)) = Earned(u) /\ Earned(u)' = Earned(u)
    BY <1>0, <1>1 DEF Accountable, Balanced, Earned
  <2>2. \A e \in Devices : Holds(e, u)' => CoinsIn(LocalView(e, u)') = Earned(u)'
    BY <1>4, <1>6, <2>1
  <2>3. ~Holds(d, u)' => CoinsIn(points'[u]) = Earned(u)'
    BY <1>1, <1>6, <2>1 DEF Holds
  <2> QED
    BY <2>2, <2>3 DEF Balanced, CoinsIn
<1> QED
  BY <1>7, <1>8, <1>10, <1>11, <1>12, <1>13 DEF Accountable

-----------------------------------------------------------------------------
(* An operation is started *)

\* The operation StartShow, StartAdd and StartRedeem put in the queue.
Asked(d, kind, n) ==
    [kind |-> kind, n |-> n, uid |-> uid[d], owned |-> TRUE,
     snap |-> IF Cached(d, uid[d]) THEN LocalView(d, uid[d]) ELSE Unanswered]

\* What a device sees of a balance is never taken for "not answered".
LEMMA LocalViewAnswers ==
    ASSUME Solvent, NEW d \in Devices, NEW u \in Users
    PROVE  LocalView(d, u) # Unanswered
BY LocalViewSolvent

\* The queue Ask leaves.
LEMMA AskedQueue ==
    ASSUME Solvent, NEW d \in Devices, NEW kind, NEW n, Ask(d, kind, n)
    PROVE  /\ uid[d] \in Users
           /\ \A e \in Devices : e # d => ops'[e] = ops[e]
           /\ DOMAIN ops'[d] = 1..(Len(ops[d]) + 1)
           /\ Len(ops[d]) + 1 \notin DOMAIN ops[d]
           /\ \A i \in DOMAIN ops[d] : i \in DOMAIN ops'[d] /\ ops'[d][i] = ops[d][i]
           /\ \A i \in DOMAIN ops'[d] : i \notin DOMAIN ops[d] =>
                  i = Len(ops[d]) + 1 /\ ops'[d][i] = Asked(d, kind, n)
<1>1. ops \in [Devices -> Seq(SolventOp)] /\ uid[d] \in Users
  BY DEF Solvent, TypeOK, Ask
<1>2. ops' = [ops EXCEPT ![d] = Append(@, Asked(d, kind, n))]
  BY DEF Ask, Asked
<1>3. ops'[d] = Append(ops[d], Asked(d, kind, n)) /\ Len(ops[d]) \in Nat
      /\ DOMAIN ops[d] = 1..Len(ops[d])
  BY <1>1, <1>2
<1>4. /\ DOMAIN ops'[d] = 1..(Len(ops[d]) + 1)
      /\ \A i \in 1..Len(ops[d]) : ops'[d][i] = ops[d][i]
      /\ ops'[d][Len(ops[d]) + 1] = Asked(d, kind, n)
  BY <1>1, <1>3
<1>5. \A e \in Devices : e # d => ops'[e] = ops[e]
  BY <1>1, <1>2
<1> QED
  BY <1>1, <1>3, <1>4, <1>5

\* A listener added to a balance the device has is served at once, one added
\* to a balance it has not waits with the others.
LEMMA ServedAsked ==
    ASSUME Solvent, ListenersServed, NEW d \in Devices, NEW kind, NEW n, Ask(d, kind, n)
    PROVE  ListenersServed'
<1> SUFFICES ASSUME NEW e \in Devices, NEW u \in Users, Cached(e, u)',
                    NEW i \in DOMAIN ops'[e], Waits(ops'[e][i], u)
             PROVE  FALSE
  BY DEF ListenersServed, Waits
<1>1. pending' = pending
  BY DEF Ask
<1>2. CASE e # d
  <2>1. ops'[e] = ops[e]
    BY <1>2, AskedQueue
  <2>2. Cached(e, u)
    BY <1>1, <2>1 DEF Cached
  <2> QED
    BY <2>1, <2>2 DEF ListenersServed
<1>3. CASE e = d /\ Cached(d, u)
  <2>1. i \notin DOMAIN ops[d]
    BY <1>3, AskedQueue DEF ListenersServed
  <2>2. ops'[d][i] = Asked(d, kind, n)
    BY <1>3, <2>1, AskedQueue
  <2>3. uid[d] = u /\ Asked(d, kind, n).snap = Unanswered
    BY <1>3, <2>2 DEF Asked, Waits
  <2> QED
    BY <1>3, <2>3, LocalViewAnswers DEF Asked
<1>4. CASE e = d /\ ~Cached(d, u)
  <2>1. PICK j \in DOMAIN ops'[d] : ops'[d][j].uid = u /\ ops'[d][j].snap # Unanswered
    BY <1>1, <1>4 DEF Cached
  <2>2. j \notin DOMAIN ops[d]
    BY <1>4, <2>1, AskedQueue DEF Cached
  <2>3. ops'[d][j] = Asked(d, kind, n)
    BY <2>1, <2>2, AskedQueue
  <2>4. uid[d] = u
    BY <2>1, <2>3 DEF Asked
  <2> QED
    BY <1>4, <2>1, <2>3, <2>4 DEF Asked
<1> QED
  BY <1>2, <1>3, <1>4

\* Starting an operation keeps an account accountable, if the operation only
\* shows it, is on another account, or is the only one to change it.
LEMMA AccountAsked ==
    ASSUME Solvent, NEW u \in Users, Accountable(u), NEW d \in Devices,
           NEW kind, NEW n, Ask(d, kind, n),
           kind # "show" /\ uid[d] = u => ~Contended(d, u)
    PROVE  Accountable(u)'
<1>1. /\ points' = points /\ pending' = pending /\ uid' = uid /\ coins' = coins
      /\ credited' = credited /\ debited' = debited
  BY DEF Ask
<1>2. \A e \in Devices : /\ Holds(e, u)' <=> Holds(e, u)
                         /\ LocalView(e, u)' = LocalView(e, u)
  BY <1>1 DEF Holds, LocalView
<1> DEFINE Old(e, i) == i \in DOMAIN ops[e] /\ ops'[e][i] = ops[e][i]
           New(e, i) == /\ e = d /\ i = Len(ops[d]) + 1 /\ i \notin DOMAIN ops[d]
                        /\ ops'[e][i] = Asked(d, kind, n)
<1>3. \A e \in Devices : \A i \in DOMAIN ops'[e] : Old(e, i) \/ New(e, i)
  BY AskedQueue
<1>4. ASSUME NEW e \in Devices, NEW i \in DOMAIN ops'[e], New(e, i), Changes(ops'[e][i], u)
      PROVE  ~Contended(d, u) /\ uid[d] = u
  BY <1>4 DEF Asked, Changes
<1>5. ~Contended(d, u) => /\ \A e \in Devices : \A i \in DOMAIN ops[e] : ~Changes(ops[e][i], u)
                          /\ \A e \in Devices : Holds(e, u) => e = d
  BY DEF Contended, Changes, Holds
<1> HIDE DEF Old, New
<1>6. OneHolder(u)'
  BY <1>2 DEF Accountable, OneHolder
<1>7. OneChange(u)'
  <2> SUFFICES ASSUME NEW e \in Devices, NEW f \in Devices,
                      NEW i \in DOMAIN ops'[e], NEW j \in DOMAIN ops'[f],
                      Changes(ops'[e][i], u), Changes(ops'[f][j], u)
               PROVE  e = f /\ i = j
    BY DEF OneChange, Changes
  <2>1. CASE Old(e, i) /\ Old(f, j)
    BY <2>1 DEF Accountable, OneChange, Old
  <2>2. CASE New(e, i) /\ New(f, j)
    BY <2>2 DEF New
  <2>3. CASE New(e, i) /\ Old(f, j)
    BY <2>3, <1>4, <1>5 DEF Old
  <2>4. CASE Old(e, i) /\ New(f, j)
    BY <2>4, <1>4, <1>5 DEF Old
  <2> QED
    BY <1>3, <2>1, <2>2, <2>3, <2>4
<1>8. ChangeAtHolder(u)'
  <2> SUFFICES ASSUME NEW e \in Devices, NEW f \in Devices,
                      NEW i \in DOMAIN ops'[e], Changes(ops'[e][i], u), Holds(f, u)'
               PROVE  e = f
    BY DEF ChangeAtHolder, Changes
  <2>1. CASE Old(e, i)
    BY <1>2, <2>1 DEF Accountable, ChangeAtHolder, Old
  <2>2. CASE New(e, i)
    BY <1>2, <1>4, <1>5, <2>2 DEF New
  <2> QED
    BY <1>3, <2>1, <2>2
<1>9. ReadIsFresh(u)'
  <2> SUFFICES ASSUME NEW e \in Devices, NEW i \in DOMAIN ops'[e],
                      Changes(ops'[e][i], u), ops'[e][i].snap # Unanswered
               PROVE  ops'[e][i].snap = LocalView(e, u)'
    BY DEF ReadIsFresh, Changes
  <2>1. CASE Old(e, i)
    BY <1>2, <2>1 DEF Accountable, ReadIsFresh, Old
  <2>2. CASE New(e, i)
    <3>1. uid[d] = u
      BY <1>4, <2>2
    <3>2. e = d /\ ops'[e][i].snap = Asked(d, kind, n).snap
      BY <2>2 DEF New
    <3>3. Asked(d, kind, n).snap \in {LocalView(d, u), Unanswered}
      BY <3>1 DEF Asked
    <3> QED
      BY <1>2, <3>2, <3>3
  <2> QED
    BY <1>3, <2>1, <2>2
<1>10. BlankIsZero(u)'
  <2> SUFFICES ASSUME Blank(u)', NEW e \in Devices
               PROVE  /\ uid'[e] = u => coins'[e] = 0
                      /\ \A i \in DOMAIN ops'[e] :
                           ops'[e][i].uid = u => ops'[e][i].snap \in {Absent, Unanswered}
    BY DEF BlankIsZero
  <2>1. Blank(u)
    BY <1>1, <1>2 DEF Blank
  <2>2. LocalView(d, u) = Absent
    BY <2>1 DEF Blank, Holds, LocalView
  <2>3. ASSUME NEW i \in DOMAIN ops'[e], ops'[e][i].uid = u
        PROVE  ops'[e][i].snap \in {Absent, Unanswered}
    <3>1. CASE Old(e, i)
      BY <2>1, <2>3, <3>1 DEF Accountable, BlankIsZero, Old
    <3>2. CASE New(e, i)
      BY <2>2, <2>3, <3>2 DEF New, Asked
    <3> QED
      BY <1>3, <3>1, <3>2
  <2> QED
    BY <1>1, <2>1, <2>3 DEF Accountable, BlankIsZero
<1>11. Balanced(u)'
  BY <1>1, <1>2 DEF Accountable, Balanced, Earned
<1> QED
  BY <1>6, <1>7, <1>8, <1>9, <1>10, <1>11 DEF Accountable

-----------------------------------------------------------------------------
(* WalletInv is inductive *)

\* Answering the listeners of one node, and taking operations away, leaves no
\* listener waiting for a balance its device has.
LEMMA ServedKept ==
    ASSUME Solvent, ListenersServed, NEW d \in Devices,
           NEW r, NEW k \in {0, 1}, NEW x, NEW v, v # Unanswered,
           ops' = [ops EXCEPT ![d] = r], Remains(ops[d], r, k, x, v),
           \A e \in Devices, u \in Users : Holds(e, u)' => Holds(e, u) \/ (e = d /\ u = x)
    PROVE  ListenersServed'
<1> SUFFICES ASSUME NEW e \in Devices, NEW u \in Users, Cached(e, u)',
                    NEW i \in DOMAIN ops'[e], Waits(ops'[e][i], u)
             PROVE  FALSE
  BY DEF ListenersServed, Waits
<1>0. ops \in [Devices -> Seq(SolventOp)]
  BY DEF Solvent
<1>1. CASE e # d
  <2>1. ops'[e] = ops[e] /\ (Holds(e, u)' => Holds(e, u))
    BY <1>0, <1>1
  <2>2. Cached(e, u)
    BY <2>1 DEF Cached, Holds
  <2> QED
    BY <2>1, <2>2 DEF ListenersServed
<1>2. CASE e = d
  <2>1. ops'[e] = r
    BY <1>0, <1>2
  <2>2. i + k \in DOMAIN ops[d] /\ ops[d][i + k].uid = u
    BY <1>2, <2>1 DEF Remains, Waits
  <2>3. u # x /\ Waits(ops[d][i + k], u)
    BY <1>2, <2>1, <2>2 DEF Remains, Waits
  <2>4. ~Cached(d, u)
    BY <2>2, <2>3 DEF ListenersServed
  <2>5. ~Holds(e, u)'
    BY <1>2, <2>3, <2>4 DEF Cached, Holds
  <2>6. PICK j \in DOMAIN ops'[e] : ops'[e][j].uid = u /\ ops'[e][j].snap # Unanswered
    BY <2>5 DEF Cached, Holds
  <2>7. /\ j + k \in DOMAIN ops[d]
        /\ ops[d][j + k].uid = u
        /\ ops[d][j + k].snap # Unanswered
    BY <2>1, <2>3, <2>6 DEF Remains, Waits
  <2> QED
    BY <2>4, <2>7 DEF Cached
<1> QED
  BY <1>1, <1>2

\* Operations are neither invented nor repriced.
LEMMA PricedKept ==
    ASSUME Solvent, Priced, NEW d \in Devices,
           NEW r, NEW k \in {0, 1}, NEW x, NEW v,
           ops' = [ops EXCEPT ![d] = r], Remains(ops[d], r, k, x, v)
    PROVE  Priced'
<1> SUFFICES ASSUME NEW e \in Devices, NEW i \in DOMAIN ops'[e]
             PROVE  /\ ops'[e][i].kind = "redeem" => ops'[e][i].n = BookCoin
                    /\ ops'[e][i].kind = "add" => ops'[e][i].n \in Packs
  BY DEF Priced
<1>0. ops \in [Devices -> Seq(SolventOp)]
  BY DEF Solvent
<1>1. CASE e = d
  <2>1. ops'[e] = r
    BY <1>0, <1>1
  <2> QED
    BY <1>1, <2>1 DEF Priced, Remains
<1>2. CASE e # d
  <2>1. ops'[e] = ops[e]
    BY <1>0, <1>2
  <2> QED
    BY <2>1 DEF Priced
<1> QED
  BY <1>1, <1>2

\* Every step but a write, its delivery and a new operation.
LEMMA QuietStep ==
    ASSUME WalletInv, Solvent', NEW d \in Devices,
           NEW r, NEW k \in {0, 1}, NEW x, NEW v, v # Unanswered,
           ops' = [ops EXCEPT ![d] = r],
           Remains(ops[d], r, k, x, v),
           x \in Users => v = LocalView(d, x),
           \A e \in Devices, u \in Users : Holds(e, u)' => Holds(e, u),
           UNCHANGED <<points, credited, debited>>,
           \A u \in Users : sound'[u] =>
               /\ sound[u]
               /\ \A e \in Devices : pending'[e][u] = pending[e][u]
               /\ Blank(u) => \A e \in Devices : uid'[e] = u => coins'[e] = 0
    PROVE  WalletInv'
<1>1. ListenersServed'
  <2>1. \A e \in Devices, u \in Users : Holds(e, u)' => Holds(e, u) \/ (e = d /\ u = x)
    OBVIOUS
  <2> QED
    BY <2>1, ServedKept DEF WalletInv
<1>2. Priced'
  BY PricedKept DEF WalletInv
<1>3. ASSUME NEW u \in Users, sound'[u] PROVE Accountable(u)'
  <2>1. Accountable(u) /\ Solvent
    BY <1>3 DEF WalletInv
  <2>2. x = u => v = LocalView(d, u)
    OBVIOUS
  <2>3. /\ points'[u] = points[u] /\ credited'[u] = credited[u] /\ debited'[u] = debited[u]
        /\ \A e \in Devices : pending'[e][u] = pending[e][u]
        /\ Blank(u) => \A e \in Devices : uid'[e] = u => coins'[e] = 0
    BY <1>3
  <2> QED
    BY <2>1, <2>2, <2>3, AccountKept
<1> QED
  BY <1>1, <1>2, <1>3 DEF WalletInv

\* The callback of an operation that changes coins, whichever it is.
LEMMA WriteStep ==
    ASSUME WalletInv, Solvent', NEW d \in Devices, NEW kind \in {"add", "redeem"},
           CallbackDue(d, kind), NEW v \in Nat, Write(d, v), Taint(Mixed(d)),
           UNCHANGED <<points, uid>>,
           coins' = [coins EXCEPT ![d] = v],
           \A u \in Users : u # uid[d] => credited'[u] = credited[u] /\ debited'[u] = debited[u],
           \A u \in Users : u = uid[d] /\ Held(d, Head(ops[d])) = Earned(u) => v = Earned(u)'
    PROVE  WalletInv'
<1>0. /\ Solvent /\ ops[d] \in Seq(SolventOp) /\ ops[d] # <<>>
      /\ ops \in [Devices -> Seq(SolventOp)]
      /\ pending \in [Devices -> [Users -> Seq(Nat)]]
      /\ coins \in [Devices -> Nat]
      /\ uid[d] \in Users \cup {NoUser}
  BY DEF WalletInv, Solvent, TypeOK, CallbackDue
<1>1. \A u \in Users : sound'[u] => sound[u] /\ (u = uid[d] => Head(ops[d]).uid = u)
  BY DEF Taint, Mixed
<1>2. PICK r, x : /\ ops' = [ops EXCEPT ![d] = r]
                  /\ Remains(ops[d], r, 1, x, v)
                  /\ x = IF uid[d] = NoUser THEN NoUser ELSE uid[d]
  <2>1. CASE uid[d] = NoUser
    <3>1. Remains(ops[d], Tail(ops[d]), 1, NoUser, v)
      BY <1>0, RemainsTail
    <3> QED
      BY <2>1, <3>1 DEF Write
  <2>2. CASE uid[d] # NoUser
    <3>1. Remains(ops[d], AnswerAll(Tail(ops[d]), uid[d], v), 1, uid[d], v)
      BY <1>0, <2>2, RemainsWrite
    <3> QED
      BY <2>2, <3>1 DEF Write
  <2> QED
    BY <2>1, <2>2
<1>3. \A e \in Devices, u \in Users :
          (e # d \/ u # uid[d]) => pending'[e][u] = pending[e][u]
  BY <1>0 DEF Write
<1>4. ListenersServed'
  <2>1. \A e \in Devices, u \in Users : Holds(e, u)' => Holds(e, u) \/ (e = d /\ u = x)
    BY <1>2, <1>3 DEF Holds
  <2>2. v # Unanswered
    OBVIOUS
  <2>3. ListenersServed /\ Solvent
    BY DEF WalletInv
  <2> QED
    BY <1>2, <2>1, <2>2, <2>3, ServedKept
<1>5. Priced'
  BY <1>0, <1>2, PricedKept DEF WalletInv
<1>6. ASSUME NEW u \in Users, sound'[u] PROVE Accountable(u)'
  <2>1. Accountable(u)
    BY <1>1, <1>6 DEF WalletInv
  <2>2. CASE u = uid[d]
    <3>1. Changes(Head(ops[d]), u) /\ Head(ops[d]).snap # Unanswered
      BY <1>1, <1>6, <2>2 DEF Changes, CallbackDue
    <3>2. Held(d, Head(ops[d])) = Earned(u)
      BY <1>0, <2>1, <2>2, <3>1, HeldIsEarned
    <3>3. v = Earned(u)'
      BY <2>2, <3>2
    <3> QED
      BY <1>0, <2>1, <2>2, <3>1, <3>3, AccountWritten
  <2>3. CASE u # uid[d]
    <3>1. x # u
      BY <1>2, <2>3
    <3>2. \A e \in Devices : pending'[e][u] = pending[e][u]
      BY <1>3, <2>3
    <3>3. Blank(u) => \A e \in Devices : uid'[e] = u => coins'[e] = 0
      BY <1>0, <2>1, <2>3 DEF Accountable, BlankIsZero
    <3>4. points'[u] = points[u] /\ credited'[u] = credited[u] /\ debited'[u] = debited[u]
      BY <2>3
    <3> QED
      BY <1>0, <1>2, <2>1, <3>1, <3>2, <3>3, <3>4, AccountKept
  <2> QED
    BY <2>2, <2>3
<1> QED
  BY <1>0, <1>4, <1>5, <1>6 DEF WalletInv

LEMMA WalletInvInit == Init => WalletInv
<1> SUFFICES ASSUME Init PROVE WalletInv
  OBVIOUS
<1>1. Solvent
  BY SolventInit
<1>2. /\ \A d \in Devices : ops[d] = <<>> /\ DOMAIN ops[d] = {}
      /\ \A d \in Devices, u \in Users : pending[d][u] = <<>>
      /\ \A d \in Devices : coins[d] = 0
      /\ \A u \in Users : points[u] = Absent /\ credited[u] = 0 /\ debited[u] = 0
  BY DEF Init
<1>3. ListenersServed /\ Priced
  BY <1>2 DEF ListenersServed, Priced
<1>4. ASSUME NEW u \in Users PROVE Accountable(u)
  <2>1. OneHolder(u) /\ OneChange(u) /\ ChangeAtHolder(u) /\ ReadIsFresh(u)
    BY <1>2 DEF OneHolder, OneChange, ChangeAtHolder, ReadIsFresh, Holds
  <2>2. BlankIsZero(u)
    BY <1>2 DEF BlankIsZero
  <2>3. Earned(u) = 0
    BY <1>2 DEF Earned
  <2>4. Balanced(u)
    BY <1>2, <2>3 DEF Balanced, CoinsIn, Holds
  <2> QED
    BY <2>1, <2>2, <2>4 DEF Accountable
<1> QED
  BY <1>1, <1>3, <1>4 DEF WalletInv

\* A new operation, whatever its kind.
LEMMA AskStep ==
    ASSUME WalletInv, Solvent', NEW d \in Devices, NEW kind, NEW n, Ask(d, kind, n),
           kind = "redeem" => n = BookCoin,
           kind = "add" => n \in Packs,
           \A u \in Users : sound'[u] =>
               sound[u] /\ (kind # "show" /\ uid[d] = u => ~Contended(d, u))
    PROVE  WalletInv'
<1>1. Solvent
  BY DEF WalletInv
<1>2. ListenersServed'
  BY <1>1, ServedAsked DEF WalletInv
<1>3. Priced'
  <2> SUFFICES ASSUME NEW e \in Devices, NEW i \in DOMAIN ops'[e]
               PROVE  /\ ops'[e][i].kind = "redeem" => ops'[e][i].n = BookCoin
                      /\ ops'[e][i].kind = "add" => ops'[e][i].n \in Packs
    BY DEF Priced
  <2>1. CASE i \in DOMAIN ops[e] /\ ops'[e][i] = ops[e][i]
    BY <2>1 DEF WalletInv, Priced
  <2>2. CASE ops'[e][i] = Asked(d, kind, n)
    BY <2>2 DEF Asked
  <2> QED
    BY <1>1, <2>1, <2>2, AskedQueue
<1>4. ASSUME NEW u \in Users, sound'[u] PROVE Accountable(u)'
  <2>1. Accountable(u) /\ (kind # "show" /\ uid[d] = u => ~Contended(d, u))
    BY <1>4 DEF WalletInv
  <2> QED
    BY <1>1, <2>1, AccountAsked
<1> QED
  BY <1>2, <1>3, <1>4 DEF WalletInv

\* A callback that writes nothing: the screen is shown what was read.
LEMMA ShownStep ==
    ASSUME WalletInv, Solvent', NEW d \in Devices, NEW kind, CallbackDue(d, kind),
           coins' = [coins EXCEPT ![d] = Held(d, Head(ops[d]))],
           ops' = [ops EXCEPT ![d] = Tail(@)],
           Taint(Mixed(d)),
           UNCHANGED <<points, uid, pending, credited, debited>>
    PROVE  WalletInv'
<1>0. /\ Solvent /\ ops[d] \in Seq(SolventOp) /\ ops[d] # <<>>
      /\ coins \in [Devices -> Nat]
  BY DEF WalletInv, Solvent, CallbackDue
<1>1. Remains(ops[d], Tail(ops[d]), 1, NoUser, Absent)
  BY <1>0, RemainsTail
<1>2. ASSUME NEW u \in Users, sound'[u]
      PROVE  /\ sound[u]
             /\ \A e \in Devices : pending'[e][u] = pending[e][u]
             /\ Blank(u) => \A e \in Devices : uid'[e] = u => coins'[e] = 0
  <2>1. sound[u] /\ (u = uid[d] => Head(ops[d]).uid = u)
    BY <1>2 DEF Taint, Mixed
  <2>2. BlankIsZero(u)
    BY <2>1 DEF WalletInv, Accountable
  <2>3. ASSUME Blank(u), NEW e \in Devices, uid[e] = u PROVE coins'[e] = 0
    <3>1. coins[e] = 0
      BY <2>2, <2>3 DEF BlankIsZero
    <3>2. CASE e = d
      <4>1. 1 \in DOMAIN ops[d] /\ Head(ops[d]) = ops[d][1]
        BY <1>0
      <4>2. Head(ops[d]).snap = Absent
        BY <2>1, <2>2, <2>3, <3>2, <4>1 DEF BlankIsZero, CallbackDue
      <4> QED
        BY <1>0, <3>1, <3>2, <4>2 DEF Held
    <3>3. CASE e # d
      BY <1>0, <3>1, <3>3
    <3> QED
      BY <3>2, <3>3
  <2> QED
    BY <2>1, <2>3
<1>3. \A e \in Devices, u \in Users : Holds(e, u)' => Holds(e, u)
  BY DEF Holds
<1>4. Absent # Unanswered /\ NoUser \notin Users /\ 1 \in {0, 1}
  OBVIOUS
<1>5. UNCHANGED <<points, credited, debited>>
  OBVIOUS
<1> QED
  BY <1>1, <1>2, <1>3, <1>4, <1>5, QuietStep

\* The server applies a write: its account goes on, the others see nothing.
LEMMA DeliverStep ==
    ASSUME WalletInv, Solvent', NEW d \in Devices, NEW u \in Users, Deliver(d, u)
    PROVE  WalletInv'
<1>0. /\ Solvent
      /\ ops \in [Devices -> Seq(SolventOp)]
      /\ pending \in [Devices -> [Users -> Seq(Nat)]]
      /\ points \in [Users -> Nat \cup {Absent}]
      /\ Holds(d, u)
  BY DEF WalletInv, Solvent, Deliver, Holds
<1>1. /\ ops' = [ops EXCEPT ![d] = ops[d]]
      /\ Remains(ops[d], ops[d], 0, NoUser, Absent)
      /\ UNCHANGED <<uid, coins, credited, debited, sound>>
  BY <1>0, RemainsSame DEF Deliver
<1>2. \A e \in Devices, w \in Users : (e # d \/ w # u) => pending'[e][w] = pending[e][w]
  BY <1>0 DEF Deliver
<1>3. \A e \in Devices, w \in Users : Holds(e, w)' => Holds(e, w)
  BY <1>0, <1>2 DEF Holds
<1>4. ListenersServed'
  <2>1. ops' = ops
    BY DEF Deliver
  <2>2. \A e \in Devices, w \in Users : Cached(e, w)' => Cached(e, w)
    BY <1>3, <2>1 DEF Cached, Holds
  <2> QED
    BY <2>1, <2>2 DEF WalletInv, ListenersServed, Waits
<1>5. Priced'
  BY <1>0, <1>1, PricedKept DEF WalletInv
<1>6. ASSUME NEW w \in Users, sound'[w] PROVE Accountable(w)'
  <2>1. Accountable(w)
    BY <1>1, <1>6 DEF WalletInv
  <2>2. CASE w = u
    BY <1>0, <2>1, <2>2, AccountDelivered
  <2>3. CASE w # u
    <3>1. /\ points'[w] = points[w] /\ credited'[w] = credited[w] /\ debited'[w] = debited[w]
          /\ \A e \in Devices : pending'[e][w] = pending[e][w]
      BY <1>0, <1>1, <1>2, <2>3 DEF Deliver
    <3>2. Blank(w) => \A e \in Devices : uid'[e] = w => coins'[e] = 0
      BY <1>1, <2>1 DEF Accountable, BlankIsZero
    <3>3. NoUser # w
      OBVIOUS
    <3> QED
      BY <1>0, <1>1, <2>1, <3>1, <3>2, <3>3, AccountKept
  <2> QED
    BY <2>2, <2>3
<1> QED
  BY <1>4, <1>5, <1>6 DEF WalletInv

LEMMA WalletInvStep == WalletInv /\ [Next]_vars => WalletInv'
<1> SUFFICES ASSUME WalletInv, [Next]_vars PROVE WalletInv'
  OBVIOUS
<1>0. /\ Solvent /\ Solvent'
      /\ ops \in [Devices -> Seq(SolventOp)]
      /\ pending \in [Devices -> [Users -> Seq(Nat)]]
      /\ coins \in [Devices -> Nat]
      /\ uid \in [Devices -> Users \cup {NoUser}]
  BY SolventStep DEF WalletInv, Solvent, TypeOK
<1>a. \A u \in Users : sound[u] /\ Blank(u) => \A e \in Devices : uid[e] = u => coins[e] = 0
  BY DEF WalletInv, Accountable, BlankIsZero
<1>b. Absent # Unanswered /\ NoUser \notin Users
  OBVIOUS
<1>1. ASSUME NEW d \in Devices, StartShow(d) PROVE WalletInv'
  <2>1. Ask(d, "show", 0) /\ sound' = sound
    BY <1>1 DEF StartShow
  <2> QED
    BY <1>0, <2>1, AskStep
<1>2. ASSUME NEW d \in Devices, NEW n \in Packs, StartAdd(d, n) PROVE WalletInv'
  <2>1. Ask(d, "add", n)
    BY <1>2 DEF StartAdd
  <2>2. \A u \in Users : sound'[u] => sound[u] /\ (uid[d] = u => ~Contended(d, u))
    BY <1>2 DEF StartAdd, Taint
  <2> QED
    BY <1>0, <2>1, <2>2, AskStep
<1>3. ASSUME NEW d \in Devices, StartRedeem(d) PROVE WalletInv'
  <2>1. Ask(d, "redeem", BookCoin)
    BY <1>3 DEF StartRedeem
  <2>2. \A u \in Users : sound'[u] => sound[u] /\ (uid[d] = u => ~Contended(d, u))
    BY <1>3 DEF StartRedeem, Taint
  <2> QED
    BY <1>0, <2>1, <2>2, AskStep
<1>4. ASSUME NEW d \in Devices, NEW u \in Users, Answer(d, u) PROVE WalletInv'
  <2> DEFINE v == LocalView(d, u)
             r == AnswerAll(ops[d], u, v)
  <2>1. ops' = [ops EXCEPT ![d] = r] /\ Remains(ops[d], r, 0, u, v) /\ v # Unanswered
    BY <1>0, <1>4, RemainsAnswerAll, LocalViewAnswers DEF Answer
  <2>2. UNCHANGED <<points, uid, coins, pending, credited, debited, sound>>
    BY <1>4 DEF Answer
  <2>3. u \in Users => v = LocalView(d, u)
    OBVIOUS
  <2> HIDE DEF v, r
  <2>4. \A e \in Devices, w \in Users : Holds(e, w)' => Holds(e, w)
    BY <2>2 DEF Holds
  <2> QED
    BY <1>0, <1>a, <2>1, <2>2, <2>3, <2>4, QuietStep
<1>5. ASSUME NEW d \in Devices, ShowCallback(d) PROVE WalletInv'
  BY <1>0, <1>5, ShownStep DEF ShowCallback
<1>6. ASSUME NEW d \in Devices, RefuseCallback(d) PROVE WalletInv'
  BY <1>0, <1>6, ShownStep DEF RefuseCallback
<1>7. ASSUME NEW d \in Devices, AddCallback(d) PROVE WalletInv'
  <2> DEFINE op == Head(ops[d])
             total == Held(d, op) + op.n
  <2>1. CallbackDue(d, "add") /\ op \in SolventOp /\ Held(d, op) \in Nat
    BY <1>0, <1>7, HeldSolvent DEF AddCallback
  <2>2. op.n \in Nat /\ total \in Nat
    BY <2>1 DEF SolventOp, Op
  <2>3. /\ Write(d, total) /\ Taint(Mixed(d)) /\ UNCHANGED <<points, uid>>
        /\ coins' = [coins EXCEPT ![d] = total]
    BY <1>7 DEF AddCallback
  <2>4. /\ credited' = [u \in Users |-> credited[u] + IF u = uid[d] THEN op.n ELSE 0]
        /\ debited' = debited
        /\ credited \in [Users -> Nat]
        /\ debited \in [Users -> Nat]
    BY <1>0, <1>7 DEF AddCallback, Solvent, TypeOK
  <2>5. ASSUME NEW u \in Users, u = uid[d], Held(d, op) = Earned(u) PROVE total = Earned(u)'
    <3>1. credited'[u] = credited[u] + op.n /\ debited'[u] = debited[u]
      BY <2>4, <2>5
    <3>2. credited[u] \in Nat /\ BookCoin * debited[u] \in Int
      BY <2>4
    <3>3. Held(d, op) = credited[u] - BookCoin * debited[u]
      BY <2>5 DEF Earned
    <3>4. Earned(u)' = (credited[u] + op.n) - BookCoin * debited[u]
      BY <3>1 DEF Earned
    <3> QED
      BY <2>2, <3>2, <3>3, <3>4
  <2>6. \A u \in Users : u # uid[d] => credited'[u] = credited[u] /\ debited'[u] = debited[u]
    BY <2>4
  <2> HIDE DEF total
  <2>7. \A u \in Users : u = uid[d] /\ Held(d, Head(ops[d])) = Earned(u) => total = Earned(u)'
    BY <2>5
  <2> QED
    BY <1>0, <2>1, <2>2, <2>3, <2>6, <2>7, WriteStep
<1>8. ASSUME NEW d \in Devices, RedeemCallback(d) PROVE WalletInv'
  <2> DEFINE op == Head(ops[d])
             rest == Held(d, op) - op.n
  <2>1. CallbackDue(d, "redeem") /\ op \in SolventOp /\ Held(d, op) \in Nat
    BY <1>0, <1>8, HeldSolvent DEF RedeemCallback
  <2>2. op.n \in Nat /\ rest \in Nat
    BY <1>8, <2>1 DEF SolventOp, Op, RedeemCallback, Affordable
  <2>3. op.n = BookCoin
    <3>1. 1 \in DOMAIN ops[d] /\ op = ops[d][1] /\ op.kind = "redeem"
      BY <1>0, <2>1 DEF CallbackDue
    <3> QED
      BY <3>1 DEF WalletInv, Priced
  <2>4. /\ Write(d, rest) /\ Taint(Mixed(d)) /\ UNCHANGED <<points, uid>>
        /\ coins' = [coins EXCEPT ![d] = rest]
    BY <1>8 DEF RedeemCallback
  <2>5. /\ debited' = [u \in Users |-> debited[u] + IF u = uid[d] THEN 1 ELSE 0]
        /\ credited' = credited
        /\ credited \in [Users -> Nat]
        /\ debited \in [Users -> Nat]
    BY <1>0, <1>8 DEF RedeemCallback, Solvent, TypeOK
  <2>6. ASSUME NEW u \in Users, u = uid[d], Held(d, op) = Earned(u) PROVE rest = Earned(u)'
    <3>1. debited'[u] = debited[u] + 1 /\ credited'[u] = credited[u]
      BY <2>5, <2>6
    <3>2. credited[u] \in Nat /\ debited[u] \in Nat
      BY <2>5
    <3>3. BookCoin * (debited[u] + 1) = BookCoin * debited[u] + BookCoin
      BY <3>2
    <3>4. Held(d, op) = credited[u] - BookCoin * debited[u]
      BY <2>6 DEF Earned
    <3>5. Earned(u)' = credited[u] - (BookCoin * debited[u] + BookCoin)
      BY <3>1, <3>3 DEF Earned
    <3>6. BookCoin * debited[u] \in Int
      BY <3>2
    <3> QED
      BY <2>3, <3>2, <3>4, <3>5, <3>6
  <2>7. \A u \in Users : u # uid[d] => credited'[u] = credited[u] /\ debited'[u] = debited[u]
    BY <2>5
  <2> HIDE DEF rest
  <2>8. \A u \in Users : u = uid[d] /\ Held(d, Head(ops[d])) = Earned(u) => rest = Earned(u)'
    BY <2>6
  <2> QED
    BY <1>0, <2>1, <2>2, <2>4, <2>7, <2>8, WriteStep
<1>9. ASSUME NEW d \in Devices, NEW u \in Users, Deliver(d, u) PROVE WalletInv'
  BY <1>0, <1>9, DeliverStep
<1>10. ASSUME NEW d \in Devices, NEW u \in Users, Reject(d, u) PROVE WalletInv'
  <2>1. /\ ops' = [ops EXCEPT ![d] = ops[d]]
        /\ Remains(ops[d], ops[d], 0, NoUser, Absent)
        /\ UNCHANGED <<points, uid, coins, credited, debited>>
    BY <1>0, <1>10, RemainsSame DEF Reject
  <2>2. \A e \in Devices, w \in Users : (e # d \/ w # u) => pending'[e][w] = pending[e][w]
    BY <1>0, <1>10 DEF Reject
  <2>3. \A w \in Users : sound'[w] => sound[w] /\ w # u
    BY <1>10 DEF Reject, Taint
  <2>4. \A e \in Devices, w \in Users : Holds(e, w)' => Holds(e, w)
    BY <1>10, <2>2 DEF Holds, Reject
  <2>5. ASSUME NEW w \in Users, sound'[w]
        PROVE  /\ sound[w]
               /\ \A e \in Devices : pending'[e][w] = pending[e][w]
               /\ Blank(w) => \A e \in Devices : uid'[e] = w => coins'[e] = 0
    BY <1>a, <2>1, <2>2, <2>3, <2>5
  <2>6. 0 \in {0, 1} /\ UNCHANGED <<points, credited, debited>>
    BY <2>1
  <2> QED
    BY <1>0, <1>b, <2>1, <2>4, <2>5, <2>6, QuietStep
<1>11. ASSUME NEW d \in Devices, NEW u \in Users, Login(d, u) PROVE WalletInv'
  <2>1. /\ ops' = [ops EXCEPT ![d] = ops[d]]
        /\ Remains(ops[d], ops[d], 0, NoUser, Absent)
        /\ UNCHANGED <<points, coins, pending, credited, debited>>
    BY <1>0, <1>11, RemainsSame DEF Login
  <2>2. ASSUME NEW w \in Users, sound'[w]
        PROVE  sound[w] /\ (Blank(w) => \A e \in Devices : uid'[e] = w => coins'[e] = 0)
    <3>1. sound[w] /\ (w = u => coins[d] = 0)
      BY <1>11, <2>2 DEF Login, Taint
    <3>2. uid' = [uid EXCEPT ![d] = u]
      BY <1>11 DEF Login
    <3> QED
      BY <1>0, <1>a, <2>1, <3>1, <3>2
  <2>3. \A e \in Devices, w \in Users : Holds(e, w)' => Holds(e, w)
    BY <2>1 DEF Holds
  <2> QED
    BY <1>0, <1>b, <2>1, <2>2, <2>3, QuietStep
<1>12. ASSUME NEW d \in Devices, Leave(d) PROVE WalletInv'
  <2>1. PICK gone \in SUBSET DOMAIN ops[d] : ops' = [ops EXCEPT ![d] = Disown(@, gone)]
    BY <1>12 DEF Leave
  <2>2. /\ Remains(ops[d], Disown(ops[d], gone), 0, NoUser, Absent)
        /\ UNCHANGED <<points, uid, coins, pending, credited, debited, sound>>
    BY <1>0, <1>12, RemainsDisown DEF Leave
  <2>3. \A e \in Devices, w \in Users : Holds(e, w)' => Holds(e, w)
    BY <2>2 DEF Holds
  <2> QED
    BY <1>0, <1>a, <1>b, <2>1, <2>2, <2>3, QuietStep
<1>13. ASSUME NEW d \in Devices, Logout(d) PROVE WalletInv'
  <2>1. /\ ops' = [ops EXCEPT ![d] = Disown(ops[d], DOMAIN ops[d])]
        /\ Remains(ops[d], Disown(ops[d], DOMAIN ops[d]), 0, NoUser, Absent)
        /\ UNCHANGED <<points, pending, credited, debited, sound>>
    BY <1>0, <1>13, RemainsDisown DEF Logout
  <2>2. uid' = [uid EXCEPT ![d] = NoUser] /\ coins' = [coins EXCEPT ![d] = 0]
    BY <1>13 DEF Logout
  <2>3. \A w \in Users : sound[w] /\ Blank(w) => \A e \in Devices : uid'[e] = w => coins'[e] = 0
    BY <1>0, <1>a, <2>2
  <2>4. \A e \in Devices, w \in Users : Holds(e, w)' => Holds(e, w)
    BY <2>1 DEF Holds
  <2> QED
    BY <1>0, <1>b, <2>1, <2>3, <2>4, QuietStep
<1>14. ASSUME NEW d \in Devices, Relaunch(d) PROVE WalletInv'
  <2>1. /\ ops' = [ops EXCEPT ![d] = <<>>]
        /\ Remains(ops[d], <<>>, 0, NoUser, Absent)
        /\ UNCHANGED <<points, uid, coins, credited, debited>>
    BY <1>14 DEF Relaunch, Remains
  <2>2. \A e \in Devices, w \in Users :
            pending'[e][w] = IF e = d THEN <<>> ELSE pending[e][w]
    BY <1>0, <1>14 DEF Relaunch
  <2>3. \A w \in Users : sound'[w] => sound[w] /\ pending[d][w] = <<>>
    BY <1>14 DEF Relaunch, Taint
  <2>4. \A e \in Devices, w \in Users : Holds(e, w)' => Holds(e, w)
    BY <2>2 DEF Holds
  <2> QED
    BY <1>0, <1>a, <1>b, <2>1, <2>2, <2>3, <2>4, QuietStep
<1>15. CASE UNCHANGED vars
  <2>1. UNCHANGED <<points, uid, coins, ops, pending, credited, debited, sound>>
    BY <1>15 DEF vars
  <2>2. ListenersServed' /\ Priced'
    BY <2>1 DEF WalletInv, ListenersServed, Priced, Cached, Waits
  <2>3. ASSUME NEW u \in Users, sound'[u] PROVE Accountable(u)'
    <3>1. Accountable(u)
      BY <2>1, <2>3 DEF WalletInv
    <3>2. \A d \in Devices : LocalView(d, u)' = LocalView(d, u) /\ (Holds(d, u)' <=> Holds(d, u))
      BY <2>1 DEF LocalView, Holds
    <3>3. OneHolder(u)' /\ OneChange(u)' /\ ChangeAtHolder(u)'
      BY <2>1, <3>1, <3>2 DEF Accountable, OneHolder, OneChange, ChangeAtHolder, Changes
    <3>4. ReadIsFresh(u)' /\ BlankIsZero(u)' /\ Balanced(u)'
      BY <2>1, <3>1, <3>2
         DEF Accountable, ReadIsFresh, BlankIsZero, Blank, Balanced, Changes, Earned
    <3> QED
      BY <3>3, <3>4 DEF Accountable
  <2> QED
    BY <1>0, <2>2, <2>3 DEF WalletInv
<1> QED
  BY <1>1, <1>2, <1>3, <1>4, <1>5, <1>6, <1>7, <1>8, <1>9, <1>10, <1>11, <1>12, <1>13,
     <1>14, <1>15 DEF Next, Callback

LEMMA WalletInvariant == Spec => []WalletInv
<1>1. Init => WalletInv
  BY WalletInvInit
<1>2. WalletInv /\ [Next]_vars => WalletInv'
  BY WalletInvStep
<1> QED
  BY <1>1, <1>2, PTL DEF Spec

-----------------------------------------------------------------------------
(* What the wallet promises *)

\* A queue whose head at most has gone and whose waiting listeners of one node have
\* all been answered with one number.
LEMMA RemainsInStep ==
    ASSUME NEW q \in Seq(SolventOp), NEW r \in Seq(SolventOp), NEW k \in {0, 1}, NEW x, NEW v,
           Remains(q, r, k, x, v), Len(r) + k = Len(q)
    PROVE  StayInStep(q, r)
<1>0. Len(q) \in Nat /\ Len(r) \in Nat
  OBVIOUS
<1>1. PICK m \in Nat, n \in Nat : m = Len(q) /\ n = Len(r)
  BY <1>0
<1>2. (IF n < m THEN m - n ELSE 0) = k
  BY <1>1
<1>3. ASSUME NEW i \in DOMAIN r, NEW j \in DOMAIN r,
             q[i + k].uid = q[j + k].uid, q[i + k].snap = q[j + k].snap
      PROVE  r[i].snap = r[j].snap
  BY <1>3 DEF Remains, Waits
<1> QED
  BY <1>1, <1>2, <1>3 DEF StayInStep

\* The queue of a phone that asks for its balance: nothing is read or dropped.
LEMMA AskedInStep ==
    ASSUME NEW q \in Seq(SolventOp), NEW op \in SolventOp
    PROVE  StayInStep(q, Append(q, op))
<1>0. /\ Append(q, op) \in Seq(SolventOp) /\ Len(q) \in Nat
      /\ Len(Append(q, op)) = Len(q) + 1 /\ DOMAIN q = 1..Len(q)
  OBVIOUS
<1>1. PICK r \in Seq(SolventOp), m \in Nat :
          r = Append(q, op) /\ m = Len(q) /\ Len(r) = m + 1 /\ DOMAIN q = 1..m
  BY <1>0
<1>2. \A i \in DOMAIN q : r[i] = q[i] /\ i + 0 = i
  BY <1>1
<1>3. \A i \in DOMAIN r : i + 0 = i
  BY <1>1
<1>4. (IF m + 1 < m THEN m - (m + 1) ELSE 0) = 0
  BY <1>1
<1>5. StayInStep(q, r)
  BY <1>1, <1>2, <1>3, <1>4 DEF StayInStep
<1> QED
  BY <1>1, <1>5

\* Every action changes the queue of one phone in one of these ways, or empties it.
LEMMA QueueInStep ==
    ASSUME Solvent, Solvent', Next
    PROVE  \A d \in Devices : StayInStep(ops[d], ops'[d])
<1>0. ops \in [Devices -> Seq(SolventOp)] /\ ops' \in [Devices -> Seq(SolventOp)]
  BY DEF Solvent
<1>1. ASSUME NEW d \in Devices PROVE StayInStep(ops[d], ops[d])
  BY <1>0, RemainsSame, RemainsInStep
<1>2. ASSUME NEW d \in Devices, NEW r, ops' = [ops EXCEPT ![d] = r], StayInStep(ops[d], r)
      PROVE  \A e \in Devices : StayInStep(ops[e], ops'[e])
  <2>1. \A e \in Devices : ops'[e] = IF e = d THEN r ELSE ops[e]
    BY <1>0, <1>2
  <2> QED
    BY <1>1, <1>2, <2>1
<1>3. ASSUME NEW d \in Devices, NEW r, NEW k \in {0, 1}, NEW x, NEW v,
             ops' = [ops EXCEPT ![d] = r], Remains(ops[d], r, k, x, v), Len(r) + k = Len(ops[d])
      PROVE  \A e \in Devices : StayInStep(ops[e], ops'[e])
  <2>1. r \in Seq(SolventOp)
    BY <1>0, <1>3
  <2>2. StayInStep(ops[d], r)
    BY <1>0, <1>3, <2>1, RemainsInStep
  <2> QED
    BY <1>2, <1>3, <2>2
<1>4. ASSUME NEW d \in Devices, NEW kind, NEW n, Ask(d, kind, n)
      PROVE  \A e \in Devices : StayInStep(ops[e], ops'[e])
  <2>1. PICK op : ops' = [ops EXCEPT ![d] = Append(@, op)]
    BY <1>4 DEF Ask
  <2>2. Append(ops[d], op) \in Seq(SolventOp)
    BY <1>0, <2>1
  <2>3. op \in SolventOp
    <3>1. Append(ops[d], op)[Len(ops[d]) + 1] = op /\ Len(ops[d]) + 1 \in DOMAIN Append(ops[d], op)
      BY <1>0
    <3> QED
      BY <2>2, <3>1
  <2> QED
    BY <1>0, <1>2, <2>1, <2>3, AskedInStep
<1>5. ASSUME NEW d \in Devices, ops[d] # <<>>, ops' = [ops EXCEPT ![d] = Tail(@)]
      PROVE  \A e \in Devices : StayInStep(ops[e], ops'[e])
  <2>1. Remains(ops[d], Tail(ops[d]), 1, NoUser, Absent) /\ Len(Tail(ops[d])) + 1 = Len(ops[d])
    BY <1>0, <1>5, RemainsTail
  <2> QED
    BY <1>3, <1>5, <2>1
<1>6. ASSUME NEW d \in Devices, ops[d] # <<>>, NEW value, Write(d, value)
      PROVE  \A e \in Devices : StayInStep(ops[e], ops'[e])
  <2>1. CASE uid[d] = NoUser
    BY <1>5, <1>6, <2>1 DEF Write
  <2>2. CASE uid[d] # NoUser
    <3> DEFINE r == AnswerAll(Tail(ops[d]), uid[d], value)
    <3>1. ops' = [ops EXCEPT ![d] = r] /\ uid[d] \in Users
      BY <1>6, <2>2 DEF Write, Solvent, TypeOK
    <3>2. Remains(ops[d], r, 1, uid[d], value)
      BY <1>0, <1>6, <3>1, RemainsWrite
    <3>3. r \in Seq(SolventOp) /\ DOMAIN r = DOMAIN Tail(ops[d])
      BY <1>0, <3>1 DEF AnswerAll
    <3>4. Len(r) + 1 = Len(ops[d])
      BY <1>0, <1>6, <3>3
    <3> HIDE DEF r
    <3> QED
      BY <1>3, <3>1, <3>2, <3>4
  <2> QED
    BY <2>1, <2>2
<1>7. ASSUME NEW d \in Devices, Callback(d)
      PROVE  \A e \in Devices : StayInStep(ops[e], ops'[e])
  BY <1>5, <1>6, <1>7
     DEF Callback, CallbackDue, ShowCallback, AddCallback, RedeemCallback, RefuseCallback
<1>8. ASSUME NEW d \in Devices, NEW u \in Users, Answer(d, u)
      PROVE  \A e \in Devices : StayInStep(ops[e], ops'[e])
  <2> DEFINE r == AnswerAll(ops[d], u, LocalView(d, u))
  <2>1. ops' = [ops EXCEPT ![d] = r] /\ Remains(ops[d], r, 0, u, LocalView(d, u))
    BY <1>0, <1>8, RemainsAnswerAll DEF Answer
  <2>2. r \in Seq(SolventOp) /\ DOMAIN r = DOMAIN ops[d]
    BY <1>0, <2>1 DEF AnswerAll
  <2>3. Len(r) + 0 = Len(ops[d])
    BY <1>0, <2>2
  <2> HIDE DEF r
  <2> QED
    BY <1>3, <2>1, <2>3
<1>9. ASSUME NEW d \in Devices, NEW gone, ops' = [ops EXCEPT ![d] = Disown(@, gone)]
      PROVE  \A e \in Devices : StayInStep(ops[e], ops'[e])
  <2> DEFINE r == Disown(ops[d], gone)
  <2>1. Remains(ops[d], r, 0, NoUser, Absent)
    BY <1>0, RemainsDisown
  <2>2. r \in Seq(SolventOp) /\ DOMAIN r = DOMAIN ops[d]
    BY <1>0, <1>9 DEF Disown
  <2>3. Len(r) + 0 = Len(ops[d]) /\ ops' = [ops EXCEPT ![d] = r]
    BY <1>0, <1>9, <2>2
  <2> HIDE DEF r
  <2> QED
    BY <1>3, <2>1, <2>3
<1>10. ASSUME NEW d \in Devices, Relaunch(d)
       PROVE  \A e \in Devices : StayInStep(ops[e], ops'[e])
  <2>1. StayInStep(ops[d], <<>>)
    BY DEF StayInStep
  <2> QED
    BY <1>2, <1>10, <2>1 DEF Relaunch
<1>11. ASSUME UNCHANGED ops PROVE \A d \in Devices : StayInStep(ops[d], ops'[d])
  BY <1>1, <1>11
<1> QED
  BY <1>4, <1>7, <1>8, <1>9, <1>10, <1>11
     DEF Next, StartShow, StartAdd, StartRedeem, Deliver, Reject, Login, Leave, Logout

\* Operations of one phone on one balance that read the same number, or both none
\* yet, keep to one number (TSFirebaseAPI.swift:179: one event answers each listener
\* that waits), for any number of operations, phones and accounts.
THEOREM WalletOverlapReadsSameBalance == Spec => OverlapReadsSameBalance
<1>1. Solvent /\ Solvent' /\ [Next]_vars => [\A d \in Devices : StayInStep(ops[d], ops'[d])]_vars
  BY QueueInStep
<1> QED
  BY <1>1, WalletSolvent, PTL DEF Spec, OverlapReadsSameBalance

\* What an accountable account owns, whoever holds it, is what it has earned.
LEMMA PurseIsEarned ==
    ASSUME NEW u \in Users, Accountable(u)
    PROVE  Purse(u) = Earned(u)
<1> DEFINE holders == {d \in Devices : pending[d][u] # <<>>}
<1>1. CASE holders = {}
  <2>1. CoinsIn(points[u]) = Earned(u)
    BY <1>1 DEF Accountable, Balanced, Holds
  <2> QED
    BY <1>1, <2>1 DEF Purse, CoinsIn
<1>2. CASE holders # {}
  <2> DEFINE d == CHOOSE e \in holders : TRUE
  <2>1. d \in holders
    BY <1>2
  <2>2. CoinsIn(LocalView(d, u)) = Earned(u)
    BY <2>1 DEF Accountable, Balanced, Holds
  <2>3. Purse(u) = CoinsIn(LocalView(d, u))
    BY <1>2 DEF Purse, CoinsIn
  <2> QED
    BY <2>2, <2>3
<1> QED
  BY <1>1, <1>2

\* The coins of an account are conserved: read-then-overwrite, in addCoins and
\* redeemCoins, gains or loses none unless operations race, a write is refused
\* or dies with the process, or the device changes hands in between.
THEOREM WalletConservation == Spec => []Conservation
<1>1. WalletInv => Conservation
  BY PurseIsEarned DEF WalletInv, Conservation, Earned
<1> QED
  BY <1>1, WalletInvariant, PTL

LEMMA PurseIsNat ==
    ASSUME Solvent, NEW u \in Users
    PROVE  Purse(u) \in Nat
<1> DEFINE holders == {d \in Devices : pending[d][u] # <<>>}
           newest == IF holders = {} THEN points[u] ELSE LocalView(CHOOSE d \in holders : TRUE, u)
<1>1. newest \in Nat \cup {Absent}
  <2>1. CASE holders = {}
    BY <2>1 DEF Solvent
  <2>2. CASE holders # {}
    <3>1. (CHOOSE d \in holders : TRUE) \in Devices
      BY <2>2
    <3>2. LocalView(CHOOSE d \in holders : TRUE, u) \in Nat \cup {Absent}
      <4> HIDE DEF holders
      <4> QED
        BY <3>1, LocalViewSolvent
    <3> QED
      BY <2>2, <3>2
  <2> QED
    BY <2>1, <2>2
<1>2. Purse(u) = IF newest = Absent THEN 0 ELSE newest
  BY DEF Purse
<1> HIDE DEF newest
<1> QED
  BY <1>1, <1>2

\* What an account spent was in its purse, where the account is sound: "You have
\* insufficient coin in your account" (TSFirebaseAPI.swift:155) is then said to
\* whoever needs to hear it.  Run wallet_overspend shows the race without soundness.
THEOREM WalletSoundSpentWasBought ==
    Spec => [](\A u \in Users : sound[u] => BookCoin * debited[u] <= credited[u])
<1> DEFINE Covered == \A u \in Users : sound[u] => BookCoin * debited[u] <= credited[u]
<1>1. WalletInv /\ Conservation => Covered
  <2> SUFFICES ASSUME WalletInv, Conservation, NEW u \in Users, sound[u]
               PROVE  BookCoin * debited[u] <= credited[u]
    OBVIOUS
  <2>1. PICK due \in Int : due = BookCoin * debited[u]
    BY WalletAssumption DEF WalletInv, Solvent, TypeOK
  <2>2. credited[u] \in Int
    BY DEF WalletInv, Solvent, TypeOK
  <2>3. Purse(u) = credited[u] - due
    BY <2>1 DEF Conservation
  <2>4. Purse(u) \in Nat
    BY PurseIsNat DEF WalletInv
  <2>5. due <= credited[u]
    BY <2>2, <2>3, <2>4
  <2> QED
    BY <2>1, <2>5
<1>2. Spec => []Covered
  <2> HIDE DEF Covered
  <2> QED
    BY <1>1, WalletInvariant, WalletConservation, PTL
<1> QED
  BY <1>2 DEF Covered

\* The safety half of ServerSettles: once no write of an account is on its way, on
\* any phone, the server holds what a sound account was credited less what it paid.
THEOREM WalletDrainedServerIsRight ==
    Spec => [](\A u \in Users : sound[u] /\ (\A d \in Devices : pending[d][u] = <<>>) =>
                  credited[u] - BookCoin * debited[u] = IF points[u] = Absent THEN 0 ELSE points[u])
<1> DEFINE Right == \A u \in Users : sound[u] /\ (\A d \in Devices : pending[d][u] = <<>>) =>
                       credited[u] - BookCoin * debited[u] = IF points[u] = Absent THEN 0 ELSE points[u]
<1>1. Conservation => Right
  <2> SUFFICES ASSUME Conservation, NEW u \in Users, sound[u], \A d \in Devices : pending[d][u] = <<>>
               PROVE  credited[u] - BookCoin * debited[u] = IF points[u] = Absent THEN 0 ELSE points[u]
    OBVIOUS
  <2>1. Purse(u) = IF points[u] = Absent THEN 0 ELSE points[u]
    BY DEF Purse
  <2> QED
    BY <2>1 DEF Conservation
<1>2. Spec => []Right
  <2> HIDE DEF Right
  <2> QED
    BY <1>1, WalletConservation, PTL
<1> QED
  BY <1>2 DEF Right

-----------------------------------------------------------------------------
(* The wallet implements the ledger *)

\* The ledger's entry of an account.
Entry(u) ==
    IF sound[u]
    THEN [balance |-> Purse(u), bought |-> credited[u], episodes |-> debited[u]]
    ELSE Absent

\* A step that credits and debits no sound account gives up the accounts that
\* stop being sound, if there are any.
LEMMA NoEntryChanges ==
    ASSUME Conservation, Conservation',
           \A u \in Users : sound'[u] =>
               sound[u] /\ credited'[u] = credited[u] /\ debited'[u] = debited[u]
    PROVE  Ledger!Next
<1> DEFINE us == {u \in Users : ~sound'[u]}
<1>1. ASSUME NEW u \in Users PROVE Entry(u)' = IF u \in us THEN Absent ELSE Entry(u)
  <2>1. CASE sound'[u]
    <3>1. sound[u] /\ Purse(u)' = Purse(u)
      BY <2>1 DEF Conservation
    <3> QED
      BY <2>1, <3>1 DEF Entry
  <2>2. CASE ~sound'[u]
    BY <2>2 DEF Entry
  <2> QED
    BY <2>1, <2>2
<1>2. us \in SUBSET Users
  OBVIOUS
<1> HIDE DEF us
<1>3. Ledger!GiveUp(us)
  BY <1>1 DEF Ledger!GiveUp, Entry
<1>4. \E s \in SUBSET Users : Ledger!GiveUp(s)
  BY <1>2, <1>3 DEF Ledger!GiveUp
<1> QED
  BY <1>4 DEF Ledger!Next
LEMMA PurseIsInt ==
    ASSUME WalletInv, Conservation, NEW u \in Users, sound[u]
    PROVE  Purse(u) \in Int
<1>1. credited[u] \in Nat /\ debited[u] \in Nat
  BY DEF WalletInv, Solvent, TypeOK
<1>2. BookCoin * debited[u] \in Int
  BY <1>1
<1> QED
  BY <1>1, <1>2 DEF Conservation

\* Crediting a sound account is buying a pack.
LEMMA AddBuysPack ==
    ASSUME WalletInv, Conservation, Conservation', NEW d \in Devices, AddCallback(d)
    PROVE  Ledger!Next
<1> DEFINE op == Head(ops[d])
<1>0. /\ op \in SolventOp /\ op.n \in Packs /\ op.n \in Int
      /\ uid[d] \in Users \cup {NoUser}
      /\ credited \in [Users -> Nat] /\ debited \in [Users -> Nat]
  <2>1. Solvent /\ CallbackDue(d, "add")
    BY DEF WalletInv, AddCallback
  <2>2. op \in SolventOp /\ op.kind = "add"
    BY <2>1, HeldSolvent DEF CallbackDue
  <2>3. 1 \in DOMAIN ops[d] /\ op = ops[d][1]
    BY <2>1 DEF Solvent, CallbackDue
  <2>4. op.n \in Packs
    BY <2>2, <2>3 DEF WalletInv, Priced
  <2>5. op.n \in Int
    BY <2>2 DEF SolventOp, Op
  <2>6. /\ uid[d] \in Users \cup {NoUser}
        /\ credited \in [Users -> Nat] /\ debited \in [Users -> Nat]
    BY <2>1 DEF Solvent, TypeOK
  <2> QED
    BY <2>2, <2>4, <2>5, <2>6
<1>1. /\ Taint(Mixed(d))
      /\ credited' = [u \in Users |-> credited[u] + IF u = uid[d] THEN op.n ELSE 0]
      /\ debited' = debited
  BY DEF AddCallback
<1>2. \A u \in Users : sound'[u] => sound[u]
  BY <1>1 DEF Taint
<1>3. ASSUME NEW u \in Users, u # uid[d] PROVE credited'[u] = credited[u] /\ debited'[u] = debited[u]
  BY <1>0, <1>1, <1>3
<1>4. CASE uid[d] \in Users /\ sound'[uid[d]]
  <2>0. PICK me \in Users : me = uid[d] /\ sound'[me]
    BY <1>4
  <2>1. sound[me] /\ \A u \in Users : sound'[u] <=> sound[u]
    BY <1>1, <2>0 DEF Taint, Mixed
  <2>2. ASSUME NEW u \in Users, u # me PROVE Entry(u)' = Entry(u)
    <3>1. sound[u] => Purse(u)' = Purse(u)
      BY <1>3, <2>0, <2>1, <2>2 DEF Conservation
    <3> QED
      BY <1>3, <2>0, <2>1, <2>2, <3>1 DEF Entry
  <2>3. credited'[me] = credited[me] + op.n /\ debited'[me] = debited[me]
    BY <1>1, <2>0
  <2>4. Purse(me)' = Purse(me) + op.n
    <3>1. Purse(me) = credited[me] - BookCoin * debited[me]
      BY <2>1 DEF Conservation
    <3>2. Purse(me)' = credited'[me] - BookCoin * debited'[me]
      BY <2>0 DEF Conservation
    <3>3. credited[me] \in Int /\ BookCoin * debited[me] \in Int
      BY <1>0
    <3> QED
      BY <1>0, <2>3, <3>1, <3>2, <3>3
  <2>5. /\ Entry(me) = [balance |-> Purse(me), bought |-> credited[me], episodes |-> debited[me]]
        /\ Entry(me)' = [balance |-> Purse(me) + op.n, bought |-> credited[me] + op.n,
                         episodes |-> debited[me]]
    BY <2>0, <2>1, <2>3, <2>4 DEF Entry
  <2>6. Entry(me) # Absent
    BY <1>0, <2>1, <2>5, PurseIsInt
  <2>7. Ledger!BuyPack(me, op.n)
    <3> HIDE DEF op
    <3> QED
      BY <2>2, <2>5, <2>6 DEF Ledger!BuyPack, Entry
  <2> QED
    BY <1>0, <2>7 DEF Ledger!Next, Ledger!BuyPack
<1>5. CASE ~(uid[d] \in Users /\ sound'[uid[d]])
  BY <1>2, <1>3, <1>5, NoEntryChanges
<1> QED
  BY <1>4, <1>5

\* Debiting a sound account is paying for an episode its balance covers.
LEMMA RedeemPaysEpisode ==
    ASSUME WalletInv, Conservation, Conservation', NEW d \in Devices, RedeemCallback(d)
    PROVE  Ledger!Next
<1> DEFINE op == Head(ops[d])
<1>0. /\ op.n = BookCoin
      /\ uid[d] \in Users \cup {NoUser}
      /\ credited \in [Users -> Nat] /\ debited \in [Users -> Nat]
  <2>1. Solvent /\ CallbackDue(d, "redeem")
    BY DEF WalletInv, RedeemCallback
  <2>2. 1 \in DOMAIN ops[d] /\ op = ops[d][1] /\ op.kind = "redeem"
    BY <2>1 DEF Solvent, CallbackDue
  <2>3. op.n = BookCoin
    BY <2>2 DEF WalletInv, Priced
  <2>4. /\ uid[d] \in Users \cup {NoUser}
        /\ credited \in [Users -> Nat] /\ debited \in [Users -> Nat]
    BY <2>1 DEF Solvent, TypeOK
  <2> QED
    BY <2>3, <2>4
<1>1. /\ Taint(Mixed(d))
      /\ debited' = [u \in Users |-> debited[u] + IF u = uid[d] THEN 1 ELSE 0]
      /\ credited' = credited
      /\ Held(d, op) >= op.n
  BY DEF RedeemCallback, Affordable
<1>2. \A u \in Users : sound'[u] => sound[u]
  BY <1>1 DEF Taint
<1>3. ASSUME NEW u \in Users, u # uid[d] PROVE credited'[u] = credited[u] /\ debited'[u] = debited[u]
  BY <1>0, <1>1, <1>3
<1>4. CASE uid[d] \in Users /\ sound'[uid[d]]
  <2>0. PICK me \in Users : me = uid[d] /\ sound'[me]
    BY <1>4
  <2>1. sound[me] /\ Head(ops[d]).uid = me /\ \A u \in Users : sound'[u] <=> sound[u]
    BY <1>1, <2>0 DEF Taint, Mixed
  <2>2. ASSUME NEW u \in Users, u # me PROVE Entry(u)' = Entry(u)
    <3>1. sound[u] => Purse(u)' = Purse(u)
      BY <1>3, <2>0, <2>1, <2>2 DEF Conservation
    <3> QED
      BY <1>3, <2>0, <2>1, <2>2, <3>1 DEF Entry
  <2>3. debited'[me] = debited[me] + 1 /\ credited'[me] = credited[me]
    BY <1>1, <2>0
  <2>4. Purse(me) = credited[me] - BookCoin * debited[me]
    BY <2>1 DEF Conservation
  <2>5. Purse(me)' = Purse(me) - BookCoin
    <3>1. Purse(me)' = credited'[me] - BookCoin * debited'[me]
      BY <2>0 DEF Conservation
    <3>2. credited[me] \in Nat /\ debited[me] \in Nat
      BY <1>0
    <3>3. BookCoin * (debited[me] + 1) = BookCoin * debited[me] + BookCoin
      BY <3>2
    <3>4. BookCoin * debited[me] \in Int
      BY <3>2
    <3>5. Purse(me)' = credited[me] - (BookCoin * debited[me] + BookCoin)
      BY <2>3, <3>1, <3>3
    <3> QED
      BY <2>4, <3>2, <3>4, <3>5
  <2>6. Purse(me) >= BookCoin
    <3>1. Accountable(me) /\ Solvent
      BY <2>1 DEF WalletInv
    <3>2. ops[d] # <<>> /\ Changes(Head(ops[d]), me) /\ Head(ops[d]).snap # Unanswered
      BY <2>1 DEF Changes, RedeemCallback, CallbackDue
    <3>3. Held(d, op) = Earned(me)
      BY <2>0, <3>1, <3>2, HeldIsEarned
    <3> QED
      BY <1>0, <1>1, <2>4, <3>3 DEF Earned
  <2>7. /\ Entry(me) = [balance |-> Purse(me), bought |-> credited[me], episodes |-> debited[me]]
        /\ Entry(me)' = [balance |-> Purse(me) - BookCoin, bought |-> credited[me],
                         episodes |-> debited[me] + 1]
    BY <2>0, <2>1, <2>3, <2>5 DEF Entry
  <2>8. Entry(me) # Absent
    BY <1>0, <2>1, <2>7, PurseIsInt
  <2>9. Ledger!PayEpisode(me)
    BY <2>2, <2>6, <2>7, <2>8 DEF Ledger!PayEpisode, Entry
  <2> QED
    BY <2>9 DEF Ledger!Next, Ledger!PayEpisode
<1>5. CASE ~(uid[d] \in Users /\ sound'[uid[d]])
  BY <1>2, <1>3, <1>5, NoEntryChanges
<1> QED
  BY <1>4, <1>5

\* The wallet implements the ledger: to an account no race, refused or lost
\* write or account switch has touched, addCoins and redeemCoins, reads,
\* callbacks and queued writes and all, are single steps that buy a pack or
\* pay for an episode the balance covers (the refinement the runs check).
THEOREM WalletImplementsLedger == Spec => ImplementsLedger
<1>1. Init => Ledger!Init
  <2> SUFFICES ASSUME Init PROVE Ledger!Init
    OBVIOUS
  <2>1. \A u \in Users : Purse(u) = 0 /\ sound[u] /\ credited[u] = 0 /\ debited[u] = 0
    BY DEF Init, Purse
  <2> QED
    BY <2>1 DEF Ledger!Init
<1>2. ASSUME WalletInv, Conservation, Conservation', [Next]_vars
      PROVE  [Ledger!Next]_[u \in Users |-> Entry(u)]
  <2>1. ASSUME NEW d \in Devices, AddCallback(d) PROVE Ledger!Next
    BY <1>2, <2>1, AddBuysPack
  <2>2. ASSUME NEW d \in Devices, RedeemCallback(d) PROVE Ledger!Next
    BY <1>2, <2>2, RedeemPaysEpisode
  <2>3. ASSUME UNCHANGED <<credited, debited>>, \A u \in Users : sound'[u] => sound[u]
        PROVE  Ledger!Next
    BY <1>2, <2>3, NoEntryChanges
  <2>4. ASSUME NEW d \in Devices,
               \/ StartShow(d) \/ (\E n \in Packs : StartAdd(d, n)) \/ StartRedeem(d)
               \/ \E u \in Users : Answer(d, u) \/ Deliver(d, u) \/ Reject(d, u) \/ Login(d, u)
               \/ ShowCallback(d) \/ RefuseCallback(d) \/ Leave(d) \/ Logout(d) \/ Relaunch(d)
        PROVE  UNCHANGED <<credited, debited>> /\ \A u \in Users : sound'[u] => sound[u]
    BY <2>4 DEF StartShow, StartAdd, StartRedeem, Ask, Answer, Deliver, Reject, Login,
                ShowCallback, RefuseCallback, Leave, Logout, Relaunch, Taint
  <2>5. CASE Next
    BY <2>1, <2>2, <2>3, <2>4, <2>5 DEF Next, Callback
  <2>6. CASE UNCHANGED vars
    BY <2>3, <2>6 DEF vars
  <2> QED
    BY <1>2, <2>5, <2>6
<1> QED
  BY <1>1, <1>2, WalletInvariant, WalletConservation, PTL
     DEF Spec, ImplementsLedger, Ledger!Spec, Entry

=============================================================================

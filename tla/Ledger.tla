------------------------------- MODULE Ledger -------------------------------
(***************************************************************************)
(* What the wallet promises: an account's balance changes only by buying a *)
(* pack and by paying for an episode it covers, and each is one indivisible*)
(* step.  An account may leave the ledger's responsibility (a race, a lost *)
(* write, a mixed-up account), and then nothing is said of it any more.    *)
(***************************************************************************)
EXTENDS Integers

CONSTANTS Users, Packs, BookCoin,
          Void      \* the entry of an account the ledger no longer vouches for

VARIABLE account

Init == account = [u \in Users |-> [balance |-> 0, bought |-> 0, episodes |-> 0]]

BuyPack(u, n) ==
    /\ account[u] # Void
    /\ account' = [account EXCEPT ![u] = [balance  |-> @.balance + n,
                                          bought   |-> @.bought + n,
                                          episodes |-> @.episodes]]

PayEpisode(u) ==
    /\ account[u] # Void
    /\ account[u].balance >= BookCoin
    /\ account' = [account EXCEPT ![u] = [balance  |-> @.balance - BookCoin,
                                          bought   |-> @.bought,
                                          episodes |-> @.episodes + 1]]

\* Any number of accounts is given up at once.
GiveUp(us) ==
    account' = [u \in Users |-> IF u \in us THEN Void ELSE account[u]]

Next ==
    \/ \E u \in Users : PayEpisode(u) \/ \E n \in Packs : BuyPack(u, n)
    \/ \E us \in SUBSET Users : GiveUp(us)

Spec == Init /\ [][Next]_account

=============================================================================

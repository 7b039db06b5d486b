------------------------------- MODULE Bookshop -------------------------------
(***************************************************************************)
(* What buying episodes promises: a purse that is filled by packs, and an  *)
(* episode not owned yet that changes hands for its price, both at once.   *)
(* After a mishap the shop no longer vouches for the account.              *)
(***************************************************************************)
EXTENDS Integers

CONSTANTS Episodes, Packs, BookCoin,
          Void      \* an account the shop no longer vouches for

VARIABLE account

Init == account = [purse |-> 0, owned |-> {}]

FillPurse(n) ==
    /\ account # Void
    /\ account' = [account EXCEPT !.purse = @ + n]

Buy(e) ==
    /\ account # Void
    /\ account.purse >= BookCoin
    /\ e \notin account.owned
    /\ account' = [purse |-> account.purse - BookCoin, owned |-> account.owned \cup {e}]

GiveUp == account' = Void

Next == (\E n \in Packs : FillPurse(n)) \/ (\E e \in Episodes : Buy(e)) \/ GiveUp

Spec == Init /\ [][Next]_account

==============================================================================

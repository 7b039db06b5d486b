---------------------------- MODULE MCCoinWallet ----------------------------
(* Instances of CoinWallet for TLC. *)
EXTENDS CoinWallet

\* The packs of the first and the last row of the shop, so that one pack does
\* not cover an episode and the other does.
ShopEnds == {1, 4}
LargePack == {4}
=============================================================================

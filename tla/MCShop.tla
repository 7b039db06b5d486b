-------------------------------- MODULE MCShop --------------------------------
(* Instances of Shop for TLC. *)
EXTENDS Shop

\* A pack that covers one episode.
OnePack == {4}
==============================================================================

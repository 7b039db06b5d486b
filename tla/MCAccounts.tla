----------------------------- MODULE MCAccounts -----------------------------
(* Instances of Accounts for TLC. *)
EXTENDS Accounts, TLC

CONSTANTS ann, bob, Bob, dotted

\* Names typed in lower case only, one of them no database key.
LowerNames == {ann, bob, dotted}
LowerOfLower == ann :> ann @@ bob :> bob @@ dotted :> dotted

\* The same name typed in two ways.
MixedNames == {bob, Bob}
LowerOfMixed == bob :> bob @@ Bob :> bob
=============================================================================

----------------------------- MODULE ShareIndex -----------------------------
(* The index of a stock token, which its issuer moves: balances are shares, *)
(* and shares = units * IndexScale / index.                                 *)
EXTENDS Integers

CONSTANTS
    IndexScale,
    Indexes             \* the values of the index

ASSUME SharesAssumption == IndexScale \in Nat \ {0} /\ Indexes \subseteq Nat \ {0} /\ Indexes # {}
=============================================================================

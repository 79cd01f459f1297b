--------------------------- MODULE MCLockedSavings ---------------------------
(* Constants for checking LockedSavings: the savers are alike. *)
EXTENDS LockedSavings, TLC

MCSymmetry == Permutations(Owners)
=============================================================================

----------------------------- MODULE LedgerSums -----------------------------
(***************************************************************************)
(* The sum of a function from a finite set to natural numbers, written as  *)
(* the number of units it stands for: one pair <<x, k>> for each unit k of *)
(* f[x].  Written this way, how a sum changes when one entry changes is a  *)
(* fact about finite sets (LedgerSumTheorems) and needs no recursion.      *)
(***************************************************************************)
EXTENDS Integers, FiniteSets

Block(x, n) == {<<x, k>> : k \in 1 .. n}
Units(f) == UNION {Block(x, f[x]) : x \in DOMAIN f}
Total(f) == Cardinality(Units(f))
=============================================================================

------------------------------ MODULE Counting ------------------------------
(***************************************************************************)
(* Sums of counters. The sum of a function with natural values is the      *)
(* number of its units: a pair of an argument and a number up to its value *)
(* for each one it counts. Said this way a counter that is incremented is a*)
(* set that gets one element more.                                         *)
(***************************************************************************)
EXTENDS Naturals, FiniteSets

Units(f) == UNION {{x} \X (1 .. f[x]) : x \in DOMAIN f}

Total(f) == Cardinality(Units(f))
=============================================================================

------------------------------- MODULE Tallies -------------------------------
(***************************************************************************)
(* What the values of a function add up to: its units laid out one by one, *)
(* and counted.  A value below 1 has none.                                 *)
(***************************************************************************)
EXTENDS Integers, FiniteSets

Units(f) == UNION {{x} \X (1 .. f[x]) : x \in DOMAIN f}

Tally(f) == Cardinality(Units(f))
=============================================================================

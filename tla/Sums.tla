--------------------------------- MODULE Sums ---------------------------------
(***************************************************************************)
(* Sums of sequences of integers.                                          *)
(***************************************************************************)
EXTENDS Integers, Sequences

\* The sums of the first elements of s: of none of them, of one, ... of all.
Sums(s) ==
  LET sum[i \in 0 .. Len(s)] == IF i = 0 THEN 0 ELSE sum[i - 1] + s[i]
  IN  sum

Sum(s) == Sums(s)[Len(s)]
==============================================================================

-------------------------------- MODULE Sums --------------------------------
(***************************************************************************)
(* The sum of a sequence of integers, for properties of counters that are  *)
(* kept step by step.                                                      *)
(***************************************************************************)
EXTENDS Integers, Sequences

\* A recursive function, which proofs can unfold.
Sum(s) == LET upto[n \in 0 .. Len(s)] == IF n = 0 THEN 0 ELSE upto[n - 1] + s[n]
          IN  upto[Len(s)]
=============================================================================

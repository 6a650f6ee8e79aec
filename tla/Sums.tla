-------------------------------- MODULE Sums --------------------------------
(* The sum of a sequence of numbers, as iter().sum() forms it. *)
EXTENDS Integers, Sequences

Sum(seq) ==
  LET sum[n \in 0..Len(seq)] == IF n = 0 THEN 0 ELSE sum[n - 1] + seq[n]
  IN  sum[Len(seq)]
=============================================================================

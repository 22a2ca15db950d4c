-------------------------------- MODULE Sums --------------------------------
(* The running total of a loop, f[1] + ... + f[n], as a recursive function.  *)
EXTENDS Integers

SumUpTo(f, n) == LET sum[i \in 0 .. n] == IF i = 0 THEN 0 ELSE sum[i - 1] + f[i] IN sum[n]
=============================================================================

-------------------------------- MODULE Sums --------------------------------
(***************************************************************************)
(* Sums of an integer function over 1..n, written as a recursive function  *)
(* so that SumTheorems can reason about them for every n.  Users, rounds   *)
(* and the entries of a claim batch are all indexed by 1..n for this       *)
(* reason.                                                                 *)
(***************************************************************************)
EXTENDS Integers

\* The running totals of f: Prefix(f, n)[k] is f[1] + ... + f[k].
Prefix(f, n) ==
  LET p[k \in 0..n] == IF k = 0 THEN 0 ELSE p[k - 1] + f[k] IN p

Sum(f, n) == Prefix(f, n)[n]

=============================================================================

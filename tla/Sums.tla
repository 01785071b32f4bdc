-------------------------------- MODULE Sums --------------------------------
(***************************************************************************)
(* Sums of a function over 1..n.  The contracts never compute these sums:  *)
(* they keep a running counter (totalSupply, totalBorrows, ...) next to a  *)
(* mapping, and the properties compare the counter with the sum.           *)
(* Accounts are numbered 1..n so that the sum has a definition TLAPS can   *)
(* reason about; module SumsProofs holds the lemmas.                       *)
(***************************************************************************)
LOCAL INSTANCE Integers

PartialSums(f, n) ==
    LET s[i \in 0..n] == IF i = 0 THEN 0 ELSE s[i - 1] + f[i]
    IN  s

Total(f, n) == PartialSums(f, n)[n]
=============================================================================

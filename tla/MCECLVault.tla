----------------------------- MODULE MCECLVault -----------------------------
(* Two accounts, the ECL pool and one more sharing its emission. *)
EXTENDS ECLVault

MCTokens == {"ECL", "LP"}
MCWallet == [t \in MCTokens |-> IF t = "ECL" THEN <<2, 1>> ELSE <<1, 0>>]
=============================================================================

-------------------------- MODULE MCRewardsDistributor --------------------------
(* One market that was supplied to and borrowed from before it was rewarded. *)
EXTENDS RewardsDistributor

MCHolding == [s \in Sides |-> IF s[2] = "supply" THEN <<1, 0>> ELSE <<1, 1>>]
=============================================================================

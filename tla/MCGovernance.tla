----------------------------- MODULE MCGovernance -----------------------------
(* Two types of proposals over one timelock, as the deployment has them. *)
EXTENDS Governance

MCCalls == {"pay", "list", "faster", "handOver"}
MCSetsDelay == [c \in {"faster"} |-> 1]
MCHandsOver == {"handOver"}
MCStake == <<2, 1>>
MCTypes == {"NORMAL", "CRITICAL"}
MCTimelocks == {"lock"}
MCTimelockOf == [type \in MCTypes |-> "lock"]
MCVotingDelay == [type \in MCTypes |-> 1]
MCVotingPeriod == [type \in MCTypes |-> IF type = "NORMAL" THEN 2 ELSE 1]
MCThreshold == [type \in MCTypes |-> 2]
MCDrafts == [type \in MCTypes |-> IF type = "NORMAL" THEN {<<"list", "pay">>, <<"handOver">>} ELSE {<<"pay">>, <<"faster">>}]
MCAlphaCounts == {0, 1}
=============================================================================

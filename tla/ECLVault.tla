------------------------------- MODULE ECLVault -------------------------------
(***************************************************************************)
(* ECLVault and the ECLStore that holds its rewards.  Accounts stake       *)
(* tokens in pools, earn the pool's share of a reward token's emission,    *)
(* ask for their stake back and get it after the lock period.  Staked ECL  *)
(* gives votes, which are delegated and kept in checkpoints.               *)
(*                                                                         *)
(* Requests from before an upgrade of the vault cannot exist in a vault    *)
(* deployed with this code.  One clock stands for block.timestamp and      *)
(* getBlockNumberOrTimestamp.                                              *)
(***************************************************************************)
EXTENDS Integers, Sequences, FiniteSets, Sums

CONSTANTS
  AccountCount,    \* accounts are 1 .. AccountCount
  Tokens, RewardTokens, Ecl,
  Wallet,          \* token -> account -> what it can stake
  AccScale,        \* 1e12
  MaxLockPeriod,
  Amounts, AllocPoints, Rates, LockPeriods, Fundings,   \* inputs
  MaxPools, MaxTime, MaxOperations                      \* bounds

Accounts == 1 .. AccountCount
Nobody == 0
Pids == 1 .. MaxPools

ASSUME AccountsAssumption == AccountCount \in Nat /\ Wallet \in [Tokens -> [Accounts -> Nat]]
ASSUME EclAssumption == Ecl \in Tokens \cap RewardTokens
ASSUME InputsAssumption == (Amounts \cup AllocPoints \cup Rates \cup LockPeriods \cup Fundings) \subseteq Nat
ASSUME BoundsAssumption == AccScale \in Nat \ {0} /\ MaxPools \in Nat /\ MaxTime \in Nat

VARIABLES
  now,
  pools,                     \* reward token -> poolInfos
  totalAllocPoints, rewardRate,
  positions,                 \* reward token -> pid -> account -> userInfos with its requests
  totalPendingWithdrawals,   \* reward token -> pid
  balance,                   \* token -> what the vault holds
  delegates, checkpoints,
  store, pendingRewardTransfers,
  vaultPaused,
  emitted, granted, settlements, funded,   \* history, per reward token
  operations                               \* bounded

stakes == <<pools, positions, totalPendingWithdrawals, balance>>
votes == <<delegates, checkpoints>>
rewards == <<store, pendingRewardTransfers, granted, funded>>
settings == <<totalAllocPoints, rewardRate, vaultPaused>>
vars == <<now, stakes, votes, rewards, settings, emitted, settlements, operations>>

-----------------------------------------------------------------------------
(* Rewards *)

NewPool(token, alloc, lock) ==
  [token |-> token, allocPoint |-> alloc, lastReward |-> now, accRewardPerShare |-> 0, lockPeriod |-> lock]

\* The pool's share of what was emitted since lastReward goes to those staking now.
Updated(r, pid) ==
  LET pool == pools[r][pid]
      supply == balance[pool.token] - totalPendingWithdrawals[r][pid]
      reward == ((now - pool.lastReward) * rewardRate[r] * pool.allocPoint) \div totalAllocPoints[r]
  IN  [pool EXCEPT !.lastReward = now,
                   !.accRewardPerShare = IF now > pool.lastReward /\ supply # 0
                                         THEN @ + (reward * AccScale) \div supply ELSE @]

NotUpdated(r) == pools[r]
MassUpdated(r) == [pid \in DOMAIN pools[r] |-> Updated(r, pid)]

Stake(p) == p.amount - p.pendingWithdrawals
Cumulative(p, pool) == (Stake(p) * pool.accRewardPerShare) \div AccScale
Rounded(p, pool) == IF (Stake(p) * pool.accRewardPerShare) % AccScale = 0 THEN 0 ELSE 1
Pending(p, pool) == Cumulative(p, pool) - p.rewardDebt

OwedForgetting(r, u, amount) == IF amount <= store[r] THEN amount + pendingRewardTransfers[r][u] ELSE amount
OwedWith(r, u, amount) == amount + pendingRewardTransfers[r][u]

\* What the store cannot pay stays owed.
TransferReward(r, u, amount) ==
  LET full == OwedWith(r, u, amount)
      paid == IF full <= store[r] THEN full ELSE store[r]
  IN  /\ store' = [store EXCEPT ![r] = @ - paid]
      /\ pendingRewardTransfers' = [pendingRewardTransfers EXCEPT ![r][u] = full - paid]
      /\ granted' = [granted EXCEPT ![r] = @ + amount]
      /\ UNCHANGED funded

Settles(r, p, pool) == settlements' = [settlements EXCEPT ![r] = @ + Rounded(p, pool)]

-----------------------------------------------------------------------------
(* Votes *)

CurrentVotes(d) == IF checkpoints[d] = << >> THEN 0 ELSE checkpoints[d][Len(checkpoints[d])].votes

WrittenOver(d, v) ==
  LET cp == checkpoints[d] n == Len(cp) IN
  IF n > 0 /\ cp[n].from + 1 >= now THEN [cp EXCEPT ![n].votes = v] ELSE Append(cp, [from |-> now, votes |-> v])

\* One checkpoint per account and time.
Written(d, v) ==
  LET cp == checkpoints[d] n == Len(cp) IN
  IF n > 0 /\ cp[n].from = now THEN [cp EXCEPT ![n].votes = v] ELSE Append(cp, [from |-> now, votes |-> v])

\* sub96 reverts on an underflow.
MoveDelegates(src, dst, amount) ==
  IF src = dst \/ amount = 0 THEN UNCHANGED checkpoints ELSE
  /\ src # Nobody => CurrentVotes(src) >= amount
  /\ checkpoints' = [d \in Accounts |->
       IF d = src THEN Written(d, CurrentVotes(d) - amount)
       ELSE IF d = dst THEN Written(d, CurrentVotes(d) + amount)
       ELSE checkpoints[d]]

\* The pools of ECL that stake ECL; add lets there be one at most.
EclPids == {pid \in DOMAIN pools[Ecl] : pools[Ecl][pid].token = Ecl}

GetStakeAmountWithPending(u) ==
  IF EclPids = {} THEN 0 ELSE positions[Ecl][CHOOSE pid \in EclPids : TRUE][u].amount

\* Only ECL staked for ECL counts.
GetStakeAmount(u) ==
  IF EclPids = {} THEN 0 ELSE Stake(positions[Ecl][CHOOSE pid \in EclPids : TRUE][u])

\* What the bisection for time t finds in cp between two of its indices.
Search(cp, t) ==
  LET found[range \in (1 .. Len(cp)) \X (1 .. Len(cp))] ==
        LET lower == range[1] upper == range[2]
            center == upper - (upper - lower) \div 2
        IN  IF upper <= lower THEN cp[lower].votes
            ELSE IF cp[center].from = t THEN cp[center].votes
            ELSE IF cp[center].from < t THEN found[<<center, upper>>]
            ELSE found[<<lower, center - 1>>]
  IN  found

\* The votes of the last checkpoint not after time t.
PriorVotes(d, t) ==
  LET cp == checkpoints[d] n == Len(cp) IN
  IF n = 0 THEN 0
  ELSE IF cp[n].from <= t THEN cp[n].votes
  ELSE IF cp[1].from > t THEN 0
  ELSE Search(cp, t)[<<1, n>>]

-----------------------------------------------------------------------------
(* Withdrawal requests, kept with the first to unlock at the end *)

\* The last request still locked at time t, 0 if none is.
LastLocked(requests, t) ==
  LET locked == {i \in DOMAIN requests : requests[i].lockedUntil > t} IN
  IF locked = {} THEN 0 ELSE CHOOSE i \in locked : \A j \in locked : j <= i

WithRequestFirst(requests, amount, lockedUntil) ==
  <<[amount |-> amount, lockedUntil |-> lockedUntil]>> \o requests

\* pushWithdrawalRequest shifts those unlocking no later to the right.
WithRequest(requests, amount, lockedUntil) ==
  LET k == LastLocked(requests, lockedUntil) IN
  SubSeq(requests, 1, k) \o <<[amount |-> amount, lockedUntil |-> lockedUntil]>> \o SubSeq(requests, k + 1, Len(requests))

\* popEligibleWithdrawalRequests pops from the end until one is still locked.
Kept(requests) == SubSeq(requests, 1, LastLocked(requests, now))

SumAmounts(requests) == Total([i \in 1 .. Len(requests) |-> requests[i].amount], Len(requests))

-----------------------------------------------------------------------------
(* The pools *)

Operation == operations < MaxOperations /\ operations' = operations + 1

Add(r, alloc, token, rate, lock) ==
  /\ alloc > 0 /\ Len(pools[r]) < MaxPools
  /\ \A s \in RewardTokens : \A pid \in DOMAIN pools[s] : pools[s][pid].token # token
  /\ pools' = [pools EXCEPT ![r] = Append(MassUpdated(r), NewPool(token, alloc, lock))]
  /\ totalAllocPoints' = [totalAllocPoints EXCEPT ![r] = @ + alloc]
  /\ rewardRate' = [rewardRate EXCEPT ![r] = rate]
  /\ UNCHANGED <<now, positions, totalPendingWithdrawals, balance, votes, rewards, vaultPaused, operations, emitted, settlements>>

Set(r, pid, alloc) ==
  LET total == totalAllocPoints[r] - pools[r][pid].allocPoint + alloc IN
  /\ Operation /\ total > 0
  /\ pools' = [pools EXCEPT ![r] = [MassUpdated(r) EXCEPT ![pid].allocPoint = alloc]]
  /\ totalAllocPoints' = [totalAllocPoints EXCEPT ![r] = total]
  /\ UNCHANGED <<now, positions, totalPendingWithdrawals, balance, votes, rewards, rewardRate, vaultPaused, emitted, settlements>>

SetRewardAmountPerBlockOrSecond(r, rate) ==
  /\ Operation /\ pools[r] # << >>   \* the store knows r once it has a pool
  /\ pools' = [pools EXCEPT ![r] = MassUpdated(r)]
  /\ rewardRate' = [rewardRate EXCEPT ![r] = rate]
  /\ UNCHANGED <<now, positions, totalPendingWithdrawals, balance, votes, rewards, totalAllocPoints, vaultPaused, emitted, settlements>>

SetWithdrawalLockingPeriod(r, pid, period) ==
  /\ Operation /\ period > 0 /\ period < MaxLockPeriod
  /\ pools' = [pools EXCEPT ![r][pid].lockPeriod = period]
  /\ UNCHANGED <<now, positions, totalPendingWithdrawals, balance, votes, rewards, totalAllocPoints, rewardRate, vaultPaused, emitted, settlements>>

UpdatePool(r, pid) ==
  /\ Operation /\ ~ vaultPaused
  /\ pools' = [pools EXCEPT ![r][pid] = Updated(r, pid)]
  /\ UNCHANGED <<now, positions, totalPendingWithdrawals, balance, votes, rewards, settings, emitted, settlements>>

Pause ==
  /\ Operation /\ ~ vaultPaused /\ vaultPaused' = TRUE
  /\ UNCHANGED <<now, stakes, votes, rewards, totalAllocPoints, rewardRate, emitted, settlements>>

Resume ==
  /\ vaultPaused /\ vaultPaused' = FALSE
  /\ UNCHANGED <<now, stakes, votes, rewards, totalAllocPoints, rewardRate, operations, emitted, settlements>>

-----------------------------------------------------------------------------
(* The stakers *)

Deposit(u, r, pid, amount) ==
  LET pool == Updated(r, pid)
      p == positions[r][pid][u]
      staked == [p EXCEPT !.amount = @ + amount]
  IN
  /\ Operation /\ ~ vaultPaused
  /\ p.amount + amount <= Wallet[pool.token][u]
  /\ pools' = [pools EXCEPT ![r][pid] = pool]
  /\ IF p.amount > 0 /\ Pending(p, pool) # 0
       THEN Pending(p, pool) > 0 /\ TransferReward(r, u, Pending(p, pool))
       ELSE UNCHANGED rewards
  /\ positions' = [positions EXCEPT ![r][pid][u] = [staked EXCEPT !.rewardDebt = Cumulative(staked, pool)]]
  /\ balance' = [balance EXCEPT ![pool.token] = @ + amount]
  /\ IF pool.token = Ecl THEN MoveDelegates(Nobody, delegates[u], amount) ELSE UNCHANGED checkpoints
  /\ Settles(r, staked, pool)
  /\ UNCHANGED <<now, totalPendingWithdrawals, delegates, settings, emitted>>

\* Anyone may claim for u.
Claim(u, r, pid) ==
  LET pool == Updated(r, pid)
      p == positions[r][pid][u]
  IN
  /\ Operation /\ ~ vaultPaused
  /\ pools' = [pools EXCEPT ![r][pid] = pool]
  /\ IF p.amount > 0 /\ Pending(p, pool) # 0
       THEN /\ Pending(p, pool) > 0 /\ TransferReward(r, u, Pending(p, pool))
            /\ positions' = [positions EXCEPT ![r][pid][u].rewardDebt = Cumulative(p, pool)]
            /\ Settles(r, p, pool)
       ELSE UNCHANGED <<rewards, positions, settlements>>
  /\ UNCHANGED <<now, totalPendingWithdrawals, balance, votes, settings, emitted>>

RequestWithdrawal(u, r, pid, amount) ==
  LET pool == Updated(r, pid)
      p == positions[r][pid][u]
      asked == [p EXCEPT !.pendingWithdrawals = @ + amount,
                         !.requests = WithRequest(@, amount, now + pool.lockPeriod)]
  IN
  /\ Operation /\ ~ vaultPaused
  /\ amount > 0 /\ p.amount >= p.pendingWithdrawals + amount
  /\ pools' = [pools EXCEPT ![r][pid] = pool]
  /\ Pending(p, pool) >= 0 /\ TransferReward(r, u, Pending(p, pool))
  /\ positions' = [positions EXCEPT ![r][pid][u] = [asked EXCEPT !.rewardDebt = Cumulative(asked, pool)]]
  /\ totalPendingWithdrawals' = [totalPendingWithdrawals EXCEPT ![r][pid] = @ + amount]
  /\ IF pool.token = Ecl THEN MoveDelegates(delegates[u], Nobody, amount) ELSE UNCHANGED checkpoints
  /\ Settles(r, asked, pool)
  /\ UNCHANGED <<now, balance, delegates, settings, emitted>>

ExecuteWithdrawal(u, r, pid) ==
  LET p == positions[r][pid][u]
      kept == Kept(p.requests)
      amount == SumAmounts(p.requests) - SumAmounts(kept)
  IN
  /\ Operation /\ ~ vaultPaused /\ amount > 0
  /\ positions' = [positions EXCEPT ![r][pid][u] =
       [p EXCEPT !.amount = @ - amount, !.pendingWithdrawals = @ - amount, !.requests = kept]]
  /\ totalPendingWithdrawals' = [totalPendingWithdrawals EXCEPT ![r][pid] = @ - amount]
  /\ balance' = [balance EXCEPT ![pools[r][pid].token] = @ - amount]
  /\ UNCHANGED <<now, pools, votes, rewards, settings, emitted, settlements>>

Delegate(u, to) ==
  /\ Operation /\ ~ vaultPaused
  /\ delegates' = [delegates EXCEPT ![u] = to]
  /\ MoveDelegates(delegates[u], to, GetStakeAmount(u))
  /\ UNCHANGED <<now, stakes, rewards, settings, emitted, settlements>>

-----------------------------------------------------------------------------
(* Outside *)

\* Rewards are sent to the store.
Fund(r, amount) ==
  /\ Operation
  /\ store' = [store EXCEPT ![r] = @ + amount] /\ funded' = [funded EXCEPT ![r] = @ + amount]
  /\ UNCHANGED <<now, stakes, votes, pendingRewardTransfers, granted, totalAllocPoints, rewardRate, vaultPaused, emitted, settlements>>

Tick ==
  /\ now < MaxTime /\ now' = now + 1
  /\ emitted' = [r \in RewardTokens |-> emitted[r] + rewardRate[r]]
  /\ UNCHANGED <<stakes, votes, rewards, settings, settlements, operations>>

NoPosition == [amount |-> 0, rewardDebt |-> 0, pendingWithdrawals |-> 0, requests |-> << >>]
ForEach(S, x) == [s \in S |-> x]

Init ==
  /\ now = 1
  /\ pools = ForEach(RewardTokens, << >>)
  /\ positions = ForEach(RewardTokens, ForEach(Pids, ForEach(Accounts, NoPosition)))
  /\ totalPendingWithdrawals = ForEach(RewardTokens, ForEach(Pids, 0))
  /\ balance = ForEach(Tokens, 0)
  /\ delegates = ForEach(Accounts, Nobody) /\ checkpoints = ForEach(Accounts, << >>)
  /\ pendingRewardTransfers = ForEach(RewardTokens, ForEach(Accounts, 0))
  /\ totalAllocPoints = ForEach(RewardTokens, 0) /\ rewardRate = ForEach(RewardTokens, 0)
  /\ store = ForEach(RewardTokens, 0) /\ funded = ForEach(RewardTokens, 0)
  /\ emitted = ForEach(RewardTokens, 0) /\ granted = ForEach(RewardTokens, 0) /\ settlements = ForEach(RewardTokens, 0)
  /\ vaultPaused = FALSE
  /\ operations = 0

Next ==
  \/ \E r \in RewardTokens :
       \/ \E alloc \in AllocPoints, token \in Tokens, rate \in Rates, lock \in LockPeriods : Add(r, alloc, token, rate, lock)
       \/ \E rate \in Rates : SetRewardAmountPerBlockOrSecond(r, rate)
       \/ \E amount \in Fundings : Fund(r, amount)
       \/ \E pid \in DOMAIN pools[r] :
            \/ \E alloc \in AllocPoints : Set(r, pid, alloc)
            \/ \E period \in LockPeriods : SetWithdrawalLockingPeriod(r, pid, period)
            \/ UpdatePool(r, pid)
            \/ \E u \in Accounts :
                 \/ \E amount \in Amounts : Deposit(u, r, pid, amount) \/ RequestWithdrawal(u, r, pid, amount)
                 \/ Claim(u, r, pid) \/ ExecuteWithdrawal(u, r, pid)
  \/ \E u \in Accounts, to \in Accounts \cup {Nobody} : Delegate(u, to)
  \/ Pause \/ Resume
  \/ Tick

Spec == Init /\ [][Next]_vars
-----------------------------------------------------------------------------
(* Properties *)

\* Every delegatee has as votes exactly the ECL that those who chose it have
\* staked and not asked back, as long as ECL is staked for ECL (ECLVaults.sol:669).
StakedEcl(u) ==
  Total([pid \in Pids |-> IF pid \in DOMAIN pools[Ecl] /\ pools[Ecl][pid].token = Ecl THEN Stake(positions[Ecl][pid][u]) ELSE 0], MaxPools)
VotesMatchStake ==
  (\A r \in RewardTokens : \A pid \in DOMAIN pools[r] : pools[r][pid].token = Ecl => r = Ecl) =>
    \A d \in Accounts :
      CurrentVotes(d) = Total([u \in Accounts |-> IF delegates[u] = d THEN StakedEcl(u) ELSE 0], AccountCount)

\* getPriorVotes of a past time says for ever what the votes were when it ended,
\* though checkpoints are overwritten and searched by bisection (ECLVaults.sol:805).
VotesAreHistory ==
  [][\A d \in Accounts :
       /\ \A t \in 0 .. now - 1 : PriorVotes(d, t)' = PriorVotes(d, t)
       /\ now' > now => \A t \in {now} : PriorVotes(d, t)' = CurrentVotes(d)]_vars

\* Requests unlock from the end though the lock period changes in between: no
\* unlocked request hides behind a locked one, and they add up to what is pending.
UnlockedFirst ==
  \A r \in RewardTokens : \A pid \in DOMAIN pools[r] : \A u \in Accounts :
    LET p == positions[r][pid][u] IN
    /\ \A i, j \in DOMAIN p.requests : i < j => p.requests[i].lockedUntil >= p.requests[j].lockedUntil
    /\ p.pendingWithdrawals = SumAmounts(p.requests)

\* What stakers have been granted and could claim now is within what was emitted,
\* up to one unit for each rounding, and no claim reverts, whoever moves stake,
\* rates and shares when (ECLVaults.sol:612).
Claimable(r) ==
  LET of[pid \in Pids] == Total([u \in Accounts |-> Pending(positions[r][pid][u], Updated(r, pid))], AccountCount) IN
  Total([pid \in Pids |-> IF pid \in DOMAIN pools[r] THEN of[pid] ELSE 0], MaxPools)
RewardsWithinEmission ==
  \A r \in RewardTokens :
    /\ granted[r] + Claimable(r) <= emitted[r] + settlements[r]
    /\ \A pid \in DOMAIN pools[r] : \A u \in Accounts : Pending(positions[r][pid][u], Updated(r, pid)) >= 0

\* Whatever the store lacked when rewards were granted is still owed, once.
ShortfallOwed ==
  \A r \in RewardTokens :
    granted[r] = funded[r] - store[r] + Total(pendingRewardTransfers[r], AccountCount)
=============================================================================

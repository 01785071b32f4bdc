------------------------------- MODULE Timelock -------------------------------
(***************************************************************************)
(* TimelockV8: a queue of transactions that wait before they can run.  A   *)
(* timelock is a record; a transaction is a call with the time from which  *)
(* it may run, and the hash that stands for it in the code is the pair.    *)
(* The governor hands over all transactions of a proposal in one call,     *)
(* which reverts as a whole, so the operators take a set of calls.         *)
(***************************************************************************)
EXTENDS Naturals, Sequences, FiniteSets

CONSTANTS
  Calls,         \* calls a transaction can make
  SetsDelay,     \* those that set the timelock's delay, and to what
  HandsOver,     \* those that make Successor the pending admin
  MinimumDelay, MaximumDelay, GracePeriod

ASSUME CallsAssumption == DOMAIN SetsDelay \subseteq Calls /\ HandsOver \subseteq Calls
ASSUME SetsDelayAssumption == \A c \in DOMAIN SetsDelay : SetsDelay[c] \in Nat
ASSUME DelayAssumption ==
  MinimumDelay \in Nat \ {0} /\ MaximumDelay \in Nat /\ GracePeriod \in Nat \ {0} /\ MinimumDelay <= MaximumDelay

Governor == "governor"
Deployer == "deployer"
Successor == "successor"
None == "none"

NewTimelock(admin, delay) == [admin |-> admin, pendingAdmin |-> None, delay |-> delay, queued |-> {}]

Transactions(content, eta) == {<<content[i], eta>> : i \in DOMAIN content}
Distinct(content) == \A i, j \in DOMAIN content : content[i] = content[j] => i = j

\* queueTransaction, once per call of the content.
MayQueue(t, content, eta, now) ==
  /\ eta >= now + t.delay
  /\ Distinct(content)
  /\ Transactions(content, eta) \cap t.queued = {}
AfterQueue(t, content, eta) == [t EXCEPT !.queued = @ \cup Transactions(content, eta)]

\* cancelTransaction: one that is not queued makes all of it revert.
MayCancel(t, content, eta) ==
  /\ Distinct(content)
  /\ Transactions(content, eta) \subseteq t.queued
AfterCancelOfFirst(t, content, eta) == [t EXCEPT !.queued = @ \ {<<content[1], eta>>}]
AfterCancel(t, content, eta) == [t EXCEPT !.queued = @ \ Transactions(content, eta)]

\* executeTransaction; a call that reverts takes the others with it.
DelayAllowed(call) == call \in DOMAIN SetsDelay => SetsDelay[call] \in MinimumDelay .. MaximumDelay
MayExecute(t, content, eta, now) ==
  /\ MayCancel(t, content, eta)
  /\ eta <= now /\ now <= eta + GracePeriod
  /\ \A i \in DOMAIN content : DelayAllowed(content[i])

\* The calls run in order: of several that set the delay the last one counts.
LastOf(content, S) == {i \in DOMAIN content : content[i] \in S /\ \A j \in DOMAIN content : content[j] \in S => j <= i}
AfterExecute(t, content, eta) ==
  LET setting == LastOf(content, DOMAIN SetsDelay) IN
  [t EXCEPT !.queued = @ \ Transactions(content, eta),
            !.delay = IF setting = {} THEN @ ELSE SetsDelay[content[CHOOSE i \in setting : TRUE]],
            !.pendingAdmin = IF LastOf(content, HandsOver) = {} THEN @ ELSE Successor]

AfterSetPendingAdmin(t, account) == [t EXCEPT !.pendingAdmin = account]
AfterAcceptAdmin(t) == [t EXCEPT !.admin = t.pendingAdmin, !.pendingAdmin = None]
=============================================================================

------------------------------ MODULE Proposals ------------------------------
(***************************************************************************)
(* What governance promises the protocol, without votes, hashes or queues. *)
(* A proposal is put to the vote; approved, it is announced, and after the *)
(* notice period its calls run, all of them, in order and once.  Nothing   *)
(* else makes a timelock run a call as long as it obeys the governor.      *)
(***************************************************************************)
EXTENDS Naturals, Sequences

CONSTANTS
  Timelocks, Contents,
  MinimumDelay   \* notice between the announcement and the execution

VARIABLES
  time,
  status,      \* id -> where the proposal stands
  content,     \* id -> its calls
  route,       \* id -> its timelock
  announced,   \* id -> when it was queued
  obeys,       \* timelock -> does it obey the governor
  performed    \* timelock -> the calls it has run

vars == <<time, status, content, route, announced, obeys, performed>>

Init ==
  /\ time \in Nat
  /\ \A f \in {status, content, route, announced} : DOMAIN f = {}
  /\ obeys \in [Timelocks -> BOOLEAN]
  /\ performed = [t \in Timelocks |-> << >>]

Extends(f, g, id) == DOMAIN g = DOMAIN f \cup {id} /\ \A i \in DOMAIN f : g[i] = f[i]

Propose(id) ==
  /\ id \notin DOMAIN status
  /\ Extends(status, status', id) /\ status'[id] = "Pending"
  /\ Extends(content, content', id) /\ content'[id] \in Contents
  /\ Extends(route, route', id) /\ route'[id] \in Timelocks
  /\ Extends(announced, announced', id)
  /\ UNCHANGED <<time, obeys, performed>>

\* Time opens and closes votes and lets announcements lapse, of many proposals at once.
Lapses == {<<"Pending", "Active">>, <<"Active", "Succeeded">>, <<"Active", "Defeated">>, <<"Queued", "Expired">>}
TimePasses ==
  /\ time' = time + 1
  /\ DOMAIN status' = DOMAIN status
  /\ \A id \in DOMAIN status : status'[id] = status[id] \/ <<status[id], status'[id]>> \in Lapses
  /\ UNCHANGED <<content, route, announced, obeys, performed>>

Moves(id, from, to) ==
  /\ id \in DOMAIN status /\ status[id] \in from /\ obeys[route[id]]
  /\ status' = [status EXCEPT ![id] = to]
  /\ UNCHANGED <<time, content, route, obeys>>

Announce(id) ==
  /\ Moves(id, {"Succeeded"}, "Queued")
  /\ announced' = [announced EXCEPT ![id] = time]
  /\ UNCHANGED performed

Withdraw(id) == Moves(id, {"Queued", "Expired"}, "Canceled") /\ UNCHANGED <<announced, performed>>

Execute(id) ==
  /\ Moves(id, {"Queued"}, "Executed")
  /\ time >= announced[id] + MinimumDelay
  /\ performed' = [performed EXCEPT ![route[id]] = @ \o content[id]]
  /\ UNCHANGED announced

\* A timelock that is handed over answers to somebody else for good.
HandOver(t) ==
  /\ obeys[t] /\ obeys' = [obeys EXCEPT ![t] = FALSE]
  /\ UNCHANGED <<time, status, content, route, announced, performed>>

ByOthers(t) ==
  /\ ~ obeys[t]
  /\ \A u \in Timelocks \ {t} : performed'[u] = performed[u]
  /\ UNCHANGED <<time, status, content, route, announced, obeys>>

Next ==
  \/ \E id \in DOMAIN status' : Propose(id)
  \/ \E id \in DOMAIN status : Announce(id) \/ Withdraw(id) \/ Execute(id)
  \/ TimePasses
  \/ \E t \in Timelocks : HandOver(t) \/ ByOthers(t)

Spec == Init /\ [][Next]_vars
=============================================================================

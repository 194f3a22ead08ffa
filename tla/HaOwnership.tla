----------------------------- MODULE HaOwnership -----------------------------
(***************************************************************************)
(* HaPair implements Ownership.                                            *)
(***************************************************************************)
EXTENDS HaPair

RoleOf(n) ==
  IF ~Running(n) THEN "down"
  ELSE IF state[n] = "Active" THEN "owner"
  ELSE IF conflict[n] THEN "yielded" ELSE "standby"

ClaimOf(n) == IF Running(n) /\ HasLiveActivePeer(n) THEN obs[n].from ELSE NoPeer

\* The constants and variables of Ownership.
Heeds == [n \in Node |-> {m \in Node : Peer[m] = n /\ Accepts(n, m)}]
Above == [n \in Node |-> {m \in Node : Outranks(Config[n], Config[m])}]
Preempts == {n \in Node : Config[n].preempt}
role == [n \in Node |-> RoleOf(n)]
claim == [n \in Node |-> ClaimOf(n)]
air == {p.from : p \in {q \in net : q.state = "Active"}}

O == INSTANCE Ownership WITH Nobody <- NoPeer

\* README.md:739 and 514, of all that the loop does: no step of a node, of the
\* network or of the clock makes a node take the VIP against a claim it goes by,
\* except by preemption and never after it gave way to that claim; makes an owner
\* give way to anything but a claim; or makes a node go by a claim that no owner
\* made or that its checks refuse.
ImplementsOwnership == O!Spec
=============================================================================

------------------------------ MODULE Ownership ------------------------------
(***************************************************************************)
(* What the nodes promise about the VIP, without clocks, timers, packets   *)
(* or configuration: who owns it, whose claims to it are under way, and    *)
(* which claim each node goes by.  HaOwnership shows that HaPair keeps     *)
(* this promise.                                                           *)
(*                                                                         *)
(* A claim is an advertisement that says Active.  It may be lost, repeated *)
(* or late, and a node may stop going by it at any moment: the promise is  *)
(* about what a node does while it does go by one.                         *)
(***************************************************************************)
EXTENDS Naturals

CONSTANTS
  Node,
  Nobody,   \* no claim
  Heeds,    \* Heeds[n]: the nodes whose claims n takes notice of
  Above,    \* Above[n]: the nodes that n outranks
  Preempts  \* the nodes that take the VIP from an owner they outrank

VARIABLES
  role,   \* "down", "standby", "owner", or "yielded": standby after giving way
  claim,  \* claim[n]: whose claim n goes by
  air     \* the nodes whose claims are under way

ownershipVars == <<role, claim, air>>

\* n may own the VIP against the claim that it goes by.
MayOverrule(n) == n \in Preempts /\ claim[n] \in Above[n]

Becomes(n, r) == role' = [role EXCEPT ![n] = r]

Start(n) == role[n] = "down" /\ Becomes(n, "standby") /\ UNCHANGED <<claim, air>>

Stop(n) ==
  /\ role[n] # "down"
  /\ Becomes(n, "down")
  /\ claim' = [claim EXCEPT ![n] = Nobody]
  /\ UNCHANGED air

\* Only an owner claims the VIP.
Claim(n) == role[n] = "owner" /\ air' = air \cup {n} /\ UNCHANGED <<role, claim>>

\* Claims are delivered to nobody, or lost.
Fade == air' \subseteq air /\ UNCHANGED <<role, claim>>

Hear(n, m) ==
  /\ role[n] # "down"
  /\ m \in air \cap Heeds[n]
  /\ claim' = [claim EXCEPT ![n] = m]
  /\ air' \in {air, air \ {m}}
  /\ UNCHANGED role

\* Some nodes stop going by a claim: it is out of date, or withdrawn.
Forget ==
  /\ \A n \in Node : claim'[n] \in {claim[n], Nobody}
  /\ claim' = [n \in Node |-> claim'[n]]
  /\ UNCHANGED <<role, air>>

\* A node takes the VIP against a claim only by preemption, and never after it
\* gave way to that claim.
Promote(n) ==
  /\ role[n] \in {"standby", "yielded"}
  /\ claim[n] # Nobody => role[n] = "standby" /\ MayOverrule(n)
  /\ Becomes(n, "owner")
  /\ UNCHANGED <<claim, air>>

\* A node gives way only to a claim.  It remembers that it did if it outranks the
\* claimant; if it does not, or does not preempt, there is nothing to remember.
GiveWay(n) ==
  /\ role[n] \in {"standby", "owner"}
  /\ claim[n] # Nobody
  /\ \/ claim[n] \in Above[n] /\ Becomes(n, "yielded")
     \/ ~MayOverrule(n) /\ Becomes(n, "standby")
  /\ UNCHANGED <<claim, air>>

\* A yield is over when there is no claim left.
Recover(n) ==
  /\ role[n] = "yielded" /\ claim[n] = Nobody
  /\ Becomes(n, "standby")
  /\ UNCHANGED <<claim, air>>

Init ==
  /\ role = [n \in Node |-> "down"]
  /\ claim = [n \in Node |-> Nobody]
  /\ air = {}

Next ==
  \/ Fade \/ Forget
  \/ \E n \in Node : \/ Start(n) \/ Stop(n) \/ Claim(n)
                     \/ Promote(n) \/ GiveWay(n) \/ Recover(n)
                     \/ \E m \in Node : Hear(n, m)

Spec == Init /\ [][Next]_ownershipVars
=============================================================================

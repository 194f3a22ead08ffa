-------------------------- MODULE HaOwnershipProofs --------------------------
(***************************************************************************)
(* Every behaviour of HaPair is, under the mapping of HaOwnership, a       *)
(* behaviour of Ownership.                                                 *)
(***************************************************************************)
EXTENDS HaOwnership, HaPairProofs

OwnershipInv == TypeOK /\ ConflictMeansYielded /\ Forgotten
-----------------------------------------------------------------------------
(* Steps that Ownership does not see, and steps of one node *)

\* What the mapping of a node reads.
LEMMA SameNode ==
  ASSUME NEW n \in Node, Running(n)' = Running(n), state'[n] = state[n],
         conflict'[n] = conflict[n], obs'[n] = obs[n]
  PROVE  RoleOf(n)' = RoleOf(n) /\ ClaimOf(n)' = ClaimOf(n)
  BY DEF RoleOf, ClaimOf, HasLiveActivePeer, LivePeer

\* A node changes its role or its claim, and nobody else does.
LEMMA RoleStep ==
  ASSUME NEW n \in Node, \A m \in Node \ {n} : RoleOf(m)' = RoleOf(m)
  PROVE  role' = [role EXCEPT ![n] = RoleOf(n)']
  BY DEF role

LEMMA ClaimStep ==
  ASSUME NEW n \in Node, \A m \in Node \ {n} : ClaimOf(m)' = ClaimOf(m)
  PROVE  claim' = [claim EXCEPT ![n] = ClaimOf(n)']
  BY DEF claim
-----------------------------------------------------------------------------
(* The decision *)

\* Which decision a claim leads to.
LEMMA ClaimedDecision ==
  ASSUME NEW n \in Node, HasLiveActivePeer(n)
  PROVE  LET d == DesiredState(n)
             above == Outranks(Config[n], Config[obs[n].from])
         IN  /\ d.state = "Active" => Config[n].preempt /\ above /\ ~conflict[n]
             /\ d.reason = "PeerBecameActiveConflict" => d.state = "Standby" /\ above
             /\ (d.state = "Standby" /\ d.reason # "PeerBecameActiveConflict")
                  => ~(Config[n].preempt /\ above)
<1> DEFINE local == Config[n]
           peer == Config[obs[n].from]
<1>1. DesiredState(n) =
        DesiredStateWithActivePeer(local, peer, obs[n].becameActive, conflict[n])
  BY DEF DesiredState, HasLiveActivePeer
<1> QED
  BY <1>1 DEF DesiredStateWithActivePeer, Decision, LocalWinReason, PeerWinReason

LEMMA UnclaimedReason ==
  ASSUME NEW n \in Node, ~HasLiveActivePeer(n)
  PROVE  DesiredState(n).reason # "PeerBecameActiveConflict"
<1>1. CASE ~LivePeer(n)
  BY <1>1 DEF DesiredState, DesiredStateWithoutLivePeer, Decision
<1>2. CASE LivePeer(n) /\ obs[n].state # "Active"
  BY <1>2 DEF DesiredState, DesiredStateWithPassivePeer, Decision, LocalWinReason, PeerWinReason
<1> QED
  BY <1>1, <1>2 DEF HasLiveActivePeer
-----------------------------------------------------------------------------
(* Each action of HaPair is an action of Ownership or a stutter *)

Mapped == [O!Next]_(O!ownershipVars)

LEMMA MapFade ==
  ASSUME role' = role, claim' = claim, air' \subseteq air
  PROVE  Mapped
  BY DEF Mapped, O!Next, O!Fade

LEMMA MapStart ==
  ASSUME OwnershipInv, NEW n \in Node, Start(n)
  PROVE  Mapped
<1>1. /\ pc[n] = "down" /\ pc'[n] = "refresh"
      /\ \A m \in Node \ {n} : pc'[m] = pc[m]
      /\ UNCHANGED <<state, conflict, obs, net>>
  BY DEF Start, envVars, OwnershipInv, TypeOK
<1>2. RoleOf(n) = "down" /\ RoleOf(n)' = "standby"
  BY <1>1 DEF RoleOf, Running, OwnershipInv, Forgotten
<1>3. \A m \in Node \ {n} : RoleOf(m)' = RoleOf(m) /\ ClaimOf(m)' = ClaimOf(m)
  BY <1>1, SameNode DEF Running
<1>4. ClaimOf(n)' = ClaimOf(n)
  BY <1>1 DEF ClaimOf, HasLiveActivePeer, LivePeer, OwnershipInv, Forgotten
<1>5. role' = [role EXCEPT ![n] = "standby"]
  BY <1>2, <1>3, RoleStep
<1>6. claim' = claim /\ air' = air
  BY <1>1, <1>3, <1>4 DEF claim, air
<1>7. O!Start(n)
  BY <1>2, <1>5, <1>6 DEF O!Start, O!Becomes, role
<1> QED
  BY <1>7 DEF Mapped, O!Next

\* A node that runs stops, in whatever way.
LEMMA MapStop ==
  ASSUME NEW n \in Node, ~Running(n)', net' = net,
         \A m \in Node \ {n} : /\ Running(m)' = Running(m) /\ state'[m] = state[m]
                               /\ conflict'[m] = conflict[m] /\ obs'[m] = obs[m]
  PROVE  Mapped
<1>1. \A m \in Node \ {n} : RoleOf(m)' = RoleOf(m) /\ ClaimOf(m)' = ClaimOf(m)
  BY SameNode
<1>2. RoleOf(n)' = "down" /\ ClaimOf(n)' = NoPeer /\ air' = air
  BY DEF RoleOf, ClaimOf, air
<1>3. CASE Running(n)
  <2>1. role' = [role EXCEPT ![n] = "down"] /\ claim' = [claim EXCEPT ![n] = NoPeer]
    BY <1>1, <1>2, RoleStep, ClaimStep
  <2>2. role[n] # "down"
    BY <1>3 DEF role, RoleOf
  <2>3. O!Stop(n)
    BY <1>2, <2>1, <2>2 DEF O!Stop, O!Becomes
  <2> QED
    BY <2>3 DEF Mapped, O!Next
<1>4. CASE ~Running(n)
  <2>1. RoleOf(n) = "down" /\ ClaimOf(n) = NoPeer
    BY <1>4 DEF RoleOf, ClaimOf
  <2>2. role' = role /\ claim' = claim
    BY <1>1, <1>2, <2>1 DEF role, claim
  <2> QED
    BY <1>2, <2>2, MapFade
<1> QED
  BY <1>3, <1>4

LEMMA MapTick ==
  ASSUME OwnershipInv, Tick
  PROVE  Mapped
<1>1. UNCHANGED <<pc, state, conflict>>
  BY DEF Tick
<1>2. role' = role
  BY <1>1 DEF role, RoleOf, Running
<1>3. ASSUME NEW n \in Node
      PROVE  ClaimOf(n)' \in {ClaimOf(n), NoPeer}
  <2>1. Running(n)' = Running(n)
    BY <1>1 DEF Running
  <2>2. CASE obs[n] = NoPeer
    BY <2>1, <2>2 DEF Tick, ClaimOf, HasLiveActivePeer, LivePeer
  <2>3. CASE obs[n] # NoPeer
    <3>1. obs[n] \in PeerObservation /\ obs[n].age \in Nat
      BY <2>3 DEF OwnershipInv, TypeOK, PeerObservation
    <3>2. obs'[n] = [obs[n] EXCEPT !.age = Older(obs[n].age, Window(Config[n]))]
      BY <2>3 DEF Tick
    <3>3. obs'[n].from = obs[n].from /\ obs'[n].state = obs[n].state
      BY <3>1, <3>2 DEF PeerObservation
    <3>4. obs'[n].age = Older(obs[n].age, Window(Config[n]))
      BY <3>1, <3>2 DEF PeerObservation
    <3>5. Window(Config[n]) \in Nat
      BY WindowIsPositive
    <3>6. obs'[n].age < Window(Config[n]) => obs[n].age < Window(Config[n])
      BY <3>1, <3>4, <3>5 DEF Older
    <3> QED
      BY <2>1, <2>3, <3>3, <3>6 DEF ClaimOf, HasLiveActivePeer, LivePeer
  <2> QED
    BY <2>2, <2>3
<1> DEFINE Aged(p) == [p EXCEPT !.age = Older(@, MaxDelay)]
<1>4. \A p \in net : Aged(p).from = p.from /\ Aged(p).state = p.state
  BY DEF OwnershipInv, TypeOK, HaPacket
<1>5. air' = air
  <2>1. net' = {Aged(p) : p \in net}
    BY DEF Tick
  <2> HIDE DEF Aged
  <2>2. \A m : m \in air' <=> \E p \in net : Aged(p).state = "Active" /\ m = Aged(p).from
    BY <2>1 DEF air
  <2>3. \A m : m \in air <=> \E p \in net : p.state = "Active" /\ m = p.from
    BY DEF air
  <2>4. air' \subseteq air /\ air \subseteq air'
    BY <1>4, <2>2, <2>3
  <2> QED
    BY <2>4
<1>6. O!Forget
  BY <1>2, <1>3, <1>5 DEF O!Forget, claim
<1> QED
  BY <1>6 DEF Mapped, O!Next

LEMMA MapReceive ==
  ASSUME OwnershipInv, NEW n \in Node, NEW p \in net, HandleReceive(n, p),
         net' \in {net, net \ {p}}
  PROVE  Mapped
<1>1. /\ pc[n] = "select" /\ pc'[n] = "refresh"
      /\ \A m \in Node \ {n} : pc'[m] = pc[m]
      /\ UNCHANGED <<state, conflict>>
  BY DEF HandleReceive, WakeUp, OwnershipInv, TypeOK
<1>2. \A m \in Node : RoleOf(m)' = RoleOf(m)
  BY <1>1 DEF RoleOf, Running
<1>3. role' = role
  BY <1>2 DEF role
<1>4. air' \subseteq air /\ air' \in {air, air \ {p.from}}
  BY DEF air
<1>5. p \in HaPacket /\ p.from \in Node /\ Peer[p.from] = n
  BY DEF HandleReceive, OwnershipInv, TypeOK, HaPacket
<1>6. CASE ~Accepts(n, p.from)
  <2>1. obs' = obs
    BY <1>6 DEF HandleReceive
  <2>2. claim' = claim
    BY <1>1, <2>1 DEF claim, ClaimOf, Running, HasLiveActivePeer, LivePeer
  <2> QED
    BY <1>3, <1>4, <2>2, MapFade
<1>7. CASE Accepts(n, p.from)
  <2>1. obs'[n] = Observe(n, p) /\ \A m \in Node \ {n} : obs'[m] = obs[m]
    BY <1>7 DEF HandleReceive, OwnershipInv, TypeOK
  <2>2. \A m \in Node \ {n} : ClaimOf(m)' = ClaimOf(m)
    BY <1>1, <2>1, SameNode DEF Running
  <2>3. /\ obs'[n] # NoPeer /\ obs'[n].from = p.from
        /\ obs'[n].state = p.state /\ obs'[n].age = 0
    BY <1>5, <2>1, ObserveType DEF Observe
  <2>4. LivePeer(n)' /\ Running(n)'
    BY <1>1, <2>3, WindowIsPositive DEF LivePeer, Running
  <2>5. CASE p.state = "Active"
    <3>1. ClaimOf(n)' = p.from
      BY <2>3, <2>4, <2>5 DEF ClaimOf, HasLiveActivePeer
    <3>2. claim' = [claim EXCEPT ![n] = p.from]
      BY <2>2, <3>1, ClaimStep
    <3>3. role[n] # "down"
      BY <1>1 DEF role, RoleOf, Running
    <3>4. p.from \in air \cap Heeds[n]
      BY <1>5, <1>7, <2>5 DEF air, Heeds
    <3>5. O!Hear(n, p.from)
      BY <1>3, <1>4, <3>2, <3>3, <3>4 DEF O!Hear
    <3> QED
      BY <1>5, <3>5 DEF Mapped, O!Next
  <2>6. CASE p.state # "Active"
    <3>1. ClaimOf(n)' = NoPeer
      BY <2>3, <2>6 DEF ClaimOf, HasLiveActivePeer
    <3>2. air' = air
      BY <2>6 DEF air
    <3>3. O!Forget
      BY <1>3, <2>2, <3>1, <3>2 DEF O!Forget, claim
    <3> QED
      BY <3>3 DEF Mapped, O!Next
  <2> QED
    BY <2>5, <2>6
<1> QED
  BY <1>6, <1>7

LEMMA MapSend ==
  ASSUME OwnershipInv, NEW n \in Node, SendAdvertisement(n)
  PROVE  Mapped
<1>1. /\ pc[n] = "select" /\ pc'[n] = "refresh"
      /\ \A m \in Node \ {n} : pc'[m] = pc[m]
      /\ UNCHANGED <<state, conflict, obs>>
  BY DEF SendAdvertisement, WakeUp, OwnershipInv, TypeOK
<1>2. role' = role /\ claim' = claim
  BY <1>1 DEF role, RoleOf, claim, ClaimOf, Running, HasLiveActivePeer, LivePeer
<1> DEFINE q == [from |-> n, state |-> state[n], age |-> 0]
<1>3. net' = net \/ net' = net \cup {q}
  BY DEF SendAdvertisement
<1>q. q.from = n /\ q.state = state[n]
  OBVIOUS
<1> HIDE DEF q
<1>4. CASE state[n] = "Active" /\ net' = net \cup {q}
  <2>1. air' = air \cup {n}
    BY <1>4, <1>q DEF air
  <2>2. role[n] = "owner"
    BY <1>1, <1>4 DEF role, RoleOf, Running
  <2>3. O!Claim(n)
    BY <1>2, <2>1, <2>2 DEF O!Claim
  <2> QED
    BY <2>3 DEF Mapped, O!Next
<1>5. CASE state[n] # "Active" \/ net' = net
  <2>1. air' = air
    BY <1>3, <1>5, <1>q DEF air
  <2> QED
    BY <1>2, <2>1, MapFade
<1> QED
  BY <1>3, <1>4, <1>5

\* The refresh of a node, by the role it had and the claim it goes by.
LEMMA MapRefresh ==
  ASSUME OwnershipInv, NEW n \in Node, Refresh(n)
  PROVE  Mapped
<1> DEFINE d == DesiredState(n)
<1>1. /\ pc[n] = "refresh" /\ pc'[n] = "select"
      /\ \A m \in Node \ {n} : /\ pc'[m] = pc[m] /\ state'[m] = state[m]
                               /\ conflict'[m] = conflict[m]
      /\ UNCHANGED <<obs, net>>
  BY DEF Refresh, envVars, OwnershipInv, TypeOK
<1>2. /\ state'[n] = d.state
      /\ conflict'[n] <=> \/ d.reason = "PeerBecameActiveConflict"
                          \/ conflict[n] /\ HasLiveActivePeer(n)
  BY DEF Refresh, OwnershipInv, TypeOK
<1>3. d.state \in {"Standby", "Active"}
  BY DecisionFields
<1> HIDE DEF d
<1>4. Running(n) /\ Running(n)' /\ \A m \in Node : Running(m)' = Running(m)
  BY <1>1 DEF Running
<1>5. claim' = claim /\ air' = air
  BY <1>1, <1>4 DEF claim, ClaimOf, HasLiveActivePeer, LivePeer, air
<1>6. role' = [role EXCEPT ![n] = RoleOf(n)']
  BY <1>1, <1>4, SameNode, RoleStep
<1>7. role[n] = RoleOf(n) /\ claim[n] = ClaimOf(n)
  BY DEF role, claim
<1>8. RoleOf(n)' = RoleOf(n) => Mapped
  <2>1. RoleOf(n)' = RoleOf(n) => role' = role
    BY <1>6, <1>7 DEF role
  <2> QED
    BY <1>5, <2>1, MapFade
<1>9. conflict[n] => state[n] # "Active"
  BY DEF OwnershipInv, ConflictMeansYielded
<1>10. CASE ~HasLiveActivePeer(n)
  <2>1. claim[n] = NoPeer
    BY <1>7, <1>10 DEF ClaimOf
  <2>2. ~conflict'[n]
    BY <1>2, <1>10, UnclaimedReason DEF d
  <2>3. CASE d.state = "Active"
    <3>1. RoleOf(n)' = "owner"
      BY <1>2, <1>4, <2>3 DEF RoleOf
    <3>2. RoleOf(n) \in {"standby", "yielded"} => O!Promote(n)
      BY <1>5, <1>6, <1>7, <2>1, <3>1 DEF O!Promote, O!Becomes
    <3>3. RoleOf(n) \in {"standby", "yielded", "owner"}
      BY <1>4 DEF RoleOf
    <3> QED
      BY <1>8, <3>1, <3>2, <3>3 DEF Mapped, O!Next
  <2>4. CASE d.state = "Standby"
    <3>1. RoleOf(n)' = "standby"
      BY <1>2, <1>4, <2>2, <2>4 DEF RoleOf
    <3>2. RoleOf(n) = "yielded" => O!Recover(n)
      BY <1>5, <1>6, <1>7, <2>1, <3>1 DEF O!Recover, O!Becomes
    <3>3. RoleOf(n) # "owner"
      BY <1>10, <2>4, YieldDecision DEF RoleOf, d
    <3>4. RoleOf(n) \in {"standby", "yielded"}
      BY <1>4, <3>3 DEF RoleOf
    <3> QED
      BY <1>8, <3>1, <3>2, <3>4 DEF Mapped, O!Next
  <2> QED
    BY <1>3, <2>3, <2>4
<1>11. CASE HasLiveActivePeer(n)
  <2> DEFINE above == Outranks(Config[n], Config[obs[n].from])
  <2>1. claim[n] = obs[n].from /\ obs[n].from \in Node /\ claim[n] # NoPeer
    BY <1>4, <1>7, <1>11, NodeAssumption
       DEF ClaimOf, HasLiveActivePeer, LivePeer, OwnershipInv, TypeOK, PeerObservation
  <2>2. /\ d.state = "Active" => Config[n].preempt /\ above /\ ~conflict[n]
        /\ d.reason = "PeerBecameActiveConflict" => d.state = "Standby" /\ above
        /\ (d.state = "Standby" /\ d.reason # "PeerBecameActiveConflict")
             => ~(Config[n].preempt /\ above)
    BY <1>11, ClaimedDecision DEF d
  <2>3. /\ claim[n] \in Above[n] <=> above
        /\ O!MayOverrule(n) <=> Config[n].preempt /\ above
    BY <2>1 DEF Above, Preempts, O!MayOverrule
  <2> HIDE DEF above
  <2>4. CASE d.state = "Active"
    <3>1. RoleOf(n)' = "owner"
      BY <1>2, <1>4, <2>4 DEF RoleOf
    <3>2. RoleOf(n) \in {"standby", "owner"}
      BY <1>4, <2>2, <2>4 DEF RoleOf
    <3>3. RoleOf(n) = "standby" => O!Promote(n)
      BY <1>5, <1>6, <1>7, <2>2, <2>3, <2>4, <3>1 DEF O!Promote, O!Becomes
    <3> QED
      BY <1>8, <3>1, <3>2, <3>3 DEF Mapped, O!Next
  <2>5. CASE d.state = "Standby" /\ conflict'[n]
    <3>1. RoleOf(n)' = "yielded"
      BY <1>2, <1>4, <2>5 DEF RoleOf
    <3>2. RoleOf(n) \in {"standby", "owner", "yielded"}
      BY <1>4 DEF RoleOf
    <3>3. RoleOf(n) # "yielded" => ~conflict[n]
      BY <1>4, <1>9 DEF RoleOf
    <3>4. RoleOf(n) # "yielded" => above
      BY <1>2, <2>2, <2>5, <3>3
    <3>5. RoleOf(n) # "yielded" => O!GiveWay(n)
      BY <1>5, <1>6, <1>7, <2>1, <2>3, <3>1, <3>2, <3>4 DEF O!GiveWay, O!Becomes
    <3> QED
      BY <1>8, <3>1, <3>5 DEF Mapped, O!Next
  <2>6. CASE d.state = "Standby" /\ ~conflict'[n]
    <3>1. RoleOf(n)' = "standby"
      BY <1>2, <1>4, <2>6 DEF RoleOf
    <3>2. d.reason # "PeerBecameActiveConflict" /\ ~conflict[n]
      BY <1>2, <1>11, <2>6
    <3>3. RoleOf(n) \in {"standby", "owner"}
      BY <1>4, <3>2 DEF RoleOf
    <3>4. ~O!MayOverrule(n)
      BY <2>2, <2>3, <2>6, <3>2
    <3>5. O!GiveWay(n)
      BY <1>5, <1>6, <1>7, <2>1, <3>1, <3>3, <3>4 DEF O!GiveWay, O!Becomes
    <3> QED
      BY <3>5 DEF Mapped, O!Next
  <2> QED
    BY <1>3, <2>4, <2>5, <2>6
<1> QED
  BY <1>10, <1>11
-----------------------------------------------------------------------------
(* The refinement *)

LEMMA InitMapped == Init => O!Init
<1> SUFFICES ASSUME Init PROVE O!Init
  OBVIOUS
<1>1. \A n \in Node : ~Running(n)
  BY DEF Init, Running
<1> QED
  BY <1>1 DEF Init, O!Init, role, claim, air, RoleOf, ClaimOf

LEMMA NextMapped == OwnershipInv /\ [Next]_vars => Mapped
<1> SUFFICES ASSUME OwnershipInv, [Next]_vars
             PROVE  Mapped
  OBVIOUS
<1>1. ASSUME NEW n \in Node, Start(n) PROVE Mapped
  BY <1>1, MapStart
<1>2. ASSUME NEW n \in Node, NEW r, End(n, r) PROVE Mapped
  <2>1. /\ pc'[n] = "down" /\ \A m \in Node \ {n} : pc'[m] = pc[m]
        /\ \A m \in Node \ {n} : /\ state'[m] = state[m] /\ conflict'[m] = conflict[m]
                               /\ obs'[m] = obs[m]
        /\ net' = net
    BY <1>2 DEF End, OwnershipInv, TypeOK
  <2> QED
    BY <2>1, MapStop DEF Running
<1>3. ASSUME UNCHANGED <<pc, state, conflict, obs>>, net' \subseteq net PROVE Mapped
  <2>1. role' = role /\ claim' = claim
    BY <1>3 DEF role, RoleOf, claim, ClaimOf, Running, HasLiveActivePeer, LivePeer
  <2>2. air' \subseteq air
    BY <1>3 DEF air
  <2> QED
    BY <2>1, <2>2, MapFade
<1>4. ASSUME NEW n \in Node, CutLink(n) \/ HealLink(n) PROVE Mapped
  BY <1>3, <1>4 DEF CutLink, HealLink, loopVars
<1>5. ASSUME NEW p \in net, Lose(p) \/ Unheard(p) PROVE Mapped
  BY <1>3, <1>5 DEF Lose, Unheard, loopVars
<1>6. ASSUME NEW n \in Node, NEW p \in net, Receive(n, p) \/ ReceiveDuplicated(n, p)
      PROVE  Mapped
  BY <1>6, MapReceive DEF Receive, ReceiveDuplicated
<1>7. ASSUME NEW n \in Node, ReceiveNothing(n) \/ SendFails(n) PROVE Mapped
  <2>1. /\ pc[n] = "select" /\ pc'[n] = "refresh"
        /\ \A m \in Node \ {n} : pc'[m] = pc[m]
        /\ UNCHANGED <<state, conflict, obs, net>>
    BY <1>7 DEF ReceiveNothing, SendFails, WakeUp, loopVars, envVars, OwnershipInv, TypeOK
  <2>2. role' = role /\ claim' = claim /\ air' = air
    BY <2>1 DEF role, RoleOf, claim, ClaimOf, Running, HasLiveActivePeer, LivePeer, air
  <2> QED
    BY <2>2, MapFade
<1>8. ASSUME NEW n \in Node, Shutdown(n) \/ FatalError(n) PROVE Mapped
  <2>1. /\ pc'[n] \in {"stopping", "faulting"} /\ \A m \in Node \ {n} : pc'[m] = pc[m]
        /\ UNCHANGED <<state, conflict, obs, net>>
    BY <1>8 DEF Shutdown, FatalError, Exit, loopVars, OwnershipInv, TypeOK
  <2> QED
    BY <2>1, MapStop DEF Running
<1>9. CASE UNCHANGED vars
  BY <1>3, <1>9 DEF vars
<1> QED
  BY <1>1, <1>2, <1>4, <1>5, <1>6, <1>7, <1>8, <1>9, MapTick, MapRefresh, MapSend
     DEF Next, Environment, Loop, Crash, CleanupBeforeExit

\* HaPair implements Ownership: for any nodes, settings, network and lateness,
\* every behaviour of the loops is one that the promise allows.
THEOREM PairImplementsOwnership == Spec => ImplementsOwnership
<1>1. Init => OwnershipInv
  BY InitType, InitConflict, InitForgotten DEF OwnershipInv
<1>2. OwnershipInv /\ [Next]_vars => OwnershipInv'
  BY NextType, NextConflict, NextForgotten DEF OwnershipInv
<1>3. OwnershipInv /\ [Next]_vars => [O!Next]_(O!ownershipVars)
  BY NextMapped DEF Mapped
<1> QED
  BY <1>1, <1>2, <1>3, InitMapped, PTL DEF Spec, O!Spec, ImplementsOwnership
=============================================================================

---------------------------- MODULE HaPairProofs ----------------------------
(***************************************************************************)
(* Safety of HaPair for every set of nodes, every configuration, every     *)
(* network: whatever is lost, duplicated, reordered or late.               *)
(***************************************************************************)
EXTENDS HaPair, TLAPS

(* The pure part, for every configuration validate_ha accepts. *)

\* The window is a number of ticks.
LEMMA WindowType ==
  ASSUME NEW c \in HaRuntimeConfig
  PROVE  Window(c) \in Nat
<1>1. c.interval \in Nat /\ c.deadFactor \in Nat /\ c.holdDown \in Nat
  BY DEF HaRuntimeConfig
<1>2. \A x, y \in Nat : x * y \in Nat
  BY SMT
<1>3. c.interval * c.deadFactor \in Nat
  BY <1>1, <1>2
<1> QED
  BY <1>1, <1>3 DEF Window

\* A lone lost advertisement never makes a peer look dead: the window is at
\* least two whole intervals, because dead_factor is at least 2.
THEOREM WindowSpansTwoIntervals ==
  ASSUME NEW c \in HaRuntimeConfig
  PROVE  Window(c) >= 2 * c.interval
<1>1. c.interval \in Nat /\ c.deadFactor \in Nat /\ c.deadFactor >= 2 /\ c.holdDown \in Nat
  BY DEF HaRuntimeConfig
<1>2. \A x, y \in Nat : y >= 2 => x * y \in Nat /\ x * y >= 2 * x
  BY SMT
<1>3. c.interval * c.deadFactor \in Nat /\ c.interval * c.deadFactor >= 2 * c.interval
  BY <1>1, <1>2
<1> QED
  BY <1>1, <1>3 DEF Window

\* The jitter taken off an interval is at most jitter_ms.
LEMMA JitterRange ==
  ASSUME NEW c \in HaRuntimeConfig, NEW s \in Nat
  PROVE  JitterFor(c, s) \in 0..c.jitter
  BY DEF JitterFor, HaRuntimeConfig

\* Because jitter_ms is below the interval, the next advertisement is always
\* in the future and never more than an interval away: no busy loop, no gap.
THEOREM NextAdvertDelayRange ==
  ASSUME NEW c \in HaRuntimeConfig, NEW s \in Nat
  PROVE  NextAdvertDelay(c, s) \in 1..c.interval
  BY JitterRange DEF NextAdvertDelay, HaRuntimeConfig

\* Two nodes with different ids never both outrank each other, and one of them
\* does: whatever the priorities, the two ends of a pair agree on the winner.
THEOREM RankIsStrict ==
  ASSUME NEW c \in HaRuntimeConfig, NEW d \in HaRuntimeConfig, c.id # d.id
  PROVE  Outranks(c, d) <=> ~Outranks(d, c)
<1>1. c.id \in Nat /\ c.priority \in Nat /\ d.id \in Nat /\ d.priority \in Nat
  BY DEF HaRuntimeConfig
<1>2. ASSUME NEW i \in Nat, NEW j \in Nat, NEW p \in Nat, NEW q \in Nat, i # j
      PROVE  (p > q \/ (p = q /\ i > j)) <=> ~(q > p \/ (q = p /\ j > i))
  BY <1>2
<1> QED
  BY <1>1, <1>2 DEF Outranks

\* A decision is Active or Standby, never Init.
LEMMA DecisionType ==
  ASSUME NEW c, NEW d, NEW current, NEW heard, NEW up, NEW became, NEW conflicted
  PROVE  /\ DesiredStateWithoutLivePeer(c, current, heard, up)
              \in [state : {"Standby", "Active"}, reason : HaDecisionReason]
         /\ DesiredStateWithActivePeer(c, d, became, conflicted)
              \in [state : {"Standby", "Active"}, reason : HaDecisionReason]
         /\ DesiredStateWithPassivePeer(c, current, d)
              \in [state : {"Standby", "Active"}, reason : HaDecisionReason]
<1>1. DesiredStateWithoutLivePeer(c, current, heard, up)
              \in [state : {"Standby", "Active"}, reason : HaDecisionReason]
  BY DEF DesiredStateWithoutLivePeer, Decision, HaDecisionReason
<1>2. DesiredStateWithActivePeer(c, d, became, conflicted)
              \in [state : {"Standby", "Active"}, reason : HaDecisionReason]
  BY DEF DesiredStateWithActivePeer, Decision, HaDecisionReason, LocalWinReason, PeerWinReason
<1>3. DesiredStateWithPassivePeer(c, current, d)
              \in [state : {"Standby", "Active"}, reason : HaDecisionReason]
  BY DEF DesiredStateWithPassivePeer, Decision, HaDecisionReason, LocalWinReason, PeerWinReason
<1> QED
  BY <1>1, <1>2, <1>3
-----------------------------------------------------------------------------
(* The decision of a node *)

\* What the decision of a node can be, and that a node that remembers a yield
\* stays Standby while it observes a live Active peer.
LEMMA DesiredStateType ==
  ASSUME NEW n \in Node
  PROVE  DesiredState(n) \in [state : {"Standby", "Active"}, reason : HaDecisionReason]
  BY DecisionType DEF DesiredState

LEMMA DecisionFields ==
  ASSUME NEW n \in Node
  PROVE  /\ DesiredState(n).state \in {"Standby", "Active"}
         /\ DesiredState(n).reason \in HaDecisionReason
  BY DesiredStateType

LEMMA ConflictDecision ==
  ASSUME NEW n \in Node, HasLiveActivePeer(n), conflict[n]
  PROVE  DesiredState(n).state = "Standby"
<1> DEFINE local == Config[n]
           peer == Config[obs[n].from]
<1>1. DesiredState(n) = DesiredStateWithActivePeer(local, peer, obs[n].becameActive, conflict[n])
  BY DEF DesiredState, HasLiveActivePeer
<1>2. DesiredStateWithActivePeer(local, peer, obs[n].becameActive, conflict[n]).state = "Standby"
  BY DEF DesiredStateWithActivePeer, Decision
<1> QED
  BY <1>1, <1>2

LEMMA ConflictReason ==
  ASSUME NEW n \in Node, DesiredState(n).reason = "PeerBecameActiveConflict"
  PROVE  DesiredState(n).state = "Standby"
  BY DEF DesiredState, DesiredStateWithoutLivePeer, DesiredStateWithActivePeer,
         DesiredStateWithPassivePeer, Decision, LocalWinReason, PeerWinReason
-----------------------------------------------------------------------------
(* Type correctness *)

\* The settings of a node, and the delays its timers are set to.
LEMMA Settings ==
  ASSUME NEW n \in Node
  PROVE  /\ Config[n] \in HaRuntimeConfig
         /\ Config[n].interval \in Nat /\ Config[n].jitter \in Nat
         /\ Window(Config[n]) \in Nat
         /\ \A s \in Nat : /\ NextAdvertDelay(Config[n], s) \in Nat
                           /\ NextAdvertDelay(Config[n], s) <= Config[n].interval
                           /\ JitterFor(Config[n], s) \in Nat
                           /\ JitterFor(Config[n], s) <= Config[n].jitter
<1>1. Config[n] \in HaRuntimeConfig
  BY NodeAssumption
<1>2. Config[n].interval \in Nat /\ Config[n].jitter \in Nat
  BY <1>1 DEF HaRuntimeConfig
<1>3. Window(Config[n]) \in Nat
  BY <1>1, WindowType
<1>4. ASSUME NEW s \in Nat
      PROVE  /\ NextAdvertDelay(Config[n], s) \in 1..Config[n].interval
             /\ JitterFor(Config[n], s) \in 0..Config[n].jitter
  BY <1>1, NextAdvertDelayRange, JitterRange
<1> QED
  BY <1>1, <1>2, <1>3, <1>4

\* What a node records of a packet is a PeerObservation of age 0.
LEMMA ObserveType ==
  ASSUME NEW n \in Node, NEW p \in HaPacket
  PROVE  Observe(n, p) \in PeerObservation /\ Observe(n, p).age = 0
         /\ Observe(n, p) # NoPeer /\ Observe(n, p).state = p.state
<1>1. p.from \in Node /\ p.state \in HaState
  BY DEF HaPacket
<1>2. Observe(n, p) \in PeerObservation
  BY <1>1 DEF Observe, PeerObservation
<1> QED
  BY <1>2, NodeAssumption DEF Observe

\* A growing age stays a natural number within its limit.
LEMMA OlderType ==
  ASSUME NEW limit \in Nat, NEW age \in Nat, age <= limit
  PROVE  Older(age, limit) \in Nat /\ Older(age, limit) <= limit
  BY DEF Older

LEMMA InitType == Init => TypeOK
<1> SUFFICES ASSUME Init PROVE TypeOK
  OBVIOUS
<1>1. \A n \in Node : /\ Window(Config[n]) \in Nat
                      /\ Config[n].interval \in Nat /\ Config[n].jitter \in Nat
  BY Settings
<1>2. \A n \in Node : uptime[n] = 0 /\ advertIn[n] = 0 /\ sequence[n] = 0 /\ obs[n] = NoPeer
  BY DEF Init
<1>3. \A n \in Node : /\ uptime[n] <= Window(Config[n])
                      /\ advertIn[n] <= Config[n].interval
                      /\ sequence[n] <= Config[n].jitter
                      /\ obs[n] # NoPeer => obs[n].age <= Window(Config[n])
  BY <1>1, <1>2
<1>4. faults \in 0..MaxFaults
  BY EnvironmentAssumption DEF Init
<1> QED
  BY <1>3, <1>4 DEF Init, TypeOK, HaState, HaDecisionReason

LEMMA RefreshType ==
  ASSUME TypeOK, NEW n \in Node, Refresh(n)
  PROVE  TypeOK'
<1>1. DesiredState(n).state \in HaState /\ DesiredState(n).reason \in HaDecisionReason
  BY DecisionFields DEF HaState
<1>2. UNCHANGED <<obs, uptime, advertIn, sequence, net, cut, faults>>
  BY DEF Refresh, envVars
<1>3. state' \in [Node -> HaState] /\ reason' \in [Node -> HaDecisionReason]
  BY <1>1 DEF Refresh, TypeOK
<1>4. conflict' \in [Node -> BOOLEAN]
  BY DEF Refresh, TypeOK
<1>5. pc' \in [Node -> {"down", "refresh", "select", "stopping", "faulting"}]
  BY DEF Refresh, TypeOK
<1> QED
  BY <1>2, <1>3, <1>4, <1>5 DEF TypeOK

LEMMA ReceiveType ==
  ASSUME TypeOK, NEW n \in Node, NEW p \in net, HandleReceive(n, p),
         net' \subseteq net, faults' \in 0..MaxFaults
  PROVE  TypeOK'
<1>1. p \in HaPacket
  BY DEF TypeOK
<1>2. UNCHANGED <<state, conflict, reason, uptime, advertIn, sequence, cut>>
  BY DEF HandleReceive
<1>3. pc' \in [Node -> {"down", "refresh", "select", "stopping", "faulting"}]
  BY DEF HandleReceive, WakeUp, TypeOK
<1>4. obs' \in [Node -> PeerObservation \cup {NoPeer}]
  BY <1>1, ObserveType DEF HandleReceive, TypeOK
<1>5. ASSUME NEW m \in Node, obs'[m] # NoPeer
      PROVE  obs'[m].age <= Window(Config[m])
  <2>1. Window(Config[m]) \in Nat
    BY Settings
  <2>2. obs'[m] = obs[m] \/ obs'[m] = Observe(n, p)
    BY DEF HandleReceive, TypeOK
  <2> QED
    BY <1>1, <1>5, <2>1, <2>2, ObserveType DEF TypeOK
<1> QED
  BY <1>2, <1>3, <1>4, <1>5 DEF TypeOK

\* The steps that leave the loop state alone but for pc, the timer, the
\* sequence and the environment.
LEMMA SendAdvertisementType ==
  ASSUME TypeOK, NEW n \in Node, SendAdvertisement(n)
  PROVE  TypeOK'
<1> DEFINE next == JitterFor(Config[n], sequence[n] + 1)
<1>1. sequence[n] + 1 \in Nat
  BY DEF TypeOK
<1>2. next \in Nat /\ next <= Config[n].jitter /\ next + 1 \in Nat
  BY <1>1, Settings
<1>3. /\ NextAdvertDelay(Config[n], next + 1) \in Nat
      /\ NextAdvertDelay(Config[n], next + 1) <= Config[n].interval
  BY <1>2, Settings
<1> HIDE DEF next
<1>4. UNCHANGED <<state, conflict, reason, obs, uptime, cut, faults>>
  BY DEF SendAdvertisement
<1>5. /\ sequence' = [sequence EXCEPT ![n] = next]
      /\ advertIn' = [advertIn EXCEPT ![n] = NextAdvertDelay(Config[n], next + 1)]
  BY DEF SendAdvertisement, next
<1>6. sequence' \in [Node -> Nat] /\ advertIn' \in [Node -> Nat]
  BY <1>2, <1>3, <1>5 DEF TypeOK
<1>7. \A m \in Node : /\ sequence'[m] <= Config[m].jitter
                      /\ advertIn'[m] <= Config[m].interval
  BY <1>2, <1>3, <1>5 DEF TypeOK
<1>8. [from |-> n, state |-> state[n], age |-> 0] \in HaPacket
  BY EnvironmentAssumption DEF HaPacket, TypeOK
<1>9. net' \subseteq HaPacket
  BY <1>8 DEF SendAdvertisement, TypeOK
<1>10. pc' \in [Node -> {"down", "refresh", "select", "stopping", "faulting"}]
  BY DEF SendAdvertisement, WakeUp, TypeOK
<1> QED
  BY <1>4, <1>6, <1>7, <1>9, <1>10 DEF TypeOK

LEMMA SendFailsType ==
  ASSUME TypeOK, NEW n \in Node, SendFails(n)
  PROVE  TypeOK'
<1>1. /\ NextAdvertDelay(Config[n], sequence[n] + 1) \in Nat
      /\ NextAdvertDelay(Config[n], sequence[n] + 1) <= Config[n].interval
  <2>1. sequence[n] + 1 \in Nat
    BY DEF TypeOK
  <2> QED
    BY <2>1, Settings
<1>2. UNCHANGED <<state, conflict, reason, obs, uptime, sequence, net, cut>>
  BY DEF SendFails, loopVars
<1>3. advertIn' \in [Node -> Nat] /\ \A m \in Node : advertIn'[m] <= Config[m].interval
  BY <1>1 DEF SendFails, TypeOK
<1>4. pc' \in [Node -> {"down", "refresh", "select", "stopping", "faulting"}]
  BY DEF SendFails, WakeUp, TypeOK
<1>5. faults' \in 0..MaxFaults
  BY EnvironmentAssumption DEF SendFails, Spend, TypeOK
<1> QED
  BY <1>2, <1>3, <1>4, <1>5 DEF TypeOK

LEMMA SpendType ==
  ASSUME TypeOK, NEW kind, Spend(kind)
  PROVE  faults' \in 0..MaxFaults
  BY EnvironmentAssumption DEF Spend, TypeOK

LEMMA ExitType ==
  ASSUME TypeOK, NEW n \in Node, NEW label \in {"stopping", "faulting"}, NEW kind,
         Exit(n, label, kind)
  PROVE  TypeOK'
<1>1. UNCHANGED <<state, conflict, reason, obs, uptime, sequence, advertIn, net, cut>>
  BY DEF Exit, loopVars
<1>2. pc' \in [Node -> {"down", "refresh", "select", "stopping", "faulting"}]
  BY DEF Exit, TypeOK
<1>3. faults' \in 0..MaxFaults
  BY SpendType DEF Exit
<1> QED
  BY <1>1, <1>2, <1>3 DEF TypeOK

LEMMA EndType ==
  ASSUME TypeOK, NEW n \in Node, NEW r \in HaDecisionReason, End(n, r),
         faults' \in 0..MaxFaults
  PROVE  TypeOK'
<1>1. \A m \in Node : /\ Window(Config[m]) \in Nat
                      /\ Config[m].interval \in Nat /\ Config[m].jitter \in Nat
  BY Settings
<1>2. /\ uptime' \in [Node -> Nat] /\ advertIn' \in [Node -> Nat] /\ sequence' \in [Node -> Nat]
      /\ \A m \in Node : /\ uptime'[m] <= Window(Config[m])
                         /\ advertIn'[m] <= Config[m].interval
                         /\ sequence'[m] <= Config[m].jitter
  BY <1>1 DEF End, TypeOK
<1>3. obs' \in [Node -> PeerObservation \cup {NoPeer}]
      /\ \A m \in Node : obs'[m] # NoPeer => obs'[m].age <= Window(Config[m])
  BY DEF End, TypeOK
<1>4. /\ pc' \in [Node -> {"down", "refresh", "select", "stopping", "faulting"}]
      /\ state' \in [Node -> HaState]
  BY DEF End, TypeOK, HaState
<1>5. conflict' \in [Node -> BOOLEAN] /\ reason' \in [Node -> HaDecisionReason]
  BY DEF End, TypeOK
<1>6. UNCHANGED <<net, cut>>
  BY DEF End
<1> QED
  BY <1>2, <1>3, <1>4, <1>5, <1>6 DEF TypeOK

LEMMA StartType ==
  ASSUME TypeOK, NEW n \in Node, Start(n)
  PROVE  TypeOK'
<1>1. NextAdvertDelay(Config[n], 1) \in Nat /\ NextAdvertDelay(Config[n], 1) <= Config[n].interval
  BY Settings
<1>2. UNCHANGED <<state, conflict, obs, uptime, sequence, net, cut, faults>>
  BY DEF Start, envVars
<1>3. advertIn' \in [Node -> Nat] /\ \A m \in Node : advertIn'[m] <= Config[m].interval
  BY <1>1 DEF Start, TypeOK
<1>4. /\ pc' \in [Node -> {"down", "refresh", "select", "stopping", "faulting"}]
      /\ reason' \in [Node -> HaDecisionReason]
  BY DEF Start, TypeOK, HaDecisionReason
<1> QED
  BY <1>2, <1>3, <1>4 DEF TypeOK

LEMMA TickType ==
  ASSUME TypeOK, Tick
  PROVE  TypeOK'
<1>1. \A n \in Node : Window(Config[n]) \in Nat /\ Config[n].interval \in Nat
  BY Settings
<1>2. UNCHANGED <<pc, state, conflict, reason, sequence, cut, faults>>
  BY DEF Tick
<1>3. ASSUME NEW n \in Node
      PROVE  /\ obs'[n] \in PeerObservation \cup {NoPeer}
             /\ obs'[n] # NoPeer => obs'[n].age <= Window(Config[n])
  <2>1. CASE obs[n] = NoPeer
    BY <2>1 DEF Tick
  <2>2. CASE obs[n] # NoPeer
    <3>1. obs[n] \in PeerObservation /\ obs[n].age \in Nat /\ obs[n].age <= Window(Config[n])
      BY <2>2 DEF TypeOK, PeerObservation
    <3>2. obs'[n] = [obs[n] EXCEPT !.age = Older(obs[n].age, Window(Config[n]))]
      BY <2>2 DEF Tick
    <3>3. /\ Older(obs[n].age, Window(Config[n])) \in Nat
          /\ Older(obs[n].age, Window(Config[n])) <= Window(Config[n])
      BY <1>1, <3>1, OlderType
    <3> QED
      BY <3>1, <3>2, <3>3 DEF PeerObservation
  <2> QED
    BY <2>1, <2>2
<1>4. obs' \in [Node -> PeerObservation \cup {NoPeer}]
  BY <1>3 DEF Tick
<1>5. ASSUME NEW n \in Node
      PROVE  uptime'[n] \in Nat /\ uptime'[n] <= Window(Config[n])
  <2>1. uptime[n] \in Nat /\ uptime[n] <= Window(Config[n])
    BY DEF TypeOK
  <2>2. uptime'[n] = 0 \/ uptime'[n] = Older(uptime[n], Window(Config[n]))
    BY DEF Tick
  <2> QED
    BY <1>1, <2>1, <2>2, OlderType
<1>6. uptime' \in [Node -> Nat]
  BY <1>5 DEF Tick
<1>7. ASSUME NEW n \in Node
      PROVE  advertIn'[n] \in Nat /\ advertIn'[n] <= Config[n].interval
  <2>1. advertIn[n] \in Nat /\ advertIn[n] <= Config[n].interval
    BY DEF TypeOK
  <2>2. advertIn'[n] = IF advertIn[n] = 0 THEN 0 ELSE advertIn[n] - 1
    BY DEF Tick
  <2> QED
    BY <1>1, <2>1, <2>2
<1>8. advertIn' \in [Node -> Nat]
  BY <1>7 DEF Tick
<1>9. ASSUME NEW p \in net
      PROVE  [p EXCEPT !.age = Older(@, MaxDelay)] \in HaPacket
  <2>1. p \in HaPacket /\ p.age \in Nat /\ p.age <= MaxDelay
    BY EnvironmentAssumption DEF TypeOK, HaPacket
  <2>2. Older(p.age, MaxDelay) \in 0..MaxDelay
    BY <2>1, EnvironmentAssumption, OlderType
  <2> QED
    BY <2>1, <2>2 DEF HaPacket
<1>10. net' \subseteq HaPacket
  BY <1>9 DEF Tick
<1> QED
  BY <1>2, <1>3, <1>4, <1>5, <1>6, <1>7, <1>8, <1>10 DEF TypeOK

\* No step spoils the types: one case per action of Next.
LEMMA NextType == TypeOK /\ [Next]_vars => TypeOK'
<1> SUFFICES ASSUME TypeOK, [Next]_vars
             PROVE  TypeOK'
  OBVIOUS
<1>1. ASSUME NEW n \in Node, Start(n) PROVE TypeOK'
  BY <1>1, StartType
<1>2. ASSUME NEW n \in Node, Crash(n) PROVE TypeOK'
  <2>1. faults' \in 0..MaxFaults
    BY <1>2, SpendType DEF Crash
  <2> QED
    BY <1>2, <2>1, EndType DEF Crash, HaDecisionReason
<1>3. ASSUME NEW n \in Node, CutLink(n) PROVE TypeOK'
  <2>1. faults' \in 0..MaxFaults
    BY <1>3, SpendType DEF CutLink
  <2> QED
    BY <1>3, <2>1 DEF CutLink, loopVars, TypeOK
<1>4. ASSUME NEW n \in Node, HealLink(n) PROVE TypeOK'
  BY <1>4 DEF HealLink, loopVars, TypeOK
<1>5. ASSUME NEW p \in net, Lose(p) PROVE TypeOK'
  <2>1. faults' \in 0..MaxFaults
    BY <1>5, SpendType DEF Lose
  <2> QED
    BY <1>5, <2>1 DEF Lose, loopVars, TypeOK
<1>6. ASSUME NEW p \in net, Unheard(p) PROVE TypeOK'
  BY <1>6 DEF Unheard, loopVars, TypeOK
<1>7. ASSUME Tick PROVE TypeOK'
  BY <1>7, TickType
<1>8. ASSUME NEW n \in Node, Refresh(n) PROVE TypeOK'
  BY <1>8, RefreshType
<1>9. ASSUME NEW n \in Node, NEW p \in net, Receive(n, p) PROVE TypeOK'
  <2>1. HandleReceive(n, p) /\ net' \subseteq net
    BY <1>9 DEF Receive
  <2>2. faults' \in 0..MaxFaults
    BY <1>9 DEF Receive, TypeOK
  <2> QED
    BY <2>1, <2>2, ReceiveType
<1>10. ASSUME NEW n \in Node, NEW p \in net, ReceiveDuplicated(n, p) PROVE TypeOK'
  <2>1. HandleReceive(n, p) /\ net' \subseteq net
    BY <1>10 DEF ReceiveDuplicated
  <2>2. faults' \in 0..MaxFaults
    BY <1>10, SpendType DEF ReceiveDuplicated
  <2> QED
    BY <2>1, <2>2, ReceiveType
<1>11. ASSUME NEW n \in Node, ReceiveNothing(n) PROVE TypeOK'
  BY <1>11 DEF ReceiveNothing, WakeUp, loopVars, envVars, TypeOK
<1>12. ASSUME NEW n \in Node, SendAdvertisement(n) PROVE TypeOK'
  BY <1>12, SendAdvertisementType
<1>13. ASSUME NEW n \in Node, SendFails(n) PROVE TypeOK'
  BY <1>13, SendFailsType
<1>14. ASSUME NEW n \in Node, Shutdown(n) PROVE TypeOK'
  BY <1>14, ExitType DEF Shutdown
<1>15. ASSUME NEW n \in Node, FatalError(n) PROVE TypeOK'
  BY <1>15, ExitType DEF FatalError
<1>16. ASSUME NEW n \in Node, CleanupBeforeExit(n) PROVE TypeOK'
  <2>1. faults' \in 0..MaxFaults
    BY <1>16 DEF CleanupBeforeExit, TypeOK
  <2>2. End(n, "GracefulShutdown") \/ End(n, "RuntimeFault")
    BY <1>16 DEF CleanupBeforeExit
  <2> QED
    BY <2>1, <2>2, EndType DEF HaDecisionReason
<1>17. CASE UNCHANGED vars
  BY <1>17 DEF vars, TypeOK
<1> QED
  BY <1>1, <1>2, <1>3, <1>4, <1>5, <1>6, <1>7, <1>8, <1>9, <1>10, <1>11, <1>12, <1>13,
     <1>14, <1>15, <1>16, <1>17 DEF Next, Environment, Loop

\* The loop, its timers and the network stay within their types: no timer of a
\* node is ever set beyond its interval, no age beyond its window.
THEOREM TypeCorrect == Spec => []TypeOK
  BY InitType, NextType, PTL DEF Spec
-----------------------------------------------------------------------------
(* The first decision comes before the first advertisement *)

\* A node whose loop waits has decided, and so has one that leaves its loop; that
\* is why no packet says Init.
Decided ==
  /\ \A n \in Node : pc[n] \in {"select", "stopping", "faulting"} => state[n] # "Init"
  /\ NoInitAdvertised

LEMMA InitDecided == Init => Decided
  BY DEF Init, Decided, NoInitAdvertised

LEMMA NextDecided == TypeOK /\ Decided /\ [Next]_vars => Decided'
<1> SUFFICES ASSUME TypeOK, Decided, [Next]_vars
             PROVE  Decided'
  OBVIOUS
<1> USE DEF Decided, NoInitAdvertised
<1>1. ASSUME NEW n \in Node, Start(n) PROVE Decided'
  BY <1>1 DEF Start, envVars, TypeOK
<1>2. ASSUME NEW n \in Node, NEW r, End(n, r) PROVE Decided'
  BY <1>2 DEF End, TypeOK
<1>3. ASSUME NEW n \in Node, CutLink(n) \/ HealLink(n) PROVE Decided'
  BY <1>3 DEF CutLink, HealLink, loopVars
<1>4. ASSUME NEW p \in net, Lose(p) \/ Unheard(p) PROVE Decided'
  BY <1>4 DEF Lose, Unheard, loopVars
<1>5. ASSUME Tick PROVE Decided'
  <2>1. \A n \in Node : pc'[n] = pc[n] /\ state'[n] = state[n]
    BY <1>5 DEF Tick
  <2>2. ASSUME NEW p \in net PROVE [p EXCEPT !.age = Older(@, MaxDelay)].state # "Init"
    BY DEF TypeOK, HaPacket
  <2>3. \A p \in net' : p.state # "Init"
    BY <1>5, <2>2 DEF Tick
  <2>4. ASSUME NEW n \in Node, obs'[n] # NoPeer PROVE obs'[n].state # "Init"
    <3>1. obs[n] # NoPeer
      BY <1>5, <2>4 DEF Tick
    <3>2. obs'[n] = [obs[n] EXCEPT !.age = Older(@, Window(Config[n]))]
      BY <1>5, <3>1 DEF Tick
    <3>3. obs[n] \in PeerObservation
      BY <3>1 DEF TypeOK
    <3> QED
      BY <3>1, <3>2, <3>3 DEF PeerObservation
  <2> QED
    BY <2>1, <2>3, <2>4
<1>6. ASSUME NEW n \in Node, Refresh(n) PROVE Decided'
  BY <1>6, DecisionFields DEF Refresh, envVars, TypeOK
<1>7. ASSUME NEW n \in Node, NEW p \in net, HandleReceive(n, p), net' \subseteq net
      PROVE  Decided'
  <2>1. p \in HaPacket
    BY DEF TypeOK
  <2>2. \A m \in Node : obs'[m] = obs[m] \/ obs'[m] = Observe(n, p)
    BY <1>7 DEF HandleReceive, TypeOK
  <2>3. \A m \in Node : obs'[m] # NoPeer => obs'[m].state # "Init"
    BY <2>1, <2>2, ObserveType
  <2> QED
    BY <1>7, <2>3 DEF HandleReceive, WakeUp, TypeOK
<1>8. ASSUME NEW n \in Node, ReceiveNothing(n) \/ SendFails(n) PROVE Decided'
  BY <1>8 DEF ReceiveNothing, SendFails, WakeUp, loopVars, envVars, TypeOK
<1>9. ASSUME NEW n \in Node, SendAdvertisement(n) PROVE Decided'
  <2>1. pc[n] = "select" /\ state[n] # "Init"
    BY <1>9 DEF SendAdvertisement, WakeUp
  <2>2. \A p \in net' : p.state # "Init"
    BY <1>9, <2>1 DEF SendAdvertisement
  <2> QED
    BY <1>9, <2>2 DEF SendAdvertisement, WakeUp, TypeOK
<1>10. ASSUME NEW n \in Node, Shutdown(n) \/ FatalError(n) PROVE Decided'
  BY <1>10 DEF Shutdown, FatalError, Exit, loopVars, TypeOK
<1>11. CASE UNCHANGED vars
  BY <1>11 DEF vars
<1> QED
  BY <1>1, <1>2, <1>3, <1>4, <1>5, <1>6, <1>7, <1>8, <1>9, <1>10, <1>11
     DEF Next, Environment, Loop, Crash, CleanupBeforeExit, Receive, ReceiveDuplicated

\* No packet in flight and no observation ever says Init.
THEOREM InitIsNeverAdvertised == Spec => []NoInitAdvertised
<1>1. Init => TypeOK /\ Decided
  BY InitType, InitDecided
<1>2. TypeOK /\ Decided /\ [Next]_vars => TypeOK' /\ Decided'
  BY NextType, NextDecided
<1>3. Decided => NoInitAdvertised
  BY DEF Decided
<1> QED
  BY <1>1, <1>2, <1>3, PTL DEF Spec
-----------------------------------------------------------------------------
(* A yield is remembered *)

\* Every step but a refresh and the end of a process leaves state and conflict
\* of every node as they are.
LEMMA StateChanges ==
  ASSUME [Next]_vars
  PROVE  \/ UNCHANGED <<state, conflict>>
         \/ \E n \in Node : Refresh(n)
         \/ \E n \in Node : \E r : End(n, r)
<1>1. ASSUME NEW n \in Node, Start(n) \/ CutLink(n) \/ HealLink(n)
      PROVE  UNCHANGED <<state, conflict>>
  BY <1>1 DEF Start, CutLink, HealLink, loopVars
<1>2. ASSUME NEW p \in net, Lose(p) \/ Unheard(p) PROVE UNCHANGED <<state, conflict>>
  BY <1>2 DEF Lose, Unheard, loopVars
<1>3. ASSUME Tick \/ UNCHANGED vars PROVE UNCHANGED <<state, conflict>>
  BY <1>3 DEF Tick, vars
<1>4. ASSUME NEW n \in Node, NEW p \in net, Receive(n, p) \/ ReceiveDuplicated(n, p)
      PROVE  UNCHANGED <<state, conflict>>
  BY <1>4 DEF Receive, ReceiveDuplicated, HandleReceive
<1>5. ASSUME NEW n \in Node, ReceiveNothing(n) \/ SendAdvertisement(n) \/ SendFails(n)
      PROVE  UNCHANGED <<state, conflict>>
  BY <1>5 DEF ReceiveNothing, SendAdvertisement, SendFails, loopVars
<1>6. ASSUME NEW n \in Node, Shutdown(n) \/ FatalError(n) PROVE UNCHANGED <<state, conflict>>
  BY <1>6 DEF Shutdown, FatalError, Exit, loopVars
<1>7. ASSUME NEW n \in Node, Crash(n) \/ CleanupBeforeExit(n) PROVE \E r : End(n, r)
  BY <1>7 DEF Crash, CleanupBeforeExit
<1> QED
  BY <1>1, <1>2, <1>3, <1>4, <1>5, <1>6, <1>7 DEF Next, Environment, Loop

LEMMA InitConflict == Init => ConflictMeansYielded
  BY DEF Init, ConflictMeansYielded

LEMMA NextConflict ==
  TypeOK /\ ConflictMeansYielded /\ [Next]_vars => ConflictMeansYielded'
<1> SUFFICES ASSUME TypeOK, ConflictMeansYielded, [Next]_vars
             PROVE  ConflictMeansYielded'
  OBVIOUS
<1>1. CASE UNCHANGED <<state, conflict>>
  BY <1>1 DEF ConflictMeansYielded
<1>2. ASSUME NEW n \in Node, Refresh(n) PROVE ConflictMeansYielded'
  <2>1. ASSUME conflict'[n] PROVE state'[n] # "Active"
    <3>1. DesiredState(n).reason = "PeerBecameActiveConflict"
            \/ (conflict[n] /\ HasLiveActivePeer(n))
      BY <1>2, <2>1 DEF Refresh, TypeOK
    <3>2. DesiredState(n).state = "Standby"
      BY <3>1, ConflictReason, ConflictDecision
    <3> QED
      BY <1>2, <3>2 DEF Refresh, TypeOK
  <2>2. \A m \in Node \ {n} : state'[m] = state[m] /\ conflict'[m] = conflict[m]
    BY <1>2 DEF Refresh, TypeOK
  <2> QED
    BY <2>1, <2>2 DEF ConflictMeansYielded
<1>3. ASSUME NEW n \in Node, NEW r, End(n, r) PROVE ConflictMeansYielded'
  BY <1>3 DEF End, ConflictMeansYielded, TypeOK
<1> QED
  BY <1>1, <1>2, <1>3, StateChanges

\* A node whose active_peer_conflict is set is not Active: for any number of
\* nodes, any settings and any network.
THEOREM YieldIsKept == Spec => []ConflictMeansYielded
<1>1. Init => TypeOK /\ ConflictMeansYielded
  BY InitType, InitConflict
<1>2. TypeOK /\ ConflictMeansYielded /\ [Next]_vars => TypeOK' /\ ConflictMeansYielded'
  BY NextType, NextConflict
<1> QED
  BY <1>1, <1>2, PTL DEF Spec

StickyStep ==
  \A n \in Node :
    (conflict[n] /\ Running(n)' /\ HasLiveActivePeer(n)') => (conflict[n]' /\ ~Owner(n)')

LEMMA NextSticky ==
  TypeOK /\ ConflictMeansYielded /\ [Next]_vars => StickyStep
<1> SUFFICES ASSUME TypeOK, ConflictMeansYielded, [Next]_vars,
                    NEW n \in Node, conflict[n], Running(n)', HasLiveActivePeer(n)'
             PROVE  conflict'[n] /\ ~Owner(n)'
  BY DEF StickyStep
<1>1. conflict'[n]
  <2>1. CASE UNCHANGED <<state, conflict>>
    BY <2>1
  <2>2. ASSUME NEW m \in Node, Refresh(m) PROVE conflict'[n]
    <3>1. HasLiveActivePeer(n)
      BY <2>2 DEF Refresh, HasLiveActivePeer, LivePeer
    <3> QED
      BY <2>2, <3>1 DEF Refresh, TypeOK
  <2>3. ASSUME NEW m \in Node, NEW r, End(m, r) PROVE conflict'[n]
    <3>1. m # n
      BY <2>3 DEF End, Running, TypeOK
    <3> QED
      BY <2>3, <3>1 DEF End, TypeOK
  <2> QED
    BY <2>1, <2>2, <2>3, StateChanges
<1>2. state'[n] # "Active"
  BY <1>1, NextConflict DEF ConflictMeansYielded
<1> QED
  BY <1>1, <1>2 DEF Owner

\* No step ends a yield while the node observes a live Active peer.
THEOREM ConflictSticks == Spec => ConflictIsSticky
<1>1. TypeOK /\ ConflictMeansYielded /\ [Next]_vars =>
        [\A n \in Node : (conflict[n] /\ Running(n)' /\ HasLiveActivePeer(n)')
                             => (conflict[n]' /\ ~Owner(n)')]_vars
  BY NextSticky DEF StickyStep
<1> QED
  BY <1>1, TypeCorrect, YieldIsKept, PTL DEF Spec, ConflictIsSticky
-----------------------------------------------------------------------------
(* What makes an owner yield *)

\* An Active node decides otherwise only when it observes a live Active peer.
LEMMA YieldDecision ==
  ASSUME NEW n \in Node, state[n] = "Active", ~HasLiveActivePeer(n)
  PROVE  DesiredState(n).state = "Active"
<1>1. CASE ~LivePeer(n)
  BY <1>1 DEF DesiredState, DesiredStateWithoutLivePeer, Decision
<1>2. CASE LivePeer(n) /\ obs[n].state # "Active"
  BY <1>2 DEF DesiredState, DesiredStateWithPassivePeer, Decision
<1> QED
  BY <1>1, <1>2 DEF HasLiveActivePeer

YieldStep ==
  \A n \in Node : (Owner(n) /\ Running(n)' /\ ~Owner(n)') => HasLiveActivePeer(n)'

LEMMA NextYield == TypeOK /\ [Next]_vars => YieldStep
<1> SUFFICES ASSUME TypeOK, [Next]_vars, NEW n \in Node,
                    Owner(n), Running(n)', ~Owner(n)'
             PROVE  HasLiveActivePeer(n)'
  BY DEF YieldStep
<1>1. state[n] = "Active" /\ state'[n] # "Active"
  BY DEF Owner
<1>2. CASE UNCHANGED <<state, conflict>>
  BY <1>1, <1>2
<1>3. ASSUME NEW m \in Node, Refresh(m) PROVE HasLiveActivePeer(n)'
  <2>1. m = n
    BY <1>1, <1>3 DEF Refresh, TypeOK
  <2>2. DesiredState(n).state # "Active"
    BY <1>1, <1>3, <2>1 DEF Refresh, TypeOK
  <2>3. HasLiveActivePeer(n)
    BY <1>1, <2>2, YieldDecision
  <2> QED
    BY <1>3, <2>3 DEF Refresh, HasLiveActivePeer, LivePeer
<1>4. ASSUME NEW m \in Node, NEW r, End(m, r) PROVE HasLiveActivePeer(n)'
  <2>1. m = n
    BY <1>1, <1>4 DEF End, TypeOK
  <2> QED
    BY <1>4, <2>1 DEF End, Running, TypeOK
<1> QED
  BY <1>2, <1>3, <1>4, StateChanges

\* A running owner yields only to a claim it has heard within its window.
THEOREM OwnersYieldToClaims == Spec => YieldsOnlyToALiveClaim
<1>1. TypeOK /\ [Next]_vars =>
        [\A n \in Node : (Owner(n) /\ Running(n)' /\ ~Owner(n)')
                             => HasLiveActivePeer(n)']_vars
  BY NextYield DEF YieldStep
<1> QED
  BY <1>1, TypeCorrect, PTL DEF Spec, YieldsOnlyToALiveClaim
-----------------------------------------------------------------------------
(* The end of a process *)

\* A process that does not run remembers nothing.
Forgotten ==
  \A n \in Node :
    pc[n] = "down" =>
      state[n] = "Init" /\ ~conflict[n] /\ obs[n] = NoPeer /\ uptime[n] = 0

LEMMA InitForgotten == Init => Forgotten
  BY DEF Init, Forgotten

LEMMA NextForgotten == TypeOK /\ Forgotten /\ [Next]_vars => Forgotten'
<1> SUFFICES ASSUME TypeOK, Forgotten, [Next]_vars
             PROVE  Forgotten'
  OBVIOUS
<1> USE DEF Forgotten
<1>1. ASSUME NEW n \in Node, Start(n) PROVE Forgotten'
  BY <1>1 DEF Start, envVars, TypeOK
<1>2. ASSUME NEW n \in Node, NEW r, End(n, r) PROVE Forgotten'
  BY <1>2 DEF End, TypeOK
<1>3. ASSUME NEW n \in Node, CutLink(n) \/ HealLink(n) PROVE Forgotten'
  BY <1>3 DEF CutLink, HealLink, loopVars
<1>4. ASSUME NEW p \in net, Lose(p) \/ Unheard(p) PROVE Forgotten'
  BY <1>4 DEF Lose, Unheard, loopVars
<1>5. ASSUME Tick PROVE Forgotten'
  BY <1>5 DEF Tick
<1>6. ASSUME NEW n \in Node, Refresh(n) PROVE Forgotten'
  BY <1>6 DEF Refresh, envVars, TypeOK
<1>7. ASSUME NEW n \in Node, NEW p \in net, HandleReceive(n, p) PROVE Forgotten'
  BY <1>7 DEF HandleReceive, WakeUp, TypeOK
<1>8. ASSUME NEW n \in Node, ReceiveNothing(n) \/ SendFails(n) \/ SendAdvertisement(n)
      PROVE  Forgotten'
  BY <1>8 DEF ReceiveNothing, SendFails, SendAdvertisement, WakeUp, loopVars, envVars, TypeOK
<1>9. ASSUME NEW n \in Node, Shutdown(n) \/ FatalError(n) PROVE Forgotten'
  BY <1>9 DEF Shutdown, FatalError, Exit, loopVars, TypeOK
<1>10. CASE UNCHANGED vars
  BY <1>10 DEF vars
<1> QED
  BY <1>1, <1>2, <1>3, <1>4, <1>5, <1>6, <1>7, <1>8, <1>9, <1>10
     DEF Next, Environment, Loop, Crash, CleanupBeforeExit, Receive, ReceiveDuplicated
-----------------------------------------------------------------------------
(* Time, and the steps of one node *)

\* A window is never empty.
LEMMA WindowIsPositive ==
  ASSUME NEW n \in Node
  PROVE  Window(Config[n]) \in Nat /\ 0 < Window(Config[n])
<1>1. Config[n] \in HaRuntimeConfig
  BY NodeAssumption
<1>2. Window(Config[n]) >= 2 * Config[n].interval /\ Window(Config[n]) \in Nat
  BY <1>1, WindowSpansTwoIntervals, WindowType
<1>3. Config[n].interval \in Nat \ {0}
  BY <1>1 DEF HaRuntimeConfig
<1> QED
  BY <1>2, <1>3

\* In a tick under Prompt a node that runs waits, with time left to wait.
LEMMA PromptTick ==
  ASSUME TypeOK, Prompt, Tick, NEW n \in Node, Running(n)
  PROVE  pc[n] = "select" /\ advertIn[n] # 0 /\ advertIn'[n] = advertIn[n] - 1
  BY DEF Tick, Due, Running, TypeOK

\* In a tick under Prompt every packet gets older by one.
LEMMA PromptPacket ==
  ASSUME TypeOK, Prompt, Tick, NEW p \in net
  PROVE  /\ p.age \in Nat /\ p.age + 1 <= MaxDelay
         /\ [p EXCEPT !.age = p.age + 1] \in net'
<1>1. p.age \in Nat /\ p.age < MaxDelay /\ MaxDelay \in Nat
  BY EnvironmentAssumption DEF Tick, TypeOK, HaPacket
<1>2. Older(p.age, MaxDelay) = p.age + 1
  BY <1>1 DEF Older
<1> QED
  BY <1>1, <1>2 DEF Tick

\* An observation gets older by at most one in a tick.
LEMMA ObsTick ==
  ASSUME TypeOK, Tick, NEW n \in Node, obs[n] # NoPeer
  PROVE  /\ obs'[n] # NoPeer /\ obs'[n].age \in Nat /\ obs'[n].age <= obs[n].age + 1
         /\ obs[n].age \in Nat /\ obs'[n].from = obs[n].from /\ obs'[n].state = obs[n].state
         /\ obs'[n].age = Older(obs[n].age, Window(Config[n]))
<1>1. obs[n] \in PeerObservation /\ obs[n].age \in Nat /\ Window(Config[n]) \in Nat
  BY Settings DEF TypeOK, PeerObservation
<1>2. obs'[n] = [obs[n] EXCEPT !.age = Older(obs[n].age, Window(Config[n]))]
  BY DEF Tick
<1>3. /\ obs'[n].age = Older(obs[n].age, Window(Config[n])) /\ obs'[n] \in PeerObservation
      /\ obs'[n].from = obs[n].from /\ obs'[n].state = obs[n].state
  <2>1. Older(obs[n].age, Window(Config[n])) \in Nat
    BY <1>1 DEF Older
  <2> QED
    BY <1>1, <1>2, <2>1 DEF PeerObservation
<1>4. obs'[n] # NoPeer
  BY <1>3, NodeAssumption
<1> QED
  BY <1>1, <1>3, <1>4 DEF Older, PeerObservation

\* No packet of a node that does not run gets into the network.
LEMMA SilentStep ==
  ASSUME TypeOK, NEW m \in Node, ~Running(m), Environment \/ \E x \in Node : Loop(x),
         NEW q \in net', q.from = m
  PROVE  q \in net
<1>1. ASSUME NEW x \in Node, SendAdvertisement(x) PROVE q \in net
  <2>1. x # m
    BY <1>1 DEF SendAdvertisement, WakeUp, Running
  <2> QED
    BY <1>1, <2>1 DEF SendAdvertisement
<1>2. ASSUME NEW x \in Node, Start(x) \/ HealLink(x) \/ CutLink(x) PROVE q \in net
  BY <1>2 DEF Start, HealLink, CutLink, envVars
<1>3. ASSUME NEW p \in net, Lose(p) \/ Unheard(p) PROVE q \in net
  BY <1>3 DEF Lose, Unheard
<1>4. ASSUME NEW x \in Node, NEW r, End(x, r) PROVE q \in net
  BY <1>4 DEF End
<1>5. ASSUME NEW x \in Node, Refresh(x) \/ ReceiveNothing(x) \/ SendFails(x)
      PROVE  q \in net
  BY <1>5 DEF Refresh, ReceiveNothing, SendFails, envVars
<1>6. ASSUME NEW x \in Node, Shutdown(x) \/ FatalError(x) PROVE q \in net
  BY <1>6 DEF Shutdown, FatalError, Exit
<1>7. ASSUME NEW x \in Node, NEW p \in net, Receive(x, p) \/ ReceiveDuplicated(x, p)
      PROVE  q \in net
  BY <1>7 DEF Receive, ReceiveDuplicated
<1> QED
  BY <1>1, <1>2, <1>3, <1>4, <1>5, <1>6, <1>7
     DEF Environment, Loop, Crash, CleanupBeforeExit

Untouched(n) ==
  /\ pc'[n] = pc[n] /\ state'[n] = state[n] /\ obs'[n] = obs[n]
  /\ uptime'[n] = uptime[n] /\ advertIn'[n] = advertIn[n]

\* What a step that is no tick does to a node that goes on running.
LEMMA NodeStep ==
  ASSUME TypeOK, NEW n \in Node, Running(n), Running(n)',
         Environment \/ \E x \in Node : Loop(x)
  PROVE  \/ Untouched(n)
         \/ Refresh(n)
         \/ \E p \in net : HandleReceive(n, p)
         \/ ReceiveNothing(n) \/ SendAdvertisement(n) \/ SendFails(n)
<1>1. ASSUME NEW x \in Node, Start(x) PROVE Untouched(n)
  <2>1. x # n
    BY <1>1 DEF Start, Running
  <2> QED
    BY <1>1, <2>1 DEF Start, Untouched, TypeOK
<1>2. ASSUME NEW x \in Node, HealLink(x) \/ CutLink(x) PROVE Untouched(n)
  BY <1>2 DEF HealLink, CutLink, loopVars, Untouched
<1>3. ASSUME NEW p \in net, Lose(p) \/ Unheard(p) PROVE Untouched(n)
  BY <1>3 DEF Lose, Unheard, loopVars, Untouched
<1>4. ASSUME NEW x \in Node, NEW r, End(x, r) PROVE Untouched(n)
  <2>1. x # n
    BY <1>4 DEF End, Running, TypeOK
  <2> QED
    BY <1>4, <2>1 DEF End, Untouched, TypeOK
<1>5. ASSUME NEW x \in Node \ {n}, Refresh(x) PROVE Untouched(n)
  BY <1>5 DEF Refresh, Untouched, TypeOK
<1>6. ASSUME NEW x \in Node \ {n}, ReceiveNothing(x) \/ SendFails(x) \/ SendAdvertisement(x)
      PROVE  Untouched(n)
  BY <1>6 DEF ReceiveNothing, SendFails, SendAdvertisement, WakeUp, loopVars, Untouched, TypeOK
<1>7. ASSUME NEW x \in Node \ {n}, NEW p \in net, HandleReceive(x, p) PROVE Untouched(n)
  BY <1>7 DEF HandleReceive, WakeUp, Untouched, TypeOK
<1>8. ASSUME NEW x \in Node, Shutdown(x) \/ FatalError(x) PROVE Untouched(n)
  <2>1. x # n
    BY <1>8 DEF Shutdown, FatalError, Exit, Running, TypeOK
  <2> QED
    BY <1>8, <2>1 DEF Shutdown, FatalError, Exit, loopVars, Untouched, TypeOK
<1> QED
  BY <1>1, <1>2, <1>3, <1>4, <1>5, <1>6, <1>7, <1>8
     DEF Environment, Loop, Crash, CleanupBeforeExit, Receive, ReceiveDuplicated
-----------------------------------------------------------------------------
(* An advertisement that is due, and its way to the peer *)

\* How long the packets of m have been due, at most: as long as m has waited since
\* its last advertisement; or, for a packet still in flight, its age and an interval.
Chased(m, gap, wait, packets) ==
  \/ gap + wait <= Config[m].interval
  \/ \E q \in packets : q.from = m /\ gap <= Config[m].interval + q.age

\* The quantities of a chase.
LEMMA ChaseTypes ==
  ASSUME TypeOK, NEW m \in Node
  PROVE  /\ Config[m].interval \in Nat /\ MaxDelay \in Nat
         /\ advertIn[m] \in Nat /\ advertIn[m] <= Config[m].interval
         /\ \A q \in net : q.age \in Nat /\ q.age <= MaxDelay
  BY Settings, EnvironmentAssumption DEF TypeOK, HaPacket

\* A chase can begin at any time.
ChasedNow == \A m \in Node : Chased(m, 0, advertIn[m], net)

\* A chase that begins now, one that ends, and one that goes on.
LEMMA ChaseBegins == TypeOK => ChasedNow
  BY ChaseTypes DEF Chased, ChasedNow

LEMMA ChaseEnds ==
  ASSUME TypeOK, NEW m \in Node, NEW gap \in Nat, Chased(m, gap, advertIn[m], net)
  PROVE  gap <= Round(m)
  BY ChaseTypes DEF Chased, Round

LEMMA ChaseTick ==
  ASSUME TypeOK, Prompt, Tick, NEW m \in Node, Running(m), NEW gap \in Nat, NEW later \in Nat,
         later <= gap + 1, Chased(m, gap, advertIn[m], net)
  PROVE  Chased(m, later, advertIn'[m], net')
<1>1. advertIn[m] # 0 /\ advertIn'[m] = advertIn[m] - 1
  BY PromptTick
<1>2. CASE gap + advertIn[m] <= Config[m].interval
  BY <1>1, <1>2, ChaseTypes DEF Chased
<1>3. ASSUME NEW q \in net, q.from = m, gap <= Config[m].interval + q.age
      PROVE  Chased(m, later, advertIn'[m], net')
  <2> DEFINE q2 == [q EXCEPT !.age = q.age + 1]
  <2>1. q.age \in Nat /\ q2 \in net'
    BY PromptPacket
  <2>2. q2.from = m /\ q2.age = q.age + 1
    BY <1>3 DEF TypeOK, HaPacket
  <2> HIDE DEF q2
  <2>3. later <= Config[m].interval + q2.age
    BY <1>3, <2>1, <2>2, ChaseTypes
  <2> QED
    BY <2>1, <2>2, <2>3 DEF Chased
<1> QED
  BY <1>2, <1>3 DEF Chased

\* A chase that is still on has not lasted longer than a round.
ChaseLimits ==
  \A m \in Node : \A gap \in Nat : Chased(m, gap, advertIn[m], net) => gap <= Round(m)

LEMMA ChaseIsLimited == TypeOK => ChaseLimits
  BY ChaseEnds DEF ChaseLimits

\* What gets into the network is an advertisement sent in this step.
LEMMA NewPacket ==
  ASSUME TypeOK, Environment \/ \E x \in Node : Loop(x), NEW q \in net', q \notin net
  PROVE  \E x \in Node : /\ SendAdvertisement(x)
                         /\ q = [from |-> x, state |-> state[x], age |-> 0]
<1>1. ASSUME NEW x \in Node, Start(x) \/ HealLink(x) \/ CutLink(x) PROVE FALSE
  BY <1>1 DEF Start, HealLink, CutLink, envVars
<1>2. ASSUME NEW p \in net, Lose(p) \/ Unheard(p) PROVE FALSE
  BY <1>2 DEF Lose, Unheard
<1>3. ASSUME NEW x \in Node, NEW r, End(x, r) PROVE FALSE
  BY <1>3 DEF End
<1>4. ASSUME NEW x \in Node, Refresh(x) \/ ReceiveNothing(x) \/ SendFails(x) PROVE FALSE
  BY <1>4 DEF Refresh, ReceiveNothing, SendFails, envVars
<1>5. ASSUME NEW x \in Node, Shutdown(x) \/ FatalError(x) PROVE FALSE
  BY <1>5 DEF Shutdown, FatalError, Exit
<1>6. ASSUME NEW x \in Node, NEW p \in net, Receive(x, p) \/ ReceiveDuplicated(x, p)
      PROVE  FALSE
  BY <1>6 DEF Receive, ReceiveDuplicated
<1>7. ASSUME NEW x \in Node, SendAdvertisement(x)
      PROVE  q = [from |-> x, state |-> state[x], age |-> 0]
  BY <1>7 DEF SendAdvertisement
<1> QED
  BY <1>1, <1>2, <1>3, <1>4, <1>5, <1>6, <1>7
     DEF Environment, Loop, Crash, CleanupBeforeExit

\* Only a start makes a node run.
LEMMA RunsByStart ==
  ASSUME TypeOK, NEW n \in Node, ~Running(n), Running(n)',
         Environment \/ \E x \in Node : Loop(x)
  PROVE  Start(n)
<1>1. pc'[n] # pc[n] /\ pc[n] # "select"
  BY DEF Running
<1>2. ASSUME NEW x \in Node, HealLink(x) \/ CutLink(x) PROVE FALSE
  BY <1>1, <1>2 DEF HealLink, CutLink, loopVars
<1>3. ASSUME NEW p \in net, Lose(p) \/ Unheard(p) PROVE FALSE
  BY <1>1, <1>3 DEF Lose, Unheard
<1>4. ASSUME NEW x \in Node, NEW r, End(x, r) PROVE FALSE
  BY <1>1, <1>4 DEF End, Running, TypeOK
<1>5. ASSUME NEW x \in Node,
             Refresh(x) \/ ReceiveNothing(x) \/ SendFails(x) \/ SendAdvertisement(x)
      PROVE  FALSE
  BY <1>1, <1>5 DEF Refresh, ReceiveNothing, SendFails, SendAdvertisement, WakeUp, Running, TypeOK
<1>6. ASSUME NEW x \in Node, Shutdown(x) \/ FatalError(x) PROVE FALSE
  BY <1>1, <1>6 DEF Shutdown, FatalError, Exit, TypeOK
<1>7. ASSUME NEW x \in Node, NEW p \in net, HandleReceive(x, p) PROVE FALSE
  BY <1>1, <1>7 DEF HandleReceive, WakeUp, TypeOK
<1>8. ASSUME NEW x \in Node, Start(x) PROVE Start(n)
  BY <1>1, <1>8 DEF Start, TypeOK
<1> QED
  BY <1>2, <1>3, <1>4, <1>5, <1>6, <1>7, <1>8
     DEF Environment, Loop, Crash, CleanupBeforeExit, Receive, ReceiveDuplicated
=============================================================================

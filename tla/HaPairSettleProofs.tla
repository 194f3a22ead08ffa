------------------------- MODULE HaPairSettleProofs -------------------------
(***************************************************************************)
(* A lossless pair in order settles on one owner in time, for every        *)
(* configuration of every number of pairs and timers of either node.       *)
(***************************************************************************)
EXTENDS HaPairTimingProofs

(* h is the node that outranks, l its peer *)

Outranking == {h \in Node : Outranks(Config[h], Config[Peer[h]])}

\* What a node observes is its peer.
Heard == \A n \in Node : obs[n] # NoPeer => obs[n].from = Peer[n]

\* When an advertisement is due the one before it is at least a tick old.
Spaced ==
  \A n \in Node : (Running(n) /\ advertIn[n] = 0) => \A q \in net : q.from = n => q.age # 0

\* The node l, outranked, is Active until it decides on a claim and not after, and
\* its claims under way are older than its silence, or younger than what it said before.
Orderly(l) ==
  Running(l) =>
    \A q \in net : (q.from = l /\ q.state = "Active") =>
      /\ state[l] # "Active" => q.age >= Silence(l)
      /\ state[l] = "Active" =>
           \A r \in net : (r.from = l /\ r.state # "Active") => q.age < r.age

YieldsAtOnce(l) ==
  (Running(l) /\ state[l] = "Active" /\ HasLiveActivePeer(l)) => AboutToYield(l)

\* When q arrives, in the order of sending, its receiver knows whether l is Active.
News(l, q) ==
  state[l] = "Active" \/ \A r \in net : (r.from = l /\ r.state = "Active") => r.age > q.age

\* News of l is due, or under way, base ticks after both began to run at the latest.
Telling(l, base) ==
  \/ togetherFor + advertIn[l] <= base + Config[l].interval
  \/ \E q \in net : /\ q.from = l /\ News(l, q)
                    /\ togetherFor <= base + Config[l].interval + q.age

\* What h observes, and will, agrees with what l is.
Informed(h) ==
  LET l == Peer[h]
  IN  /\ obs[h] # NoPeer /\ (togetherFor <= Round(l) => obs[h].age <= togetherFor)
      /\ state[l] = "Active" /\ obs[h].state = "Active" =>
           \A q \in net : q.from = l => q.state = "Active"
      /\ state[l] # "Active" =>
           obs[h].state # "Active" /\ \A q \in net : q.from = l => q.state # "Active"

\* A claim of h is due or under way.
Claiming(h) ==
  LET base == Round(Peer[h])
  IN  \/ state[h] = "Active" /\ togetherFor + advertIn[h] <= base + Config[h].interval
      \/ \E q \in net : /\ q.from = h /\ q.state = "Active"
                        /\ togetherFor <= base + Config[h].interval + q.age

\* By then l has heard the first claim of h, if h makes one.
Contest(h) == Round(Peer[h]) + Round(h)

\* h leaves the VIP to l.
Ceded(h) ==
  LET l == Peer[h]
  IN  /\ state[l] = "Active" /\ state[h] # "Active" /\ obs[h].state = "Active"
      /\ conflict[h] \/ ~Config[h].preempt
      /\ \A q \in net : q.from = h => q.state # "Active"
      /\ ~HasLiveActivePeer(l)

\* l owns the VIP, or has waited so long that it may take it.
MayOwn(l) == state[l] = "Active" \/ Silence(l) > togetherFor

\* Where a pair is, as long as l may own the VIP, and from then on.
Contending(h) ==
  LET l == Peer[h]
  IN  \/ Telling(l, 0)
      \/ Informed(h) /\ \/ pc[h] = "refresh" /\ togetherFor <= Round(l)
                        \/ Claiming(h)
                        \/ state[l] = "Active" /\ AboutToYield(l) /\ togetherFor <= Contest(h)
                        \/ Ceded(h)

Succeeding(h) ==
  LET l == Peer[h]
  IN  \/ Telling(l, Contest(h))
      \/ Informed(h) /\ \/ state[h] = "Active"
                        \/ pc[h] = "refresh" /\ togetherFor <= Contest(h) + Round(l)

Settling(h) == IF MayOwn(Peer[h]) THEN Contending(h) ELSE Succeeding(h)

\* The stop watch can show the end of it.
EndsInTime(h) == Contest(h) + Round(Peer[h]) < Cap

SettleInv ==
  /\ FreshInv /\ Forgotten /\ Heard /\ Spaced
  /\ \A h \in Outranking :
       /\ Orderly(Peer[h]) /\ YieldsAtOnce(Peer[h])
       /\ EndsInTime(h) => Settling(h)

\* A node that outranks its peer, and that peer.
LEMMA SettleParties ==
  ASSUME TypeOK, Paired, NEW h \in Outranking
  PROVE  /\ h \in Node /\ Peer[h] \in Node /\ Peer[h] # h /\ Peer[Peer[h]] = h
         /\ Outranks(Config[h], Config[Peer[h]]) /\ ~Outranks(Config[Peer[h]], Config[h])
<1>1. /\ h \in Node /\ Peer[h] \in Node /\ Peer[h] # h /\ Peer[Peer[h]] = h
      /\ Outranks(Config[h], Config[Peer[h]]) /\ Config[h].id # Config[Peer[h]].id
  BY NodeAssumption DEF Outranking, Paired, Accepts
<1>2. Config[h] \in HaRuntimeConfig /\ Config[Peer[h]] \in HaRuntimeConfig
  BY <1>1, NodeAssumption
<1> QED
  BY <1>1, <1>2, RankIsStrict

LEMMA NextHeard == TypeOK /\ Paired /\ Heard /\ [Next]_vars => Heard'
<1> SUFFICES ASSUME TypeOK, Paired, Heard, [Next]_vars PROVE Heard'
  OBVIOUS
<1>1. CASE UNCHANGED obs
  BY <1>1 DEF Heard
<1>2. ASSUME NEW n \in Node, Start(n) \/ CutLink(n) \/ HealLink(n) PROVE Heard'
  BY <1>1, <1>2 DEF Start, CutLink, HealLink, loopVars
<1>3. ASSUME NEW n \in Node, NEW r, End(n, r) PROVE Heard'
  BY <1>3 DEF End, Heard, TypeOK
<1>4. ASSUME NEW p \in net, Lose(p) \/ Unheard(p) PROVE Heard'
  BY <1>1, <1>4 DEF Lose, Unheard, loopVars
<1>5. ASSUME NEW n \in Node, NEW p \in net, HandleReceive(n, p) PROVE Heard'
  BY <1>5, FromPeer DEF Heard, TypeOK
<1>6. ASSUME NEW n \in Node,
             Refresh(n) \/ ReceiveNothing(n) \/ SendAdvertisement(n) \/ SendFails(n)
      PROVE  Heard'
  BY <1>1, <1>6 DEF Refresh, ReceiveNothing, SendAdvertisement, SendFails, loopVars
<1>7. ASSUME NEW n \in Node, Shutdown(n) \/ FatalError(n) PROVE Heard'
  BY <1>1, <1>7 DEF Shutdown, FatalError, Exit, loopVars
<1>8. CASE Tick
  <2>1. ASSUME NEW n \in Node, obs'[n] # NoPeer PROVE obs'[n].from = Peer[n]
    <3>1. obs[n] # NoPeer
      BY <1>8, <2>1 DEF Tick
    <3> QED
      BY <1>8, <3>1, ObsTick DEF Heard
  <2> QED
    BY <2>1 DEF Heard
<1>9. CASE UNCHANGED vars
  BY <1>1, <1>9 DEF vars
<1> QED
  BY <1>2, <1>3, <1>4, <1>5, <1>6, <1>7, <1>8, <1>9
     DEF Next, Environment, Loop, Crash, CleanupBeforeExit, Receive, ReceiveDuplicated

\* Every new wait for an advertisement is at least a tick.
LEMMA WaitBegins ==
  ASSUME TypeOK, NEW n \in Node, Start(n) \/ SendAdvertisement(n) \/ SendFails(n)
  PROVE  advertIn'[n] # 0
<1>1. \A s \in Nat : NextAdvertDelay(Config[n], s) # 0
  BY NodeAssumption, NextAdvertDelayRange
<1>2. JitterFor(Config[n], sequence[n] + 1) + 1 \in Nat /\ sequence[n] + 1 \in Nat
  BY Settings DEF TypeOK
<1> QED
  BY <1>1, <1>2 DEF Start, SendAdvertisement, SendFails, TypeOK

LEMMA NextSpaced ==
  ASSUME TypeOK, Prompt, Spaced, [Next]_vars
  PROVE  Spaced'
<1> SUFFICES ASSUME NEW n \in Node, Running(n)', advertIn'[n] = 0, NEW q \in net', q.from = n
             PROVE  q.age # 0
  BY DEF Spaced
<1>1. CASE Tick
  <2>1. PICK r \in net : q = [r EXCEPT !.age = Older(r.age, MaxDelay)]
    BY <1>1 DEF Tick
  <2>2. q.age = Older(r.age, MaxDelay) /\ r.age \in Nat /\ r.age + 1 <= MaxDelay /\ MaxDelay \in Nat
    BY <1>1, <2>1, PromptPacket, EnvironmentAssumption DEF TypeOK, HaPacket
  <2> QED
    BY <2>2 DEF Older
<1>2. CASE Environment \/ \E x \in Node : Loop(x)
  <2>1. ~Start(n) /\ ~SendAdvertisement(n) /\ ~SendFails(n)
    BY WaitBegins
  <2>2. Running(n)
    BY <1>2, <2>1, RunsByStart
  <2>3. advertIn[n] = 0
    BY <1>2, <2>1, <2>2, NodeStep DEF Untouched, Refresh, HandleReceive, ReceiveNothing
  <2>4. q \in net
    BY <1>2, <2>1, NewPacket
  <2> QED
    BY <2>2, <2>3, <2>4 DEF Spaced
<1>3. CASE UNCHANGED vars
  BY <1>3 DEF vars, Spaced, Running
<1> QED
  BY <1>1, <1>2, <1>3 DEF Next
-----------------------------------------------------------------------------
(* The decisions of the two *)

LEMMA LowerYields ==
  ASSUME TypeOK, Paired, Heard, NEW h \in Outranking, HasLiveActivePeer(Peer[h])
  PROVE  DesiredState(Peer[h]).state = "Standby"
<1> DEFINE l == Peer[h]
<1>1. l \in Node /\ obs[l].from = h /\ ~Outranks(Config[l], Config[h])
  BY SettleParties DEF Heard, HasLiveActivePeer, LivePeer
<1>2. DesiredState(l) =
        DesiredStateWithActivePeer(Config[l], Config[h], obs[l].becameActive, conflict[l])
  BY <1>1 DEF DesiredState, HasLiveActivePeer
<1> QED
  BY <1>1, <1>2 DEF DesiredStateWithActivePeer, Decision

\* The node that is outranked becomes Active by its own timer only.
LEMMA LowerWaits ==
  ASSUME TypeOK, Paired, Heard, NEW h \in Outranking,
         state[Peer[h]] # "Active", DesiredState(Peer[h]).state = "Active"
  PROVE  Silence(Peer[h]) >= Window(Config[Peer[h]])
<1> DEFINE l == Peer[h]
<1>1. l \in Node /\ ~Outranks(Config[l], Config[h]) /\ (obs[l] # NoPeer => obs[l].from = h)
  BY SettleParties DEF Heard
<1>2. Window(Config[l]) \in Nat /\ uptime[l] \in Nat /\ (obs[l] # NoPeer => obs[l].age \in Nat)
  BY <1>1, Settings DEF TypeOK, PeerObservation
<1>3. ~LivePeer(l)
  <2>1. ~HasLiveActivePeer(l)
    BY LowerYields
  <2>2. ASSUME LivePeer(l) PROVE FALSE
    <3>1. DesiredState(l) = DesiredStateWithPassivePeer(Config[l], state[l], Config[h])
      BY <1>1, <2>1, <2>2 DEF DesiredState, LivePeer, HasLiveActivePeer
    <3> QED
      BY <1>1, <3>1 DEF DesiredStateWithPassivePeer, Decision
  <2> QED
    BY <2>2
<1>4. CASE obs[l] # NoPeer
  BY <1>2, <1>3, <1>4 DEF LivePeer, Silence
<1>5. CASE obs[l] = NoPeer
  <2>1. DesiredState(l) = DesiredStateWithoutLivePeer(Config[l], state[l], FALSE, uptime[l])
    BY <1>3, <1>5 DEF DesiredState
  <2>2. uptime[l] >= Window(Config[l])
    BY <2>1 DEF DesiredStateWithoutLivePeer, Decision
  <2> QED
    BY <1>5, <2>2 DEF Silence
<1> QED
  BY <1>4, <1>5

\* The node that outranks a live peer owns the VIP unless the peer does and it may
\* not, or no longer, take it back.
LEMMA HigherDecides ==
  ASSUME TypeOK, Paired, Heard, NEW h \in Outranking, LivePeer(h)
  PROVE  /\ obs[h].state # "Active" => DesiredState(h).state = "Active"
         /\ DesiredState(h).state # "Active" =>
              \/ DesiredState(h).reason = "PeerBecameActiveConflict"
              \/ ~Config[h].preempt
         /\ (obs[h].state = "Active" /\ (conflict[h] \/ ~Config[h].preempt)) =>
              DesiredState(h).state = "Standby"
<1> DEFINE l == Peer[h]
<1>1. h \in Node /\ obs[h].from = l /\ Outranks(Config[h], Config[l])
  BY SettleParties DEF Heard, LivePeer
<1>2. CASE obs[h].state = "Active"
  <2>1. DesiredState(h) =
          DesiredStateWithActivePeer(Config[h], Config[l], obs[h].becameActive, conflict[h])
    BY <1>1, <1>2 DEF DesiredState
  <2> QED
    BY <1>1, <1>2, <2>1 DEF DesiredStateWithActivePeer, Decision
<1>3. CASE obs[h].state # "Active"
  <2>1. DesiredState(h) = DesiredStateWithPassivePeer(Config[h], state[h], Config[l])
    BY <1>1, <1>3 DEF DesiredState
  <2> QED
    BY <1>1, <1>3, <2>1 DEF DesiredStateWithPassivePeer, Decision
<1> QED
  BY <1>2, <1>3
-----------------------------------------------------------------------------
(* The order of what the outranked node says *)

\* It has no claim under way when it becomes Active: it has been silent too long.
LEMMA PromotesClean ==
  ASSUME TimedTypeOK, Paired, Heard, NEW h \in Outranking, Patient(Peer[h]),
         Orderly(Peer[h]), Refresh(Peer[h]), state[Peer[h]] # "Active", state'[Peer[h]] = "Active"
  PROVE  /\ \A q \in net : q.from = Peer[h] => q.state # "Active"
         /\ Silence(Peer[h]) > Round(h)
<1> DEFINE l == Peer[h]
<1>1. TypeOK /\ h \in Node /\ l \in Node /\ Peer[l] = h
  BY SettleParties DEF TimedTypeOK
<1>2. Running(l) /\ DesiredState(l).state = "Active"
  BY <1>1 DEF Refresh, Running, TypeOK
<1>3. Silence(l) >= Window(Config[l])
  BY <1>1, <1>2, LowerWaits
<1>4. /\ Silence(l) \in Nat /\ Window(Config[l]) \in Nat /\ Round(h) \in Nat /\ MaxDelay \in Nat
      /\ Config[h].interval \in Nat /\ Round(h) = Config[h].interval + MaxDelay
  BY <1>1, KeepQuantities
<1>5. Silence(l) > Round(h)
  BY <1>1, <1>3, <1>4 DEF Patient
<1>6. \A q \in net : q.age \in Nat /\ q.age <= MaxDelay
  BY <1>1, ChaseTypes
<1>7. ASSUME NEW q \in net, q.from = l, q.state = "Active" PROVE FALSE
  <2>1. q.age >= Silence(l)
    BY <1>2, <1>7 DEF Orderly
  <2> QED
    BY <1>4, <1>5, <1>6, <2>1
<1> QED
  BY <1>5, <1>7

LEMMA NextYieldsAtOnce ==
  ASSUME TimedTypeOK, Paired, Prompt, Heard, Forgotten, NEW h \in Outranking,
         YieldsAtOnce(Peer[h]), [Next]_vars
  PROVE  YieldsAtOnce(Peer[h])'
<1> DEFINE l == Peer[h]
<1> SUFFICES ASSUME Running(l)', state'[l] = "Active", HasLiveActivePeer(l)'
             PROVE  AboutToYield(l)'
  BY DEF YieldsAtOnce
<1>1. TypeOK /\ l \in Node
  BY SettleParties DEF TimedTypeOK
<1>2. CASE Tick
  <2>1. Running(l) /\ state[l] = "Active" /\ pc[l] = "select"
    BY <1>1, <1>2, PromptTick DEF Tick, Running
  <2>2. ~HasLiveActivePeer(l)
    BY <2>1 DEF YieldsAtOnce, AboutToYield
  <2>3. obs[l] # NoPeer
    BY <1>1, <1>2 DEF Tick, HasLiveActivePeer, LivePeer
  <2>4. /\ obs'[l].age = Older(obs[l].age, Window(Config[l])) /\ obs'[l].state = obs[l].state
        /\ obs[l].age \in Nat /\ Window(Config[l]) \in Nat
    BY <1>1, <1>2, <2>3, ObsTick, Settings
  <2>5. obs'[l].age < Window(Config[l]) => obs[l].age < Window(Config[l])
    BY <2>4 DEF Older
  <2> QED
    BY <2>2, <2>3, <2>4, <2>5 DEF HasLiveActivePeer, LivePeer
<1>3. CASE Environment \/ \E x \in Node : Loop(x)
  <2>1. Running(l)
    BY <1>1, <1>3, RunsByStart, StartsSilent
  <2>2. CASE Untouched(l)
    BY <2>1, <2>2 DEF Untouched, YieldsAtOnce, HasLiveActivePeer, LivePeer, AboutToYield
  <2>3. CASE Refresh(l)
    <3>1. HasLiveActivePeer(l)
      BY <2>3 DEF Refresh, HasLiveActivePeer, LivePeer
    <3>2. DesiredState(l).state = "Standby"
      BY <1>1, <3>1, LowerYields
    <3> QED
      BY <1>1, <2>3, <3>2 DEF Refresh, TypeOK
  <2>4. ASSUME NEW p \in net, HandleReceive(l, p) PROVE AboutToYield(l)'
    <3>1. /\ obs' = [obs EXCEPT ![l] = Observe(l, p)]
          /\ Observe(l, p).age = 0 /\ Observe(l, p).from = p.from /\ p.from = Peer[l]
      BY <1>1, <2>4, FromPeer
    <3>2. obs'[l] # NoPeer /\ pc'[l] = "refresh"
      BY <1>1, <2>4, HeardPacket
    <3>3. obs'[l] = Observe(l, p)
      BY <1>1, <3>1 DEF TypeOK
    <3> QED
      BY <3>1, <3>2, <3>3 DEF AboutToYield, HasLiveActivePeer
  <2>5. CASE ReceiveNothing(l) \/ SendAdvertisement(l) \/ SendFails(l)
    <3>1. pc[l] = "select" /\ obs' = obs /\ state' = state
      BY <2>5 DEF ReceiveNothing, SendAdvertisement, SendFails, WakeUp, loopVars
    <3>2. HasLiveActivePeer(l) /\ state[l] = "Active"
      BY <3>1 DEF HasLiveActivePeer, LivePeer
    <3> QED
      BY <2>1, <3>1, <3>2 DEF YieldsAtOnce, AboutToYield
  <2> QED
    BY <1>1, <1>3, <2>1, <2>2, <2>3, <2>4, <2>5, NodeStep
<1>4. CASE UNCHANGED vars
  BY <1>4 DEF vars, YieldsAtOnce, HasLiveActivePeer, LivePeer, AboutToYield, Running
<1> QED
  BY <1>2, <1>3, <1>4 DEF Next

\* A step of anyone but time keeps the order of what l says.
LEMMA OrderlyStep ==
  ASSUME TimedTypeOK, TimedTypeOK', Paired, Heard, Forgotten, Spaced, NEW h \in Outranking,
         Patient(Peer[h]), YieldsAtOnce(Peer[h]), Orderly(Peer[h]),
         Environment \/ \E x \in Node : Loop(x)
  PROVE  Orderly(Peer[h])'
<1> DEFINE l == Peer[h]
<1> SUFFICES ASSUME Running(l)', NEW q \in net', q.from = l, q.state = "Active"
             PROVE  /\ state'[l] # "Active" => q.age >= Silence(l)'
                    /\ state'[l] = "Active" =>
                         \A r \in net' : (r.from = l /\ r.state # "Active") => q.age < r.age
  BY DEF Orderly
<1>1. TypeOK /\ TypeOK' /\ l \in Node
  BY SettleParties DEF TimedTypeOK
<1>2. Silence(l) \in Nat /\ Silence(l)' \in Nat
  <2>1. KeepNumbers'
    BY KeepNumbersType, PTL
  <2> QED
    BY <1>1, <2>1, KeepQuantities DEF KeepNumbers
<1>3. q.age \in Nat /\ \A r \in net' : r.age \in Nat
  BY <1>1, EnvironmentAssumption DEF TypeOK, HaPacket
<1>4. CASE ~Running(l)
  <2>1. Silence(l)' = 0 /\ state'[l] = "Init"
    BY <1>1, <1>4, RunsByStart, StartsSilent
  <2> QED
    BY <1>3, <2>1
<1>5. CASE Running(l) /\ Refresh(l)
  <2>1. net' = net /\ Silence(l)' = Silence(l)
    BY <1>5 DEF Refresh, envVars, Silence
  <2>2. CASE state[l] = "Active" /\ state'[l] # "Active"
    <3>1. HasLiveActivePeer(l)
      BY <1>1, <1>5, <2>2, YieldDecision DEF Refresh, TypeOK
    <3>2. Silence(l) = 0
      BY <1>5, <2>2, <3>1 DEF YieldsAtOnce, AboutToYield, Silence
    <3> QED
      BY <1>3, <2>1, <2>2, <3>2
  <2>3. CASE state[l] # "Active" /\ state'[l] = "Active"
    BY <1>5, <2>1, <2>3, PromotesClean
  <2>4. CASE (state[l] = "Active") <=> (state'[l] = "Active")
    BY <1>5, <2>1, <2>4 DEF Orderly
  <2> QED
    BY <2>2, <2>3, <2>4
<1>6. CASE Running(l) /\ ~Refresh(l) /\ ~SendAdvertisement(l)
  <2>1. state'[l] = state[l]
    BY <1>1, <1>6, NodeStep
       DEF Untouched, HandleReceive, ReceiveNothing, SendFails, loopVars
  <2>2. \A r \in net' : r.from = l => r \in net
    BY <1>1, <1>6, NewPacket
  <2>3. Silence(l)' <= Silence(l)
    <3>1. CASE Silence(l)' = Silence(l)
      BY <1>2, <3>1
    <3>2. ASSUME NEW p \in net, HandleReceive(l, p) PROVE Silence(l)' = 0
      BY <1>1, <3>2, HeardPacket
    <3> QED
      BY <1>1, <1>2, <1>6, <3>1, <3>2, SilenceStep
  <2>4. /\ state[l] # "Active" => q.age >= Silence(l)
        /\ state[l] = "Active" =>
             \A r \in net : (r.from = l /\ r.state # "Active") => q.age < r.age
    BY <1>6, <2>2 DEF Orderly
  <2>5. state[l] # "Active" => q.age >= Silence(l)'
    BY <1>2, <1>3, <2>3, <2>4
  <2> QED
    BY <2>1, <2>2, <2>4, <2>5
<1>7. CASE SendAdvertisement(l)
  <2>1. /\ Running(l) /\ advertIn[l] = 0 /\ state' = state /\ Silence(l)' = Silence(l)
        /\ net' \subseteq net \cup {[from |-> l, state |-> state[l], age |-> 0]}
    BY <1>7 DEF SendAdvertisement, WakeUp, Running, Silence
  <2>2. \A r \in net : r.from = l => r.age # 0
    BY <1>1, <2>1 DEF Spaced
  <2>3. CASE q \in net
    BY <2>1, <2>3 DEF Orderly
  <2>4. CASE q \notin net
    <3>1. q.age = 0 /\ state[l] = "Active"
      BY <2>1, <2>4
    <3>2. ASSUME NEW r \in net', r.from = l, r.state # "Active" PROVE r \in net
      BY <2>1, <3>1, <3>2
    <3> QED
      BY <1>3, <2>1, <2>2, <3>1, <3>2
  <2> QED
    BY <2>3, <2>4
<1> QED
  BY <1>4, <1>5, <1>6, <1>7

\* A tick under Prompt: all packets, and what they are made of.
LEMMA PacketsTick ==
  ASSUME TypeOK, Prompt, Tick, NEW q \in net'
  PROVE  \E r \in net : /\ q.from = r.from /\ q.state = r.state
                        /\ q.age = r.age + 1 /\ r.age \in Nat
<1>1. PICK r \in net : q = [r EXCEPT !.age = Older(r.age, MaxDelay)]
  BY DEF Tick
<1>2. q.from = r.from /\ q.age = Older(r.age, MaxDelay) /\ q.state = r.state
  BY <1>1 DEF TypeOK, HaPacket
<1>3. r.age \in Nat /\ r.age + 1 <= MaxDelay /\ MaxDelay \in Nat
  BY PromptPacket, EnvironmentAssumption
<1> QED
  BY <1>2, <1>3 DEF Older

LEMMA OrderlyTick ==
  ASSUME TimedTypeOK, Prompt, NEW l \in Node, Orderly(l), Tick
  PROVE  Orderly(l)'
<1> SUFFICES ASSUME Running(l)', NEW q \in net', q.from = l, q.state = "Active"
             PROVE  /\ state'[l] # "Active" => q.age >= Silence(l)'
                    /\ state'[l] = "Active" =>
                         \A r \in net' : (r.from = l /\ r.state # "Active") => q.age < r.age
  BY DEF Orderly
<1>1. TypeOK /\ Running(l) /\ state' = state
  BY DEF Tick, Running, TimedTypeOK
<1>2. Silence(l) \in Nat /\ Silence(l)' \in Nat /\ Silence(l)' <= Silence(l) + 1
  BY <1>1, KeepQuantities, SilenceTick
<1>3. PICK s \in net : /\ q.from = s.from /\ q.state = s.state
                       /\ q.age = s.age + 1 /\ s.age \in Nat
  BY <1>1, PacketsTick
<1>4. /\ state[l] # "Active" => s.age >= Silence(l)
      /\ state[l] = "Active" =>
           \A r \in net : (r.from = l /\ r.state # "Active") => s.age < r.age
  BY <1>1, <1>3 DEF Orderly
<1>5. state[l] # "Active" => q.age >= Silence(l)'
  BY <1>2, <1>3, <1>4
<1>6. ASSUME state[l] = "Active", NEW r \in net', r.from = l, r.state # "Active"
      PROVE  q.age < r.age
  <2>1. PICK t \in net : /\ r.from = t.from /\ r.state = t.state
                         /\ r.age = t.age + 1 /\ t.age \in Nat
    BY <1>1, PacketsTick
  <2>2. s.age < t.age
    BY <1>4, <1>6, <2>1
  <2> QED
    BY <1>3, <2>1, <2>2
<1> QED
  BY <1>1, <1>5, <1>6
-----------------------------------------------------------------------------
(* A step that is no tick, while both run *)

\* What has run together for a round has been heard within one.
HeardLately ==
  \A n \in Node :
    togetherFor > Round(Peer[n]) =>
      obs[n] # NoPeer /\ obs[n].age <= Round(Peer[n]) /\ Silence(n) <= Round(Peer[n])

LEMMA FreshIsHeard == TimedTypeOK /\ FreshInv => HeardLately
<1> SUFFICES ASSUME TimedTypeOK, FreshInv, NEW n \in Node, togetherFor > Round(Peer[n])
             PROVE  obs[n] # NoPeer /\ obs[n].age <= Round(Peer[n])
  BY DEF HeardLately, Silence
<1> DEFINE m == Peer[n]
<1>1. m \in Node /\ TypeOK
  BY NodeAssumption DEF TimedTypeOK
<1>2. /\ Config[m].interval \in Nat /\ MaxDelay \in Nat /\ togetherFor \in Nat
      /\ advertIn[m] \in Nat /\ advertIn[m] <= Config[m].interval
      /\ \A q \in net : q.age \in Nat /\ q.age <= MaxDelay
  BY <1>1, ChaseTypes, CapAssumption DEF TimedTypeOK
<1>3. obs[n] # NoPeer => obs[n].age \in Nat
  BY <1>1 DEF TypeOK, PeerObservation
<1>4. Fresh(n)
  BY DEF FreshInv
<1> HIDE DEF m
<1> QED
  BY <1>2, <1>3, <1>4 DEF Fresh, HeardWithin, Round, m

\* The numbers of a pair.
LEMMA SettleNumbers ==
  ASSUME TimedTypeOK, Paired, NEW h \in Outranking
  PROVE  /\ togetherFor \in Nat /\ MaxDelay \in Nat /\ Cap \in Nat
         /\ Config[h].interval \in Nat /\ Config[Peer[h]].interval \in Nat
         /\ Round(h) = Config[h].interval + MaxDelay
         /\ Round(Peer[h]) = Config[Peer[h]].interval + MaxDelay
         /\ Contest(h) = Round(Peer[h]) + Round(h)
         /\ advertIn[h] \in Nat /\ advertIn[h] <= Config[h].interval
         /\ advertIn[Peer[h]] \in Nat /\ advertIn[Peer[h]] <= Config[Peer[h]].interval
         /\ Silence(Peer[h]) \in Nat
         /\ \A q \in net : q.age \in Nat /\ q.age <= MaxDelay
<1>1. TypeOK /\ h \in Node /\ Peer[h] \in Node
  BY SettleParties DEF TimedTypeOK
<1> QED
  BY <1>1, ChaseTypes, KeepQuantities, CapAssumption DEF TimedTypeOK, Contest, Round

SettleStep(h) ==
  LET l == Peer[h]
  IN  /\ TimedTypeOK /\ TimedTypeOK' /\ Paired /\ Lossless /\ Fifo /\ FreshInv /\ Heard
      /\ Spaced /\ Orderly(l) /\ YieldsAtOnce(l) /\ Patient(h) /\ Patient(l)
      /\ togetherFor' = togetherFor /\ Running(h) /\ Running(l)

LEMMA SettleFacts ==
  ASSUME NEW h \in Outranking, SettleStep(h)
  PROVE  /\ h \in Node /\ Peer[h] \in Node /\ Peer[h] # h /\ Peer[Peer[h]] = h
         /\ TimedTypeOK /\ TypeOK /\ Paired /\ Uncut /\ Heard
         /\ togetherFor' = togetherFor /\ togetherFor \in Nat
         /\ HeardLately
<1>1. TimedTypeOK /\ TypeOK /\ Paired /\ Uncut /\ Heard /\ HeardLately
  BY FreshIsHeard DEF SettleStep, TimedTypeOK, FreshInv
<1> QED
  BY <1>1, SettleParties, SettleNumbers DEF SettleStep

LEMMA InformedIsLive ==
  ASSUME NEW h \in Outranking, SettleStep(h), Informed(h)
  PROVE  LivePeer(h)
<1> USE SettleFacts
<1>1. obs[h] # NoPeer /\ obs[h].age \in Nat
  BY DEF Informed, TypeOK, PeerObservation
<1>2. Round(Peer[h]) \in Nat /\ Window(Config[h]) \in Nat /\ Window(Config[h]) > Round(Peer[h])
  BY KeepQuantities DEF SettleStep, Patient
<1>3. obs[h].age <= Round(Peer[h])
  <2>1. CASE togetherFor <= Round(Peer[h])
    BY <1>1, <1>2, <2>1 DEF Informed
  <2>2. CASE togetherFor > Round(Peer[h])
    BY <2>2 DEF HeardLately
  <2> QED
    BY <1>2, <2>1, <2>2
<1> QED
  BY <1>1, <1>2, <1>3 DEF LivePeer

\* What is told, or known, of l stays so unless l, its packets or h's observation change.
LEMMA TellingKept ==
  ASSUME NEW l \in Node, NEW base \in Nat, Telling(l, base),
         togetherFor' = togetherFor, advertIn'[l] = advertIn[l],
         \A q \in net : q.from = l => q \in net',
         \A q \in net' : q.from = l => q \in net,
         state[l] = "Active" => state'[l] = "Active"
  PROVE  Telling(l, base)'
  BY DEF Telling, News

LEMMA InformedKept ==
  ASSUME NEW h \in Node, Informed(h), togetherFor' = togetherFor, obs'[h] = obs[h],
         \A q \in net' : q.from = Peer[h] => q \in net, state'[Peer[h]] = state[Peer[h]]
  PROVE  Informed(h)'
  BY DEF Informed, Round

\* News of l is always within a round of l; a contest is over at its end.
LEMMA ContendingEnds ==
  ASSUME NEW h \in Outranking, SettleStep(h), Contending(h)
  PROVE  togetherFor <= Contest(h) \/ (Informed(h) /\ Ceded(h))
<1> USE SettleFacts, SettleNumbers
<1> DEFINE l == Peer[h]
<1>1. CASE Telling(l, 0)
  BY <1>1 DEF Telling
<1>2. CASE Claiming(h)
  BY <1>2 DEF Claiming
<1> QED
  BY <1>1, <1>2 DEF Contending

\* The settling of a pair after a step, with nothing primed that does not change.
LEMMA SettlingNext ==
  ASSUME NEW h \in Outranking, SettleStep(h)
  PROVE  /\ MayOwn(Peer[h])' <=>
              (state'[Peer[h]] = "Active" \/ Silence(Peer[h])' > togetherFor)
         /\ Contending(h)' <=>
              \/ Telling(Peer[h], 0)'
              \/ Informed(h)' /\ \/ pc'[h] = "refresh" /\ togetherFor <= Round(Peer[h])
                                 \/ Claiming(h)'
                                 \/ /\ state'[Peer[h]] = "Active" /\ AboutToYield(Peer[h])'
                                    /\ togetherFor <= Contest(h)
                                 \/ Ceded(h)'
         /\ Succeeding(h)' <=>
              \/ Telling(Peer[h], Contest(h))'
              \/ Informed(h)' /\ \/ state'[h] = "Active"
                                 \/ /\ pc'[h] = "refresh"
                                    /\ togetherFor <= Contest(h) + Round(Peer[h])
         /\ Settling(h)' <=> IF MayOwn(Peer[h])' THEN Contending(h)' ELSE Succeeding(h)'
  BY SettleFacts DEF MayOwn, Contending, Succeeding, Settling, Contest, Round

\* h decides.
LEMMA HigherRefreshes ==
  ASSUME NEW h \in Outranking, SettleStep(h), Settling(h), Refresh(h)
  PROVE  Settling(h)'
<1> DEFINE l == Peer[h]
<1> USE SettleFacts, SettleNumbers
<1>1. /\ UNCHANGED <<obs, uptime, advertIn, net>> /\ state'[l] = state[l] /\ pc'[l] = pc[l]
      /\ state'[h] = DesiredState(h).state
      /\ conflict'[h] = (\/ DesiredState(h).reason = "PeerBecameActiveConflict"
                         \/ conflict[h] /\ HasLiveActivePeer(h))
  BY DEF Refresh, envVars, TypeOK
<1>2. /\ Silence(l)' = Silence(l) /\ HasLiveActivePeer(l)' = HasLiveActivePeer(l)
      /\ AboutToYield(l) => AboutToYield(l)'
  BY <1>1 DEF Silence, HasLiveActivePeer, LivePeer, AboutToYield
<1>3. Informed(h) => Informed(h)' /\ LivePeer(h)
  BY <1>1, InformedKept, InformedIsLive
<1>4. CASE MayOwn(l)
  <2> SUFFICES Contending(h)'
    BY <1>1, <1>2, <1>4, SettlingNext DEF MayOwn
  <2>1. CASE Telling(l, 0)
    BY <1>1, <2>1, TellingKept, SettlingNext
  <2>2. ASSUME Informed(h), togetherFor + advertIn[h] <= Round(l) + Config[h].interval
        PROVE  Contending(h)'
    <3>1. CASE state'[h] = "Active"
      <4>1. Claiming(h)'
        BY <1>1, <2>2, <3>1 DEF Claiming, Round
      <4> QED
        BY <1>3, <2>2, <4>1, SettlingNext
    <3>2. CASE state'[h] # "Active"
      <4>1. /\ obs[h].state = "Active"
            /\ DesiredState(h).reason = "PeerBecameActiveConflict" \/ ~Config[h].preempt
        BY <1>1, <1>3, <2>2, <3>2, HigherDecides
      <4>2. state[l] = "Active"
        BY <2>2, <4>1 DEF Informed
      <4>3. ASSUME NEW q \in net, q.from = h, q.state = "Active" PROVE Contending(h)'
        <5>1. togetherFor <= Round(l) + Config[h].interval + q.age
          BY <2>2
        <5>2. Claiming(h)'
          BY <1>1, <4>3, <5>1 DEF Claiming, Round
        <5> QED
          BY <1>3, <2>2, <5>2, SettlingNext
      <4>4. CASE HasLiveActivePeer(l)
        <5>1. AboutToYield(l)
          BY <4>2, <4>4 DEF SettleStep, YieldsAtOnce
        <5>2. togetherFor <= Contest(h)
          BY <2>2
        <5> QED
          BY <1>1, <1>2, <1>3, <2>2, <4>2, <5>1, <5>2, SettlingNext
      <4>5. CASE ~HasLiveActivePeer(l) /\ \A q \in net : q.from = h => q.state # "Active"
        <5>1. Ceded(h)'
          BY <1>1, <1>2, <3>2, <4>1, <4>2, <4>5 DEF Ceded
        <5> QED
          BY <1>3, <2>2, <5>1, SettlingNext
      <4> QED
        BY <4>3, <4>4, <4>5
    <3> QED
      BY <3>1, <3>2
  <2>3. ASSUME Informed(h), NEW q \in net, q.from = h, q.state = "Active",
               togetherFor <= Round(l) + Config[h].interval + q.age
        PROVE  Contending(h)'
    <3>1. Claiming(h)'
      BY <1>1, <2>3 DEF Claiming, Round
    <3> QED
      BY <1>3, <2>3, <3>1, SettlingNext
  <2>4. CASE Informed(h) /\ state[l] = "Active" /\ AboutToYield(l) /\ togetherFor <= Contest(h)
    BY <1>1, <1>2, <1>3, <2>4, SettlingNext
  <2>5. CASE Informed(h) /\ Ceded(h)
    <3>1. LivePeer(h) /\ obs[h].state = "Active" /\ (conflict[h] \/ ~Config[h].preempt)
      BY <1>3, <2>5 DEF Ceded
    <3>2. DesiredState(h).state = "Standby"
      BY <3>1, HigherDecides
    <3>3. Ceded(h)'
      BY <1>1, <1>2, <2>5, <3>1, <3>2 DEF Ceded, HasLiveActivePeer
    <3> QED
      BY <1>3, <2>5, <3>3, SettlingNext
  <2>6. CASE Informed(h) /\ pc[h] = "refresh" /\ togetherFor <= Round(l)
    BY <2>2, <2>6
  <2> QED
    BY <1>4, <2>1, <2>2, <2>3, <2>4, <2>5, <2>6 DEF Settling, Contending, Claiming
<1>5. CASE ~MayOwn(l)
  <2> SUFFICES Succeeding(h)'
    BY <1>1, <1>2, <1>5, SettlingNext DEF MayOwn
  <2>1. CASE Telling(l, Contest(h))
    <3>1. Contest(h) \in Nat
      OBVIOUS
    <3>2. Telling(l, Contest(h))'
      BY <1>1, <2>1, <3>1 DEF Telling, News, Contest, Round
    <3> QED
      BY <3>2, SettlingNext
  <2>2. CASE Informed(h)
    <3>1. LivePeer(h) /\ obs[h].state # "Active"
      BY <1>3, <1>5, <2>2 DEF Informed, MayOwn
    <3>2. state'[h] = "Active"
      BY <1>1, <3>1, HigherDecides
    <3> QED
      BY <1>3, <2>2, <3>2, SettlingNext
  <2> QED
    BY <1>5, <2>1, <2>2 DEF Settling, Succeeding
<1> QED
  BY <1>4, <1>5

\* l decides: it yields, it takes the VIP by its own timer, or it goes on.
LEMMA LowerRefreshes ==
  ASSUME NEW h \in Outranking, SettleStep(h), Settling(h), Refresh(Peer[h])
  PROVE  Settling(h)'
<1> DEFINE l == Peer[h]
<1> USE SettleFacts, SettleNumbers
<1>1. /\ UNCHANGED <<obs, uptime, advertIn, net>> /\ state'[h] = state[h] /\ pc'[h] = pc[h]
      /\ conflict'[h] = conflict[h] /\ state'[l] = DesiredState(l).state
  BY DEF Refresh, envVars, TypeOK
<1>2. Silence(l)' = Silence(l) /\ HasLiveActivePeer(l)' = HasLiveActivePeer(l)
  BY <1>1 DEF Silence, HasLiveActivePeer, LivePeer
<1>3. Claiming(h) => Claiming(h)'
  BY <1>1 DEF Claiming, Round
<1>4. CASE state[l] = "Active" /\ state'[l] # "Active"
  <2>1. HasLiveActivePeer(l)
    BY <1>1, <1>4, YieldDecision
  <2>2. AboutToYield(l)
    BY <1>4, <2>1 DEF SettleStep, YieldsAtOnce
  <2>3. Silence(l)' = 0
    BY <1>2, <2>2 DEF AboutToYield, Silence
  <2>4. ~MayOwn(l)'
    BY <1>4, <2>3, SettlingNext
  <2>5. togetherFor <= Contest(h)
    BY <1>4, <2>1, ContendingEnds DEF Settling, MayOwn, Ceded
  <2>6. Telling(l, Contest(h))'
    BY <1>1, <2>5 DEF Telling, Contest, Round
  <2> QED
    BY <2>4, <2>6, SettlingNext
<1>5. CASE state[l] # "Active" /\ state'[l] = "Active"
  <2>1. Silence(l) > Round(h)
    BY <1>5, PromotesClean DEF SettleStep
  <2>2. togetherFor <= Round(h) /\ MayOwn(l)
    BY <2>1 DEF HeardLately, MayOwn
  <2>3. CASE Telling(l, 0)
    BY <1>1, <1>5, <2>3, TellingKept, SettlingNext
  <2>4. CASE Informed(h)
    <3>1. Informed(h)'
      BY <1>1, <1>5, <2>4 DEF Informed, Round
    <3>2. Claiming(h) \/ (pc[h] = "refresh" /\ togetherFor <= Round(l)) \/ Telling(l, 0)
      BY <1>5, <2>2 DEF Settling, Contending, Ceded
    <3> QED
      BY <1>1, <1>3, <1>5, <2>3, <3>1, <3>2, SettlingNext
  <2> QED
    BY <1>5, <2>2, <2>3, <2>4, SettlingNext DEF Settling, Contending
<1>6. CASE (state[l] = "Active") <=> (state'[l] = "Active")
  <2>1. MayOwn(l)' <=> MayOwn(l)
    BY <1>2, <1>6, SettlingNext DEF MayOwn
  <2>2. Informed(h) => Informed(h)'
    BY <1>1, <1>6 DEF Informed, Round
  <2>3. ~(state[l] = "Active" /\ AboutToYield(l))
    BY <1>1, <1>6, YieldsToHigher, SettleParties
  <2>4. Ceded(h) => Ceded(h)'
    BY <1>1, <1>2, <1>6 DEF Ceded
  <2>5. Telling(l, 0) => Telling(l, 0)'
    BY <1>1, <1>6, TellingKept
  <2>6. Telling(l, Contest(h)) => Telling(l, Contest(h))'
    BY <1>1, <1>6 DEF Telling, News, Contest, Round
  <2> QED
    BY <1>1, <1>3, <2>1, <2>2, <2>3, <2>4, <2>5, <2>6, SettlingNext
       DEF Settling, Contending, Succeeding
<1> QED
  BY <1>4, <1>5, <1>6

\* A packet of l arrives.
LEMMA HigherReceives ==
  ASSUME NEW h \in Outranking, SettleStep(h), Settling(h),
         NEW p \in net, HandleReceive(h, p), net' \in {net, net \ {p}}
  PROVE  Settling(h)'
<1> DEFINE l == Peer[h]
<1> USE SettleFacts, SettleNumbers
<1>1. /\ p.from = l /\ obs'[h] # NoPeer /\ obs'[h].state = p.state /\ obs'[h].age = 0
      /\ pc[h] = "select" /\ pc'[h] = "refresh" /\ obs'[l] = obs[l] /\ pc'[l] = pc[l]
      /\ UNCHANGED <<state, conflict, uptime, advertIn>>
  <2>1. /\ p.from = l /\ obs' = [obs EXCEPT ![h] = Observe(h, p)]
        /\ Observe(h, p) # NoPeer /\ Observe(h, p).age = 0 /\ Observe(h, p).state = p.state
    BY FromPeer
  <2> QED
    BY <2>1 DEF HandleReceive, WakeUp, TypeOK
<1>2. /\ Silence(l)' = Silence(l) /\ HasLiveActivePeer(l)' = HasLiveActivePeer(l)
      /\ AboutToYield(l) => AboutToYield(l)'
  BY <1>1 DEF Silence, HasLiveActivePeer, LivePeer, AboutToYield
<1>3. \A q \in net : q.from = l => q.age <= p.age
  BY <1>1 DEF HandleReceive, Oldest, SettleStep
<1>4. \A q \in net' : q \in net
  OBVIOUS
<1>5. ASSUME News(l, p) PROVE Informed(h)'
  <2>1. obs'[h] # NoPeer /\ (togetherFor <= Round(l) => obs'[h].age <= togetherFor)
    BY <1>1
  <2>2. CASE state[l] = "Active"
    <3>1. ASSUME p.state = "Active", NEW q \in net, q.from = l, q.state # "Active" PROVE FALSE
      <4>1. p.age < q.age
        BY <1>1, <2>2, <3>1 DEF SettleStep, Orderly
      <4> QED
        BY <1>3, <3>1, <4>1
    <3> QED
      BY <1>1, <1>4, <2>1, <2>2, <3>1 DEF Informed, Round
  <2>3. CASE state[l] # "Active"
    <3>1. ASSUME NEW q \in net, q.from = l, q.state = "Active" PROVE FALSE
      <4>1. q.age > p.age
        BY <1>5, <2>3, <3>1 DEF News
      <4> QED
        BY <1>3, <3>1, <4>1
    <3> QED
      BY <1>1, <1>4, <2>1, <2>3, <3>1 DEF Informed, Round
  <2> QED
    BY <2>2, <2>3
<1>6. Informed(h) => Informed(h)'
  BY <1>5 DEF Informed, News
<1>7. ASSUME NEW base \in Nat, Telling(l, base)
      PROVE  Telling(l, base)' \/ (Informed(h)' /\ togetherFor <= base + Round(l))
  <2>1. CASE togetherFor + advertIn[l] <= base + Config[l].interval
    BY <1>1, <2>1 DEF Telling
  <2>2. ASSUME NEW q \in net, q.from = l, News(l, q),
               togetherFor <= base + Config[l].interval + q.age
        PROVE  Telling(l, base)' \/ (Informed(h)' /\ togetherFor <= base + Round(l))
    <3>1. CASE q \in net'
      BY <1>1, <1>4, <2>2, <3>1 DEF Telling, News
    <3>2. CASE q \notin net'
      <4>1. q = p
        BY <3>2
      <4> QED
        BY <1>5, <2>2, <4>1
    <3> QED
      BY <3>1, <3>2
  <2> QED
    BY <1>7, <2>1, <2>2 DEF Telling
<1>8. Claiming(h) => Claiming(h)'
  <2>1. \A q \in net : q.from = h => q \in net'
    BY <1>1
  <2> QED
    BY <1>1, <2>1 DEF Claiming, Round
<1>9. MayOwn(l)' <=> MayOwn(l)
  BY <1>1, <1>2, SettlingNext DEF MayOwn
<1>10. CASE MayOwn(l)
  <2>1. Telling(l, 0) => Contending(h)'
    <3>1. Telling(l, 0) => Telling(l, 0)' \/ (Informed(h)' /\ togetherFor <= 0 + Round(l))
      BY <1>7
    <3> QED
      BY <1>1, <3>1, SettlingNext
  <2>2. Informed(h) /\ Ceded(h) => Ceded(h)'
    <3>1. Informed(h) /\ Ceded(h) => p.state = "Active"
      BY <1>1 DEF Informed, Ceded
    <3> QED
      BY <1>1, <1>2, <1>4, <3>1 DEF Ceded
  <2> QED
    BY <1>1, <1>2, <1>6, <1>8, <1>9, <1>10, <2>1, <2>2, SettlingNext DEF Settling, Contending
<1>11. CASE ~MayOwn(l)
  <2>1. Telling(l, Contest(h)) => Succeeding(h)'
    <3> DEFINE base == Contest(h)
    <3>1. base \in Nat
      OBVIOUS
    <3> HIDE DEF base
    <3>2. Telling(l, base) => Telling(l, base)' \/ (Informed(h)' /\ togetherFor <= base + Round(l))
      BY <1>7, <3>1
    <3> QED
      BY <1>1, <3>2, SettlingNext DEF base
  <2> QED
    BY <1>1, <1>6, <1>9, <1>11, <2>1, SettlingNext DEF Settling, Succeeding
<1> QED
  BY <1>10, <1>11

\* A packet of h arrives.
LEMMA LowerReceives ==
  ASSUME NEW h \in Outranking, SettleStep(h), Settling(h),
         NEW p \in net, HandleReceive(Peer[h], p), net' \in {net, net \ {p}}
  PROVE  Settling(h)'
<1> DEFINE l == Peer[h]
<1> USE SettleFacts, SettleNumbers
<1>1. /\ p.from = h /\ Silence(l)' = 0 /\ obs'[l] # NoPeer /\ obs'[l].state = p.state
      /\ obs'[l].age = 0 /\ obs'[l].from = h
      /\ pc[l] = "select" /\ pc'[l] = "refresh" /\ obs'[h] = obs[h] /\ pc'[h] = pc[h]
      /\ UNCHANGED <<state, conflict, advertIn>>
  <2>1. /\ p.from = Peer[l] /\ obs' = [obs EXCEPT ![l] = Observe(l, p)]
        /\ Observe(l, p) # NoPeer /\ Observe(l, p).age = 0 /\ Observe(l, p).state = p.state
        /\ Observe(l, p).from = p.from
    BY FromPeer
  <2> QED
    BY <2>1 DEF HandleReceive, WakeUp, TypeOK, Silence
<1>2. /\ \A q \in net : q.from = l => q \in net'
      /\ \A q \in net' : q \in net
  BY <1>1
<1>3. Informed(h) => Informed(h)'
  BY <1>1, <1>2, InformedKept
<1>4. CASE state[l] = "Active"
  <2>1. MayOwn(l) /\ MayOwn(l)'
    BY <1>1, <1>4, SettlingNext DEF MayOwn
  <2>2. Telling(l, 0) => Telling(l, 0)'
    BY <1>1, <1>2, TellingKept
  <2>3. ASSUME Informed(h), Claiming(h) PROVE Contending(h)'
    <3>1. CASE state[h] = "Active" /\ togetherFor + advertIn[h] <= Round(l) + Config[h].interval
      <4>1. Claiming(h)'
        BY <1>1, <3>1 DEF Claiming, Round
      <4> QED
        BY <1>3, <2>3, <4>1, SettlingNext
    <3>2. ASSUME NEW q \in net, q.from = h, q.state = "Active",
                 togetherFor <= Round(l) + Config[h].interval + q.age
          PROVE  Contending(h)'
      <4>1. CASE q \in net'
        <5>1. Claiming(h)'
          BY <3>2, <4>1 DEF Claiming, Round
        <5> QED
          BY <1>3, <2>3, <5>1, SettlingNext
      <4>2. CASE q \notin net'
        <5>1. q = p
          BY <4>2
        <5>2. AboutToYield(l)'
          BY <1>1, <3>2, <5>1 DEF AboutToYield
        <5>3. togetherFor <= Contest(h)
          BY <3>2
        <5> QED
          BY <1>1, <1>3, <1>4, <2>3, <5>2, <5>3, SettlingNext
      <4> QED
        BY <4>1, <4>2
    <3> QED
      BY <2>3, <3>1, <3>2 DEF Claiming
  <2>4. ~AboutToYield(l)
    BY <1>1 DEF AboutToYield
  <2>5. Ceded(h) => Ceded(h)'
    BY <1>1, <1>2 DEF Ceded, HasLiveActivePeer
  <2> QED
    BY <1>1, <1>3, <2>1, <2>2, <2>3, <2>4, <2>5, SettlingNext DEF Settling, Contending
<1>5. CASE state[l] # "Active"
  <2>1. ~MayOwn(l)'
    BY <1>1, <1>5, SettlingNext
  <2>2. CASE MayOwn(l)
    <3>1. togetherFor <= Round(h)
      BY <1>5, <2>2 DEF MayOwn, HeardLately
    <3>2. Telling(l, Contest(h))'
      BY <1>1, <3>1 DEF Telling, Contest, Round
    <3> QED
      BY <2>1, <3>2, SettlingNext
  <2>3. CASE ~MayOwn(l)
    <3>1. Telling(l, Contest(h)) => Telling(l, Contest(h))'
      BY <1>1, <1>2 DEF Telling, News, Contest, Round
    <3> QED
      BY <1>1, <1>3, <2>1, <2>3, <3>1, SettlingNext DEF Settling, Succeeding
  <2> QED
    BY <2>2, <2>3
<1> QED
  BY <1>4, <1>5

\* An error or a foreign datagram wakes one of the two up.
LEMMA EitherWakes ==
  ASSUME NEW h \in Outranking, SettleStep(h), Settling(h),
         NEW x \in Node, ReceiveNothing(x)
  PROVE  Settling(h)'
<1> DEFINE l == Peer[h]
<1> USE SettleFacts, SettleNumbers
<1>1. /\ UNCHANGED <<state, conflict, obs, uptime, advertIn, net>>
      /\ pc[h] = "refresh" => pc'[h] = "refresh"
      /\ pc[l] = "refresh" => pc'[l] = "refresh"
  BY DEF ReceiveNothing, WakeUp, loopVars, envVars, TypeOK
<1>2. /\ Silence(l)' = Silence(l) /\ HasLiveActivePeer(l)' = HasLiveActivePeer(l)
      /\ AboutToYield(l) => AboutToYield(l)'
      /\ Claiming(h) => Claiming(h)'
      /\ Ceded(h) => Ceded(h)'
  BY <1>1 DEF Silence, HasLiveActivePeer, LivePeer, AboutToYield, Claiming, Ceded, Round
<1>3. Informed(h) => Informed(h)'
  BY <1>1, InformedKept
<1>4. Telling(l, 0) => Telling(l, 0)'
  BY <1>1, TellingKept
<1>5. Telling(l, Contest(h)) => Telling(l, Contest(h))'
  BY <1>1 DEF Telling, News, Contest, Round
<1>6. MayOwn(l)' <=> MayOwn(l)
  BY <1>1, <1>2, SettlingNext DEF MayOwn
<1> QED
  BY <1>1, <1>2, <1>3, <1>4, <1>5, <1>6, SettlingNext DEF Settling, Contending, Succeeding

\* h advertises.
LEMMA HigherSends ==
  ASSUME NEW h \in Outranking, SettleStep(h), Settling(h), SendAdvertisement(h)
  PROVE  Settling(h)'
<1> DEFINE l == Peer[h]
           sent == [from |-> h, state |-> state[h], age |-> 0]
<1> USE SettleFacts, SettleNumbers
<1>1. /\ UNCHANGED <<state, conflict, obs, uptime>> /\ net' = net \cup {sent}
      /\ advertIn[h] = 0 /\ advertIn'[l] = advertIn[l] /\ pc'[l] = pc[l] /\ pc'[h] = "refresh"
  BY DEF SendAdvertisement, WakeUp, TypeOK, Uncut
<1>2. sent.from = h /\ sent.state = state[h] /\ sent.age = 0
  OBVIOUS
<1> HIDE DEF sent
<1>3. /\ \A q \in net : q.from = l => q \in net'
      /\ \A q \in net' : q.from = l => q \in net
  BY <1>1, <1>2
<1>4. /\ Silence(l)' = Silence(l) /\ HasLiveActivePeer(l)' = HasLiveActivePeer(l)
      /\ AboutToYield(l) => AboutToYield(l)'
  BY <1>1 DEF Silence, HasLiveActivePeer, LivePeer, AboutToYield
<1>5. Informed(h) => Informed(h)'
  BY <1>1, <1>3, InformedKept
<1>6. Telling(l, 0) => Telling(l, 0)'
  BY <1>1, <1>3, TellingKept
<1>7. Telling(l, Contest(h)) => Telling(l, Contest(h))'
  BY <1>1, <1>3 DEF Telling, News, Contest, Round
<1>8. Claiming(h) => Claiming(h)'
  <2>1. CASE state[h] = "Active" /\ togetherFor + advertIn[h] <= Round(l) + Config[h].interval
    <3>1. togetherFor <= Round(l) + Config[h].interval + sent.age
      BY <1>1, <1>2, <2>1
    <3> QED
      BY <1>1, <1>2, <2>1, <3>1 DEF Claiming, Round
  <2>2. ASSUME NEW q \in net, q.from = h, q.state = "Active",
               togetherFor <= Round(l) + Config[h].interval + q.age
        PROVE  Claiming(h)'
    BY <1>1, <2>2 DEF Claiming, Round
  <2> QED
    BY <2>1, <2>2 DEF Claiming
<1>9. Ceded(h) => Ceded(h)'
  BY <1>1, <1>2, <1>4 DEF Ceded
<1>10. MayOwn(l)' <=> MayOwn(l)
  BY <1>1, <1>4, SettlingNext DEF MayOwn
<1> QED
  BY <1>1, <1>4, <1>5, <1>6, <1>7, <1>8, <1>9, <1>10, SettlingNext
     DEF Settling, Contending, Succeeding

\* l advertises: what was due is news.
LEMMA LowerSends ==
  ASSUME NEW h \in Outranking, SettleStep(h), Settling(h), SendAdvertisement(Peer[h])
  PROVE  Settling(h)'
<1> DEFINE l == Peer[h]
<1> USE SettleFacts, SettleNumbers
<1>0. PICK sent : sent = [from |-> l, state |-> state[l], age |-> 0]
  OBVIOUS
<1>1. /\ UNCHANGED <<state, conflict, obs, uptime>> /\ net' = net \cup {sent}
      /\ advertIn[l] = 0 /\ advertIn'[h] = advertIn[h] /\ pc'[h] = pc[h]
      /\ pc[l] = "select" /\ pc'[l] = "refresh"
  BY <1>0 DEF SendAdvertisement, WakeUp, TypeOK, Uncut
<1>2. sent.from = l /\ sent.state = state[l] /\ sent.age = 0
  BY <1>0
<1>3. Silence(l)' = Silence(l) /\ HasLiveActivePeer(l)' = HasLiveActivePeer(l)
  BY <1>1 DEF Silence, HasLiveActivePeer, LivePeer
<1>4. Informed(h) => Informed(h)'
  BY <1>1, <1>2 DEF Informed, Round
<1>5. News(l, sent)'
  <2>1. \A r \in net : r.from = l => r.age > 0
    BY <1>1 DEF SettleStep, Spaced
  <2> QED
    BY <1>1, <1>2, <2>1 DEF News
<1>6. \A q \in net : News(l, q) => News(l, q)'
  BY <1>1, <1>2 DEF News
<1>7. ASSUME NEW base \in Nat, Telling(l, base) PROVE Telling(l, base)'
  <2>1. CASE togetherFor + advertIn[l] <= base + Config[l].interval
    <3>1. togetherFor <= base + Config[l].interval + sent.age
      BY <1>1, <1>2, <2>1
    <3> QED
      BY <1>1, <1>2, <1>5, <3>1 DEF Telling
  <2>2. ASSUME NEW q \in net, q.from = l, News(l, q),
               togetherFor <= base + Config[l].interval + q.age
        PROVE  Telling(l, base)'
    BY <1>1, <1>6, <2>2 DEF Telling
  <2> QED
    BY <1>7, <2>1, <2>2 DEF Telling
<1>8. Telling(l, Contest(h)) => Telling(l, Contest(h))'
  <2> DEFINE base == Contest(h)
  <2>1. base \in Nat
    OBVIOUS
  <2> HIDE DEF base
  <2>2. Telling(l, base) => Telling(l, base)'
    BY <1>7, <2>1
  <2> QED
    BY <2>2 DEF base
<1>9. /\ Claiming(h) => Claiming(h)'
      /\ Ceded(h) => Ceded(h)'
      /\ ~AboutToYield(l)
  BY <1>1, <1>2, <1>3 DEF Claiming, Ceded, AboutToYield, Round
<1>10. MayOwn(l)' <=> MayOwn(l)
  BY <1>1, <1>3, SettlingNext DEF MayOwn
<1> QED
  BY <1>1, <1>4, <1>7, <1>8, <1>9, <1>10, SettlingNext DEF Settling, Contending, Succeeding
-----------------------------------------------------------------------------
(* A tick, while both run *)

SettleTick(h) ==
  LET l == Peer[h]
  IN  /\ TimedTypeOK /\ TimedTypeOK' /\ Paired /\ Prompt /\ Tick /\ FreshInv /\ FreshInv'
      /\ YieldsAtOnce(l) /\ EndsInTime(h) /\ Running(h) /\ Running(l)
      /\ togetherFor' = togetherFor + 1 \/ (togetherFor' = Cap /\ togetherFor = Cap)

\* What a tick does to the two.
LEMMA SettleTickFacts ==
  ASSUME NEW h \in Outranking, SettleTick(h)
  PROVE  /\ h \in Node /\ Peer[h] \in Node /\ Peer[Peer[h]] = h /\ TimedTypeOK /\ TypeOK
         /\ togetherFor' \in Nat /\ togetherFor' <= togetherFor + 1
         /\ pc[h] = "select" /\ pc[Peer[h]] = "select"
         /\ advertIn[h] # 0 /\ advertIn'[h] = advertIn[h] - 1
         /\ advertIn[Peer[h]] # 0 /\ advertIn'[Peer[h]] = advertIn[Peer[h]] - 1
         /\ UNCHANGED <<pc, state, conflict>>
         /\ Silence(Peer[h])' \in Nat /\ Silence(Peer[h])' <= Silence(Peer[h]) + 1
         /\ HeardLately /\ HeardLately'
<1>1. TypeOK /\ TimedTypeOK /\ h \in Node /\ Peer[h] \in Node /\ Peer[Peer[h]] = h
  BY SettleParties DEF SettleTick, TimedTypeOK
<1>2. togetherFor' \in Nat /\ togetherFor' <= togetherFor + 1
  BY CapAssumption DEF SettleTick, TimedTypeOK
<1>3. HeardLately'
  BY FreshIsHeard, PTL DEF SettleTick
<1> QED
  BY <1>1, <1>2, <1>3, PromptTick, SilenceTick, FreshIsHeard DEF SettleTick, Tick

LEMMA TellingTick ==
  ASSUME NEW h \in Outranking, SettleTick(h), NEW base \in Nat, Telling(Peer[h], base)
  PROVE  Telling(Peer[h], base)'
<1> DEFINE l == Peer[h]
<1> USE SettleTickFacts, SettleNumbers DEF SettleTick
<1>1. CASE togetherFor + advertIn[l] <= base + Config[l].interval
  <2>1. togetherFor' + advertIn'[l] <= base + Config[l].interval
    BY <1>1
  <2> QED
    BY <2>1 DEF Telling
<1>2. ASSUME NEW q \in net, q.from = l, News(l, q),
             togetherFor <= base + Config[l].interval + q.age
      PROVE  Telling(l, base)'
  <2>1. PICK s : s = [q EXCEPT !.age = q.age + 1]
    OBVIOUS
  <2>2. s \in net' /\ q.age \in Nat
    BY <2>1, PromptPacket
  <2>3. s.from = l /\ s.age = q.age + 1
    BY <1>2, <2>1 DEF TypeOK, HaPacket
  <2>4. News(l, s)'
    <3>1. ASSUME state[l] # "Active", NEW t \in net', t.from = l, t.state = "Active"
          PROVE  t.age > s.age
      <4>1. PICK r \in net : /\ t.from = r.from /\ t.state = r.state
                             /\ t.age = r.age + 1 /\ r.age \in Nat
        BY PacketsTick
      <4>2. r.age > q.age
        BY <1>2, <3>1, <4>1 DEF News
      <4> QED
        BY <2>2, <2>3, <4>1, <4>2
    <3> QED
      BY <3>1 DEF News
  <2>5. togetherFor' <= base + Config[l].interval + s.age
    BY <1>2, <2>2, <2>3
  <2> QED
    BY <2>2, <2>3, <2>4, <2>5 DEF Telling
<1> QED
  BY <1>1, <1>2 DEF Telling

LEMMA InformedTick ==
  ASSUME NEW h \in Outranking, SettleTick(h), Informed(h)
  PROVE  Informed(h)'
<1> DEFINE l == Peer[h]
<1> USE SettleTickFacts, SettleNumbers DEF SettleTick
<1>1. /\ obs[h] # NoPeer /\ obs'[h] # NoPeer /\ obs'[h].age \in Nat /\ obs[h].age \in Nat
      /\ obs'[h].age <= obs[h].age + 1 /\ obs'[h].state = obs[h].state
  BY ObsTick DEF Informed
<1>2. togetherFor' <= Round(l) => obs'[h].age <= togetherFor'
  <2>1. CASE togetherFor' = togetherFor + 1
    BY <1>1, <2>1 DEF Informed
  <2>2. CASE togetherFor' = Cap
    BY <2>2 DEF EndsInTime
  <2> QED
    BY <2>1, <2>2
<1>3. ASSUME NEW q \in net', q.from = l
      PROVE  \E r \in net : r.from = l /\ r.state = q.state
  BY <1>3, PacketsTick
<1> QED
  BY <1>1, <1>2, <1>3 DEF Informed, Round

LEMMA ClaimingTick ==
  ASSUME NEW h \in Outranking, SettleTick(h), Claiming(h)
  PROVE  Claiming(h)'
<1> DEFINE base == Round(Peer[h])
<1> USE SettleTickFacts, SettleNumbers DEF SettleTick
<1>1. CASE state[h] = "Active" /\ togetherFor + advertIn[h] <= base + Config[h].interval
  <2>1. togetherFor' + advertIn'[h] <= base + Config[h].interval
    BY <1>1
  <2> QED
    BY <1>1, <2>1 DEF Claiming, Round
<1>2. ASSUME NEW q \in net, q.from = h, q.state = "Active",
             togetherFor <= base + Config[h].interval + q.age
      PROVE  Claiming(h)'
  <2>1. PICK s : s = [q EXCEPT !.age = q.age + 1]
    OBVIOUS
  <2>2. s \in net' /\ q.age \in Nat
    BY <2>1, PromptPacket
  <2>3. s.from = h /\ s.state = "Active" /\ s.age = q.age + 1
    BY <1>2, <2>1 DEF TypeOK, HaPacket
  <2>4. togetherFor' <= base + Config[h].interval + s.age
    BY <1>2, <2>2, <2>3
  <2> QED
    BY <2>2, <2>3, <2>4 DEF Claiming, Round
<1> QED
  BY <1>1, <1>2 DEF Claiming

LEMMA CededTick ==
  ASSUME NEW h \in Outranking, SettleTick(h), Informed(h), Ceded(h)
  PROVE  Ceded(h)'
<1> DEFINE l == Peer[h]
<1> USE SettleTickFacts DEF SettleTick
<1>1. obs'[h].state = obs[h].state
  BY ObsTick DEF Informed
<1>2. \A q \in net' : q.from = h => q.state # "Active"
  BY PacketsTick DEF Ceded
<1>3. ~HasLiveActivePeer(l)'
  <2>1. CASE obs[l] = NoPeer
    BY <2>1 DEF Tick, HasLiveActivePeer, LivePeer
  <2>2. CASE obs[l] # NoPeer
    <3>1. /\ obs'[l].age = Older(obs[l].age, Window(Config[l])) /\ obs'[l].state = obs[l].state
          /\ obs[l].age \in Nat /\ Window(Config[l]) \in Nat
      BY <2>2, ObsTick, Settings
    <3>2. ~(obs[l].age < Window(Config[l])) => ~(obs'[l].age < Window(Config[l]))
      BY <3>1 DEF Older
    <3> QED
      BY <2>2, <3>1, <3>2 DEF Ceded, HasLiveActivePeer, LivePeer
  <2> QED
    BY <2>1, <2>2
<1> QED
  BY <1>1, <1>2, <1>3 DEF Ceded

LEMMA SettlingTick ==
  ASSUME NEW h \in Outranking, SettleTick(h), Settling(h)
  PROVE  Settling(h)'
<1> DEFINE l == Peer[h]
           base == Contest(h)
<1> USE SettleTickFacts, SettleNumbers DEF SettleTick
<1>1. ~AboutToYield(l) /\ pc[h] # "refresh"
  BY DEF AboutToYield
<1>2. Informed(h) /\ Claiming(h) => Informed(h)' /\ Claiming(h)'
  BY InformedTick, ClaimingTick
<1>3. Informed(h) /\ Ceded(h) => Informed(h)' /\ Ceded(h)'
  BY InformedTick, CededTick
<1>4. Telling(l, 0) => Telling(l, 0)'
  BY TellingTick
<1>5. Telling(l, base) => Telling(l, base)'
  <2>1. base \in Nat
    OBVIOUS
  <2> HIDE DEF base
  <2> QED
    BY <2>1, TellingTick
<1>6. CASE MayOwn(l) /\ MayOwn(l)'
  <2>1. Contending(h)
    BY <1>6 DEF Settling
  <2>2. Contending(h)'
    BY <1>1, <1>2, <1>3, <1>4, <2>1 DEF Contending
  <2> QED
    BY <1>6, <2>2 DEF Settling
<1>7. CASE MayOwn(l) /\ ~MayOwn(l)'
  <2>1. state[l] # "Active" /\ Silence(l) > togetherFor
    BY <1>7 DEF MayOwn
  <2>2. togetherFor <= Round(h)
    BY <2>1 DEF HeardLately
  <2>3. togetherFor' + advertIn'[l] <= base + Config[l].interval
    BY <2>2
  <2>4. Telling(l, Contest(h))'
    BY <2>3 DEF Telling, Contest, Round
  <2> QED
    BY <1>7, <2>4 DEF Settling, Succeeding
<1>8. CASE ~MayOwn(l) /\ MayOwn(l)'
  <2>1. state'[l] # "Active" /\ Silence(l) <= togetherFor /\ Silence(l)' > togetherFor'
    BY <1>8 DEF MayOwn
  <2>2. togetherFor' = Cap
    BY <2>1
  <2>3. togetherFor' > Round(h)
    BY <2>2 DEF EndsInTime
  <2>4. Silence(l)' <= Round(h)
    BY <2>3 DEF HeardLately, Round
  <2> QED
    BY <2>1, <2>3, <2>4
<1>9. CASE ~MayOwn(l) /\ ~MayOwn(l)'
  <2>1. Succeeding(h)
    BY <1>9 DEF Settling
  <2>2. Succeeding(h)'
    BY <1>1, <1>5, <2>1, InformedTick DEF Succeeding
  <2> QED
    BY <1>9, <2>2 DEF Settling
<1> QED
  BY <1>6, <1>7, <1>8, <1>9
-----------------------------------------------------------------------------
(* The two nodes of a pair, and nobody else *)

APair == \E n \in Node : Node = {n, Peer[n]}

\* No node waits less than its peer is silent.
AllPatient == \A n \in Node : Patient(n)

\* The watch of the two goes on, in ticks only.
LEMMA TogetherStep ==
  ASSUME TimedTypeOK, NEW ticks \in {0, 1}, Watch(ticks), togetherFor' # 0
  PROVE  /\ ticks = 0 => togetherFor' = togetherFor
         /\ ticks = 1 => \/ togetherFor' = togetherFor + 1
                         \/ togetherFor' = Cap /\ togetherFor = Cap
<1> DEFINE all == \A n \in Node : Running(n)'
<1>1. togetherFor' = Measured(all, togetherFor, ticks)
  BY DEF Watch
<1>2. togetherFor \in 0..Cap /\ Cap \in Nat
  BY CapAssumption DEF TimedTypeOK
<1>3. all
  BY WatchStep
<1> HIDE DEF all
<1> QED
  BY <1>1, <1>2, <1>3 DEF Measured

\* Two that have just begun to run together have time to tell.
LEMMA SettlingBegins ==
  ASSUME TimedTypeOK, Paired, NEW h \in Outranking, togetherFor = 0
  PROVE  Settling(h)
<1> USE SettleNumbers
<1>1. Telling(Peer[h], 0) /\ Telling(Peer[h], Contest(h))
  BY DEF Telling
<1> QED
  BY <1>1 DEF Settling, Contending, Succeeding

\* The same of every such node, in the state after a step as well.
SettleStart == \A h \in Outranking : togetherFor = 0 => Settling(h)

LEMMA SettlingStarts == TimedTypeOK /\ Paired => SettleStart
  BY SettlingBegins DEF SettleStart

LEMMA NextSettle ==
  ASSUME Paired, Lossless, Fifo, APair, AllPatient,
         TimedTypeOK, WatchInv, SettleInv, [TimedNext]_timedVars
  PROVE  SettleInv'
<1>1. TimedTypeOK' /\ TypeOK /\ [Next]_vars /\ Prompt /\ Uncut
  BY TimedStep, TimedNextType DEF TimedTypeOK, Lossless, SettleInv, FreshInv
<1>2. FreshInv' /\ Forgotten' /\ Heard' /\ Spaced'
  BY <1>1, NextFresh, NextForgotten, NextHeard, NextSpaced DEF SettleInv
<1>3. ASSUME NEW h \in Outranking PROVE YieldsAtOnce(Peer[h])' /\ Orderly(Peer[h])'
  <2>1. Peer[h] \in Node /\ Patient(Peer[h]) /\ Orderly(Peer[h]) /\ YieldsAtOnce(Peer[h])
    BY <1>1, SettleParties DEF AllPatient, SettleInv
  <2>2. YieldsAtOnce(Peer[h])'
    BY <1>1, <2>1, NextYieldsAtOnce DEF SettleInv
  <2>3. CASE Tick
    BY <1>1, <2>1, <2>2, <2>3, OrderlyTick
  <2>4. CASE Environment \/ \E x \in Node : Loop(x)
    BY <1>1, <2>1, <2>2, <2>4, OrderlyStep DEF SettleInv
  <2>5. CASE UNCHANGED vars
    BY <2>1, <2>2, <2>5 DEF vars, Orderly, Running, Silence
  <2> QED
    BY <1>1, <2>3, <2>4, <2>5 DEF Next
<1>4. ASSUME NEW h \in Outranking, EndsInTime(h) PROVE Settling(h)'
  <2>1. /\ h \in Node /\ Peer[h] \in Node /\ Patient(h) /\ Patient(Peer[h]) /\ Settling(h)
        /\ Node = {h, Peer[h]}
    BY <1>1, <1>4, SettleParties DEF AllPatient, APair, SettleInv
  <2>2. CASE togetherFor' = 0
    <3>1. SettleStart'
      BY <1>1, SettlingStarts, PTL
    <3> QED
      BY <2>2, <3>1 DEF SettleStart
  <2>3. CASE togetherFor' # 0 /\ Tick /\ Watch(1)
    <3>1. Running(h) /\ Running(Peer[h])
      BY <2>1, <2>3, WatchStep DEF Tick, Running
    <3>2. SettleTick(h)
      BY <1>1, <1>2, <1>4, <2>3, <3>1, TogetherStep DEF SettleTick, SettleInv
    <3> QED
      BY <2>1, <3>2, SettlingTick
  <2>4. CASE togetherFor' # 0 /\ (Environment \/ \E x \in Node : Loop(x)) /\ Watch(0)
    <3>1. togetherFor' = togetherFor /\ \A x \in Node : Running(x)'
      BY <2>4, WatchStep
    <3>2. \A x \in Node : Running(x)
      BY <2>4, <3>1 DEF WatchInv
    <3>3. SettleStep(h)
      BY <1>1, <2>1, <3>1, <3>2 DEF SettleStep, SettleInv
    <3>4. PICK x \in Node :
            \/ Refresh(x)
            \/ \E p \in net : HandleReceive(x, p) /\ net' \in {net, net \ {p}}
            \/ ReceiveNothing(x)
            \/ SendAdvertisement(x)
      BY <1>1, <2>4, <3>1, <3>2, RunningStep
    <3>5. CASE x = h
      BY <2>1, <3>3, <3>4, <3>5, HigherRefreshes, HigherReceives, EitherWakes, HigherSends
    <3>6. CASE x = Peer[h]
      BY <2>1, <3>3, <3>4, <3>6, LowerRefreshes, LowerReceives, EitherWakes, LowerSends
    <3> QED
      BY <2>1, <3>5, <3>6
  <2>5. CASE UNCHANGED timedVars
    <3>1. Settling(h)' = Settling(h)
      BY <2>5 DEF timedVars, vars, Settling, MayOwn, Silence, Contending, Succeeding, Telling,
                  News, Informed, Claiming, Ceded, AboutToYield, HasLiveActivePeer, LivePeer,
                  Contest, Round
    <3> QED
      BY <2>1, <3>1
  <2> QED
    BY <2>2, <2>3, <2>4, <2>5 DEF TimedNext
<1>5. ASSUME NEW h \in Outranking, EndsInTime(h)' PROVE EndsInTime(h)
  BY <1>5 DEF EndsInTime, Contest, Round
<1> QED
  BY <1>2, <1>3, <1>4, <1>5 DEF SettleInv

\* After the last possible moment of a contest and a succession one of the two owns.
LEMMA SettledOwner ==
  ASSUME Paired, APair, AllPatient, TimedTypeOK, WatchInv, SettleInv,
         \A n \in Node : togetherFor > 3 * Round(n)
  PROVE  OneOwner
<1>1. PICK h \in Outranking : Node = {h, Peer[h]}
  <2>1. PICK n \in Node : Node = {n, Peer[n]} /\ Peer[n] \in Node
    BY NodeAssumption DEF APair
  <2>2. /\ Config[n] \in HaRuntimeConfig /\ Config[Peer[n]] \in HaRuntimeConfig
        /\ Config[Peer[n]].id # Config[n].id /\ Peer[Peer[n]] = n
    BY <2>1, NodeAssumption DEF Paired, Accepts
  <2>3. n \in Outranking \/ Peer[n] \in Outranking
    BY <2>1, <2>2, RankIsStrict DEF Outranking
  <2> QED
    BY <2>1, <2>2, <2>3
<1> DEFINE l == Peer[h]
<1> USE SettleNumbers
<1>2. TypeOK /\ h \in Node /\ l \in Node /\ l # h
  BY SettleParties DEF TimedTypeOK
<1>3. togetherFor > 3 * Round(h) /\ togetherFor > 3 * Round(l) /\ togetherFor <= Cap
  BY <1>2 DEF TimedTypeOK
<1>4. togetherFor > Contest(h) + Round(l)
  <2>1. Round(h) \in Nat /\ Round(l) \in Nat /\ Contest(h) = Round(l) + Round(h)
    OBVIOUS
  <2> HIDE DEF l
  <2> QED
    BY <1>3, <2>1
<1>5. Settling(h)
  BY <1>3, <1>4 DEF EndsInTime, SettleInv
<1>6. Running(h) /\ Running(l)
  BY <1>2, <1>4 DEF WatchInv
<1>7. \A base \in {0, Contest(h)} : ~Telling(l, base)
  BY <1>4 DEF Telling
<1>8. ~Claiming(h)
  BY <1>4 DEF Claiming
<1>9. (state[h] = "Active") <=> (state[l] # "Active")
  <2>1. CASE MayOwn(l)
    <3>1. Ceded(h)
      BY <1>4, <1>5, <1>7, <1>8, <2>1 DEF Settling, Contending
    <3> QED
      BY <3>1 DEF Ceded
  <2>2. CASE ~MayOwn(l)
    BY <1>4, <1>5, <1>7, <2>2 DEF Settling, Succeeding, MayOwn
  <2> QED
    BY <2>1, <2>2
<1> QED
  BY <1>1, <1>2, <1>6, <1>9 DEF OneOwner, Owner

\* Two nodes whose packets are neither lost nor reordered, and which wait for each
\* other's packets, have exactly one owner once both have run for three rounds of
\* either: with and without preemption, whoever restarted and whatever was under way.
THEOREM PairsSettle ==
  ASSUME Paired, Lossless, Fifo, APair, AllPatient
  PROVE  TimedSpec => []PairSettles
<1>1. TimedInit => TimedTypeOK /\ WatchInv /\ SettleInv
  <2> SUFFICES ASSUME TimedInit PROVE TimedTypeOK /\ WatchInv /\ SettleInv
    OBVIOUS
  <2>1. TimedTypeOK /\ WatchInv /\ Forgotten
    BY TimedInitType, InitForgotten DEF TimedInit
  <2>2. FreshInv /\ Heard /\ Spaced
    BY DEF TimedInit, Init, FreshInv, Uncut, Fresh, Heard, Spaced, Running
  <2>3. \A h \in Outranking : Orderly(Peer[h]) /\ YieldsAtOnce(Peer[h])
    <3>1. \A n \in Node : ~Running(n)
      BY DEF TimedInit, Init, Running
    <3>2. \A h \in Outranking : Peer[h] \in Node
      BY <2>1, SettleParties DEF TimedTypeOK
    <3> QED
      BY <3>1, <3>2 DEF Orderly, YieldsAtOnce
  <2>4. \A h \in Outranking : Settling(h)
    BY <2>1, SettlingBegins DEF TimedInit
  <2> QED
    BY <2>1, <2>2, <2>3, <2>4 DEF SettleInv
<1>2. TimedTypeOK /\ WatchInv /\ SettleInv /\ [TimedNext]_timedVars
        => (TimedTypeOK /\ WatchInv /\ SettleInv)'
  BY TimedNextType, NextSettle
<1>3. TimedTypeOK /\ WatchInv /\ SettleInv => PairSettles
  BY SettledOwner DEF PairSettles
<1> QED
  BY <1>1, <1>2, <1>3, PTL DEF TimedSpec
=============================================================================

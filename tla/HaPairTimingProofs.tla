------------------------- MODULE HaPairTimingProofs -------------------------
(***************************************************************************)
(* The durations of HaPairTiming, for every configuration of every number  *)
(* of pairs, timers of either node, delay, reordering and duplication.     *)
(***************************************************************************)
EXTENDS HaPairTiming, HaPairProofs

\* The nodes are in pairs whose members point at each other and accept each
\* other: the same group, version and key, different node ids.
Paired == \A n \in Node : Peer[Peer[n]] = n /\ Accepts(n, Peer[n])

\* Packets are neither lost nor unsent; processes are scheduled in time.
Lossless == Prompt /\ FaultKinds \cap {"loss", "cut", "sendError"} = {}

TimedTypeOK ==
  /\ TypeOK
  /\ dualFor \in 0..Cap /\ togetherFor \in 0..Cap
  /\ aloneFor \in [Node -> 0..Cap] /\ ownedFor \in [Node -> 0..Cap]

\* A stop watch that does not show zero measures something that is the case.
WatchInv ==
  /\ togetherFor # 0 => \A n \in Node : Running(n)
  /\ dualFor # 0 => \A n \in Node : Owner(n)
  /\ \A n \in Node : /\ aloneFor[n] # 0 => Running(n) /\ ~Running(Peer[n])
                     /\ ownedFor[n] # 0 => Owner(n)

LEMMA MeasuredBounds ==
  ASSUME NEW holds, NEW count \in Nat, NEW ticks \in {0, 1}
  PROVE  /\ Measured(holds, count, ticks) \in 0..Cap
         /\ Measured(holds, count, ticks) <= count + ticks
         /\ Measured(holds, count, ticks) # 0 => holds
  BY CapAssumption DEF Measured

LEMMA TimedStep ==
  ASSUME [TimedNext]_timedVars
  PROVE  [Next]_vars
  BY DEF TimedNext, timedVars, Next

\* A stop watch grows by at most one, in a tick only.
LEMMA WatchStep ==
  ASSUME TimedTypeOK, NEW ticks \in {0, 1}, Watch(ticks)
  PROVE  /\ togetherFor' \in 0..Cap /\ togetherFor' <= togetherFor + ticks
         /\ ticks = 0 /\ togetherFor' # 0 => togetherFor' = togetherFor
         /\ togetherFor' # 0 => \A n \in Node : Running(n)'
         /\ dualFor' \in 0..Cap /\ dualFor' <= dualFor + ticks
         /\ ticks = 0 /\ dualFor' # 0 => dualFor' = dualFor
         /\ dualFor' # 0 => \A n \in Node : Owner(n)'
         /\ aloneFor' \in [Node -> 0..Cap] /\ ownedFor' \in [Node -> 0..Cap]
         /\ \A n \in Node : /\ aloneFor'[n] <= aloneFor[n] + ticks
                            /\ aloneFor'[n] # 0 => Running(n)' /\ ~Running(Peer[n])'
                            /\ ownedFor'[n] # 0 => Owner(n)'
<1>1. togetherFor \in 0..Cap /\ dualFor \in 0..Cap /\ Cap \in Nat
  BY CapAssumption DEF TimedTypeOK
<1>2. \A n \in Node : aloneFor[n] \in Nat /\ ownedFor[n] \in Nat
  BY CapAssumption DEF TimedTypeOK
<1>3. /\ togetherFor' \in 0..Cap /\ togetherFor' <= togetherFor + ticks
      /\ togetherFor' # 0 => \A n \in Node : Running(n)'
      /\ ticks = 0 /\ togetherFor' # 0 => togetherFor' = togetherFor
  <2> DEFINE all == \A n \in Node : Running(n)'
  <2>1. togetherFor' = Measured(all, togetherFor, ticks)
    BY DEF Watch
  <2> HIDE DEF all
  <2>2. togetherFor' # 0 => all
    BY <2>1 DEF Measured
  <2>4. togetherFor' \in 0..Cap /\ togetherFor' <= togetherFor + ticks
    BY <1>1, <2>1, MeasuredBounds
  <2>3. ticks = 0 /\ togetherFor' # 0 => togetherFor' = togetherFor
    BY <1>1, <2>1 DEF Measured
  <2> QED
    BY <2>2, <2>3, <2>4 DEF all
<1>4. /\ dualFor' \in 0..Cap /\ dualFor' <= dualFor + ticks
      /\ dualFor' # 0 => \A n \in Node : Owner(n)'
      /\ ticks = 0 /\ dualFor' # 0 => dualFor' = dualFor
  <2> DEFINE all == \A n \in Node : Owner(n)'
  <2>1. dualFor' = Measured(all, dualFor, ticks)
    BY DEF Watch
  <2> HIDE DEF all
  <2>2. dualFor' # 0 => all
    BY <2>1 DEF Measured
  <2>4. dualFor' \in 0..Cap /\ dualFor' <= dualFor + ticks
    BY <1>1, <2>1, MeasuredBounds
  <2>3. ticks = 0 /\ dualFor' # 0 => dualFor' = dualFor
    BY <1>1, <2>1 DEF Measured
  <2> QED
    BY <2>2, <2>3, <2>4 DEF all
<1>5. ASSUME NEW n \in Node
      PROVE  /\ aloneFor'[n] \in 0..Cap /\ aloneFor'[n] <= aloneFor[n] + ticks
             /\ aloneFor'[n] # 0 => Running(n)' /\ ~Running(Peer[n])'
  <2> DEFINE alone == Running(n)' /\ ~Running(Peer[n])'
  <2>1. aloneFor'[n] = Measured(alone, aloneFor[n], ticks)
    BY DEF Watch
  <2> HIDE DEF alone
  <2>2. /\ aloneFor'[n] \in 0..Cap /\ aloneFor'[n] <= aloneFor[n] + ticks
        /\ aloneFor'[n] # 0 => alone
    BY <1>2, <2>1, MeasuredBounds
  <2> QED
    BY <2>2 DEF alone
<1>6. ASSUME NEW n \in Node PROVE ownedFor'[n] \in 0..Cap /\ (ownedFor'[n] # 0 => Owner(n)')
  <2> DEFINE owner == Owner(n)'
  <2>1. ownedFor'[n] = Measured(owner, ownedFor[n], ticks)
    BY DEF Watch
  <2> HIDE DEF owner
  <2>2. ownedFor'[n] \in 0..Cap /\ (ownedFor'[n] # 0 => owner)
    BY <1>2, <2>1, MeasuredBounds
  <2> QED
    BY <2>2 DEF owner
<1>7. aloneFor' \in [Node -> 0..Cap] /\ ownedFor' \in [Node -> 0..Cap]
  BY <1>5, <1>6 DEF Watch
<1> QED
  BY <1>3, <1>4, <1>5, <1>6, <1>7

LEMMA TimedInitType == TimedInit => TimedTypeOK /\ WatchInv
  BY InitType, CapAssumption DEF TimedInit, TimedTypeOK, WatchInv

LEMMA TimedNextType ==
  TimedTypeOK /\ WatchInv /\ [TimedNext]_timedVars => (TimedTypeOK /\ WatchInv)'
<1> SUFFICES ASSUME TimedTypeOK, WatchInv, [TimedNext]_timedVars
             PROVE  TimedTypeOK' /\ WatchInv'
  OBVIOUS
<1>1. TypeOK'
  BY TimedStep, NextType DEF TimedTypeOK
<1>2. ASSUME NEW ticks \in {0, 1}, Watch(ticks) PROVE TimedTypeOK' /\ WatchInv'
  BY <1>1, <1>2, WatchStep DEF TimedTypeOK, WatchInv
<1>3. CASE UNCHANGED timedVars
  BY <1>1, <1>3 DEF timedVars, vars, TimedTypeOK, WatchInv, Running, Owner
<1> QED
  BY <1>2, <1>3 DEF TimedNext

-----------------------------------------------------------------------------
(* What happens while both nodes of a pair run and nothing is lost *)

Uncut == cut = {}

LEMMA NextUncut == Lossless /\ Uncut /\ [Next]_vars => Uncut'
<1> SUFFICES ASSUME Lossless, Uncut, [Next]_vars PROVE Uncut'
  OBVIOUS
<1>1. ASSUME NEW n \in Node, CutLink(n) \/ HealLink(n) PROVE FALSE
  BY <1>1 DEF CutLink, HealLink, Spend, Lossless, Uncut
<1>2. ASSUME NEW n \in Node, Start(n) \/ Refresh(n) \/ ReceiveNothing(n) PROVE Uncut'
  BY <1>2 DEF Start, Refresh, ReceiveNothing, envVars, Uncut
<1>3. ASSUME NEW n \in Node, NEW r, End(n, r) PROVE Uncut'
  BY <1>3 DEF End, Uncut
<1>4. ASSUME NEW p \in net, Lose(p) \/ Unheard(p) PROVE Uncut'
  BY <1>4 DEF Lose, Unheard, Uncut
<1>5. ASSUME NEW n \in Node, NEW p \in net, HandleReceive(n, p) PROVE Uncut'
  BY <1>5 DEF HandleReceive, Uncut
<1>6. ASSUME NEW n \in Node, SendAdvertisement(n) \/ SendFails(n) PROVE Uncut'
  BY <1>6 DEF SendAdvertisement, SendFails, Uncut
<1>7. ASSUME NEW n \in Node, Shutdown(n) \/ FatalError(n) PROVE Uncut'
  BY <1>7 DEF Shutdown, FatalError, Exit, Uncut
<1>8. CASE Tick \/ UNCHANGED vars
  BY <1>8 DEF Tick, vars, Uncut
<1> QED
  BY <1>1, <1>2, <1>3, <1>4, <1>5, <1>6, <1>7, <1>8
     DEF Next, Environment, Loop, Crash, CleanupBeforeExit, Receive, ReceiveDuplicated

\* Of all steps but a tick only four leave every node running.
LEMMA RunningStep ==
  ASSUME TypeOK, Lossless, Uncut, \A n \in Node : Running(n), \A n \in Node : Running(n)',
         Environment \/ \E n \in Node : Loop(n)
  PROVE  \E n \in Node :
           \/ Refresh(n)
           \/ \E p \in net : HandleReceive(n, p) /\ net' \in {net, net \ {p}}
           \/ ReceiveNothing(n)
           \/ SendAdvertisement(n)
<1>1. ASSUME NEW n \in Node, Start(n) \/ CutLink(n) \/ HealLink(n) PROVE FALSE
  BY <1>1 DEF Start, Running, CutLink, HealLink, Spend, Lossless, Uncut
<1>2. ASSUME NEW n \in Node, NEW r, End(n, r) PROVE FALSE
  BY <1>2 DEF End, Running, TypeOK
<1>3. ASSUME NEW p \in net, Lose(p) \/ Unheard(p) PROVE FALSE
  <2>1. p.from \in Node /\ Peer[p.from] \in Node
    BY NodeAssumption DEF TypeOK, HaPacket
  <2> QED
    BY <1>3, <2>1 DEF Lose, Unheard, Spend, Lossless
<1>4. ASSUME NEW n \in Node, SendFails(n) \/ Shutdown(n) \/ FatalError(n) PROVE FALSE
  BY <1>4 DEF SendFails, Shutdown, FatalError, Exit, Spend, Running, Lossless, TypeOK
<1> QED
  BY <1>1, <1>2, <1>3, <1>4
     DEF Environment, Loop, Crash, CleanupBeforeExit, Receive, ReceiveDuplicated

\* Only its peer's packets reach a node, and it accepts them.
LEMMA FromPeer ==
  ASSUME TypeOK, Paired, NEW n \in Node, NEW p \in net, HandleReceive(n, p)
  PROVE  /\ p.from = Peer[n] /\ obs' = [obs EXCEPT ![n] = Observe(n, p)]
         /\ Observe(n, p) # NoPeer /\ Observe(n, p).age = 0
         /\ Observe(n, p).from = p.from /\ Observe(n, p).state = p.state
<1>1. p \in HaPacket /\ p.from \in Node /\ Peer[p.from] = n
  BY DEF HandleReceive, TypeOK, HaPacket
<1>2. p.from = Peer[n] /\ Accepts(n, p.from)
  BY <1>1 DEF Paired
<1> QED
  BY <1>1, <1>2, ObserveType DEF HandleReceive, Observe
-----------------------------------------------------------------------------
(* No false timeout *)

\* together: how long both have been running; o: what is observed.
HeardWithin(together, o, bound) == together <= bound \/ (o # NoPeer /\ o.age <= bound)

\* How long ago n heard its peer m, at most: as long as m has waited since its
\* last advertisement; or, for a packet still in flight, its age and an interval.
Fresh(n) ==
  LET m == Peer[n]
  IN  \/ togetherFor = 0
      \/ HeardWithin(togetherFor, obs[n], Config[m].interval - advertIn[m])
      \/ \E q \in net : q.from = m /\ HeardWithin(togetherFor, obs[n], Config[m].interval + q.age)

FreshInv == Uncut /\ \A n \in Node : Fresh(n)

LEMMA HeardTick ==
  ASSUME TypeOK, Tick, NEW n \in Node, NEW bound \in Nat, HeardWithin(togetherFor, obs[n], bound),
         togetherFor \in Nat, togetherFor' \in Nat, togetherFor' <= togetherFor + 1
  PROVE  HeardWithin(togetherFor', obs'[n], bound + 1)
  BY ObsTick DEF HeardWithin
\* A tick: the peer waits one tick more, its packets in flight get older by one.
LEMMA TickFresh ==
  ASSUME TimedTypeOK, WatchInv, Lossless, Paired, Tick, Watch(1), NEW n \in Node, Fresh(n),
         togetherFor' # 0
  PROVE  Fresh(n)'
<1> DEFINE m == Peer[n]
<1>1. m \in Node /\ TypeOK /\ Prompt
  BY NodeAssumption DEF TimedTypeOK, Lossless
<1>2. /\ togetherFor \in Nat /\ togetherFor' \in Nat /\ togetherFor' <= togetherFor + 1
      /\ \A x \in Node : Running(x)'
  BY WatchStep, CapAssumption DEF TimedTypeOK
<1>3. Running(m)
  BY <1>1, <1>2 DEF Tick, Running
<1>4. advertIn[m] # 0 /\ advertIn'[m] = advertIn[m] - 1
  BY <1>1, <1>3, PromptTick
<1>5. /\ advertIn[m] \in Nat /\ Config[m].interval \in Nat
      /\ advertIn[m] <= Config[m].interval
  BY <1>1, Settings DEF TypeOK
<1> DEFINE waited == Config[m].interval - advertIn[m]
<1>6. waited \in Nat /\ Config[m].interval - advertIn'[m] = waited + 1
  BY <1>4, <1>5
<1>7. CASE togetherFor = 0
  <2>1. togetherFor' <= waited + 1
    BY <1>2, <1>6, <1>7
  <2> QED
    BY <1>6, <2>1 DEF Fresh, HeardWithin
<1>8. CASE HeardWithin(togetherFor, obs[n], waited)
  <2>1. HeardWithin(togetherFor', obs'[n], waited + 1)
    BY <1>1, <1>2, <1>6, <1>8, HeardTick
  <2>2. HeardWithin(togetherFor', obs'[n], Config[m].interval - advertIn'[m])
    BY <1>6, <2>1 DEF HeardWithin
  <2> QED
    BY <2>2 DEF Fresh
<1>9. ASSUME NEW q \in net, q.from = m, HeardWithin(togetherFor, obs[n], Config[m].interval + q.age)
      PROVE  Fresh(n)'
  <2> DEFINE q2 == [q EXCEPT !.age = q.age + 1]
  <2>1. q.age \in Nat /\ q2 \in net'
    BY <1>1, PromptPacket
  <2>2. q2.from = m /\ q2.age = q.age + 1
    BY <1>1, <1>9 DEF TypeOK, HaPacket
  <2>3. HeardWithin(togetherFor', obs'[n], (Config[m].interval + q.age) + 1)
    BY <1>1, <1>2, <1>5, <1>9, <2>1, HeardTick
  <2> HIDE DEF q2
  <2>4. (Config[m].interval + q.age) + 1 = Config[m].interval + q2.age
    BY <1>5, <2>1, <2>2
  <2>5. HeardWithin(togetherFor', obs'[n], Config[m].interval + q2.age)
    BY <2>3, <2>4 DEF HeardWithin
  <2> QED
    BY <2>1, <2>2, <2>5 DEF Fresh
<1> QED
  BY <1>7, <1>8, <1>9 DEF Fresh

\* A step of a node.
LEMMA StepFresh ==
  ASSUME TimedTypeOK, Lossless, Paired, Uncut, NEW n \in Node, Fresh(n),
         togetherFor' = togetherFor, NEW x \in Node,
         \/ Refresh(x)
         \/ \E p \in net : HandleReceive(x, p) /\ net' \in {net, net \ {p}}
         \/ ReceiveNothing(x)
         \/ SendAdvertisement(x)
  PROVE  Fresh(n)'
<1> DEFINE m == Peer[n]
<1>1. m \in Node /\ m # n /\ TypeOK
  BY NodeAssumption DEF TimedTypeOK
<1>2. CASE UNCHANGED <<obs, advertIn, net>>
  BY <1>2 DEF Fresh, HeardWithin
<1>3. ASSUME NEW p \in net, HandleReceive(x, p), net' \in {net, net \ {p}}
      PROVE  Fresh(n)'
  <2>1. p.from = Peer[x] /\ obs' = [obs EXCEPT ![x] = Observe(x, p)] /\ advertIn' = advertIn
        /\ Observe(x, p) # NoPeer /\ Observe(x, p).age = 0
    BY <1>1, <1>3, FromPeer DEF HandleReceive
  <2>2. CASE x = n
    <3>1. obs'[n] # NoPeer /\ obs'[n].age = 0
      BY <2>1, <2>2 DEF TimedTypeOK, TypeOK
    <3>2. 0 <= Config[m].interval - advertIn[m]
      <4>1. /\ advertIn[m] \in Nat /\ Config[m].interval \in Nat
            /\ advertIn[m] <= Config[m].interval
        BY <1>1, Settings DEF TypeOK
      <4> QED
        BY <4>1
    <3>3. HeardWithin(togetherFor', obs'[n], Config[m].interval - advertIn'[m])
      BY <2>1, <3>1, <3>2 DEF HeardWithin
    <3> QED
      BY <3>3 DEF Fresh
  <2>3. CASE x # n
    <3>1. obs'[n] = obs[n]
      BY <2>1, <2>3 DEF TimedTypeOK, TypeOK
    <3>2. p.from # m
      BY <1>1, <2>1, <2>3 DEF Paired
    <3>3. \A q \in net : q.from = m => q \in net'
      BY <1>3, <3>2
    <3> QED
      BY <2>1, <3>1, <3>3 DEF Fresh, HeardWithin
  <2> QED
    BY <2>2, <2>3
<1>4. CASE SendAdvertisement(x)
  <2> DEFINE q == [from |-> x, state |-> state[x], age |-> 0]
  <2>1. /\ net' = net \cup {q} /\ UNCHANGED obs /\ advertIn[x] = 0
        /\ \A y \in Node \ {x} : advertIn'[y] = advertIn[y]
    BY <1>4 DEF SendAdvertisement, Uncut, TimedTypeOK, TypeOK
  <2>2. q.from = x /\ q.age = 0
    OBVIOUS
  <2> HIDE DEF q
  <2>3. CASE HeardWithin(togetherFor, obs[n], Config[m].interval - advertIn[m])
    <3>1. CASE x = m
      <4>1. Config[m].interval - advertIn[m] = Config[m].interval + q.age
        BY <1>1, <2>1, <2>2, <3>1, Settings
      <4>2. HeardWithin(togetherFor', obs'[n], Config[m].interval + q.age)
        BY <2>1, <2>3, <4>1 DEF HeardWithin
      <4> QED
        BY <2>1, <2>2, <3>1, <4>2 DEF Fresh
    <3>2. CASE x # m
      BY <1>1, <2>1, <2>3, <3>2 DEF Fresh, HeardWithin
    <3> QED
      BY <3>1, <3>2
  <2>4. CASE ~HeardWithin(togetherFor, obs[n], Config[m].interval - advertIn[m])
    BY <2>1, <2>4 DEF Fresh, HeardWithin
  <2> QED
    BY <2>3, <2>4
<1>5. Refresh(x) \/ ReceiveNothing(x) => UNCHANGED <<obs, advertIn, net>>
  BY DEF Refresh, ReceiveNothing, loopVars, envVars
<1> QED
  BY <1>2, <1>3, <1>4, <1>5

LEMMA NextFresh ==
  ASSUME Paired, Lossless, TimedTypeOK, WatchInv, FreshInv, [TimedNext]_timedVars
  PROVE  FreshInv'
<1>1. Uncut'
  BY TimedStep, NextUncut DEF FreshInv
<1>2. ASSUME NEW n \in Node PROVE Fresh(n)'
  <2>1. CASE togetherFor' = 0
    BY <2>1 DEF Fresh
  <2>2. CASE togetherFor' # 0 /\ Tick /\ Watch(1)
    BY <2>2, TickFresh DEF FreshInv
  <2>3. CASE togetherFor' # 0 /\ (Environment \/ \E x \in Node : Loop(x)) /\ Watch(0)
    <3>1. togetherFor' = togetherFor /\ \A x \in Node : Running(x)'
      BY <2>3, WatchStep
    <3>2. \A x \in Node : Running(x)
      BY <2>3, <3>1 DEF WatchInv
    <3>4. \E x \in Node :
            \/ Refresh(x)
            \/ \E p \in net : HandleReceive(x, p) /\ net' \in {net, net \ {p}}
            \/ ReceiveNothing(x)
            \/ SendAdvertisement(x)
      BY <2>3, <3>1, <3>2, RunningStep DEF FreshInv, TimedTypeOK
    <3> QED
      BY <3>1, <3>4, StepFresh DEF FreshInv
  <2>4. CASE UNCHANGED timedVars
    BY <2>4 DEF timedVars, vars, FreshInv, Fresh, HeardWithin
  <2> QED
    BY <2>1, <2>2, <2>3, <2>4 DEF TimedNext
<1> QED
  BY <1>1, <1>2 DEF FreshInv
\* No node takes a running peer for dead, if its window is longer than its peer's
\* interval and the delay of the network: whatever is late, reordered or repeated,
\* and whoever restarts.
THEOREM NoTimeoutIsFalse ==
  ASSUME Paired, Lossless
  PROVE  TimedSpec => []NoFalseTimeout
<1>1. TimedInit => TimedTypeOK /\ WatchInv /\ FreshInv
  BY TimedInitType DEF TimedInit, Init, FreshInv, Uncut, Fresh
<1>2. TimedTypeOK /\ WatchInv /\ FreshInv /\ [TimedNext]_timedVars
        => (TimedTypeOK /\ WatchInv /\ FreshInv)'
  BY TimedNextType, NextFresh
<1>3. TimedTypeOK /\ FreshInv => NoFalseTimeout
  <2> SUFFICES ASSUME TimedTypeOK, FreshInv, NEW n \in Node,
                      togetherFor > Round(Peer[n]), Patient(n)
               PROVE  LivePeer(n)
    BY DEF NoFalseTimeout
  <2> DEFINE m == Peer[n]
  <2>m. m \in Node
    BY NodeAssumption
  <2>1. /\ Config[m].interval \in Nat /\ MaxDelay \in Nat
        /\ advertIn[m] \in Nat /\ advertIn[m] <= Config[m].interval
        /\ togetherFor \in Nat /\ Window(Config[n]) \in Nat
    <3>1. Config[m].interval \in Nat /\ Window(Config[n]) \in Nat
      BY <2>m, Settings
    <3>2. advertIn[m] \in Nat /\ advertIn[m] <= Config[m].interval
      BY <2>m DEF TimedTypeOK, TypeOK
    <3>3. MaxDelay \in Nat /\ togetherFor \in Nat
      BY EnvironmentAssumption, CapAssumption DEF TimedTypeOK
    <3> QED
      BY <3>1, <3>2, <3>3
  <2>2. \A q \in net : q.age \in Nat /\ q.age <= MaxDelay
    BY <2>1 DEF TimedTypeOK, TypeOK, HaPacket
  <2>3. obs[n] # NoPeer => obs[n].age \in Nat
    BY DEF TimedTypeOK, TypeOK, PeerObservation
  <2>4. Fresh(n)
    BY DEF FreshInv
  <2> HIDE DEF m
  <2>5. obs[n] # NoPeer /\ obs[n].age <= Round(m)
    BY <2>1, <2>2, <2>3, <2>4 DEF Fresh, HeardWithin, Round, m
  <2> QED
    BY <2>1, <2>3, <2>5 DEF Patient, Round, LivePeer, m
<1> QED
  BY <1>1, <1>2, <1>3, PTL DEF TimedSpec
-----------------------------------------------------------------------------
(* Dual ownership *)

\* The node l knows that its peer h owns the VIP and is about to decide.
AboutToYield(l) ==
  /\ pc[l] = "refresh" /\ obs[l] # NoPeer
  /\ obs[l].from = Peer[l] /\ obs[l].state = "Active" /\ obs[l].age = 0

\* How long both own the VIP, at most, h being the one that outranks: as long as
\* h has waited to say so; or an interval and the age of its claim in flight; or
\* the claim is there.
Dual(h) ==
  \/ dualFor = 0
  \/ dualFor + advertIn[h] <= Config[h].interval
  \/ \E q \in net : /\ q.from = h /\ q.state = "Active"
                    /\ dualFor <= Config[h].interval + q.age
  \/ AboutToYield(Peer[h]) /\ dualFor <= Round(h)

DualInv ==
  Uncut /\ \A h \in Node : Outranks(Config[h], Config[Peer[h]]) => Dual(h)

LEMMA YieldsToHigher ==
  ASSUME TypeOK, Paired, NEW h \in Node, Outranks(Config[h], Config[Peer[h]]),
         AboutToYield(Peer[h])
  PROVE  DesiredState(Peer[h]).state = "Standby"
<1> DEFINE l == Peer[h]
<1>1. l \in Node /\ Peer[l] = h /\ Config[h].id # Config[l].id
  BY NodeAssumption DEF Paired, Accepts
<1>2. Config[h] \in HaRuntimeConfig /\ Config[l] \in HaRuntimeConfig
  BY <1>1, NodeAssumption
<1>3. ~Outranks(Config[l], Config[h])
  BY <1>1, <1>2, RankIsStrict
<1>4. 0 < Window(Config[l])
  <2>1. /\ Window(Config[l]) \in Nat /\ Window(Config[l]) >= 2 * Config[l].interval
        /\ Config[l].interval \in Nat \ {0}
    BY <1>2, WindowType, WindowSpansTwoIntervals DEF HaRuntimeConfig
  <2> QED
    BY <2>1
<1>5. LivePeer(l) /\ obs[l].state = "Active" /\ obs[l].from = h
  BY <1>1, <1>4 DEF AboutToYield, LivePeer
<1>6. DesiredState(l) =
        DesiredStateWithActivePeer(Config[l], Config[h], obs[l].becameActive, conflict[l])
  BY <1>5 DEF DesiredState
<1> QED
  BY <1>3, <1>6 DEF DesiredStateWithActivePeer, Decision

LEMMA TickDual ==
  ASSUME TimedTypeOK, WatchInv, Lossless, Paired, Tick, Watch(1), NEW h \in Node, Dual(h),
         dualFor' # 0
  PROVE  Dual(h)'
<1> DEFINE l == Peer[h]
<1>1. l \in Node /\ TypeOK /\ Prompt
  BY NodeAssumption DEF TimedTypeOK, Lossless
<1>2. /\ dualFor \in Nat /\ dualFor' \in Nat /\ dualFor' <= dualFor + 1
      /\ \A x \in Node : Owner(x)'
  BY WatchStep, CapAssumption DEF TimedTypeOK
<1>3. Running(h) /\ Running(l)
  BY <1>1, <1>2 DEF Tick, Owner, Running
<1>4. advertIn[h] # 0 /\ advertIn'[h] = advertIn[h] - 1 /\ pc[l] = "select"
  BY <1>1, <1>3, PromptTick
<1>5. /\ advertIn[h] \in Nat /\ Config[h].interval \in Nat
      /\ advertIn[h] <= Config[h].interval
  BY <1>1, Settings DEF TypeOK
<1>6. CASE dualFor = 0 \/ dualFor + advertIn[h] <= Config[h].interval
  BY <1>2, <1>4, <1>5, <1>6 DEF Dual
<1>7. ASSUME NEW q \in net, q.from = h, q.state = "Active",
             dualFor <= Config[h].interval + q.age
      PROVE  Dual(h)'
  <2> DEFINE q2 == [q EXCEPT !.age = q.age + 1]
  <2>1. q.age \in Nat /\ q2 \in net'
    BY <1>1, PromptPacket
  <2>2. q2.from = h /\ q2.state = "Active" /\ q2.age = q.age + 1
    BY <1>1, <1>7 DEF TypeOK, HaPacket
  <2> HIDE DEF q2
  <2>3. dualFor' <= Config[h].interval + q2.age
    BY <1>2, <1>5, <1>7, <2>1, <2>2
  <2> QED
    BY <2>1, <2>2, <2>3 DEF Dual
<1>8. ~AboutToYield(l)
  BY <1>4 DEF AboutToYield
<1> QED
  BY <1>6, <1>7, <1>8 DEF Dual

LEMMA StepDual ==
  ASSUME TimedTypeOK, Lossless, Paired, Uncut, NEW h \in Node, Dual(h),
         Outranks(Config[h], Config[Peer[h]]), \A x \in Node : Owner(x) /\ Owner(x)',
         dualFor' = dualFor, NEW x \in Node,
         \/ Refresh(x)
         \/ \E p \in net : HandleReceive(x, p) /\ net' \in {net, net \ {p}}
         \/ ReceiveNothing(x)
         \/ SendAdvertisement(x)
  PROVE  Dual(h)'
<1> DEFINE l == Peer[h]
<1>1. l \in Node /\ l # h /\ Peer[l] = h /\ TypeOK
  BY NodeAssumption DEF Paired, TimedTypeOK
<1>2. state[h] = "Active" /\ state[l] = "Active" /\ state'[l] = "Active"
  BY <1>1 DEF Owner
<1>3. /\ advertIn[h] \in Nat /\ Config[h].interval \in Nat /\ dualFor \in Nat
      /\ advertIn[h] <= Config[h].interval /\ MaxDelay \in Nat
      /\ \A q \in net : q.age \in Nat /\ q.age <= MaxDelay
  <2>1. /\ advertIn[h] \in Nat /\ Config[h].interval \in Nat
        /\ advertIn[h] <= Config[h].interval
    BY Settings DEF TimedTypeOK, TypeOK
  <2>2. dualFor \in Nat /\ MaxDelay \in Nat
    BY CapAssumption, EnvironmentAssumption DEF TimedTypeOK
  <2>3. \A q \in net : q.age \in Nat /\ q.age <= MaxDelay
    BY <2>2 DEF TimedTypeOK, TypeOK, HaPacket
  <2> QED
    BY <2>1, <2>2, <2>3
<1>4. CASE Refresh(x)
  <2>1. UNCHANGED <<obs, advertIn, net>> /\ \A y \in Node \ {x} : pc'[y] = pc[y]
    BY <1>1, <1>4 DEF Refresh, envVars, TypeOK
  <2>2. CASE x # l
    BY <1>1, <2>1, <2>2 DEF Dual, AboutToYield, Round
  <2>3. CASE x = l
    <3>1. DesiredState(l).state = "Active"
      BY <1>1, <1>2, <1>4, <2>3 DEF Refresh, TypeOK
    <3>2. ~AboutToYield(l)
      BY <1>1, <3>1, YieldsToHigher
    <3> QED
      BY <2>1, <3>2 DEF Dual
  <2> QED
    BY <2>2, <2>3
<1>5. ASSUME NEW p \in net, HandleReceive(x, p), net' \in {net, net \ {p}}
      PROVE  Dual(h)'
  <2>1. /\ p.from = Peer[x] /\ obs' = [obs EXCEPT ![x] = Observe(x, p)] /\ advertIn' = advertIn
        /\ Observe(x, p) # NoPeer /\ Observe(x, p).age = 0
        /\ Observe(x, p).from = p.from /\ Observe(x, p).state = p.state
    BY <1>1, <1>5, FromPeer DEF HandleReceive
  <2>2. /\ pc[x] = "select" /\ pc'[x] = "refresh"
        /\ \A y \in Node \ {x} : pc'[y] = pc[y]
    BY <1>1, <1>5 DEF HandleReceive, WakeUp, TypeOK
  <2>3. CASE dualFor = 0 \/ dualFor + advertIn[h] <= Config[h].interval
    BY <2>1, <2>3 DEF Dual
  <2>4. ASSUME NEW q \in net, q.from = h, q.state = "Active",
               dualFor <= Config[h].interval + q.age
        PROVE  Dual(h)'
    <3>1. CASE q \in net'
      BY <2>4, <3>1 DEF Dual
    <3>2. CASE q \notin net'
      <4>1. q = p /\ x = l
        BY <1>1, <1>5, <2>1, <2>4, <3>2 DEF Paired
      <4>2. /\ obs'[l] # NoPeer /\ obs'[l].from = h
            /\ obs'[l].state = "Active" /\ obs'[l].age = 0
        BY <1>1, <2>1, <2>4, <4>1 DEF TypeOK
      <4>3. AboutToYield(l)'
        BY <1>1, <2>2, <4>1, <4>2 DEF AboutToYield
      <4>4. dualFor <= Round(h)
        BY <1>3, <2>4 DEF Round
      <4> QED
        BY <4>3, <4>4 DEF Dual, Round
    <3> QED
      BY <3>1, <3>2
  <2>5. CASE AboutToYield(l) /\ dualFor <= Round(h)
    <3>1. x # l
      BY <2>2, <2>5 DEF AboutToYield
    <3>2. AboutToYield(l)'
      BY <1>1, <2>1, <2>2, <2>5, <3>1 DEF AboutToYield, TypeOK
    <3> QED
      BY <2>5, <3>2 DEF Dual, Round
  <2> QED
    BY <2>3, <2>4, <2>5 DEF Dual
<1>6. CASE ReceiveNothing(x)
  <2>1. /\ UNCHANGED <<obs, advertIn, net>> /\ pc[x] = "select"
        /\ \A y \in Node \ {x} : pc'[y] = pc[y]
    BY <1>1, <1>6 DEF ReceiveNothing, WakeUp, loopVars, envVars, TypeOK
  <2>2. AboutToYield(l) => AboutToYield(l)'
    BY <1>1, <2>1 DEF AboutToYield
  <2> QED
    BY <2>1, <2>2 DEF Dual, Round
<1>7. CASE SendAdvertisement(x)
  <2> DEFINE q == [from |-> x, state |-> state[x], age |-> 0]
  <2>1. /\ net' = net \cup {q} /\ UNCHANGED obs /\ advertIn[x] = 0 /\ pc[x] = "select"
        /\ \A y \in Node \ {x} : advertIn'[y] = advertIn[y] /\ pc'[y] = pc[y]
    BY <1>1, <1>7 DEF SendAdvertisement, WakeUp, Uncut, TypeOK
  <2>2. q.from = x /\ q.age = 0 /\ q.state = state[x]
    OBVIOUS
  <2> HIDE DEF q
  <2>3. AboutToYield(l) => AboutToYield(l)'
    BY <1>1, <2>1 DEF AboutToYield
  <2>4. CASE x = h /\ dualFor + advertIn[h] <= Config[h].interval
    <3>1. q.from = h /\ q.state = "Active" /\ dualFor <= Config[h].interval + q.age
      BY <1>2, <1>3, <2>1, <2>2, <2>4
    <3> QED
      BY <2>1, <3>1 DEF Dual
  <2>5. CASE x # h /\ dualFor + advertIn[h] <= Config[h].interval
    BY <2>1, <2>5 DEF Dual
  <2>6. CASE ~(dualFor + advertIn[h] <= Config[h].interval)
    BY <2>1, <2>3, <2>6 DEF Dual, Round
  <2> QED
    BY <2>4, <2>5, <2>6
<1> QED
  BY <1>4, <1>5, <1>6, <1>7
LEMMA NextDual ==
  ASSUME Paired, Lossless, TimedTypeOK, WatchInv, DualInv, [TimedNext]_timedVars
  PROVE  DualInv'
<1>1. Uncut'
  BY TimedStep, NextUncut DEF DualInv
<1>2. ASSUME NEW h \in Node, Outranks(Config[h], Config[Peer[h]]) PROVE Dual(h)'
  <2>1. CASE dualFor' = 0
    BY <2>1 DEF Dual
  <2>2. CASE dualFor' # 0 /\ Tick /\ Watch(1)
    BY <1>2, <2>2, TickDual DEF DualInv
  <2>3. CASE dualFor' # 0 /\ (Environment \/ \E x \in Node : Loop(x)) /\ Watch(0)
    <3>1. dualFor' = dualFor /\ \A x \in Node : Owner(x)'
      BY <2>3, WatchStep
    <3>2. \A x \in Node : Owner(x)
      BY <2>3, <3>1 DEF WatchInv
    <3>3. \A x \in Node : Running(x) /\ Running(x)'
      BY <3>1, <3>2 DEF Owner
    <3>4. \E x \in Node :
            \/ Refresh(x)
            \/ \E p \in net : HandleReceive(x, p) /\ net' \in {net, net \ {p}}
            \/ ReceiveNothing(x)
            \/ SendAdvertisement(x)
      BY <2>3, <3>3, RunningStep DEF DualInv, TimedTypeOK
    <3> QED
      BY <1>2, <3>1, <3>2, <3>4, StepDual DEF DualInv
  <2>4. CASE UNCHANGED timedVars
    BY <1>2, <2>4 DEF timedVars, vars, DualInv, Dual, AboutToYield, Round
  <2> QED
    BY <2>1, <2>2, <2>3, <2>4 DEF TimedNext
<1> QED
  BY <1>1, <1>2 DEF DualInv

\* Two owners at a time last no longer than an interval of the one that outranks
\* and the delay of the network, whatever the timers of either.
THEOREM DualOwnershipEnds ==
  ASSUME Paired, Lossless
  PROVE  TimedSpec => []DualOwnershipIsBrief
<1>1. TimedInit => TimedTypeOK /\ WatchInv /\ DualInv
  BY TimedInitType DEF TimedInit, Init, DualInv, Uncut, Dual
<1>2. TimedTypeOK /\ WatchInv /\ DualInv /\ [TimedNext]_timedVars
        => (TimedTypeOK /\ WatchInv /\ DualInv)'
  BY TimedNextType, NextDual
<1>3. TimedTypeOK /\ DualInv => DualOwnershipIsBrief
  <2> SUFFICES ASSUME TimedTypeOK, DualInv, NEW h \in Node,
                      Outranks(Config[h], Config[Peer[h]])
               PROVE  dualFor <= Round(h)
    BY DEF DualOwnershipIsBrief
  <2>1. Dual(h)
    BY DEF DualInv
  <2>2. Config[h].interval \in Nat /\ MaxDelay \in Nat /\ dualFor \in Nat
    BY Settings, CapAssumption, EnvironmentAssumption DEF TimedTypeOK
  <2>3. advertIn[h] \in Nat /\ \A q \in net : q.age \in Nat /\ q.age <= MaxDelay
    BY <2>2 DEF TimedTypeOK, TypeOK, HaPacket
  <2> QED
    BY <2>1, <2>2, <2>3 DEF Dual, Round
<1> QED
  BY <1>1, <1>2, <1>3, PTL DEF TimedSpec
-----------------------------------------------------------------------------
(* Take-over *)

\* By then the last packet of the peer is a window old.
DeadAfter(n) == Window(Config[n]) + MaxDelay

\* How far a node left alone is on its way to the VIP.
Progressing(n) ==
  \/ Owner(n)
  \/ aloneFor[n] < DeadAfter(n)
  \/ aloneFor[n] + advertIn[n] < DeadAfter(n) + Config[n].interval
  \/ pc[n] = "refresh" /\ aloneFor[n] < DeadAfter(n) + Config[n].interval

\* What is left of the peer is as old as the solitude, but for the delay.
Alone(n) ==
  aloneFor[n] # 0 =>
    /\ \A q \in net : q.from = Peer[n] => q.age >= aloneFor[n]
    /\ obs[n] # NoPeer => \/ obs[n].age + MaxDelay >= aloneFor[n]
                          \/ obs[n].age = Window(Config[n])
    /\ uptime[n] >= aloneFor[n] \/ uptime[n] = Window(Config[n])
    /\ Progressing(n)

AloneInv == \A n \in Node : Alone(n)

\* The quantities of a node, and their bounds.
LEMMA Quantities ==
  ASSUME TimedTypeOK, NEW n \in Node
  PROVE  /\ Config[n].interval \in Nat /\ MaxDelay \in Nat
         /\ Window(Config[n]) \in Nat /\ 0 < Window(Config[n])
         /\ DeadAfter(n) \in Nat /\ Window(Config[n]) <= DeadAfter(n)
         /\ aloneFor[n] \in Nat /\ uptime[n] \in Nat /\ uptime[n] <= Window(Config[n])
         /\ advertIn[n] \in Nat /\ advertIn[n] <= Config[n].interval
         /\ obs[n] # NoPeer => obs[n].age \in Nat /\ obs[n].age <= Window(Config[n])
         /\ \A q \in net : q.age \in Nat /\ q.age <= MaxDelay
<1>1. Config[n].interval \in Nat /\ Window(Config[n]) \in Nat /\ MaxDelay \in Nat
  BY Settings, EnvironmentAssumption
<1>2. Config[n] \in HaRuntimeConfig
  BY NodeAssumption
<1>3. Window(Config[n]) >= 2 * Config[n].interval /\ Config[n].interval \in Nat \ {0}
  BY <1>2, WindowSpansTwoIntervals DEF HaRuntimeConfig
<1>4. 0 < Window(Config[n]) /\ DeadAfter(n) \in Nat /\ Window(Config[n]) <= DeadAfter(n)
  BY <1>1, <1>3 DEF DeadAfter
<1>5. /\ aloneFor[n] \in Nat /\ uptime[n] \in Nat /\ uptime[n] <= Window(Config[n])
      /\ advertIn[n] \in Nat /\ advertIn[n] <= Config[n].interval
  BY CapAssumption DEF TimedTypeOK, TypeOK
<1>6. obs[n] # NoPeer => obs[n].age \in Nat /\ obs[n].age <= Window(Config[n])
  BY DEF TimedTypeOK, TypeOK, PeerObservation
<1>7. \A q \in net : q.age \in Nat /\ q.age <= MaxDelay
  BY <1>1 DEF TimedTypeOK, TypeOK, HaPacket
<1> QED
  BY <1>1, <1>4, <1>5, <1>6, <1>7

\* The quantities of Alone hold of a node that is not alone, too.
LEMMA AloneNow ==
  ASSUME TimedTypeOK, NEW n \in Node, Alone(n)
  PROVE  /\ \A q \in net : q.from = Peer[n] => q.age >= aloneFor[n]
         /\ obs[n] # NoPeer => \/ obs[n].age + MaxDelay >= aloneFor[n]
                               \/ obs[n].age = Window(Config[n])
         /\ uptime[n] >= aloneFor[n] \/ uptime[n] = Window(Config[n])
         /\ Progressing(n)
<1>1. CASE aloneFor[n] # 0
  BY <1>1 DEF Alone
<1>2. CASE aloneFor[n] = 0
  BY <1>2, Quantities DEF Progressing
<1> QED
  BY <1>1, <1>2

\* A tick of a node that is alone, then: it waits, and what is left of the peer
\* gets older.
LEMMA TickAlone ==
  ASSUME TimedTypeOK, Prompt, Tick, Watch(1), NEW n \in Node, Alone(n), aloneFor'[n] # 0
  PROVE  Alone(n)'
<1> DEFINE w == Window(Config[n])
<1>1. /\ aloneFor'[n] \in Nat /\ aloneFor'[n] <= aloneFor[n] + 1
      /\ Running(n)' /\ TypeOK
  BY WatchStep, CapAssumption DEF TimedTypeOK
<1>2. pc[n] = "select" /\ advertIn[n] # 0 /\ advertIn'[n] = advertIn[n] - 1
      /\ pc'[n] = pc[n] /\ state'[n] = state[n]
  <2>1. Running(n) /\ pc'[n] = pc[n] /\ state'[n] = state[n]
    BY <1>1 DEF Tick, Running
  <2> QED
    BY <1>1, <2>1, PromptTick
<1>3. \A q \in net' : q.from = Peer[n] => q.age >= aloneFor'[n]
  <2> SUFFICES ASSUME NEW q \in net', q.from = Peer[n] PROVE q.age >= aloneFor'[n]
    OBVIOUS
  <2>1. PICK r \in net : q = [r EXCEPT !.age = Older(r.age, MaxDelay)]
    BY DEF Tick
  <2>2. r.from = Peer[n] /\ q.age = Older(r.age, MaxDelay)
    BY <1>1, <2>1 DEF TypeOK, HaPacket
  <2>3. r.age \in Nat /\ r.age + 1 <= MaxDelay /\ r.age >= aloneFor[n]
    BY <1>1, <2>2, PromptPacket, AloneNow
  <2>4. q.age = r.age + 1
    BY <2>2, <2>3, Quantities DEF Older
  <2> QED
    BY <1>1, <2>3, <2>4, Quantities
<1>4. obs'[n] # NoPeer => \/ obs'[n].age + MaxDelay >= aloneFor'[n]
                          \/ obs'[n].age = w
  <2> SUFFICES ASSUME obs'[n] # NoPeer
               PROVE  obs'[n].age + MaxDelay >= aloneFor'[n] \/ obs'[n].age = w
    OBVIOUS
  <2>1. obs[n] # NoPeer
    BY DEF Tick
  <2>2. obs[n].age \in Nat /\ obs'[n].age = Older(obs[n].age, w) /\ obs[n].age <= w
    BY <1>1, <2>1, ObsTick, Quantities
  <2>3. obs[n].age + MaxDelay >= aloneFor[n] \/ obs[n].age = w
    BY <2>1, AloneNow
  <2>4. MaxDelay \in Nat /\ w \in Nat /\ aloneFor[n] \in Nat
    BY Quantities
  <2> HIDE DEF w
  <2> QED
    BY <1>1, <2>2, <2>3, <2>4 DEF Older
<1>5. uptime'[n] >= aloneFor'[n] \/ uptime'[n] = w
  <2>1. uptime'[n] = Older(uptime[n], w)
    BY <1>2 DEF Tick
  <2>2. uptime[n] >= aloneFor[n] \/ uptime[n] = w
    BY AloneNow
  <2>3. uptime[n] \in Nat /\ uptime[n] <= w /\ w \in Nat /\ aloneFor[n] \in Nat
    BY Quantities
  <2> HIDE DEF w
  <2> QED
    BY <1>1, <2>1, <2>2, <2>3 DEF Older
<1>6. Progressing(n)'
  <2>1. Progressing(n)
    BY AloneNow
  <2>2. /\ advertIn[n] \in Nat /\ advertIn[n] <= Config[n].interval /\ DeadAfter(n) \in Nat
        /\ Config[n].interval \in Nat /\ aloneFor[n] \in Nat
    BY Quantities
  <2>3. CASE Owner(n)
    BY <1>2, <2>3 DEF Owner, Running, Progressing
  <2>4. CASE \/ aloneFor[n] < DeadAfter(n)
             \/ aloneFor[n] + advertIn[n] < DeadAfter(n) + Config[n].interval
    <3>1. aloneFor'[n] + advertIn'[n] < DeadAfter(n) + Config[n].interval
      BY <1>1, <1>2, <2>2, <2>4
    <3> QED
      BY <3>1 DEF Progressing, DeadAfter
  <2> QED
    BY <1>2, <2>1, <2>3, <2>4 DEF Progressing
<1> QED
  BY <1>3, <1>4, <1>5, <1>6 DEF Alone

\* A node that decides when its peer is dead and its own wait is over takes over.
LEMMA RefreshAlone ==
  ASSUME TimedTypeOK, NEW n \in Node, Alone(n), Refresh(n), aloneFor'[n] = aloneFor[n]
  PROVE  Progressing(n)'
<1>1. Running(n)'
  BY DEF Refresh, Running, TimedTypeOK, TypeOK
<1>2. CASE aloneFor[n] < DeadAfter(n)
  BY <1>2 DEF Progressing, DeadAfter
<1>3. CASE ~(aloneFor[n] < DeadAfter(n))
  <2>1. aloneFor[n] >= Window(Config[n]) + MaxDelay
    BY <1>3, Quantities DEF DeadAfter
  <2>2. uptime[n] >= Window(Config[n])
    BY <2>1, AloneNow, Quantities
  <2>3. ~LivePeer(n)
    BY <2>1, AloneNow, Quantities DEF LivePeer
  <2>4. DesiredState(n) =
          DesiredStateWithoutLivePeer(Config[n], state[n], obs[n] # NoPeer, uptime[n])
    BY <2>3 DEF DesiredState
  <2>5. DesiredState(n).state = "Active"
    BY <2>2, <2>4, Quantities DEF DesiredStateWithoutLivePeer, Decision
  <2>6. state'[n] = "Active"
    BY <2>5 DEF Refresh, TimedTypeOK, TypeOK
  <2> QED
    BY <1>1, <2>6 DEF Progressing, Owner
<1> QED
  BY <1>2, <1>3

\* Any other step of a node that is alone, as before it.
LEMMA StepProgress ==
  ASSUME TimedTypeOK, NEW n \in Node, Alone(n), aloneFor'[n] = aloneFor[n],
         Running(n), Running(n)', Environment \/ \E x \in Node : Loop(x)
  PROVE  Progressing(n)'
<1>1. Progressing(n) /\ TypeOK
  BY AloneNow DEF TimedTypeOK
<1>2. CASE Untouched(n)
  BY <1>1, <1>2 DEF Untouched, Progressing, Owner, Running, DeadAfter
<1>3. CASE Refresh(n)
  BY <1>3, RefreshAlone
<1>4. ASSUME \/ \E p \in net : HandleReceive(n, p)
             \/ ReceiveNothing(n) \/ SendAdvertisement(n) \/ SendFails(n)
      PROVE  Progressing(n)'
  <2>1. pc[n] = "select" /\ pc'[n] = "refresh" /\ state'[n] = state[n]
    BY <1>1, <1>4 DEF HandleReceive, ReceiveNothing, SendAdvertisement, SendFails,
                      WakeUp, loopVars, TypeOK
  <2>2. CASE Owner(n)
    BY <2>1, <2>2 DEF Owner, Running, Progressing
  <2>3. CASE aloneFor[n] < DeadAfter(n)
    BY <2>3 DEF Progressing, DeadAfter
  <2>4. CASE aloneFor[n] + advertIn[n] < DeadAfter(n) + Config[n].interval
    <3>1. aloneFor[n] < DeadAfter(n) + Config[n].interval
      BY <2>4, Quantities
    <3> QED
      BY <2>1, <3>1 DEF Progressing, DeadAfter
  <2> QED
    BY <1>1, <2>1, <2>2, <2>3, <2>4 DEF Progressing
<1> QED
  BY <1>1, <1>2, <1>3, <1>4, NodeStep

LEMMA StepAlone ==
  ASSUME TimedTypeOK, Paired, NEW n \in Node, Alone(n), aloneFor'[n] = aloneFor[n],
         Running(n), ~Running(Peer[n]), Running(n)', Environment \/ \E x \in Node : Loop(x)
  PROVE  Alone(n)'
<1>1. TypeOK /\ Peer[n] \in Node
  BY NodeAssumption DEF TimedTypeOK
<1>2. \A q \in net' : q.from = Peer[n] => q.age >= aloneFor'[n]
  BY <1>1, SilentStep, AloneNow
<1>3. /\ obs'[n] # NoPeer => \/ obs'[n].age + MaxDelay >= aloneFor'[n]
                             \/ obs'[n].age = Window(Config[n])
      /\ uptime'[n] = uptime[n]
  <2>1. CASE UNCHANGED <<obs[n], uptime[n]>>
    BY <2>1, AloneNow
  <2>2. ASSUME NEW p \in net, HandleReceive(n, p)
        PROVE  /\ obs'[n] # NoPeer => \/ obs'[n].age + MaxDelay >= aloneFor'[n]
                                      \/ obs'[n].age = Window(Config[n])
               /\ uptime'[n] = uptime[n]
    <3>1. p.from = Peer[n] /\ obs' = [obs EXCEPT ![n] = Observe(n, p)] /\ Observe(n, p).age = 0
      BY <1>1, <2>2, FromPeer
    <3>2. obs'[n] = Observe(n, p) /\ uptime' = uptime /\ p.from = Peer[n]
      BY <1>1, <2>2, <3>1 DEF HandleReceive, TypeOK
    <3>3. p.age >= aloneFor[n] /\ p.age <= MaxDelay /\ p.age \in Nat
      BY <3>2, AloneNow, Quantities
    <3>4. 0 + MaxDelay >= aloneFor[n]
      BY <3>3, Quantities
    <3> QED
      BY <3>1, <3>2, <3>4
  <2>3. CASE \/ Untouched(n) \/ Refresh(n) \/ ReceiveNothing(n)
             \/ SendAdvertisement(n) \/ SendFails(n)
    BY <2>1, <2>3 DEF Untouched, Refresh, ReceiveNothing, SendAdvertisement, SendFails, loopVars
  <2> QED
    BY <1>1, <2>2, <2>3, NodeStep
<1>4. uptime'[n] >= aloneFor'[n] \/ uptime'[n] = Window(Config[n])
  BY <1>3, AloneNow
<1>5. Progressing(n)'
  BY StepProgress
<1> QED
  BY <1>2, <1>3, <1>4, <1>5 DEF Alone

LEMMA NextAlone ==
  ASSUME Paired, Prompt, TimedTypeOK, WatchInv, AloneInv, [TimedNext]_timedVars
  PROVE  AloneInv'
<1> SUFFICES ASSUME NEW n \in Node, aloneFor'[n] # 0 PROVE Alone(n)'
  BY DEF AloneInv, Alone
<1>1. CASE Tick /\ Watch(1)
  BY <1>1, TickAlone DEF AloneInv
<1>2. CASE (Environment \/ \E x \in Node : Loop(x)) /\ Watch(0)
  <2>1. aloneFor'[n] = aloneFor[n] /\ Running(n)'
    <3> DEFINE alone == Running(n)' /\ ~Running(Peer[n])'
    <3>1. aloneFor'[n] = Measured(alone, aloneFor[n], 0)
      BY <1>2 DEF Watch
    <3>2. aloneFor[n] \in 0..Cap /\ Running(n)'
      BY <1>2, WatchStep DEF TimedTypeOK
    <3> HIDE DEF alone
    <3>3. aloneFor'[n] = aloneFor[n]
      BY <3>1, <3>2, CapAssumption DEF Measured
    <3> QED
      BY <3>2, <3>3
  <2>2. Running(n) /\ ~Running(Peer[n])
    BY <2>1 DEF WatchInv
  <2> QED
    BY <1>2, <2>1, <2>2, StepAlone DEF AloneInv
<1>3. CASE UNCHANGED timedVars
  BY <1>3 DEF timedVars, vars, AloneInv, Alone, Progressing, Owner, Running, DeadAfter
<1> QED
  BY <1>1, <1>2, <1>3 DEF TimedNext

\* A node whose peer stops owns the VIP no later than its window, its interval and
\* the delay of the network later, whatever is lost, duplicated or reordered.
THEOREM TakeoverEnds ==
  ASSUME Paired, Prompt
  PROVE  TimedSpec => []TakeoverIsBounded
<1>1. TimedInit => TimedTypeOK /\ WatchInv /\ AloneInv
  BY TimedInitType DEF TimedInit, AloneInv, Alone
<1>2. TimedTypeOK /\ WatchInv /\ AloneInv /\ [TimedNext]_timedVars
        => (TimedTypeOK /\ WatchInv /\ AloneInv)'
  BY TimedNextType, NextAlone
<1>3. TimedTypeOK /\ AloneInv => TakeoverIsBounded
  <2> SUFFICES ASSUME TimedTypeOK, AloneInv, NEW n \in Node,
                      aloneFor[n] >= Window(Config[n]) + Round(n)
               PROVE  Owner(n)
    BY DEF TakeoverIsBounded
  <2>1. aloneFor[n] >= DeadAfter(n) + Config[n].interval
    BY Quantities DEF Round, DeadAfter
  <2>2. Progressing(n)
    BY AloneNow DEF AloneInv
  <2> QED
    BY <2>1, <2>2, Quantities DEF Progressing
<1> QED
  BY <1>1, <1>2, <1>3, PTL DEF TimedSpec
-----------------------------------------------------------------------------
(* An established owner *)

\* No node takes the VIP from a healthy owner: preempt: false, on every node.
NoPreempt == \A n \in Node : ~Config[n].preempt

\* How long n has heard nothing since it started or since its last packet.
Silence(n) == IF obs[n] = NoPeer THEN uptime[n] ELSE obs[n].age

\* How long the peer of an owner n has heard nothing of it as the owner.
Gap(n) == IF Silence(Peer[n]) <= ownedFor[n] THEN Silence(Peer[n]) ELSE ownedFor[n]

Loud(n) == Running(Peer[n]) => Chased(n, Gap(n), advertIn[n], net)

\* What is younger than the ownership of n is a claim.
Claims(n) ==
  \A q \in net : (q.from = n /\ q.age < ownedFor[n]) => q.state = "Active"

\* The peer of the owner n goes by its claim, or has just started and waits.
Heeded(n) ==
  LET m == Peer[n]
  IN  /\ Silence(m) <= ownedFor[n]
      /\ obs[m] = NoPeer => state[m] # "Active"
      /\ obs[m] # NoPeer => /\ obs[m].state = "Active"
                            /\ pc[m] = "refresh" \/ state[m] # "Active"

\* Once all packets of n under way are claims, the next one ends the matter.
Heed(n) ==
  (Running(Peer[n]) /\ ownedFor[n] > MaxDelay) =>
     Heeded(n) \/ Chased(n, ownedFor[n] - MaxDelay, advertIn[n], net)

\* The peer of the owner n has stopped making claims, at last the late ones.
Undisputed(n) ==
  LET m == Peer[n]
  IN  /\ \A q \in net : (q.from = m /\ q.state = "Active") =>
            ownedFor[n] <= Round(n) + MaxDelay + q.age
      /\ (Running(m) /\ ownedFor[n] > Round(n) + MaxDelay) => state[m] # "Active"
      /\ HasLiveActivePeer(n) => pc[n] = "refresh" /\ ownedFor[n] <= Round(n) + 2 * MaxDelay

\* The stop watch can show the bound.
Shown(n) == Patient(Peer[n]) /\ Round(n) + 2 * MaxDelay < Cap

Keeps(n) ==
  Owner(n) => Loud(n) /\ Claims(n) /\ (Shown(n) => Heed(n) /\ Undisputed(n))

KeepInv == Uncut /\ Forgotten /\ \A n \in Node : Keeps(n)

\* The watch of an owner goes on, in ticks only.
LEMMA OwnedStep ==
  ASSUME TimedTypeOK, NEW n \in Node, NEW ticks \in {0, 1}, Watch(ticks), Owner(n)'
  PROVE  /\ ownedFor[n] \in 0..Cap /\ ownedFor'[n] \in 0..Cap
         /\ ticks = 0 => ownedFor'[n] = ownedFor[n]
         /\ ticks = 1 => \/ ownedFor'[n] = ownedFor[n] + 1
                         \/ ownedFor'[n] = Cap /\ ownedFor[n] = Cap
<1> DEFINE owner == Owner(n)'
<1>1. ownedFor'[n] = Measured(owner, ownedFor[n], ticks)
  BY DEF Watch
<1>2. ownedFor[n] \in 0..Cap /\ Cap \in Nat
  BY CapAssumption DEF TimedTypeOK
<1>3. owner
  OBVIOUS
<1> HIDE DEF owner
<1> QED
  BY <1>1, <1>2, <1>3 DEF Measured

\* The quantities of an owner and its peer.
LEMMA KeepQuantities ==
  ASSUME TimedTypeOK, NEW n \in Node
  PROVE  /\ Silence(n) \in Nat /\ ownedFor[n] \in Nat /\ Cap \in Nat
         /\ MaxDelay \in Nat /\ Round(n) \in Nat /\ Config[n].interval \in Nat
         /\ Round(n) = Config[n].interval + MaxDelay
         /\ Window(Config[n]) \in Nat /\ 0 < Window(Config[n])
<1>1. TypeOK
  BY DEF TimedTypeOK
<1>2. obs[n] # NoPeer => obs[n].age \in Nat
  BY <1>1 DEF TypeOK, PeerObservation
<1> QED
  BY <1>1, <1>2, ChaseTypes, WindowIsPositive, CapAssumption DEF Silence, Round, TimedTypeOK, TypeOK

\* The same of the state after a step.
KeepNumbers ==
  \A n \in Node : Silence(n) \in Nat /\ ownedFor[n] \in Nat

LEMMA KeepNumbersType == TimedTypeOK => KeepNumbers
  BY KeepQuantities DEF KeepNumbers

\* A peer that goes by its own timer or by the claim decides for Standby.
LEMMA HeededDecision ==
  ASSUME NoPreempt, NEW n \in Node, HasLiveActivePeer(n)
  PROVE  DesiredState(n).state = "Standby"
<1>1. ~Config[n].preempt
  BY DEF NoPreempt
<1>2. DesiredState(n) = DesiredStateWithActivePeer(Config[n], Config[obs[n].from],
                                                   obs[n].becameActive, conflict[n])
  BY DEF DesiredState, HasLiveActivePeer
<1> QED
  BY <1>1, <1>2 DEF DesiredStateWithActivePeer, Decision

LEMMA WaitingDecision ==
  ASSUME TypeOK, NEW n \in Node, obs[n] = NoPeer, state[n] # "Active",
         uptime[n] < Window(Config[n])
  PROVE  DesiredState(n).state = "Standby"
<1>1. uptime[n] \in Nat /\ Window(Config[n]) \in Nat
  BY Settings DEF TypeOK
<1>2. DesiredState(n) = DesiredStateWithoutLivePeer(Config[n], state[n], FALSE, uptime[n])
  BY DEF DesiredState, LivePeer
<1>3. ~(uptime[n] >= Window(Config[n]))
  BY <1>1
<1> QED
  BY <1>2, <1>3 DEF DesiredStateWithoutLivePeer, Decision

\* Without loss a packet of a running node stays until its running peer has it.
LEMMA LosslessPackets ==
  ASSUME TypeOK, Lossless, Uncut, NEW n \in Node, Running(n), Running(n)', Running(Peer[n]),
         Environment \/ \E x \in Node : Loop(x)
  PROVE  \/ advertIn'[n] = advertIn[n] /\ \A q \in net : q.from = n => q \in net'
         \/ advertIn[n] = 0 /\ net \subseteq net' /\ \E q \in net' : q.from = n /\ q.age = 0
         \/ \E p \in net : p.from = n /\ HandleReceive(Peer[n], p)
<1> DEFINE kept == advertIn'[n] = advertIn[n] /\ \A q \in net : q.from = n => q \in net'
           sent == /\ advertIn[n] = 0 /\ net \subseteq net'
                   /\ \E q \in net' : q.from = n /\ q.age = 0
<1>1. ASSUME NEW x \in Node, Start(x) PROVE kept
  <2>1. x # n
    BY <1>1 DEF Start, Running
  <2> QED
    BY <1>1, <2>1 DEF Start, envVars, TypeOK
<1>2. ASSUME NEW x \in Node, CutLink(x) \/ HealLink(x) PROVE kept
  BY <1>2 DEF CutLink, HealLink, Spend, Lossless, Uncut
<1>3. ASSUME NEW p \in net, Lose(p) \/ Unheard(p) PROVE kept
  BY <1>3 DEF Lose, Unheard, Spend, Lossless
<1>4. ASSUME NEW x \in Node, NEW r, End(x, r) PROVE kept
  <2>1. x # n
    BY <1>4 DEF End, Running, TypeOK
  <2> QED
    BY <1>4, <2>1 DEF End, TypeOK
<1>5. ASSUME NEW x \in Node, Refresh(x) \/ ReceiveNothing(x) PROVE kept
  BY <1>5 DEF Refresh, ReceiveNothing, envVars
<1>6. ASSUME NEW x \in Node, SendFails(x) PROVE kept
  BY <1>6 DEF SendFails, Spend, Lossless
<1>7. ASSUME NEW x \in Node, Shutdown(x) \/ FatalError(x) PROVE kept
  BY <1>7 DEF Shutdown, FatalError, Exit
<1>8. ASSUME NEW x \in Node, SendAdvertisement(x) PROVE kept \/ sent
  <2> DEFINE q == [from |-> x, state |-> state[x], age |-> 0]
  <2>1. /\ advertIn[x] = 0 /\ net' = net \cup {q}
        /\ \A y \in Node \ {x} : advertIn'[y] = advertIn[y]
    BY <1>8 DEF SendAdvertisement, Uncut, TypeOK
  <2>2. q.from = x /\ q.age = 0
    OBVIOUS
  <2> HIDE DEF q
  <2> QED
    BY <2>1, <2>2
<1>9. ASSUME NEW x \in Node, NEW p \in net, HandleReceive(x, p), net' \in {net, net \ {p}}
      PROVE  kept \/ \E r \in net : r.from = n /\ HandleReceive(Peer[n], r)
  <2>1. Peer[p.from] = x /\ advertIn' = advertIn
    BY <1>9 DEF HandleReceive
  <2>2. CASE p.from = n
    BY <1>9, <2>1, <2>2
  <2>3. CASE p.from # n
    BY <1>9, <2>1, <2>3
  <2> QED
    BY <2>2, <2>3
<1> HIDE DEF kept, sent
<1>10. kept \/ sent \/ \E r \in net : r.from = n /\ HandleReceive(Peer[n], r)
  BY <1>1, <1>2, <1>3, <1>4, <1>5, <1>6, <1>7, <1>8, <1>9
     DEF Environment, Loop, Crash, CleanupBeforeExit, Receive, ReceiveDuplicated
<1> QED
  BY <1>10 DEF kept, sent

\* A chase goes on unless the packet has arrived.
LEMMA ChaseStep ==
  ASSUME TypeOK, Lossless, Uncut, NEW n \in Node, Running(n), Running(n)', Running(Peer[n]),
         Environment \/ \E x \in Node : Loop(x), NEW gap \in Nat, NEW later \in Nat,
         later <= gap, Chased(n, gap, advertIn[n], net)
  PROVE  \/ Chased(n, later, advertIn'[n], net')
         \/ \E p \in net : p.from = n /\ HandleReceive(Peer[n], p)
<1>1. /\ Config[n].interval \in Nat /\ advertIn[n] \in Nat
      /\ \A q \in net : q.age \in Nat
  BY ChaseTypes
<1>2. CASE advertIn'[n] = advertIn[n] /\ \A q \in net : q.from = n => q \in net'
  BY <1>1, <1>2 DEF Chased
<1>3. ASSUME advertIn[n] = 0, net \subseteq net', NEW q \in net', q.from = n, q.age = 0
      PROVE  Chased(n, later, advertIn'[n], net')
  BY <1>1, <1>3 DEF Chased
<1> QED
  BY <1>2, <1>3, LosslessPackets

\* Silence grows in a tick only, and ends with a packet.
LEMMA SilenceTick ==
  ASSUME TimedTypeOK, Tick, NEW n \in Node, Running(n)
  PROVE  Silence(n)' \in Nat /\ Silence(n)' <= Silence(n) + 1
<1>1. TypeOK /\ Window(Config[n]) \in Nat /\ uptime[n] \in Nat
  BY Settings DEF TimedTypeOK, TypeOK
<1>2. CASE obs[n] = NoPeer
  <2>1. obs'[n] = NoPeer /\ uptime'[n] = Older(uptime[n], Window(Config[n]))
    BY <1>2 DEF Tick, Running
  <2> QED
    BY <1>1, <1>2, <2>1 DEF Silence, Older
<1>3. CASE obs[n] # NoPeer
  BY <1>1, <1>3, ObsTick DEF Silence
<1> QED
  BY <1>2, <1>3

LEMMA SilenceStep ==
  ASSUME TypeOK, Paired, NEW n \in Node, Running(n), Running(n)',
         Environment \/ \E x \in Node : Loop(x)
  PROVE  \/ uptime'[n] = uptime[n] /\ obs'[n] = obs[n] /\ Silence(n)' = Silence(n)
         \/ \E p \in net : HandleReceive(n, p)
<1>1. CASE uptime'[n] = uptime[n] /\ obs'[n] = obs[n]
  BY <1>1 DEF Silence
<1>2. Untouched(n) \/ Refresh(n) \/ ReceiveNothing(n) \/ SendAdvertisement(n) \/ SendFails(n)
        => uptime'[n] = uptime[n] /\ obs'[n] = obs[n]
  BY DEF Untouched, Refresh, ReceiveNothing, SendAdvertisement, SendFails, loopVars
<1> QED
  BY <1>1, <1>2, NodeStep

\* What a packet of the peer makes of a node.
LEMMA HeardPacket ==
  ASSUME TypeOK, Paired, NEW n \in Node, NEW p \in net, HandleReceive(n, p)
  PROVE  /\ p.from = Peer[n] /\ Silence(n)' = 0 /\ obs'[n] # NoPeer
         /\ obs'[n].state = p.state /\ pc[n] = "select" /\ pc'[n] = "refresh"
         /\ p.age \in Nat /\ p.age <= MaxDelay
<1>1. /\ p.from = Peer[n] /\ obs' = [obs EXCEPT ![n] = Observe(n, p)]
      /\ Observe(n, p) # NoPeer /\ Observe(n, p).age = 0 /\ Observe(n, p).state = p.state
  BY FromPeer
<1>2. obs'[n] = Observe(n, p)
  BY <1>1 DEF TypeOK
<1>3. pc[n] = "select" /\ pc'[n] = "refresh"
  BY DEF HandleReceive, WakeUp, TypeOK
<1>4. p.age \in Nat /\ p.age <= MaxDelay
  BY EnvironmentAssumption DEF TypeOK, HaPacket
<1>5. Silence(n)' = 0
  BY <1>1, <1>2 DEF Silence
<1> QED
  BY <1>1, <1>2, <1>3, <1>4, <1>5

\* A node that starts has heard nothing, and has not waited.
LEMMA StartsSilent ==
  ASSUME TypeOK, Forgotten, NEW n \in Node, Start(n)
  PROVE  /\ Silence(n)' = 0 /\ obs'[n] = NoPeer /\ state'[n] = "Init"
<1>1. state[n] = "Init" /\ obs[n] = NoPeer /\ uptime[n] = 0
  BY DEF Start, Forgotten
<1> QED
  BY <1>1 DEF Start, Silence

\* What an owner and its peer are in a step that is no tick.
KeepStep(n) ==
  /\ TimedTypeOK /\ TimedTypeOK' /\ Paired /\ Lossless /\ NoPreempt /\ Uncut /\ Forgotten
  /\ Owner(n) /\ Owner(n)' /\ ownedFor'[n] = ownedFor[n]
  /\ Environment \/ \E x \in Node : Loop(x)

LEMMA KeepParties ==
  ASSUME NEW n \in Node, KeepStep(n)
  PROVE  /\ Peer[n] \in Node /\ Peer[n] # n /\ Peer[Peer[n]] = n /\ TypeOK /\ TypeOK'
         /\ Running(n) /\ Running(n)' /\ state[n] = "Active" /\ state'[n] = "Active"
         /\ Environment \/ \E x \in Node : Loop(x)
         /\ KeepNumbers /\ KeepNumbers'
<1>1. KeepNumbers'
  BY KeepNumbersType, PTL DEF KeepStep
<1>2. Peer[n] \in Node /\ Peer[n] # n /\ Peer[Peer[n]] = n
  BY NodeAssumption DEF KeepStep, Paired
<1> QED
  BY <1>1, <1>2, KeepNumbersType DEF KeepStep, Owner, TimedTypeOK

LEMMA LoudStep ==
  ASSUME NEW n \in Node, KeepStep(n), Loud(n)
  PROVE  Loud(n)'
<1> DEFINE m == Peer[n]
<1> USE KeepParties
<1> SUFFICES ASSUME Running(m)' PROVE Chased(n, Gap(n)', advertIn'[n], net')
  BY DEF Loud
<1>1. /\ Silence(m) \in Nat /\ Silence(m)' \in Nat /\ ownedFor[n] \in Nat
      /\ ownedFor'[n] = ownedFor[n]
  BY DEF KeepNumbers, KeepStep
<1>2. CASE Silence(m)' = 0
  <2>1. Gap(n)' = 0
    BY <1>1, <1>2 DEF Gap
  <2>2. ChasedNow'
    BY ChaseBegins, PTL
  <2> QED
    BY <2>1, <2>2 DEF ChasedNow
<1>3. CASE ~Running(m)
  <2>1. Start(m)
    BY <1>3, RunsByStart
  <2> QED
    BY <1>2, <2>1, StartsSilent DEF KeepStep
<1>4. CASE Running(m) /\ ~ \E p \in net : HandleReceive(m, p)
  <2>1. Silence(m)' = Silence(m)
    BY <1>4, SilenceStep DEF KeepStep
  <2>2. Gap(n) \in Nat /\ Gap(n)' = Gap(n)
    BY <1>1, <2>1 DEF Gap
  <2>3. Chased(n, Gap(n), advertIn[n], net)
    BY <1>4 DEF Loud
  <2> QED
    BY <1>4, <2>2, <2>3, ChaseStep DEF KeepStep
<1>5. ASSUME NEW p \in net, HandleReceive(m, p) PROVE Silence(m)' = 0
  BY <1>5, HeardPacket DEF KeepStep
<1> QED
  BY <1>2, <1>3, <1>4, <1>5

LEMMA ClaimsStep ==
  ASSUME NEW n \in Node, KeepStep(n), Claims(n)
  PROVE  Claims(n)'
<1> USE KeepParties
<1> SUFFICES ASSUME NEW q \in net', q.from = n, q.age < ownedFor'[n] PROVE q.state = "Active"
  BY DEF Claims
<1>1. CASE q \in net
  BY <1>1 DEF Claims, KeepStep
<1>2. CASE q \notin net
  <2>1. PICK x \in Node : q = [from |-> x, state |-> state[x], age |-> 0]
    BY <1>2, NewPacket
  <2> QED
    BY <2>1
<1> QED
  BY <1>1, <1>2

\* A node that goes by a claim, or waits, goes on so whatever it does.
LEMMA HeededStep ==
  ASSUME NEW n \in Node, KeepStep(n), Loud(n), Patient(Peer[n]), Heeded(n),
         Running(Peer[n]), Running(Peer[n])', ~ \E p \in net : HandleReceive(Peer[n], p)
  PROVE  Heeded(n)'
<1> DEFINE m == Peer[n]
<1> USE KeepParties
<1>1. uptime'[m] = uptime[m] /\ obs'[m] = obs[m] /\ Silence(m)' = Silence(m)
  BY SilenceStep DEF KeepStep
<1>2. Silence(m)' <= ownedFor'[n]
  BY <1>1 DEF Heeded, KeepStep
<1>3. /\ obs[m] = NoPeer => state[m] # "Active"
      /\ obs[m] # NoPeer => obs[m].state = "Active" /\ (pc[m] = "refresh" \/ state[m] # "Active")
  BY DEF Heeded
<1>4. CASE Untouched(m)
  BY <1>1, <1>2, <1>3, <1>4 DEF Heeded, Untouched
<1>5. CASE ReceiveNothing(m) \/ SendAdvertisement(m) \/ SendFails(m)
  <2>1. pc'[m] = "refresh" /\ state'[m] = state[m]
    BY <1>5 DEF ReceiveNothing, SendAdvertisement, SendFails, WakeUp, loopVars, TypeOK
  <2> QED
    BY <1>1, <1>2, <1>3, <2>1 DEF Heeded
<1>6. CASE Refresh(m)
  <2>1. Silence(m) < Window(Config[m])
    <3>1. Silence(m) \in Nat /\ ownedFor[n] \in Nat /\ Silence(m) <= ownedFor[n]
      BY DEF Heeded, KeepNumbers
    <3>2. Gap(n) = Silence(m)
      BY <3>1 DEF Gap
    <3>3. Silence(m) <= Round(n)
      BY <3>1, <3>2, ChaseEnds DEF Loud
    <3>4. Window(Config[m]) > Round(n)
      BY DEF Patient
    <3>5. Window(Config[m]) \in Nat /\ Round(n) \in Nat
      BY KeepQuantities DEF KeepStep
    <3> QED
      BY <3>1, <3>3, <3>4, <3>5
  <2>2. DesiredState(m).state = "Standby"
    <3>1. CASE obs[m] = NoPeer
      BY <1>3, <2>1, <3>1, WaitingDecision DEF Silence
    <3>2. CASE obs[m] # NoPeer
      BY <1>3, <2>1, <3>2, HeededDecision DEF Silence, HasLiveActivePeer, LivePeer, KeepStep
    <3> QED
      BY <3>1, <3>2
  <2>3. state'[m] = "Standby"
    BY <1>6, <2>2 DEF Refresh, TypeOK
  <2> QED
    BY <1>1, <1>2, <1>3, <2>3 DEF Heeded
<1> QED
  BY <1>4, <1>5, <1>6, NodeStep

LEMMA HeedStep ==
  ASSUME NEW n \in Node, KeepStep(n), Loud(n), Claims(n), Patient(Peer[n]), Heed(n)
  PROVE  Heed(n)'
<1> DEFINE m == Peer[n]
<1> USE KeepParties
<1> SUFFICES ASSUME Running(m)', ownedFor'[n] > MaxDelay
             PROVE  Heeded(n)' \/ Chased(n, ownedFor'[n] - MaxDelay, advertIn'[n], net')
  BY DEF Heed
<1>1. /\ ownedFor[n] \in Nat /\ ownedFor'[n] = ownedFor[n] /\ MaxDelay \in Nat
      /\ ownedFor[n] > MaxDelay
  BY EnvironmentAssumption DEF KeepNumbers, KeepStep
<1>2. CASE ~Running(m)
  <2>1. Silence(m)' = 0 /\ obs'[m] = NoPeer /\ state'[m] = "Init"
    BY <1>2, RunsByStart, StartsSilent DEF KeepStep
  <2> QED
    BY <1>1, <2>1 DEF Heeded
<1>3. ASSUME NEW p \in net, HandleReceive(m, p) PROVE Heeded(n)'
  <2>1. /\ p.from = n /\ Silence(m)' = 0 /\ obs'[m] # NoPeer /\ obs'[m].state = p.state
        /\ pc'[m] = "refresh" /\ p.age \in Nat /\ p.age <= MaxDelay
    BY <1>3, HeardPacket DEF KeepStep
  <2>2. p.state = "Active"
    BY <1>1, <2>1 DEF Claims
  <2> QED
    BY <1>1, <2>1, <2>2 DEF Heeded
<1>4. CASE Running(m) /\ Heeded(n) /\ ~ \E p \in net : HandleReceive(m, p)
  BY <1>4, HeededStep
<1>5. CASE Running(m) /\ Chased(n, ownedFor[n] - MaxDelay, advertIn[n], net)
  <2>1. ownedFor[n] - MaxDelay \in Nat /\ ownedFor'[n] - MaxDelay = ownedFor[n] - MaxDelay
    BY <1>1
  <2> QED
    BY <1>3, <1>5, <2>1, ChaseStep DEF KeepStep
<1> QED
  BY <1>1, <1>2, <1>3, <1>4, <1>5 DEF Heed

LEMMA UndisputedStep ==
  ASSUME NEW n \in Node, KeepStep(n), Loud(n), Heed(n), Patient(Peer[n]), Undisputed(n)
  PROVE  Undisputed(n)'
<1> DEFINE m == Peer[n]
<1> USE KeepParties
<1>1. /\ ownedFor[n] \in Nat /\ ownedFor'[n] = ownedFor[n] /\ MaxDelay \in Nat
      /\ Round(n) \in Nat /\ Round(n) = Config[n].interval + MaxDelay
  BY KeepQuantities DEF KeepNumbers, KeepStep
<1>2. ASSUME Running(m), ownedFor[n] > Round(n) + MaxDelay PROVE state[m] # "Active"
  BY <1>2 DEF Undisputed
<1>3. ASSUME NEW q \in net', q.from = m, q.state = "Active"
      PROVE  ownedFor'[n] <= Round(n) + MaxDelay + q.age
  <2>1. CASE q \in net
    BY <1>1, <1>3, <2>1 DEF Undisputed
  <2>2. CASE q \notin net
    <3>1. PICK x \in Node : /\ SendAdvertisement(x)
                            /\ q = [from |-> x, state |-> state[x], age |-> 0]
      BY <2>2, NewPacket
    <3>2. x = m /\ state[m] = "Active" /\ q.age = 0
      BY <1>3, <3>1
    <3>3. Running(m)
      BY <3>1, <3>2 DEF SendAdvertisement, WakeUp, Running
    <3> QED
      BY <1>1, <1>2, <3>2, <3>3
  <2> QED
    BY <2>1, <2>2
<1>4. ASSUME Running(m)', ownedFor'[n] > Round(n) + MaxDelay PROVE state'[m] # "Active"
  <2>1. CASE ~Running(m)
    <3>1. state'[m] = "Init"
      BY <1>4, <2>1, RunsByStart, StartsSilent DEF KeepStep
    <3> QED
      BY <3>1
  <2>2. CASE Running(m) /\ Refresh(m)
    <3>1. ~Chased(n, ownedFor[n] - MaxDelay, advertIn[n], net)
      <4>1. ownedFor[n] - MaxDelay \in Nat /\ ~(ownedFor[n] - MaxDelay <= Round(n))
        BY <1>1, <1>4
      <4> QED
        BY <4>1, ChaseEnds
    <3>2. Heeded(n)
      BY <1>1, <1>4, <2>2, <3>1 DEF Heed
    <3>3. Heeded(n)'
      <4>1. ~ \E p \in net : HandleReceive(m, p)
        BY <2>2 DEF Refresh, HandleReceive, WakeUp
      <4> QED
        BY <1>4, <2>2, <3>2, <4>1, HeededStep
    <3>4. pc'[m] = "select"
      BY <2>2 DEF Refresh, TypeOK
    <3> QED
      BY <3>3, <3>4 DEF Heeded
  <2>3. CASE Running(m) /\ ~Refresh(m)
    <3>1. state'[m] = state[m]
      BY <1>4, <2>3, NodeStep
         DEF Untouched, HandleReceive, ReceiveNothing, SendAdvertisement, SendFails, loopVars
    <3> QED
      BY <1>1, <1>2, <1>4, <2>3, <3>1
  <2> QED
    BY <2>1, <2>2, <2>3
<1>5. ASSUME HasLiveActivePeer(n)'
      PROVE  pc'[n] = "refresh" /\ ownedFor'[n] <= Round(n) + 2 * MaxDelay
  <2>1. CASE Untouched(n)
    BY <1>1, <1>5, <2>1 DEF Untouched, Undisputed, HasLiveActivePeer, LivePeer
  <2>2. CASE Refresh(n)
    <3>1. HasLiveActivePeer(n)
      BY <1>5, <2>2 DEF Refresh, HasLiveActivePeer, LivePeer
    <3>2. DesiredState(n).state = "Standby"
      BY <3>1, HeededDecision DEF KeepStep
    <3> QED
      BY <2>2, <3>2 DEF Refresh, TypeOK
  <2>3. ASSUME NEW p \in net, HandleReceive(n, p)
        PROVE  pc'[n] = "refresh" /\ ownedFor'[n] <= Round(n) + 2 * MaxDelay
    <3>1. /\ p.from = m /\ obs'[n].state = p.state /\ pc'[n] = "refresh"
          /\ p.age \in Nat /\ p.age <= MaxDelay
      BY <2>3, HeardPacket DEF KeepStep
    <3>2. p.state = "Active"
      BY <1>5, <3>1 DEF HasLiveActivePeer
    <3>3. ownedFor[n] <= Round(n) + MaxDelay + p.age
      BY <3>1, <3>2 DEF Undisputed
    <3> QED
      BY <1>1, <3>1, <3>3
  <2>4. CASE ReceiveNothing(n) \/ SendAdvertisement(n) \/ SendFails(n)
    <3>1. pc[n] = "select" /\ obs' = obs
      BY <2>4 DEF ReceiveNothing, SendAdvertisement, SendFails, WakeUp, loopVars
    <3>2. HasLiveActivePeer(n)
      BY <1>5, <3>1 DEF HasLiveActivePeer, LivePeer
    <3> QED
      BY <3>1, <3>2 DEF Undisputed
  <2> QED
    BY <2>1, <2>2, <2>3, <2>4, NodeStep
<1> QED
  BY <1>3, <1>4, <1>5 DEF Undisputed, Round

\* What an owner and its peer are in a tick.
KeepTick(n) ==
  /\ TimedTypeOK /\ TimedTypeOK' /\ Paired /\ Lossless /\ Owner(n) /\ Tick
  /\ ownedFor[n] \in 0..Cap
  /\ ownedFor'[n] = ownedFor[n] + 1 \/ (ownedFor'[n] = Cap /\ ownedFor[n] = Cap)

LEMMA TickParties ==
  ASSUME NEW n \in Node, KeepTick(n)
  PROVE  /\ Peer[n] \in Node /\ Peer[Peer[n]] = n /\ TypeOK /\ TypeOK' /\ Prompt
         /\ Running(n) /\ pc' = pc /\ state' = state
         /\ KeepNumbers /\ KeepNumbers' /\ ownedFor'[n] <= ownedFor[n] + 1
         /\ ChasedNow' /\ ChaseLimits'
<1>1. KeepNumbers'
  BY KeepNumbersType, PTL DEF KeepTick
<1>2. TypeOK' /\ ChasedNow' /\ ChaseLimits'
  <2>1. TypeOK'
    BY DEF KeepTick, TimedTypeOK
  <2> QED
    BY <2>1, ChaseBegins, ChaseIsLimited, PTL
<1>3. Peer[n] \in Node /\ Peer[Peer[n]] = n
  BY NodeAssumption DEF KeepTick, Paired
<1>4. ownedFor'[n] <= ownedFor[n] + 1
  BY CapAssumption DEF KeepTick
<1> QED
  BY <1>1, <1>2, <1>3, <1>4, KeepNumbersType DEF KeepTick, Tick, Owner, TimedTypeOK, Lossless

LEMMA LoudTick ==
  ASSUME NEW n \in Node, KeepTick(n), Loud(n)
  PROVE  Loud(n)'
<1> DEFINE m == Peer[n]
<1> USE TickParties
<1> SUFFICES ASSUME Running(m)' PROVE Chased(n, Gap(n)', advertIn'[n], net')
  BY DEF Loud
<1>1. Running(m)
  BY DEF Running
<1>2. /\ Silence(m) \in Nat /\ Silence(m)' \in Nat /\ ownedFor[n] \in Nat /\ ownedFor'[n] \in Nat
      /\ ownedFor'[n] <= ownedFor[n] + 1
  BY DEF KeepNumbers
<1>3. Silence(m)' <= Silence(m) + 1
  BY <1>1, SilenceTick DEF KeepTick
<1>4. Gap(n) \in Nat /\ Gap(n)' \in Nat /\ Gap(n)' <= Gap(n) + 1
  <2> DEFINE s == Silence(m)
             t == Silence(m)'
  <2>1. /\ Gap(n) = IF s <= ownedFor[n] THEN s ELSE ownedFor[n]
        /\ Gap(n)' = IF t <= ownedFor'[n] THEN t ELSE ownedFor'[n]
    BY DEF Gap
  <2>2. s \in Nat /\ t \in Nat /\ t <= s + 1
    BY <1>2, <1>3
  <2> HIDE DEF s, t
  <2> QED
    BY <1>2, <2>1, <2>2
<1>5. Chased(n, Gap(n), advertIn[n], net)
  BY <1>1 DEF Loud
<1> QED
  BY <1>4, <1>5, ChaseTick DEF KeepTick

LEMMA ClaimsTick ==
  ASSUME NEW n \in Node, KeepTick(n), Claims(n)
  PROVE  Claims(n)'
<1> USE TickParties
<1> SUFFICES ASSUME NEW q \in net', q.from = n, q.age < ownedFor'[n] PROVE q.state = "Active"
  BY DEF Claims
<1>1. PICK r \in net : q = [r EXCEPT !.age = Older(r.age, MaxDelay)]
  BY DEF KeepTick, Tick
<1>2. r.from = n /\ q.age = Older(r.age, MaxDelay) /\ q.state = r.state
  BY <1>1 DEF TypeOK, HaPacket
<1>3. r.age \in Nat /\ r.age + 1 <= MaxDelay /\ MaxDelay \in Nat
  BY PromptPacket, EnvironmentAssumption DEF KeepTick
<1>4. q.age = r.age + 1
  BY <1>2, <1>3 DEF Older
<1>5. r.age < ownedFor[n]
  BY <1>3, <1>4 DEF KeepNumbers
<1> QED
  BY <1>2, <1>5 DEF Claims

LEMMA HeedTick ==
  ASSUME NEW n \in Node, KeepTick(n), Loud(n)', Shown(n), Heed(n)
  PROVE  Heed(n)'
<1> DEFINE m == Peer[n]
<1> USE TickParties
<1> SUFFICES ASSUME Running(m)', ownedFor'[n] > MaxDelay
             PROVE  Heeded(n)' \/ Chased(n, ownedFor'[n] - MaxDelay, advertIn'[n], net')
  BY DEF Heed
<1>1. Running(m)
  BY DEF Running
<1>2. /\ ownedFor[n] \in Nat /\ ownedFor'[n] \in Nat /\ MaxDelay \in Nat /\ Cap \in Nat
      /\ ownedFor'[n] <= ownedFor[n] + 1 /\ Round(n) \in Nat
      /\ Config[n].interval \in Nat /\ Silence(m) \in Nat /\ Silence(m)' \in Nat
  BY KeepQuantities DEF KeepNumbers, KeepTick
<1>3. CASE ownedFor[n] > MaxDelay /\ Heeded(n)
  <2>1. Silence(m)' <= ownedFor'[n]
    <3>1. Silence(m)' <= Silence(m) + 1 /\ Silence(m) <= ownedFor[n]
      BY <1>1, <1>3, SilenceTick DEF KeepTick, Heeded
    <3>2. CASE ownedFor'[n] = ownedFor[n] + 1
      BY <1>2, <3>1, <3>2
    <3>3. CASE ownedFor'[n] = Cap
      <4>1. Chased(n, Gap(n)', advertIn'[n], net')
        BY DEF Loud
      <4>2. Gap(n)' \in Nat
        BY <1>2 DEF Gap
      <4>3. Gap(n)' <= Round(n)
        BY <4>1, <4>2 DEF ChaseLimits, Round
      <4>4. Gap(n)' = Silence(m)' \/ Gap(n)' = Cap
        BY <3>3 DEF Gap
      <4>5. Round(n) < Cap
        BY <1>2 DEF Shown
      <4> QED
        BY <1>2, <3>3, <4>3, <4>4, <4>5
    <3> QED
      BY <3>2, <3>3 DEF KeepTick
  <2>2. (obs'[m] = NoPeer <=> obs[m] = NoPeer) /\ (obs[m] # NoPeer => obs'[m].state = obs[m].state)
    <3>1. obs[m] = NoPeer => obs'[m] = NoPeer
      BY DEF KeepTick, Tick
    <3> QED
      BY <3>1, ObsTick DEF KeepTick
  <2> QED
    BY <1>3, <2>1, <2>2 DEF Heeded
<1>4. CASE ownedFor[n] > MaxDelay /\ Chased(n, ownedFor[n] - MaxDelay, advertIn[n], net)
  <2>1. /\ ownedFor[n] - MaxDelay \in Nat /\ ownedFor'[n] - MaxDelay \in Nat
        /\ ownedFor'[n] - MaxDelay <= (ownedFor[n] - MaxDelay) + 1
    BY <1>2, <1>4
  <2> QED
    BY <1>4, <2>1, ChaseTick DEF KeepTick
<1>5. CASE ~(ownedFor[n] > MaxDelay)
  <2>1. ownedFor'[n] - MaxDelay = 1
    BY <1>2, <1>5
  <2>2. advertIn[n] # 0 /\ advertIn'[n] = advertIn[n] - 1
    BY PromptTick DEF KeepTick
  <2>3. 1 + advertIn'[n] <= Config[n].interval
    BY <1>2, <2>2, ChaseTypes
  <2> QED
    BY <2>1, <2>3 DEF Chased
<1> QED
  BY <1>1, <1>3, <1>4, <1>5 DEF Heed

LEMMA UndisputedTick ==
  ASSUME NEW n \in Node, KeepTick(n), Heed(n)', Undisputed(n)
  PROVE  Undisputed(n)'
<1> DEFINE m == Peer[n]
<1> USE TickParties
<1>1. /\ ownedFor[n] \in Nat /\ ownedFor'[n] \in Nat /\ MaxDelay \in Nat
      /\ ownedFor'[n] <= ownedFor[n] + 1 /\ Round(n) \in Nat
  BY KeepQuantities DEF KeepNumbers, KeepTick
<1>2. ASSUME NEW q \in net', q.from = m, q.state = "Active"
      PROVE  ownedFor'[n] <= Round(n) + MaxDelay + q.age
  <2>1. PICK r \in net : q = [r EXCEPT !.age = Older(r.age, MaxDelay)]
    BY DEF KeepTick, Tick
  <2>2. r.from = m /\ q.age = Older(r.age, MaxDelay) /\ q.state = r.state
    BY <1>2, <2>1 DEF TypeOK, HaPacket
  <2>3. r.age \in Nat /\ r.age + 1 <= MaxDelay
    BY PromptPacket DEF KeepTick
  <2>4. q.age = r.age + 1
    BY <1>1, <2>2, <2>3 DEF Older
  <2>5. ownedFor[n] <= Round(n) + MaxDelay + r.age
    BY <1>2, <2>2 DEF Undisputed
  <2> QED
    BY <1>1, <2>3, <2>4, <2>5
<1>3. ASSUME Running(m)', ownedFor'[n] > Round(n) + MaxDelay PROVE state'[m] # "Active"
  <2>1. ~Chased(n, ownedFor'[n] - MaxDelay, advertIn'[n], net')
    <3>1. ownedFor'[n] - MaxDelay \in Nat /\ ~(ownedFor'[n] - MaxDelay <= Round(n))
      BY <1>1, <1>3
    <3> QED
      BY <3>1 DEF ChaseLimits, Round
  <2>2. Heeded(n)'
    BY <1>1, <1>3, <2>1 DEF Heed
  <2>3. pc'[m] = "select"
    BY <1>3, PromptTick DEF KeepTick, Running
  <2> QED
    BY <2>2, <2>3 DEF Heeded
<1>4. ~HasLiveActivePeer(n)'
  <2>1. pc[n] = "select"
    BY PromptTick DEF KeepTick
  <2>2. ~HasLiveActivePeer(n)
    BY <2>1 DEF Undisputed
  <2>3. CASE obs[n] = NoPeer
    BY <2>3 DEF KeepTick, Tick, HasLiveActivePeer, LivePeer
  <2>4. CASE obs[n] # NoPeer
    <3>1. /\ obs'[n].age = Older(obs[n].age, Window(Config[n])) /\ obs'[n].state = obs[n].state
          /\ obs[n].age \in Nat /\ Window(Config[n]) \in Nat
      BY <2>4, ObsTick, Settings DEF KeepTick
    <3>2. ~(obs[n].age < Window(Config[n])) => ~(obs'[n].age < Window(Config[n]))
      BY <3>1 DEF Older
    <3> QED
      BY <2>2, <2>4, <3>1, <3>2 DEF HasLiveActivePeer, LivePeer
  <2> QED
    BY <2>3, <2>4
<1> QED
  BY <1>2, <1>3, <1>4 DEF Undisputed, Round

\* Who has just become the owner has not been contradicted.
LEMMA KeepBegins ==
  ASSUME TimedTypeOK', NEW n \in Node, ownedFor'[n] = 0,
         HasLiveActivePeer(n)' => pc'[n] = "refresh"
  PROVE  Loud(n)' /\ Claims(n)' /\ Heed(n)' /\ Undisputed(n)'
<1>1. TypeOK' /\ ChasedNow' /\ KeepNumbers'
  <2>1. TypeOK'
    BY DEF TimedTypeOK
  <2> QED
    BY <2>1, ChaseBegins, KeepNumbersType, PTL
<1>2. /\ MaxDelay \in Nat /\ Round(n) \in Nat /\ Peer[n] \in Node
      /\ Config[n].interval \in Nat
  BY EnvironmentAssumption, NodeAssumption, Settings DEF Round
<1>3. \A q \in net' : q.age \in Nat
  BY <1>1, <1>2 DEF TypeOK, HaPacket
<1>4. Loud(n)'
  <2>1. Gap(n)' = 0
    BY <1>1, <1>2 DEF Gap, KeepNumbers
  <2> QED
    BY <1>1, <2>1 DEF Loud, ChasedNow
<1>5. Claims(n)'
  BY <1>3 DEF Claims
<1>6. Heed(n)'
  BY <1>2 DEF Heed
<1>7. Undisputed(n)'
  <2>1. \A q \in net' : ownedFor'[n] <= Round(n) + MaxDelay + q.age
    BY <1>2, <1>3
  <2>2. ~(ownedFor'[n] > Round(n) + MaxDelay) /\ ownedFor'[n] <= Round(n) + 2 * MaxDelay
    BY <1>2
  <2> QED
    BY <2>1, <2>2 DEF Undisputed, Round
<1> QED
  BY <1>4, <1>5, <1>6, <1>7

\* A node becomes the owner by a decision that no live claim is against.
LEMMA PromotedUndisputed ==
  ASSUME TypeOK, Forgotten, NoPreempt, [Next]_vars, NEW n \in Node, ~Owner(n), Owner(n)'
  PROVE  ~HasLiveActivePeer(n)'
<1>1. Running(n)' /\ state'[n] = "Active"
  BY DEF Owner
<1>2. ASSUME NEW x \in Node, Refresh(x) PROVE ~HasLiveActivePeer(n)'
  <2>1. x = n
    <3>1. x # n => pc'[n] = pc[n] /\ state'[n] = state[n]
      BY <1>2 DEF Refresh, TypeOK
    <3> QED
      BY <1>1, <3>1 DEF Owner, Running
  <2>2. DesiredState(n).state = "Active"
    BY <1>1, <1>2, <2>1 DEF Refresh, TypeOK
  <2>3. ~HasLiveActivePeer(n)
    BY <2>2, HeededDecision
  <2> QED
    BY <1>2, <2>3 DEF Refresh, HasLiveActivePeer, LivePeer
<1>3. ASSUME NEW x \in Node, NEW r, End(x, r) PROVE FALSE
  <2>1. x # n
    BY <1>1, <1>3 DEF End, TypeOK
  <2> QED
    BY <1>1, <1>3, <2>1 DEF End, Owner, Running, TypeOK
<1>4. ASSUME UNCHANGED <<state, conflict>> PROVE FALSE
  <2>1. state[n] = "Active" /\ ~Running(n)
    BY <1>1, <1>4 DEF Owner
  <2>2. CASE Tick \/ UNCHANGED vars
    BY <1>1, <2>1, <2>2 DEF Tick, vars, Running
  <2>3. CASE Environment \/ \E x \in Node : Loop(x)
    <3>1. pc[n] = "down"
      BY <1>1, <2>1, <2>3, RunsByStart DEF Start
    <3> QED
      BY <2>1, <3>1 DEF Forgotten
  <2> QED
    BY <2>2, <2>3 DEF Next
<1> QED
  BY <1>2, <1>3, <1>4, StateChanges

LEMMA NextKeep ==
  ASSUME Paired, Lossless, NoPreempt, TimedTypeOK, WatchInv, KeepInv, [TimedNext]_timedVars
  PROVE  KeepInv'
<1>1. TimedTypeOK' /\ TypeOK /\ [Next]_vars
  BY TimedStep, TimedNextType DEF TimedTypeOK
<1>2. Uncut' /\ Forgotten'
  BY <1>1, NextUncut, NextForgotten DEF KeepInv
<1>3. ASSUME NEW n \in Node, Owner(n)' PROVE Keeps(n)'
  <2>1. Shown(n)' <=> Shown(n)
    BY DEF Shown, Patient, Round
  <2>2. CASE ~Owner(n)
    <3>1. ownedFor[n] = 0
      BY <2>2 DEF WatchInv
    <3>2. ~Tick /\ ~UNCHANGED timedVars
      BY <1>3, <2>2 DEF Tick, timedVars, vars, Owner, Running
    <3>3. Watch(0)
      BY <3>2 DEF TimedNext
    <3>4. ownedFor'[n] = 0
      BY <1>3, <3>1, <3>3, OwnedStep
    <3>5. ~HasLiveActivePeer(n)'
      BY <1>1, <1>3, <2>2, PromotedUndisputed DEF KeepInv
    <3> QED
      BY <1>1, <3>4, <3>5, KeepBegins DEF Keeps
  <2>3. CASE Owner(n) /\ Tick /\ Watch(1)
    <3>1. KeepTick(n)
      BY <1>1, <1>3, <2>3, OwnedStep DEF KeepTick
    <3>2. Loud(n)' /\ Claims(n)'
      BY <2>3, <3>1, LoudTick, ClaimsTick DEF KeepInv, Keeps
    <3>3. ASSUME Shown(n) PROVE Heed(n)' /\ Undisputed(n)'
      <4>1. Heed(n)'
        BY <2>3, <3>1, <3>2, <3>3, HeedTick DEF KeepInv, Keeps
      <4> QED
        BY <2>3, <3>1, <3>3, <4>1, UndisputedTick DEF KeepInv, Keeps
    <3> QED
      BY <2>1, <3>2, <3>3 DEF Keeps
  <2>4. CASE Owner(n) /\ (Environment \/ \E x \in Node : Loop(x)) /\ Watch(0)
    <3>1. KeepStep(n)
      BY <1>1, <1>3, <2>4, OwnedStep DEF KeepStep, KeepInv
    <3>2. Loud(n)' /\ Claims(n)'
      BY <2>4, <3>1, LoudStep, ClaimsStep DEF KeepInv, Keeps
    <3>3. ASSUME Shown(n) PROVE Heed(n)' /\ Undisputed(n)'
      BY <2>4, <3>1, <3>3, HeedStep, UndisputedStep DEF KeepInv, Keeps, Shown
    <3> QED
      BY <2>1, <3>2, <3>3 DEF Keeps
  <2>5. CASE UNCHANGED timedVars
    <3>1. /\ Owner(n) /\ Loud(n)' = Loud(n) /\ Claims(n)' = Claims(n)
          /\ Heed(n)' = Heed(n) /\ Undisputed(n)' = Undisputed(n)
      BY <1>3, <2>5 DEF timedVars, vars, Owner, Running, Loud, Claims, Heed, Undisputed, Heeded,
                        Silence, Gap, Chased, HasLiveActivePeer, LivePeer, Round
    <3> QED
      BY <2>1, <3>1 DEF KeepInv, Keeps
  <2> QED
    BY <2>2, <2>3, <2>4, <2>5 DEF TimedNext
<1> QED
  BY <1>2, <1>3 DEF KeepInv, Keeps

\* No claim against an owner that is established, and no rival.
LEMMA EstablishedStep ==
  ASSUME Paired, Lossless, NoPreempt, TimedTypeOK, WatchInv, KeepInv, [TimedNext]_timedVars,
         NEW n \in Node, ownedFor[n] > Round(n) + 2 * MaxDelay, Patient(Peer[n]), Running(n)'
  PROVE  Owner(n)' /\ ~Owner(Peer[n])'
<1>1. /\ ownedFor[n] \in 0..Cap /\ ownedFor[n] \in Nat /\ MaxDelay \in Nat /\ Cap \in Nat
      /\ Round(n) \in Nat
  BY KeepQuantities DEF TimedTypeOK
<1>2. Owner(n) /\ Shown(n)
  BY <1>1 DEF WatchInv, Shown
<1>3. ~HasLiveActivePeer(n)
  BY <1>1, <1>2 DEF KeepInv, Keeps, Undisputed
<1>4. Owner(n)'
  <2> SUFFICES ASSUME ~Owner(n)' PROVE FALSE
    OBVIOUS
  <2>1. state[n] = "Active" /\ state'[n] # "Active" /\ TypeOK
    BY <1>2 DEF Owner, TimedTypeOK
  <2>2. ASSUME NEW x \in Node, Refresh(x) PROVE FALSE
    <3>1. x = n /\ DesiredState(n).state # "Active"
      BY <2>1, <2>2 DEF Refresh, TypeOK
    <3> QED
      BY <1>3, <2>1, <3>1, YieldDecision
  <2>3. ASSUME NEW x \in Node, NEW r, End(x, r) PROVE FALSE
    <3>1. x = n
      BY <2>1, <2>3 DEF End, TypeOK
    <3> QED
      BY <2>1, <2>3, <3>1 DEF End, Running, TypeOK
  <2> QED
    BY <2>1, <2>2, <2>3, TimedStep, StateChanges
<1>5. ownedFor'[n] \in Nat /\ ownedFor'[n] >= ownedFor[n]
  <2>1. ASSUME NEW ticks \in {0, 1}, Watch(ticks)
        PROVE  ownedFor'[n] \in Nat /\ ownedFor'[n] >= ownedFor[n]
    BY <1>1, <1>4, <2>1, OwnedStep
  <2>2. CASE UNCHANGED timedVars
    BY <1>1, <2>2 DEF timedVars
  <2> QED
    BY <2>1, <2>2 DEF TimedNext
<1>6. Undisputed(n)'
  <2>1. KeepInv' /\ Shown(n)'
    BY <1>2, NextKeep DEF Shown, Patient, Round
  <2> QED
    BY <1>4, <2>1 DEF KeepInv, Keeps
<1>7. ownedFor'[n] > Round(n) + MaxDelay
  BY <1>1, <1>5
<1>8. ~Owner(Peer[n])'
  <2>1. Running(Peer[n])' => state'[Peer[n]] # "Active"
    BY <1>6, <1>7 DEF Undisputed, Round
  <2> QED
    BY <2>1 DEF Owner
<1> QED
  BY <1>4, <1>8

\* Without preemption an owner that its peer must have heard of stays the owner,
\* and the only one, whatever is late, reordered or repeated and whoever restarts.
THEOREM EstablishedOwnersKeep ==
  ASSUME Paired, Lossless, NoPreempt
  PROVE  TimedSpec => EstablishedOwnerKeeps
<1>1. TimedInit => TimedTypeOK /\ WatchInv /\ KeepInv
  BY TimedInitType, InitForgotten DEF TimedInit, Init, KeepInv, Uncut, Keeps, Owner, Running
<1>2. TimedTypeOK /\ WatchInv /\ KeepInv /\ [TimedNext]_timedVars
        => (TimedTypeOK /\ WatchInv /\ KeepInv)'
  BY TimedNextType, NextKeep
<1>3. TimedTypeOK /\ WatchInv /\ KeepInv /\ [TimedNext]_timedVars =>
        [ \A n \in Node :
            (ownedFor[n] > Round(n) + 2 * MaxDelay /\ Patient(Peer[n]) /\ Running(n)')
               => (Owner(n)' /\ ~Owner(Peer[n])') ]_timedVars
  BY EstablishedStep
<1> QED
  BY <1>1, <1>2, <1>3, PTL DEF TimedSpec, EstablishedOwnerKeeps
=============================================================================

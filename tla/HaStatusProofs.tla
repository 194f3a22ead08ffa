--------------------------- MODULE HaStatusProofs ---------------------------
(***************************************************************************)
(* What the operator is told is true, for every set of nodes, every        *)
(* configuration and every network: the snapshot agrees with itself, the   *)
(* hooks follow each other, and both are late by no more than they say.    *)
(***************************************************************************)
EXTENDS HaStatus, HaPairProofs

\* The two halves of an HA setup: a packet that a node accepts is from its peer.
PeersOnly == \A m \in Node : Accepts(Peer[m], m) => Peer[Peer[m]] = m

\* What the snapshot and the hooks are made from agrees with the loop: the last
\* transition led to the state the node is in, and so did the first of the hooks
\* that a process remembers; its address tasks are those of transitions; a packet
\* has been counted as soon as a peer is known.
RecordedOf(n) ==
  /\ state[n] = IF last[n] = "none" THEN "Init" ELSE StateFor(last[n])
  /\ pc[n] # "down" =>
       /\ state[n] = StateFor(reason[n])
       /\ IF hooks[n] = <<>> THEN state[n] = "Init" /\ tasks[n] = {}
          ELSE state[n] = hooks[n][1].state /\ state[n] # "Init"
  /\ \A told \in tasks[n] : told.state # told.previous /\ told.state # "Init"
  /\ obs[n] = NoPeer <=> counters[n].received = 0
  /\ pc[n] \in {"stopping", "faulting"} => (leaving[n] = NoPeer <=> obs[n] = NoPeer)

Recorded == \A n \in Node : RecordedOf(n)

\* What a snapshot is made from and what it shows, between any two steps.
CoherenceInv ==
  /\ StatusTypeOK /\ Decided /\ Forgotten /\ Recorded /\ StatusIsCoherent

\* Whoever is observed has been accepted, and so has whoever a running node shows.
ObservesAccepted ==
  \A n \in Node : obs[n] # NoPeer => Accepts(n, obs[n].from) /\ Peer[obs[n].from] = n

ShowsAccepted ==
  \A n \in Node :
    (Running(n) /\ shown[n].peer # NoPeer) => Accepts(n, shown[n].peer.node)

\* How long n and m have both been running with nothing lost.
Both(n, m) == IF since[n] <= since[m] THEN since[n] ELSE since[m]

\* Once a round has passed, the packet with the node's own id has been counted, and
\* once the node has come around its loop the count is shown.
CountInv ==
  \A m \in Node :
    LET n == Peer[m]
    IN  (Running(n) /\ Running(m) /\ ~Accepts(n, m) /\ Config[m].group = Config[n].group) =>
          \/ Chased(m, Both(n, m), advertIn[m], net)
          \/ counters[n].duplicate > 0 /\ shown[n].counters.duplicate > 0
          \/ counters[n].duplicate > 0 /\ pc[n] = "refresh" /\ Both(n, m) <= Round(m)

\* How long n has not shown a live peer.
Unshown(n, m) ==
  IF obs[n] # NoPeer /\ shown[n].alive /\ obs[n].age <= Both(n, m)
  THEN obs[n].age ELSE Both(n, m)

ShownInv ==
  \A m \in Node :
    LET n == Peer[m]
    IN  (Running(n) /\ Running(m) /\ Peer[n] = m /\ Accepts(n, m) /\ Patient(n)) =>
          Chased(m, Unshown(n, m), advertIn[m], net)

\* By then the last packet of a peer that has stopped is a window old.
DeadAfter(n) == Window(Config[n]) + MaxDelay

\* What is left of a peer that has stopped is as old as its absence, but for the
\* delay, and the node that is left comes around its loop.
GoneInv ==
  \A n \in Node :
    LET m == Peer[n]
    IN  ~Running(m) =>
          /\ \A q \in net : q.from = m => q.age >= since[m]
          /\ Running(n) =>
               /\ obs[n] # NoPeer => \/ obs[n].age + MaxDelay >= since[m]
                                     \/ obs[n].age = Window(Config[n])
               /\ \/ ~shown[n].alive
                  \/ since[m] < DeadAfter(n)
                  \/ since[m] + advertIn[n] < DeadAfter(n) + Config[n].interval
-----------------------------------------------------------------------------
(* Steps *)

\* A step with what it shows is a step of the pair.
LEMMA StatusStep ==
  ASSUME [StatusNext]_allVars
  PROVE  [Next]_vars
<1>1. ASSUME ShowNetwork PROVE Next
  BY <1>1 DEF ShowNetwork, Next, Environment
<1>2. ASSUME NEW n \in Node, ShowStep(n) \/ ShowSendFails(n) PROVE Next \/ UNCHANGED vars
  BY <1>2 DEF ShowStep, ShowSendFails, ShowRefresh, ShowReceiveNothing, ShowSend, ShowExit,
              ShowCleanup, ShowTaskFails, ShowStart, ShowCrash, ShowReceive, Next,
              Environment, Loop
<1> QED
  BY <1>1, <1>2 DEF StatusNext, allVars, Next

\* The peer of a snapshot.
ShownPeers ==
  \A n \in Node :
    /\ ShownPeer(n) \in PeerShown \cup {NoPeer}
    /\ ShownPeer(n) = NoPeer <=> obs[n] = NoPeer
    /\ obs[n] # NoPeer => /\ ShownPeer(n).node = obs[n].from
                          /\ ShownPeer(n).state = obs[n].state
                          /\ ShownPeer(n).seen = obs[n].age

LEMMA ShownPeerType == TypeOK => ShownPeers
<1> SUFFICES ASSUME TypeOK, NEW n \in Node
             PROVE  /\ ShownPeer(n) \in PeerShown \cup {NoPeer}
                    /\ ShownPeer(n) = NoPeer <=> obs[n] = NoPeer
                    /\ obs[n] # NoPeer => /\ ShownPeer(n).node = obs[n].from
                                          /\ ShownPeer(n).state = obs[n].state
                                          /\ ShownPeer(n).seen = obs[n].age
  BY DEF ShownPeers
<1>1. CASE obs[n] = NoPeer
  BY <1>1 DEF ShownPeer
<1>2. CASE obs[n] # NoPeer
  <2>1. obs[n] \in PeerObservation
    BY <1>2 DEF TypeOK
  <2>2. ShownPeer(n) = [node |-> obs[n].from, state |-> obs[n].state, seen |-> obs[n].age]
    BY <1>2 DEF ShownPeer
  <2>3. ShownPeer(n) \in PeerShown
    BY <2>1, <2>2 DEF PeerShown, PeerObservation
  <2> QED
    BY <1>2, <2>2, <2>3, StatusAssumption
<1> QED
  BY <1>1, <1>2

\* A snapshot is a Status.
Snapshots == \A n \in Node : Snapshot(n) \in Status /\ Snapshot(n) # NoStatus

Counted ==
  /\ counters \in [Node -> HaCounters]
  /\ last \in [Node -> HaDecisionReason \cup {"none"}]

LEMMA SnapshotType == TypeOK /\ Counted => Snapshots
<1> SUFFICES ASSUME TypeOK, Counted, NEW n \in Node
             PROVE  Snapshot(n) \in Status /\ Snapshot(n) # NoStatus
  BY DEF Snapshots
<1>1. Alive(n, ShownPeer(n)) \in BOOLEAN
  BY DEF Alive
<1>2. ShownPeer(n) \in PeerShown \cup {NoPeer}
  BY ShownPeerType DEF ShownPeers
<1>3. state[n] \in HaState /\ reason[n] \in HaDecisionReason /\ counters[n] \in HaCounters
  BY DEF TypeOK, Counted
<1>4. last[n] \in HaDecisionReason \cup {"none"}
  BY DEF Counted
<1>5. Snapshot(n) \in Status
  BY <1>1, <1>2, <1>3, <1>4 DEF Snapshot, Status
<1> QED
  BY <1>5, StatusAssumption

\* What a node shows once it has published.
LEMMA Published ==
  ASSUME TypeOK', Counted', shown \in [Node -> Status \cup {NoStatus}], NEW n \in Node, Publish(n)
  PROVE  /\ shown' \in [Node -> Status \cup {NoStatus}]
         /\ shown'[n] # NoStatus
         /\ shown'[n].state = state'[n] /\ shown'[n].reason = reason'[n]
         /\ shown'[n].last = last'[n] /\ shown'[n].counters = counters'[n]
         /\ shown'[n].peer = ShownPeer(n)'
         /\ shown'[n].alive = (obs'[n] # NoPeer /\ obs'[n].age < Window(Config[n]))
         /\ \A m \in Node \ {n} : shown'[m] = shown[m]
<1>1. Snapshots'
  BY SnapshotType, PTL
<1>2. shown' \in [Node -> Status \cup {NoStatus}] /\ shown'[n] = Snapshot(n)'
      /\ shown'[n] # NoStatus
  BY <1>1 DEF Publish, Snapshots
<1>3. ShownPeers'
  BY ShownPeerType, PTL
<1>4. Alive(n, ShownPeer(n))' = (obs'[n] # NoPeer /\ obs'[n].age < Window(Config[n]))
  BY <1>3 DEF Alive, ShownPeers
<1>5. \A m \in Node \ {n} : shown'[m] = shown[m]
  BY DEF Publish
<1> QED
  BY <1>2, <1>4, <1>5 DEF Snapshot
-----------------------------------------------------------------------------
(* Type correctness *)

\* A counter counts up to its bound, and is zero only before it has counted.
LEMMA UpType ==
  ASSUME NEW count \in 0..MaxCount
  PROVE  Up(count) \in 1..MaxCount
  BY StatusAssumption DEF Up

\* What a packet does to the counters of its receiver.
LEMMA PacketCounts ==
  ASSUME Counted, NEW n \in Node, NEW from, CountPacket(n, from)
  PROVE  /\ counters' \in [Node -> HaCounters]
         /\ \A m \in Node \ {n} : counters'[m] = counters[m]
         /\ IF Accepts(n, from)
            THEN counters'[n].received > 0
            ELSE counters'[n].received = counters[n].received
         /\ (~Accepts(n, from) /\ Config[from].group = Config[n].group)
              => counters'[n].duplicate > 0
         /\ counters[n].duplicate > 0 => counters'[n].duplicate > 0
<1> DEFINE c == counters[n]
<1>1. c \in HaCounters
  BY DEF Counted
<1>2. /\ c.received \in 0..MaxCount /\ c.invalid \in 0..MaxCount
      /\ c.duplicate \in 0..MaxCount /\ c.sent \in 0..MaxCount
  BY <1>1 DEF HaCounters
<1>3. /\ Up(c.received) \in 1..MaxCount /\ Up(c.invalid) \in 1..MaxCount
      /\ Up(c.duplicate) \in 1..MaxCount
  BY <1>2, UpType
<1>4. /\ 1..MaxCount \subseteq 0..MaxCount
      /\ \A k \in 1..MaxCount : k > 0
  BY StatusAssumption
<1> HIDE DEF c
<1>5. counters'[n] = IF Accepts(n, from) THEN [c EXCEPT !.received = Up(c.received)]
                     ELSE IF Config[from].group = Config[n].group
                     THEN [c EXCEPT !.invalid = Up(c.invalid), !.duplicate = Up(c.duplicate)]
                     ELSE [c EXCEPT !.invalid = Up(c.invalid)]
  BY DEF CountPacket, Counted, c
<1>6. counters'[n] \in HaCounters
  BY <1>1, <1>3, <1>4, <1>5 DEF HaCounters
<1>7. /\ counters' \in [Node -> HaCounters]
      /\ \A m \in Node \ {n} : counters'[m] = counters[m]
  BY <1>6 DEF CountPacket, Counted
<1>8. IF Accepts(n, from) THEN counters'[n].received > 0
      ELSE counters'[n].received = c.received
  BY <1>1, <1>3, <1>4, <1>5 DEF HaCounters
<1>9. /\ (~Accepts(n, from) /\ Config[from].group = Config[n].group)
           => counters'[n].duplicate > 0
      /\ c.duplicate > 0 => counters'[n].duplicate > 0
  BY <1>1, <1>3, <1>4, <1>5 DEF HaCounters
<1> QED
  BY <1>7, <1>8, <1>9 DEF c

ShownTypeOK ==
  /\ Counted
  /\ leaving \in [Node -> PeerShown \cup {NoPeer}]
  /\ shown \in [Node -> Status \cup {NoStatus}]
  /\ hooks \in [Node -> Seq(HookContext)]
  /\ tasks \in [Node -> SUBSET HookContext]

\* What no node but n is told.
ElseSame(n) ==
  \A m \in Node \ {n} :
    /\ counters'[m] = counters[m] /\ last'[m] = last[m] /\ leaving'[m] = leaving[m]
    /\ shown'[m] = shown[m] /\ hooks'[m] = hooks[m] /\ tasks'[m] = tasks[m]

LEMMA NoCountsType == NoCounts \in HaCounters
  BY StatusAssumption DEF NoCounts, HaCounters

\* A refresh records the transition that it makes, its hook and its address task.
LEMMA RefreshRecords ==
  ASSUME TypeOK, TypeOK', ShownTypeOK, NEW n \in Node, ShowRefresh(n)
  PROVE  /\ ShownTypeOK' /\ ElseSame(n) /\ Publish(n)
         /\ UNCHANGED <<counters, leaving>>
         /\ state'[n] = state[n] => UNCHANGED <<last, hooks, tasks>>
         /\ state'[n] # state[n] =>
              \E h \in HookContext :
                /\ h = Context(TransitionEvent(state[n], state'[n]),
                               state[n], state'[n], reason'[n], ShownPeer(n))
                /\ last'[n] = reason'[n] /\ hooks'[n] = <<h>>
                /\ tasks'[n] \subseteq tasks[n] \cup {h}
<1> DEFINE context == Context(TransitionEvent(state[n], state'[n]),
                              state[n], state'[n], reason'[n], ShownPeer(n))
<1>1. UNCHANGED <<counters, leaving>> /\ Publish(n)
  BY DEF ShowRefresh
<1>2. context \in HookContext
  <2>1. ShownPeer(n) \in PeerShown \cup {NoPeer}
    BY ShownPeerType DEF ShownPeers
  <2>2. state[n] \in HaState /\ state'[n] \in HaState /\ reason'[n] \in HaDecisionReason
    BY DEF TypeOK
  <2>3. TransitionEvent(state[n], state'[n]) \in HookEvent
    BY DEF TransitionEvent, HookEvent
  <2> QED
    BY <2>1, <2>2, <2>3 DEF Context, HookContext
<1>3. reason'[n] \in HaDecisionReason
  BY DEF TypeOK
<1>4. IF state'[n] = state[n] THEN UNCHANGED <<last, hooks, tasks>>
      ELSE /\ last' = [last EXCEPT ![n] = reason'[n]]
           /\ hooks' = [hooks EXCEPT ![n] = <<context>>]
           /\ \E mayFail \in SUBSET (tasks[n] \cup {context}) :
                tasks' = [tasks EXCEPT ![n] = mayFail]
  BY DEF ShowRefresh, TriggerStateHooks
<1>5. context = Context(TransitionEvent(state[n], state'[n]),
                        state[n], state'[n], reason'[n], ShownPeer(n))
  OBVIOUS
<1> HIDE DEF context
<1>6. CASE state'[n] = state[n]
  <2>1. UNCHANGED <<last, hooks, tasks>> /\ Counted'
    BY <1>1, <1>4, <1>6 DEF ShownTypeOK, Counted
  <2> QED
    BY <1>1, <1>6, <2>1, Published DEF ShownTypeOK, ElseSame
<1>7. CASE state'[n] # state[n]
  <2>1. PICK mayFail \in SUBSET (tasks[n] \cup {context}) :
               tasks' = [tasks EXCEPT ![n] = mayFail]
    BY <1>4, <1>7
  <2>2. /\ last' = [last EXCEPT ![n] = reason'[n]]
        /\ hooks' = [hooks EXCEPT ![n] = <<context>>]
    BY <1>4, <1>7
  <2>3. mayFail \subseteq HookContext /\ <<context>> \in Seq(HookContext)
    BY <1>2, <2>1 DEF ShownTypeOK
  <2>4. Counted'
    BY <1>1, <1>3, <2>2 DEF ShownTypeOK, Counted
  <2>5. /\ hooks' \in [Node -> Seq(HookContext)]
        /\ tasks' \in [Node -> SUBSET HookContext]
    BY <2>1, <2>2, <2>3 DEF ShownTypeOK
  <2>6. /\ last'[n] = reason'[n] /\ hooks'[n] = <<context>>
        /\ tasks'[n] \subseteq tasks[n] \cup {context}
    BY <2>1, <2>2 DEF ShownTypeOK, Counted
  <2>7. \A m \in Node \ {n} :
          last'[m] = last[m] /\ hooks'[m] = hooks[m] /\ tasks'[m] = tasks[m]
    BY <2>1, <2>2 DEF ShownTypeOK, Counted
  <2>8. ShownTypeOK' /\ ElseSame(n)
    BY <1>1, <2>4, <2>5, <2>7, Published DEF ShownTypeOK, ElseSame
  <2> QED
    BY <1>1, <1>2, <1>5, <1>7, <2>6, <2>8
<1> QED
  BY <1>6, <1>7

\* A step that publishes and keeps everything else but the counters of its node.
LEMMA PublishKeeps ==
  ASSUME TypeOK', ShownTypeOK, NEW n \in Node, Publish(n),
         UNCHANGED <<last, leaving, hooks, tasks>>,
         counters' \in [Node -> HaCounters],
         \A m \in Node \ {n} : counters'[m] = counters[m]
  PROVE  ShownTypeOK' /\ ElseSame(n)
<1>1. Counted'
  BY DEF ShownTypeOK, Counted
<1> QED
  BY <1>1, Published DEF ShownTypeOK, ElseSame

LEMMA ReceiveRecords ==
  ASSUME TypeOK', ShownTypeOK, NEW n \in Node, NEW p \in net, ShowReceive(n, p)
  PROVE  ShownTypeOK' /\ ElseSame(n)
<1>1. /\ counters' \in [Node -> HaCounters]
      /\ \A m \in Node \ {n} : counters'[m] = counters[m]
  BY PacketCounts DEF ShowReceive, ShownTypeOK
<1>2. CASE Accepts(n, p.from)
  BY <1>1, <1>2, PublishKeeps DEF ShowReceive
<1>3. CASE ~Accepts(n, p.from)
  BY <1>1, <1>3 DEF ShowReceive, ShownTypeOK, Counted, ElseSame
<1> QED
  BY <1>2, <1>3

LEMMA SendRecords ==
  ASSUME TypeOK', ShownTypeOK, NEW n \in Node, ShowSend(n) \/ ShowSendFails(n)
  PROVE  /\ ShownTypeOK' /\ ElseSame(n) /\ Publish(n)
         /\ counters'[n].received = counters[n].received
         /\ counters'[n].duplicate = counters[n].duplicate
<1>1. counters[n] \in HaCounters
  BY DEF ShownTypeOK, Counted
<1>2. Up(counters[n].sent) \in 0..MaxCount
  <2>1. counters[n].sent \in 0..MaxCount
    BY <1>1 DEF HaCounters
  <2> QED
    BY <2>1, UpType, StatusAssumption
<1>3. CASE ShowSend(n)
  <2>1. counters'[n] = [counters[n] EXCEPT !.sent = Up(counters[n].sent)]
        /\ \A m \in Node \ {n} : counters'[m] = counters[m]
    BY <1>3 DEF ShowSend, ShownTypeOK, Counted
  <2>2. /\ counters'[n] \in HaCounters
        /\ counters'[n].received = counters[n].received
        /\ counters'[n].duplicate = counters[n].duplicate
    BY <1>1, <1>2, <2>1 DEF HaCounters
  <2>3. counters' \in [Node -> HaCounters]
    BY <1>3, <2>1, <2>2 DEF ShowSend, ShownTypeOK, Counted
  <2> QED
    BY <1>3, <2>1, <2>2, <2>3, PublishKeeps DEF ShowSend
<1>4. CASE ShowSendFails(n)
  BY <1>4, PublishKeeps DEF ShowSendFails, ShownTypeOK, Counted
<1> QED
  BY <1>3, <1>4

LEMMA NothingRecords ==
  ASSUME ShownTypeOK, NEW n \in Node, ShowReceiveNothing(n)
  PROVE  /\ ShownTypeOK' /\ ElseSame(n) /\ UNCHANGED <<last, leaving, shown, hooks, tasks>>
         /\ counters'[n].received = counters[n].received
         /\ counters'[n].duplicate = counters[n].duplicate
<1>1. CASE UNCHANGED counters
  BY <1>1 DEF ShowReceiveNothing, ShownTypeOK, Counted, ElseSame
<1>2. CASE counters' = [counters EXCEPT ![n].invalid = Up(@)]
  <2>1. counters[n] \in HaCounters /\ counters[n].invalid \in 0..MaxCount
    BY DEF ShownTypeOK, Counted, HaCounters
  <2>2. Up(counters[n].invalid) \in 0..MaxCount
    BY <2>1, UpType, StatusAssumption
  <2>3. counters'[n] = [counters[n] EXCEPT !.invalid = Up(counters[n].invalid)]
        /\ \A m \in Node \ {n} : counters'[m] = counters[m]
    BY <1>2 DEF ShownTypeOK, Counted
  <2>4. /\ counters'[n] \in HaCounters
        /\ counters'[n].received = counters[n].received
        /\ counters'[n].duplicate = counters[n].duplicate
    BY <2>1, <2>2, <2>3 DEF HaCounters
  <2>5. counters' \in [Node -> HaCounters]
    BY <1>2, <2>4 DEF ShownTypeOK, Counted
  <2> QED
    BY <2>3, <2>4, <2>5 DEF ShowReceiveNothing, ShownTypeOK, Counted, ElseSame
<1> QED
  BY <1>1, <1>2 DEF ShowReceiveNothing

LEMMA ExitRecords ==
  ASSUME TypeOK, ShownTypeOK, NEW n \in Node, ShowExit(n)
  PROVE  /\ ShownTypeOK' /\ ElseSame(n) /\ UNCHANGED <<counters, last, shown, hooks, tasks>>
         /\ leaving'[n] = ShownPeer(n)
<1>1. ShownPeer(n) \in PeerShown \cup {NoPeer}
  BY ShownPeerType DEF ShownPeers
<1> QED
  BY <1>1 DEF ShowExit, ShownTypeOK, Counted, ElseSame

LEMMA CleanupRecords ==
  ASSUME TypeOK, TypeOK', ShownTypeOK, NEW n \in Node, ShowCleanup(n)
  PROVE  /\ ShownTypeOK' /\ ElseSame(n)
         /\ counters'[n] = NoCounts /\ last'[n] = "none" /\ leaving'[n] = NoPeer
         /\ shown'[n] # NoStatus
         /\ shown'[n].state = "Init" /\ shown'[n].reason = reason'[n]
         /\ shown'[n].last = IF state[n] = "Init" THEN last[n] ELSE reason'[n]
         /\ shown'[n].peer = leaving[n] /\ shown'[n].counters = counters[n]
         /\ hooks'[n] = IF pc[n] = "faulting"
                        THEN <<Context("fault", state[n], "Init", reason'[n], leaving[n])>>
                        ELSE <<>>
         /\ tasks' = tasks
<1> DEFINE status ==
        [ state |-> "Init", reason |-> reason'[n],
          last |-> IF state[n] = "Init" THEN last[n] ELSE reason'[n],
          peer |-> leaving[n], alive |-> Alive(n, leaving[n]), counters |-> counters[n] ]
           context == Context("fault", state[n], "Init", reason'[n], leaving[n])
<1>1. /\ state[n] \in HaState /\ "Init" \in HaState /\ reason'[n] \in HaDecisionReason
      /\ counters[n] \in HaCounters /\ last[n] \in HaDecisionReason \cup {"none"}
      /\ leaving[n] \in PeerShown \cup {NoPeer} /\ Alive(n, leaving[n]) \in BOOLEAN
  BY DEF TypeOK, ShownTypeOK, Counted, HaState, Alive
<1>2. status \in Status /\ status # NoStatus
  BY <1>1, StatusAssumption DEF Status
<1>3. context \in HookContext
  BY <1>1 DEF Context, HookContext, HookEvent
<1>4. /\ shown' = [shown EXCEPT ![n] = status]
      /\ hooks' = [hooks EXCEPT ![n] = IF pc[n] = "faulting" THEN <<context>> ELSE <<>>]
      /\ tasks' = tasks
      /\ counters' = [counters EXCEPT ![n] = NoCounts]
      /\ last' = [last EXCEPT ![n] = "none"]
      /\ leaving' = [leaving EXCEPT ![n] = NoPeer]
  BY DEF ShowCleanup
<1>5. /\ status.state = "Init" /\ status.reason = reason'[n]
      /\ status.last = IF state[n] = "Init" THEN last[n] ELSE reason'[n]
      /\ status.peer = leaving[n] /\ status.counters = counters[n]
  OBVIOUS
<1>6. context = Context("fault", state[n], "Init", reason'[n], leaving[n])
  OBVIOUS
<1> HIDE DEF status, context
<1>7. /\ shown'[n] = status /\ counters'[n] = NoCounts /\ last'[n] = "none"
      /\ leaving'[n] = NoPeer
      /\ hooks'[n] = IF pc[n] = "faulting" THEN <<context>> ELSE <<>>
  BY <1>4 DEF ShownTypeOK, Counted
<1>8. ElseSame(n)
  BY <1>4 DEF ElseSame, ShownTypeOK, Counted
<1>9. ShownTypeOK'
  BY <1>2, <1>3, <1>4, NoCountsType DEF ShownTypeOK, Counted
<1> QED
  BY <1>2, <1>4, <1>5, <1>6, <1>7, <1>8, <1>9

LEMMA StartRecords ==
  ASSUME TypeOK', ShownTypeOK, NEW n \in Node, ShowStart(n)
  PROVE  /\ ShownTypeOK' /\ ElseSame(n) /\ Publish(n)
         /\ hooks'[n] = <<>> /\ tasks'[n] = {} /\ UNCHANGED <<counters, last, leaving>>
<1>1. /\ hooks' = [hooks EXCEPT ![n] = <<>>] /\ tasks' = [tasks EXCEPT ![n] = {}]
      /\ UNCHANGED <<counters, last, leaving>> /\ Publish(n)
  BY DEF ShowStart
<1>2. Counted'
  BY <1>1 DEF ShownTypeOK, Counted
<1> QED
  BY <1>1, <1>2, Published DEF ShownTypeOK, ElseSame

LEMMA CrashRecords ==
  ASSUME ShownTypeOK, NEW n \in Node, ShowCrash(n)
  PROVE  /\ ShownTypeOK' /\ ElseSame(n)
         /\ counters'[n] = NoCounts /\ last'[n] = "none" /\ leaving'[n] = NoPeer
         /\ shown'[n] = NoStatus /\ hooks'[n] = <<>> /\ tasks'[n] = {}
  BY NoCountsType DEF ShowCrash, ShownTypeOK, Counted, ElseSame

\* A failed task is gone, and its fault hook is the last one started.
LEMMA TaskRecords ==
  ASSUME ShownTypeOK, NEW n \in Node, ShowTaskFails(n)
  PROVE  /\ ShownTypeOK' /\ ElseSame(n)
         /\ UNCHANGED <<vars, counters, last, leaving, shown>>
         /\ \E told \in tasks[n] : /\ tasks'[n] = tasks[n] \ {told}
                                   /\ hooks'[n] = Append(hooks[n], FaultOf(told))
                                   /\ FaultOf(told) \in HookContext
<1>1. PICK told \in tasks[n] :
             /\ tasks' = [tasks EXCEPT ![n] = tasks[n] \ {told}]
             /\ hooks' = [hooks EXCEPT ![n] = Append(hooks[n], FaultOf(told))]
  BY DEF ShowTaskFails
<1>2. told \in HookContext /\ hooks[n] \in Seq(HookContext)
  BY DEF ShownTypeOK
<1>3. FaultOf(told) \in HookContext
  BY <1>2 DEF FaultOf, HookContext, HookEvent, HaDecisionReason
<1>4. Append(hooks[n], FaultOf(told)) \in Seq(HookContext)
  BY <1>2, <1>3
<1>5. UNCHANGED <<vars, counters, last, leaving, shown>>
  BY DEF ShowTaskFails
<1>6. ShownTypeOK' /\ ElseSame(n)
  BY <1>1, <1>4, <1>5 DEF ShownTypeOK, Counted, ElseSame
<1>7. /\ tasks'[n] = tasks[n] \ {told}
      /\ hooks'[n] = Append(hooks[n], FaultOf(told))
  BY <1>1 DEF ShownTypeOK
<1> QED
  BY <1>3, <1>5, <1>6, <1>7

\* A stop watch grows by at most the ticks of the step, and starts again when its
\* node starts, stops or loses a packet.
LEMMA WatchStep ==
  ASSUME since \in [Node -> 0..Cap], NEW ticks \in {0, 1}, NEW lost, StopWatch(ticks, lost)
  PROVE  /\ since' \in [Node -> 0..Cap]
         /\ \A n \in Node : /\ since'[n] <= since[n] + ticks
                            /\ n \in lost => since'[n] = 0
                            /\ Running(n)' # Running(n) => since'[n] = 0
<1>1. Cap \in Nat /\ \A n \in Node : since[n] \in Nat /\ since[n] <= Cap
  BY StatusAssumption
<1>2. ASSUME NEW n \in Node
      PROVE  /\ since'[n] \in 0..Cap /\ since'[n] <= since[n] + ticks
             /\ n \in lost => since'[n] = 0
             /\ Running(n)' # Running(n) => since'[n] = 0
  <2>1. since'[n] = IF Running(n)' # Running(n) \/ n \in lost THEN 0
                    ELSE IF since[n] + ticks <= Cap THEN since[n] + ticks ELSE Cap
    BY DEF StopWatch
  <2>2. CASE Running(n)' # Running(n) \/ n \in lost
    BY <1>1, <2>1, <2>2
  <2>3. CASE ~(Running(n)' # Running(n) \/ n \in lost)
    BY <1>1, <2>1, <2>3
  <2> QED
    BY <2>2, <2>3
<1>3. since' \in [Node -> 0..Cap]
  BY <1>2 DEF StopWatch
<1> QED
  BY <1>2, <1>3

LEMMA StatusInitType == StatusInit => StatusTypeOK
<1>1. 0 \in 0..Cap /\ Cap \in 0..Cap
  BY StatusAssumption
<1> QED
  BY <1>1, InitType, NoCountsType DEF StatusInit, StatusTypeOK

LEMMA StatusNextType == StatusTypeOK /\ [StatusNext]_allVars => StatusTypeOK'
<1> SUFFICES ASSUME StatusTypeOK, [StatusNext]_allVars
             PROVE  StatusTypeOK'
  OBVIOUS
<1>1. TypeOK /\ TypeOK' /\ ShownTypeOK
  BY StatusStep, NextType DEF StatusTypeOK, ShownTypeOK, Counted
<1>2. ShownTypeOK'
  <2>1. CASE UNCHANGED statusVars
    BY <1>1, <2>1 DEF statusVars, ShownTypeOK, Counted
  <2>2. ASSUME NEW n \in Node, ShowStep(n) \/ ShowSendFails(n) PROVE ShownTypeOK'
    BY <1>1, <2>2, RefreshRecords, ReceiveRecords, SendRecords, NothingRecords, ExitRecords,
       CleanupRecords, TaskRecords, StartRecords, CrashRecords DEF ShowStep
  <2> QED
    BY <2>1, <2>2 DEF StatusNext, ShowNetwork, allVars
<1>3. since' \in [Node -> 0..Cap]
  <2>1. since \in [Node -> 0..Cap]
    BY DEF StatusTypeOK
  <2>2. CASE UNCHANGED since
    BY <2>1, <2>2
  <2>3. ASSUME NEW ticks \in {0, 1}, NEW lost, StopWatch(ticks, lost)
        PROVE  since' \in [Node -> 0..Cap]
    BY <2>1, <2>3, WatchStep
  <2> QED
    BY <2>2, <2>3 DEF StatusNext, allVars
<1> QED
  BY <1>1, <1>2, <1>3 DEF StatusTypeOK, ShownTypeOK, Counted

\* The counters stay within their bound, and what is shown is a Status: in every
\* step of every node the records that the loop publishes are complete.
THEOREM StatusTypeCorrect == StatusSpec => []StatusTypeOK
  BY StatusInitType, StatusNextType, PTL DEF StatusSpec
-----------------------------------------------------------------------------
(* The snapshot agrees with itself *)

\* What a step of n leaves alone in the loops of the other nodes, and a step of the
\* network in every loop.
NodeSame(m) ==
  /\ pc'[m] = pc[m] /\ state'[m] = state[m] /\ reason'[m] = reason[m]
  /\ obs'[m] = obs[m] /\ advertIn'[m] = advertIn[m]

LEMMA ElseNodeSame ==
  ASSUME TypeOK, NEW n \in Node, ShowStep(n) \/ ShowSendFails(n), NEW m \in Node \ {n}
  PROVE  NodeSame(m)
<1>1. ASSUME NEW r, End(n, r) PROVE NodeSame(m)
  BY <1>1 DEF End, TypeOK, NodeSame
<1>2. ASSUME NEW p \in net, HandleReceive(n, p) PROVE NodeSame(m)
  BY <1>2 DEF HandleReceive, WakeUp, TypeOK, NodeSame
<1>3. Refresh(n) \/ Start(n) => NodeSame(m)
  BY DEF Refresh, Start, TypeOK, NodeSame
<1>4. ReceiveNothing(n) \/ SendAdvertisement(n) \/ SendFails(n) => NodeSame(m)
  BY DEF ReceiveNothing, SendAdvertisement, SendFails, WakeUp, loopVars, TypeOK, NodeSame
<1>5. Shutdown(n) \/ FatalError(n) => NodeSame(m)
  BY DEF Shutdown, FatalError, Exit, loopVars, TypeOK, NodeSame
<1>6. Crash(n) \/ CleanupBeforeExit(n) => \E r : End(n, r)
  BY DEF Crash, CleanupBeforeExit
<1>7. \A p \in net : ShowReceive(n, p) => HandleReceive(n, p)
  BY DEF ShowReceive, Receive, ReceiveDuplicated
<1>8. ShowTaskFails(n) => NodeSame(m)
  BY DEF ShowTaskFails, vars, NodeSame
<1> QED
  BY <1>1, <1>2, <1>3, <1>4, <1>5, <1>6, <1>7, <1>8
     DEF ShowStep, ShowSendFails, ShowRefresh, ShowReceiveNothing, ShowSend, ShowExit,
         ShowCleanup, ShowStart, ShowCrash

LEMMA NetworkNodeSame ==
  ASSUME ShowNetwork, NEW m \in Node
  PROVE  NodeSame(m)
<1>1. \A n \in Node : CutLink(n) \/ HealLink(n) => NodeSame(m)
  BY DEF CutLink, HealLink, loopVars, NodeSame
<1>2. \A p \in net : Lose(p) \/ Unheard(p) => NodeSame(m)
  BY DEF Lose, Unheard, loopVars, NodeSame
<1> QED
  BY <1>1, <1>2 DEF ShowNetwork

\* A tick keeps what the snapshot is made from, but for the age of the peer.
LEMMA TickNodeSame ==
  ASSUME TypeOK, Tick, NEW m \in Node
  PROVE  /\ pc'[m] = pc[m] /\ state'[m] = state[m] /\ reason'[m] = reason[m]
         /\ obs'[m] = NoPeer <=> obs[m] = NoPeer
<1>1. obs[m] # NoPeer => obs'[m] # NoPeer
  BY ObsTick
<1> QED
  BY <1>1 DEF Tick

\* StatusIsCoherent of one node: what holds at every moment, and all of it.
AgreesOf(n) ==
  shown[n] # NoStatus =>
    LET s == shown[n]
    IN  /\ s.state = StateFor(s.reason)
        /\ s.state = IF s.last = "none" THEN "Init" ELSE StateFor(s.last)
        /\ s.peer = NoPeer <=> s.counters.received = 0

CoherentOf(n) ==
  /\ AgreesOf(n)
  /\ (shown[n] # NoStatus /\ pc[n] # "refresh") =>
       /\ shown[n].state = "Init" <=> pc[n] = "down"
       /\ Explains(shown[n].reason, n, shown[n].peer)

LEMMA CoherentNodes == StatusIsCoherent <=> \A n \in Node : CoherentOf(n)
  BY DEF StatusIsCoherent, CoherentOf, AgreesOf

\* A node that has published shows what it has recorded.
LEMMA PublishAgrees ==
  ASSUME TypeOK', ShownTypeOK, ShownTypeOK', NEW n \in Node, Publish(n), RecordedOf(n)',
         pc'[n] # "down"
  PROVE  AgreesOf(n)'
<1>1. /\ shown'[n].state = state'[n] /\ shown'[n].reason = reason'[n]
      /\ shown'[n].last = last'[n] /\ shown'[n].counters = counters'[n]
      /\ shown'[n].peer = ShownPeer(n)'
  BY Published DEF ShownTypeOK
<1>2. ShownPeers'
  BY ShownPeerType, PTL
<1>3. shown'[n].peer = NoPeer <=> obs'[n] = NoPeer
  BY <1>1, <1>2 DEF ShownPeers
<1> QED
  BY <1>1, <1>3 DEF AgreesOf, RecordedOf

\* A decision is for the state that its reason names, and the peer bears it out.
LEMMA ReasonExplains ==
  ASSUME TypeOK, NEW n \in Node
  PROVE  /\ DesiredState(n).state = StateFor(DesiredState(n).reason)
         /\ DesiredState(n).state \in {"Standby", "Active"}
         /\ Explains(DesiredState(n).reason, n, ShownPeer(n))
<1> DEFINE s == ShownPeer(n)
<1>1. /\ s = NoPeer <=> obs[n] = NoPeer
      /\ obs[n] # NoPeer => s.state = obs[n].state /\ s.seen = obs[n].age
  BY ShownPeerType DEF ShownPeers
<1>2. DesiredState(n).state \in {"Standby", "Active"}
  BY DecisionFields
<1> HIDE DEF s
<1>3. CASE ~LivePeer(n)
  <2>1. DesiredState(n) =
          DesiredStateWithoutLivePeer(Config[n], state[n], obs[n] # NoPeer, uptime[n])
    BY <1>3 DEF DesiredState
  <2>2. DesiredState(n).state = StateFor(DesiredState(n).reason)
    BY <2>1 DEF DesiredStateWithoutLivePeer, Decision, StateFor, Inits, Standbys
  <2>3. Explains(DesiredState(n).reason, n, s)
    BY <1>1, <1>3, <2>1 DEF DesiredStateWithoutLivePeer, Decision, Explains, LivePeer
  <2> QED
    BY <1>2, <2>2, <2>3 DEF s
<1>4. CASE HasLiveActivePeer(n)
  <2>1. DesiredState(n) = DesiredStateWithActivePeer(Config[n], Config[obs[n].from],
                                                     obs[n].becameActive, conflict[n])
    BY <1>4 DEF DesiredState, HasLiveActivePeer
  <2>2. DesiredState(n).state = StateFor(DesiredState(n).reason)
    BY <2>1 DEF DesiredStateWithActivePeer, Decision, StateFor, Inits, Standbys,
                LocalWinReason, PeerWinReason
  <2>3. Explains(DesiredState(n).reason, n, s)
    BY <1>1, <1>4, <2>1 DEF DesiredStateWithActivePeer, Decision, Explains, LocalWinReason,
                            PeerWinReason, HasLiveActivePeer, LivePeer
  <2> QED
    BY <1>2, <2>2, <2>3 DEF s
<1>5. CASE LivePeer(n) /\ obs[n].state # "Active"
  <2>1. DesiredState(n) = DesiredStateWithPassivePeer(Config[n], state[n], Config[obs[n].from])
    BY <1>5 DEF DesiredState
  <2>2. DesiredState(n).state = StateFor(DesiredState(n).reason)
    BY <2>1 DEF DesiredStateWithPassivePeer, Decision, StateFor, Inits, Standbys,
                LocalWinReason, PeerWinReason
  <2>3. Explains(DesiredState(n).reason, n, s)
    BY <1>1, <1>5, <2>1 DEF DesiredStateWithPassivePeer, Decision, Explains, LocalWinReason,
                            PeerWinReason, LivePeer
  <2> QED
    BY <1>2, <2>2, <2>3 DEF s
<1> QED
  BY <1>3, <1>4, <1>5 DEF HasLiveActivePeer

\* HooksFormAChain, of one node.
ChainOf(n) ==
  LET before == IF hooks[n] = <<>> THEN "Init" ELSE hooks[n][1].state
  IN  IF state'[n] # state[n]
      THEN \/ /\ Len(hooks'[n]) = 1 /\ hooks'[n][1].state = state'[n]
              /\ Announces(hooks'[n][1], n, before)
           \/ hooks'[n] = <<>> /\ pc'[n] = "down"
      ELSE \/ hooks'[n] = hooks[n]
           \/ hooks'[n] = <<>> /\ pc[n] = "down"
           \/ \E told \in tasks[n] \ tasks'[n] :
                /\ hooks'[n] = Append(hooks[n], FaultOf(told))
                /\ told.state # told.previous /\ told.state # "Init"

\* A node tells the truth after a step, and has started no hook but the right one.
Truthful(n) == RecordedOf(n)' /\ CoherentOf(n)' /\ ChainOf(n)

\* A refresh that makes a transition starts its hook.
LEMMA TransitionChains ==
  ASSUME TypeOK, TypeOK', ShownTypeOK, NEW n \in Node, RecordedOf(n), ShowRefresh(n),
         state'[n] # state[n]
  PROVE  /\ last'[n] = reason'[n]
         /\ hooks'[n] # <<>> /\ hooks'[n][1].state = state'[n]
         /\ \A told \in tasks'[n] : told.state # told.previous /\ told.state # "Init"
         /\ ChainOf(n)
<1> DEFINE d == DesiredState(n)
<1>1. /\ d.state = StateFor(d.reason) /\ d.state \in {"Standby", "Active"}
      /\ Explains(d.reason, n, ShownPeer(n))
  BY ReasonExplains
<1>2. pc[n] = "refresh" /\ state'[n] = d.state /\ reason'[n] = d.reason
  BY DEF ShowRefresh, Refresh, TypeOK
<1> HIDE DEF d
<1>3. PICK h \in HookContext :
             /\ h = Context(TransitionEvent(state[n], state'[n]),
                            state[n], state'[n], reason'[n], ShownPeer(n))
             /\ last'[n] = reason'[n] /\ hooks'[n] = <<h>>
             /\ tasks'[n] \subseteq tasks[n] \cup {h}
  BY RefreshRecords
<1>4. /\ h.previous = state[n] /\ h.state = d.state /\ h.reason = d.reason
      /\ h.peer = ShownPeer(n) /\ h.event = TransitionEvent(state[n], d.state)
  BY <1>2, <1>3 DEF Context
<1>5. hooks'[n] # <<>> /\ Len(hooks'[n]) = 1 /\ hooks'[n][1] = h
  BY <1>3
<1>6. \A told \in tasks'[n] : told.state # told.previous /\ told.state # "Init"
  BY <1>1, <1>2, <1>3, <1>4 DEF RecordedOf
<1>7. state[n] = IF hooks[n] = <<>> THEN "Init" ELSE hooks[n][1].state
  BY <1>2 DEF RecordedOf
<1>8. Announces(h, n, state[n])
  <2>1. state[n] \in {"Init", "Standby", "Active"} /\ h.state # state[n] /\ h.state # "Init"
    BY <1>1, <1>2, <1>4 DEF TypeOK, HaState
  <2>2. h.event \in CASE state[n] = "Init" -> {"backup", "promote"}
                      [] state[n] = "Standby" -> {"promote"}
                      [] state[n] = "Active" -> {"demote"}
    BY <1>1, <1>4, <2>1 DEF TransitionEvent
  <2> QED
    BY <1>1, <1>4, <2>1, <2>2 DEF Announces
<1>9. ChainOf(n)
  BY <1>2, <1>4, <1>5, <1>7, <1>8 DEF ChainOf
<1> QED
  BY <1>2, <1>3, <1>4, <1>5, <1>6, <1>9

LEMMA RefreshIsTrue ==
  ASSUME StatusTypeOK, TypeOK', NEW n \in Node, RecordedOf(n), ShowRefresh(n)
  PROVE  Truthful(n)
<1> DEFINE d == DesiredState(n)
<1>1. TypeOK /\ ShownTypeOK
  BY DEF StatusTypeOK, ShownTypeOK, Counted
<1>2. /\ d.state = StateFor(d.reason) /\ d.state \in {"Standby", "Active"}
      /\ Explains(d.reason, n, ShownPeer(n)) /\ d.reason \in HaDecisionReason
  BY <1>1, ReasonExplains, DecisionFields
<1>3. /\ pc[n] = "refresh" /\ pc'[n] = "select" /\ obs' = obs
      /\ state'[n] = d.state /\ reason'[n] = d.reason
  BY <1>1 DEF ShowRefresh, Refresh, TypeOK
<1> HIDE DEF d
<1>4. /\ ShownTypeOK' /\ Publish(n) /\ UNCHANGED <<counters, leaving>>
      /\ state'[n] = state[n] => UNCHANGED <<last, hooks, tasks>>
  BY <1>1, RefreshRecords
<1>5. RecordedOf(n)' /\ ChainOf(n)
  <2>1. state'[n] = StateFor(reason'[n])
    BY <1>2, <1>3
  <2>2. CASE state'[n] = state[n]
    <3>1. ChainOf(n)
      BY <1>4, <2>2 DEF ChainOf
    <3> QED
      BY <1>3, <1>4, <2>1, <2>2, <3>1 DEF RecordedOf
  <2>3. CASE state'[n] # state[n]
    <3>1. /\ last'[n] = reason'[n]
          /\ hooks'[n] # <<>> /\ hooks'[n][1].state = state'[n]
          /\ \A told \in tasks'[n] : told.state # told.previous /\ told.state # "Init"
          /\ ChainOf(n)
      BY <1>1, <2>3, TransitionChains
    <3>2. last'[n] # "none"
      BY <1>2, <1>3, <3>1 DEF HaDecisionReason
    <3> QED
      BY <1>2, <1>3, <1>4, <2>1, <3>1, <3>2 DEF RecordedOf
  <2> QED
    BY <2>2, <2>3
<1>6. CoherentOf(n)'
  <2>1. AgreesOf(n)'
    BY <1>1, <1>3, <1>4, <1>5, PublishAgrees
  <2>2. ShownPeer(n)' = ShownPeer(n)
    BY <1>3 DEF ShownPeer
  <2>3. /\ shown'[n].state = d.state /\ shown'[n].reason = d.reason
        /\ shown'[n].peer = ShownPeer(n)
    BY <1>1, <1>3, <1>4, <2>2, Published DEF ShownTypeOK
  <2> QED
    BY <1>2, <1>3, <2>1, <2>3 DEF CoherentOf
<1> QED
  BY <1>5, <1>6 DEF Truthful

\* What a node is told by a step that changes nothing that it shows, a tick included.
LEMMA QuietIsTrue ==
  ASSUME NEW n \in Node, RecordedOf(n), CoherentOf(n),
         pc'[n] = pc[n], state'[n] = state[n], reason'[n] = reason[n],
         obs'[n] = NoPeer <=> obs[n] = NoPeer,
         counters'[n] = counters[n], last'[n] = last[n], leaving'[n] = leaving[n],
         shown'[n] = shown[n], hooks'[n] = hooks[n], tasks'[n] = tasks[n]
  PROVE  Truthful(n)
<1>1. RecordedOf(n)'
  BY DEF RecordedOf
<1>2. CoherentOf(n)'
  BY DEF CoherentOf, AgreesOf
<1> QED
  BY <1>1, <1>2 DEF Truthful, ChainOf

\* A task that fails leaves the hook of the last change first, and the loop alone.
LEMMA TaskIsTrue ==
  ASSUME StatusTypeOK, NEW n \in Node, RecordedOf(n), CoherentOf(n), ShowTaskFails(n)
  PROVE  Truthful(n)
<1>1. ShownTypeOK
  BY DEF StatusTypeOK, ShownTypeOK, Counted
<1>2. UNCHANGED <<vars, counters, last, leaving, shown>>
  BY <1>1, TaskRecords
<1>3. PICK told \in tasks[n] : /\ tasks'[n] = tasks[n] \ {told}
                              /\ hooks'[n] = Append(hooks[n], FaultOf(told))
                              /\ FaultOf(told) \in HookContext
  BY <1>1, TaskRecords
<1>4. pc[n] # "down" => hooks[n] # <<>> /\ hooks'[n] # <<>> /\ hooks'[n][1] = hooks[n][1]
  <2> SUFFICES ASSUME pc[n] # "down"
               PROVE  hooks[n] # <<>> /\ hooks'[n] # <<>> /\ hooks'[n][1] = hooks[n][1]
    OBVIOUS
  <2>1. hooks[n] # <<>> /\ hooks[n] \in Seq(HookContext)
    BY <1>1 DEF RecordedOf, ShownTypeOK
  <2>2. 1 \in 1..Len(hooks[n])
    BY <2>1
  <2> QED
    BY <1>3, <2>1, <2>2
<1>5. RecordedOf(n)'
  BY <1>2, <1>3, <1>4 DEF RecordedOf, vars
<1>6. CoherentOf(n)'
  BY <1>2 DEF CoherentOf, AgreesOf, vars
<1>7. ChainOf(n)
  <2>1. told \in tasks[n] \ tasks'[n] /\ told.state # told.previous /\ told.state # "Init"
    BY <1>3 DEF RecordedOf
  <2> QED
    BY <1>2, <1>3, <2>1 DEF ChainOf, vars
<1> QED
  BY <1>5, <1>6, <1>7 DEF Truthful

\* A step after which the node is about to decide records nothing but a packet, and
\* publishes that or nothing.
LEMMA WakeIsTrue ==
  ASSUME TypeOK', ShownTypeOK, ShownTypeOK',
         NEW n \in Node, RecordedOf(n), CoherentOf(n), pc[n] # "down", pc'[n] = "refresh",
         state'[n] = state[n], reason'[n] = reason[n], last'[n] = last[n],
         hooks'[n] = hooks[n], tasks'[n] = tasks[n],
         obs'[n] = NoPeer <=> counters'[n].received = 0,
         Publish(n) \/ shown'[n] = shown[n]
  PROVE  Truthful(n)
<1>1. RecordedOf(n)'
  BY DEF RecordedOf
<1>2. CASE Publish(n)
  BY <1>1, <1>2, PublishAgrees DEF CoherentOf, ChainOf, Truthful
<1>3. CASE shown'[n] = shown[n]
  BY <1>1, <1>3 DEF CoherentOf, AgreesOf, ChainOf, Truthful
<1> QED
  BY <1>2, <1>3

LEMMA ReceiveIsTrue ==
  ASSUME StatusTypeOK, TypeOK', NEW n \in Node, RecordedOf(n), CoherentOf(n),
         NEW p \in net, ShowReceive(n, p)
  PROVE  Truthful(n)
<1>1. Counted /\ TypeOK /\ p \in HaPacket /\ ShownTypeOK
  BY DEF StatusTypeOK, ShownTypeOK, Counted, TypeOK
<1>2. /\ HandleReceive(n, p) /\ CountPacket(n, p.from) /\ UNCHANGED <<last, hooks, tasks>>
      /\ ShownTypeOK' /\ (Publish(n) \/ shown' = shown)
  BY <1>1, ReceiveRecords DEF ShowReceive, Receive, ReceiveDuplicated
<1>3. pc[n] = "select" /\ pc'[n] = "refresh" /\ UNCHANGED <<state, reason>>
  BY <1>1, <1>2 DEF HandleReceive, WakeUp, TypeOK
<1>4. obs'[n] = NoPeer <=> counters'[n].received = 0
  <2>1. CASE Accepts(n, p.from)
    <3>1. obs'[n] = Observe(n, p) /\ obs'[n] # NoPeer
      BY <1>1, <1>2, <2>1, ObserveType DEF HandleReceive, TypeOK
    <3>2. counters'[n].received > 0 /\ counters'[n] \in HaCounters
      BY <1>1, <1>2, <2>1, PacketCounts
    <3>3. counters'[n].received # 0
      BY <3>2, StatusAssumption DEF HaCounters
    <3> QED
      BY <3>1, <3>3
  <2>2. CASE ~Accepts(n, p.from)
    <3>1. obs' = obs /\ counters'[n].received = counters[n].received
      BY <1>1, <1>2, <2>2, PacketCounts DEF HandleReceive
    <3> QED
      BY <3>1 DEF RecordedOf
  <2> QED
    BY <2>1, <2>2
<1> QED
  BY <1>1, <1>2, <1>3, <1>4, WakeIsTrue

LEMMA SendIsTrue ==
  ASSUME StatusTypeOK, TypeOK', NEW n \in Node, RecordedOf(n), CoherentOf(n),
         ShowSend(n) \/ ShowSendFails(n) \/ ShowReceiveNothing(n)
  PROVE  Truthful(n)
<1>1. TypeOK /\ ShownTypeOK
  BY DEF StatusTypeOK, ShownTypeOK, Counted
<1>2. /\ pc[n] = "select" /\ pc'[n] = "refresh"
      /\ UNCHANGED <<state, reason, obs, last, hooks, tasks>>
  BY <1>1 DEF ShowSend, ShowSendFails, ShowReceiveNothing, SendAdvertisement, SendFails,
              ReceiveNothing, WakeUp, loopVars, TypeOK
<1>3. /\ counters'[n].received = counters[n].received /\ ShownTypeOK'
      /\ Publish(n) \/ shown' = shown
  BY <1>1, SendRecords, NothingRecords
<1>4. obs'[n] = NoPeer <=> counters'[n].received = 0
  BY <1>2, <1>3 DEF RecordedOf
<1> QED
  BY <1>1, <1>2, <1>3, <1>4, WakeIsTrue

LEMMA StartIsTrue ==
  ASSUME StatusTypeOK, TypeOK', Forgotten, NEW n \in Node, RecordedOf(n), ShowStart(n)
  PROVE  Truthful(n)
<1>1. TypeOK /\ ShownTypeOK
  BY DEF StatusTypeOK, ShownTypeOK, Counted
<1>2. /\ pc[n] = "down" /\ pc'[n] = "refresh" /\ UNCHANGED <<state, obs>>
      /\ reason'[n] = "Startup"
  BY <1>1 DEF ShowStart, Start, TypeOK
<1>3. /\ hooks'[n] = <<>> /\ tasks'[n] = {} /\ UNCHANGED <<counters, last, leaving>>
      /\ Publish(n) /\ ShownTypeOK'
  BY <1>1, StartRecords
<1>4. state[n] = "Init" /\ StateFor("Startup") = "Init"
  BY <1>2 DEF Forgotten, StateFor, Inits
<1>5. RecordedOf(n)'
  BY <1>2, <1>3, <1>4 DEF RecordedOf
<1>6. AgreesOf(n)'
  BY <1>1, <1>2, <1>3, <1>5, PublishAgrees
<1> QED
  BY <1>2, <1>3, <1>5, <1>6 DEF CoherentOf, ChainOf, Truthful

LEMMA ExitIsTrue ==
  ASSUME StatusTypeOK, NEW n \in Node, RecordedOf(n), CoherentOf(n), ShowExit(n)
  PROVE  Truthful(n)
<1>1. TypeOK /\ ShownTypeOK
  BY DEF StatusTypeOK, ShownTypeOK, Counted
<1>2. /\ pc[n] = "select" /\ pc'[n] \in {"stopping", "faulting"}
      /\ UNCHANGED <<state, reason, obs>>
  BY <1>1 DEF ShowExit, Shutdown, FatalError, Exit, loopVars, TypeOK
<1>3. UNCHANGED <<counters, last, shown, hooks, tasks>> /\ leaving'[n] = ShownPeer(n)
  BY <1>1, ExitRecords
<1>4. ShownPeer(n) = NoPeer <=> obs[n] = NoPeer
  BY <1>1, ShownPeerType DEF ShownPeers
<1>5. RecordedOf(n)'
  BY <1>2, <1>3, <1>4 DEF RecordedOf
<1>6. CoherentOf(n)'
  BY <1>2, <1>3 DEF CoherentOf, AgreesOf
<1> QED
  BY <1>2, <1>3, <1>5, <1>6 DEF Truthful, ChainOf

LEMMA CleanupIsTrue ==
  ASSUME StatusTypeOK, TypeOK', Decided, NEW n \in Node, RecordedOf(n), ShowCleanup(n)
  PROVE  Truthful(n)
<1>1. TypeOK /\ ShownTypeOK
  BY DEF StatusTypeOK, ShownTypeOK, Counted
<1>2. /\ pc[n] \in {"stopping", "faulting"} /\ pc'[n] = "down"
      /\ state'[n] = "Init" /\ obs'[n] = NoPeer
      /\ reason'[n] \in {"GracefulShutdown", "RuntimeFault"}
  BY <1>1 DEF ShowCleanup, CleanupBeforeExit, End, TypeOK
<1>3. state[n] # "Init"
  BY <1>2 DEF Decided
<1>4. StateFor(reason'[n]) = "Init" /\ reason'[n] # "none"
      /\ \A peer : Explains(reason'[n], n, peer)
  BY <1>2 DEF StateFor, Inits, Explains
<1>5. /\ counters'[n] = NoCounts /\ last'[n] = "none" /\ leaving'[n] = NoPeer
      /\ shown'[n].state = "Init" /\ shown'[n].reason = reason'[n]
      /\ shown'[n].last = IF state[n] = "Init" THEN last[n] ELSE reason'[n]
      /\ shown'[n].peer = leaving[n] /\ shown'[n].counters = counters[n]
      /\ hooks'[n] = IF pc[n] = "faulting"
                     THEN <<Context("fault", state[n], "Init", reason'[n], leaving[n])>>
                     ELSE <<>>
      /\ tasks' = tasks
  BY <1>1, CleanupRecords
<1>6. leaving[n] = NoPeer <=> counters[n].received = 0
  BY <1>2 DEF RecordedOf
<1>7. state[n] = IF hooks[n] = <<>> THEN "Init" ELSE hooks[n][1].state
  BY <1>2 DEF RecordedOf
<1>8. RecordedOf(n)'
  BY <1>2, <1>5 DEF RecordedOf, NoCounts
<1>9. CoherentOf(n)'
  BY <1>2, <1>3, <1>4, <1>5, <1>6 DEF CoherentOf, AgreesOf
<1>10. ChainOf(n)
  <2> DEFINE h == Context("fault", state[n], "Init", reason'[n], leaving[n])
  <2>1. CASE pc[n] = "faulting"
    <3>1. /\ h.previous = state[n] /\ h.state = "Init"
          /\ h.reason = reason'[n] /\ h.event = "fault"
      BY DEF Context
    <3>2. hooks'[n] = <<h>>
      BY <1>5, <2>1
    <3> HIDE DEF h
    <3>3. Len(hooks'[n]) = 1 /\ hooks'[n][1] = h
      BY <3>2
    <3>4. Announces(h, n, state[n])
      BY <1>3, <1>4, <3>1 DEF Announces
    <3> QED
      BY <1>2, <1>3, <1>7, <3>1, <3>3, <3>4 DEF ChainOf
  <2>2. CASE pc[n] # "faulting"
    BY <1>2, <1>3, <1>5, <2>2 DEF ChainOf
  <2> QED
    BY <2>1, <2>2
<1> QED
  BY <1>8, <1>9, <1>10 DEF Truthful

LEMMA CrashIsTrue ==
  ASSUME StatusTypeOK, NEW n \in Node, RecordedOf(n), ShowCrash(n)
  PROVE  Truthful(n)
<1>1. ShownTypeOK /\ TypeOK
  BY DEF StatusTypeOK, ShownTypeOK, Counted
<1>2. pc[n] # "down" /\ pc'[n] = "down" /\ state'[n] = "Init" /\ obs'[n] = NoPeer
  BY <1>1 DEF ShowCrash, Crash, End, TypeOK
<1>3. /\ counters'[n] = NoCounts /\ last'[n] = "none" /\ shown'[n] = NoStatus
      /\ hooks'[n] = <<>> /\ tasks'[n] = {}
  BY <1>1, CrashRecords
<1>4. RecordedOf(n)' /\ CoherentOf(n)'
  BY <1>2, <1>3 DEF RecordedOf, CoherentOf, AgreesOf, NoCounts
<1>5. ChainOf(n)
  <2>1. CASE state'[n] # state[n]
    BY <1>2, <1>3, <2>1 DEF ChainOf
  <2>2. CASE state'[n] = state[n]
    <3>1. hooks[n] = <<>>
      BY <1>2, <2>2 DEF RecordedOf
    <3> QED
      BY <1>3, <2>2, <3>1 DEF ChainOf
  <2> QED
    BY <2>1, <2>2
<1> QED
  BY <1>4, <1>5 DEF Truthful

\* Every node tells the truth after every step.
LEMMA NextIsTrue ==
  ASSUME CoherenceInv, [StatusNext]_allVars, NEW n \in Node
  PROVE  Truthful(n)
<1>1. /\ TypeOK /\ TypeOK' /\ StatusTypeOK /\ ShownTypeOK
      /\ Decided /\ Forgotten /\ RecordedOf(n) /\ CoherentOf(n)
  BY StatusStep, NextType, CoherentNodes
     DEF CoherenceInv, StatusTypeOK, ShownTypeOK, Counted, Recorded
<1>2. CASE UNCHANGED allVars
  BY <1>1, <1>2, QuietIsTrue DEF allVars, vars, statusVars
<1>3. CASE Tick /\ UNCHANGED statusVars
  BY <1>1, <1>3, TickNodeSame, QuietIsTrue DEF statusVars
<1>4. CASE ShowNetwork
  BY <1>1, <1>4, NetworkNodeSame, QuietIsTrue DEF ShowNetwork, NodeSame, statusVars
<1>5. ASSUME NEW m \in Node \ {n}, ShowStep(m) \/ ShowSendFails(m)
      PROVE  Truthful(n)
  <2>1. ElseSame(m)
    BY <1>1, <1>5, RefreshRecords, ReceiveRecords, SendRecords, NothingRecords, ExitRecords,
       CleanupRecords, TaskRecords, StartRecords, CrashRecords DEF ShowStep
  <2> QED
    BY <1>1, <1>5, <2>1, ElseNodeSame, QuietIsTrue DEF NodeSame, ElseSame
<1>6. CASE ShowStep(n) \/ ShowSendFails(n)
  BY <1>1, <1>6, RefreshIsTrue, ReceiveIsTrue, SendIsTrue, StartIsTrue, ExitIsTrue,
     CleanupIsTrue, TaskIsTrue, CrashIsTrue DEF ShowStep
<1> QED
  BY <1>2, <1>3, <1>4, <1>5, <1>6 DEF StatusNext

LEMMA InitCoherence == StatusInit => CoherenceInv
<1> SUFFICES ASSUME StatusInit PROVE CoherenceInv
  OBVIOUS
<1>1. StatusTypeOK /\ Decided /\ Forgotten
  BY StatusInitType, InitDecided, InitForgotten DEF StatusInit
<1>2. Recorded
  BY DEF StatusInit, Init, Recorded, RecordedOf, NoCounts
<1>3. StatusIsCoherent
  BY DEF StatusInit, StatusIsCoherent
<1> QED
  BY <1>1, <1>2, <1>3 DEF CoherenceInv

LEMMA NextCoherence == CoherenceInv /\ [StatusNext]_allVars => CoherenceInv'
<1> SUFFICES ASSUME CoherenceInv, [StatusNext]_allVars PROVE CoherenceInv'
  OBVIOUS
<1>1. StatusTypeOK' /\ Decided' /\ Forgotten'
  BY StatusStep, StatusNextType, NextDecided, NextForgotten DEF CoherenceInv, StatusTypeOK
<1>2. Recorded' /\ StatusIsCoherent'
  <2>1. Recorded' /\ \A n \in Node : CoherentOf(n)'
    BY NextIsTrue DEF Truthful, Recorded
  <2> QED
    BY <2>1 DEF StatusIsCoherent, CoherentOf, AgreesOf
<1> QED
  BY <1>1, <1>2 DEF CoherenceInv

LEMMA CoherenceHolds == StatusSpec => []CoherenceInv
  BY InitCoherence, NextCoherence, PTL DEF StatusSpec

\* Whatever is lost, late, cut or crashes, the answer to GET /status agrees with
\* itself: at every moment its reason and its last transition are for its state and
\* its counters know of its peer; and between two rounds of the loop its peer bears
\* the reason out, and it is Init exactly of a process that has cleaned up.
THEOREM SnapshotIsCoherent == StatusSpec => []StatusIsCoherent
<1>1. CoherenceInv => StatusIsCoherent
  BY DEF CoherenceInv
<1> QED
  BY <1>1, CoherenceHolds, PTL

\* Every change of state runs its one hook, which goes on from the hook of the change
\* before it, and between two changes only the fault hooks of failed address tasks
\* run, each task's at most once and for a transition that it was spawned by.
THEOREM HooksChain == StatusSpec => HooksFormAChain
<1>1. CoherenceInv /\ [StatusNext]_allVars =>
        [\A n \in Node :
           LET before == IF hooks[n] = <<>> THEN "Init" ELSE hooks[n][1].state
           IN  IF state'[n] # state[n]
               THEN \/ /\ Len(hooks'[n]) = 1 /\ hooks'[n][1].state = state'[n]
                       /\ Announces(hooks'[n][1], n, before)
                    \/ hooks'[n] = <<>> /\ pc'[n] = "down"
               ELSE \/ hooks'[n] = hooks[n]
                    \/ hooks'[n] = <<>> /\ pc[n] = "down"
                    \/ \E told \in tasks[n] \ tasks'[n] :
                         /\ hooks'[n] = Append(hooks[n], FaultOf(told))
                         /\ told.state # told.previous /\ told.state # "Init"]_allVars
  BY NextIsTrue DEF Truthful, ChainOf
<1> QED
  BY <1>1, CoherenceHolds, PTL DEF StatusSpec, HooksFormAChain
-----------------------------------------------------------------------------
(* Who is observed, and what a running node is told by a step *)

LEMMA NextObservesAccepted ==
  TypeOK /\ ObservesAccepted /\ [Next]_vars => ObservesAccepted'
<1> SUFFICES ASSUME TypeOK, ObservesAccepted, [Next]_vars
             PROVE  ObservesAccepted'
  OBVIOUS
<1> USE DEF ObservesAccepted
<1>a. \A x, y : Accepts(x, y)' = Accepts(x, y)
  BY DEF Accepts
<1>1. ASSUME UNCHANGED obs PROVE ObservesAccepted'
  BY <1>1, <1>a
<1>2. ASSUME NEW n \in Node, NEW r, End(n, r) PROVE ObservesAccepted'
  BY <1>2, <1>a DEF End, TypeOK
<1>3. ASSUME Tick PROVE ObservesAccepted'
  <2> SUFFICES ASSUME NEW n \in Node, obs'[n] # NoPeer
               PROVE  Accepts(n, obs'[n].from) /\ Peer[obs'[n].from] = n
    BY <1>a
  <2>1. obs[n] # NoPeer
    BY <1>3 DEF Tick
  <2>2. obs'[n].from = obs[n].from
    BY <1>3, <2>1, ObsTick
  <2> QED
    BY <2>1, <2>2
<1>4. ASSUME NEW n \in Node, NEW p \in net, HandleReceive(n, p) PROVE ObservesAccepted'
  <2>1. CASE ~Accepts(n, p.from)
    BY <1>1, <1>4, <2>1 DEF HandleReceive
  <2>2. CASE Accepts(n, p.from)
    <3>1. obs'[n] = Observe(n, p) /\ \A m \in Node \ {n} : obs'[m] = obs[m]
      BY <1>4, <2>2 DEF HandleReceive, TypeOK
    <3>2. obs'[n].from = p.from /\ Peer[p.from] = n
      BY <1>4, <3>1 DEF HandleReceive, Observe
    <3> QED
      BY <1>a, <2>2, <3>1, <3>2
  <2> QED
    BY <2>1, <2>2
<1>5. ASSUME NEW n \in Node, \/ Start(n) \/ CutLink(n) \/ HealLink(n) \/ Refresh(n)
                             \/ ReceiveNothing(n) \/ SendFails(n) \/ SendAdvertisement(n)
                             \/ Shutdown(n) \/ FatalError(n)
      PROVE  UNCHANGED obs
  BY <1>5 DEF Start, CutLink, HealLink, Refresh, ReceiveNothing, SendFails, SendAdvertisement,
              Shutdown, FatalError, Exit, loopVars
<1>6. ASSUME NEW p \in net, Lose(p) \/ Unheard(p) PROVE UNCHANGED obs
  BY <1>6 DEF Lose, Unheard, loopVars
<1>7. CASE UNCHANGED vars
  BY <1>1, <1>7 DEF vars
<1> QED
  BY <1>1, <1>2, <1>3, <1>4, <1>5, <1>6, <1>7
     DEF Next, Environment, Loop, Crash, CleanupBeforeExit, Receive, ReceiveDuplicated

\* The steps but a tick.
Acts ==
  \/ ShowNetwork /\ StopWatch(0, Lost)
  \/ \E x \in Node : \/ ShowStep(x) /\ StopWatch(0, cut)
                     \/ ShowSendFails(x) /\ StopWatch(0, cut \cup {x})

\* A step that changes nothing of n and of what it shows.
Quiet(n) == NodeSame(n) /\ counters'[n] = counters[n] /\ shown'[n] = shown[n]

LEMMA QuietOrActs ==
  ASSUME StatusTypeOK, TypeOK', NEW n \in Node, Acts
  PROVE  Quiet(n) \/ ShowStep(n) \/ ShowSendFails(n)
<1>1. TypeOK /\ ShownTypeOK
  BY DEF StatusTypeOK, ShownTypeOK, Counted
<1>2. ASSUME NEW m \in Node \ {n}, ShowStep(m) \/ ShowSendFails(m)
      PROVE  Quiet(n)
  <2>1. ElseSame(m)
    BY <1>1, <1>2, RefreshRecords, ReceiveRecords, SendRecords, NothingRecords, ExitRecords,
       CleanupRecords, TaskRecords, StartRecords, CrashRecords DEF ShowStep
  <2> QED
    BY <1>1, <1>2, <2>1, ElseNodeSame DEF ElseSame, Quiet
<1>3. ShowNetwork => Quiet(n)
  BY NetworkNodeSame DEF ShowNetwork, statusVars, Quiet
<1> QED
  BY <1>2, <1>3 DEF Acts

\* A node that shows what it knows, without having heard anything.
Retold(n) ==
  /\ Publish(n) /\ obs'[n] = obs[n] /\ counters'[n].duplicate = counters[n].duplicate
  /\ pc'[n] = "refresh" => pc[n] = "select"
  /\ advertIn'[n] = advertIn[n] \/ pc'[n] = "refresh"

\* A node that is woken up by nothing.
Startled(n) ==
  /\ shown'[n] = shown[n] /\ obs'[n] = obs[n] /\ advertIn'[n] = advertIn[n]
  /\ counters'[n].duplicate = counters[n].duplicate
  /\ pc[n] = "select"

\* What a node that goes on running is told by a step.
LEMMA RunningActs ==
  ASSUME StatusTypeOK, TypeOK', NEW n \in Node, Running(n), Running(n)', Acts
  PROVE  Quiet(n) \/ Retold(n) \/ Startled(n) \/ \E p \in net : ShowReceive(n, p)
<1>1. TypeOK /\ ShownTypeOK
  BY DEF StatusTypeOK, ShownTypeOK, Counted
<1>2. ASSUME ShowExit(n) \/ ShowCleanup(n) \/ ShowStart(n) \/ ShowCrash(n) PROVE FALSE
  <2>1. CASE ShowExit(n)
    BY <1>1, <2>1 DEF ShowExit, Shutdown, FatalError, Exit, Running, TypeOK
  <2>2. CASE ShowCleanup(n) \/ ShowCrash(n)
    BY <1>1, <2>2 DEF ShowCleanup, CleanupBeforeExit, ShowCrash, Crash, End, Running, TypeOK
  <2>3. CASE ShowStart(n)
    BY <2>3 DEF ShowStart, Start, Running
  <2> QED
    BY <1>2, <2>1, <2>2, <2>3
<1>3. ShowRefresh(n) => Retold(n)
  BY <1>1, RefreshRecords DEF ShowRefresh, Refresh, Retold, TypeOK
<1>4. ShowSend(n) \/ ShowSendFails(n) => Retold(n)
  BY <1>1, SendRecords DEF ShowSend, ShowSendFails, SendAdvertisement, SendFails, WakeUp,
                           loopVars, Retold, TypeOK
<1>5. ShowReceiveNothing(n) => Startled(n)
  BY <1>1, NothingRecords DEF ShowReceiveNothing, ReceiveNothing, WakeUp, loopVars, Startled
<1>6. ShowTaskFails(n) => Quiet(n)
  BY DEF ShowTaskFails, vars, NodeSame, Quiet
<1> QED
  BY <1>1, <1>2, <1>3, <1>4, <1>5, <1>6, QuietOrActs DEF ShowStep

\* A node that starts shows no peer.
LEMMA StartingActs ==
  ASSUME StatusTypeOK, TypeOK', Forgotten, NEW n \in Node, ~Running(n), Running(n)', Acts
  PROVE  obs'[n] = NoPeer /\ shown'[n].peer = NoPeer /\ ~shown'[n].alive
<1>1. TypeOK /\ ShownTypeOK
  BY DEF StatusTypeOK, ShownTypeOK, Counted
<1>2. ShowStart(n)
  <2>1. ~Quiet(n)
    BY DEF Quiet, NodeSame, Running
  <2>2. ShowStep(n) \/ ShowSendFails(n)
    BY <1>1, <2>1, QuietOrActs
  <2>3. ~ShowRefresh(n) /\ ~ShowReceiveNothing(n) /\ ~ShowSend(n) /\ ~ShowSendFails(n)
    BY DEF ShowRefresh, Refresh, ShowReceiveNothing, ReceiveNothing, ShowSend,
           SendAdvertisement, ShowSendFails, SendFails, WakeUp, Running
  <2>4. ~ShowExit(n) /\ \A p \in net : ~ShowReceive(n, p)
    BY DEF ShowExit, Shutdown, FatalError, Exit, ShowReceive, Receive, ReceiveDuplicated,
           HandleReceive, WakeUp, Running
  <2>5. ~ShowCleanup(n) /\ ~ShowCrash(n)
    BY <1>1 DEF ShowCleanup, CleanupBeforeExit, ShowCrash, Crash, End, Running, TypeOK
  <2>6. ~ShowTaskFails(n)
    BY DEF ShowTaskFails, vars, Running
  <2> QED
    BY <2>2, <2>3, <2>4, <2>5, <2>6 DEF ShowStep
<1>3. obs'[n] = NoPeer
  BY <1>1, <1>2 DEF ShowStart, Start, Forgotten
<1>4. ShownTypeOK' /\ Publish(n)
  BY <1>1, <1>2, StartRecords
<1>5. ShownPeer(n)' = NoPeer
  BY <1>3 DEF ShownPeer
<1> QED
  BY <1>1, <1>3, <1>4, <1>5, Published DEF ShownTypeOK

\* What a node shows once it has received a packet.
LEMMA ReceiveShows ==
  ASSUME StatusTypeOK, TypeOK', NEW n \in Node, NEW p \in net, ShowReceive(n, p)
  PROVE  /\ Peer[p.from] = n /\ pc[n] = "select" /\ pc'[n] = "refresh" /\ advertIn' = advertIn
         /\ Accepts(n, p.from) => /\ obs'[n] = Observe(n, p) /\ obs'[n] # NoPeer
                                  /\ obs'[n].age = 0 /\ shown'[n].alive /\ Publish(n)
         /\ ~Accepts(n, p.from) => obs' = obs /\ shown' = shown
         /\ (~Accepts(n, p.from) /\ Config[p.from].group = Config[n].group)
              => counters'[n].duplicate > 0
         /\ counters[n].duplicate > 0 => counters'[n].duplicate > 0
         /\ ShownTypeOK'
<1>1. TypeOK /\ ShownTypeOK /\ p \in HaPacket
  BY DEF StatusTypeOK, ShownTypeOK, Counted, TypeOK
<1>2. HandleReceive(n, p) /\ CountPacket(n, p.from) /\ ShownTypeOK'
  BY <1>1, ReceiveRecords DEF ShowReceive, Receive, ReceiveDuplicated
<1>3. /\ Peer[p.from] = n /\ pc[n] = "select" /\ pc'[n] = "refresh" /\ advertIn' = advertIn
  BY <1>1, <1>2 DEF HandleReceive, WakeUp, TypeOK
<1>4. /\ (~Accepts(n, p.from) /\ Config[p.from].group = Config[n].group)
           => counters'[n].duplicate > 0
      /\ counters[n].duplicate > 0 => counters'[n].duplicate > 0
  BY <1>1, <1>2, PacketCounts DEF ShownTypeOK
<1>5. ASSUME Accepts(n, p.from)
      PROVE  /\ obs'[n] = Observe(n, p) /\ obs'[n] # NoPeer
             /\ obs'[n].age = 0 /\ shown'[n].alive /\ Publish(n)
  <2>1. obs'[n] = Observe(n, p) /\ obs'[n] # NoPeer /\ obs'[n].age = 0
    BY <1>1, <1>2, <1>5, ObserveType DEF HandleReceive, TypeOK
  <2>2. Publish(n)
    BY <1>5 DEF ShowReceive
  <2>3. shown'[n].alive = (obs'[n] # NoPeer /\ obs'[n].age < Window(Config[n]))
    BY <1>1, <1>2, <2>2, Published DEF ShownTypeOK
  <2> QED
    BY <2>1, <2>2, <2>3, WindowIsPositive
<1>6. ~Accepts(n, p.from) => obs' = obs /\ shown' = shown
  BY <1>2 DEF HandleReceive, ShowReceive
<1> QED
  BY <1>2, <1>3, <1>4, <1>5, <1>6

LEMMA NextShowsAccepted ==
  ASSUME StatusTypeOK, TypeOK', Forgotten, ObservesAccepted', ShowsAccepted,
         [StatusNext]_allVars
  PROVE  ShowsAccepted'
<1> SUFFICES ASSUME NEW n \in Node, Running(n)', shown'[n].peer # NoPeer
             PROVE  Accepts(n, shown'[n].peer.node)
  BY DEF ShowsAccepted, Accepts
<1>1. ASSUME Running(n), shown'[n] = shown[n]
      PROVE  Accepts(n, shown'[n].peer.node)
  BY <1>1 DEF ShowsAccepted
<1>2. ASSUME Publish(n), ShownTypeOK'
      PROVE  Accepts(n, shown'[n].peer.node)
  <2>1. shown'[n].peer = ShownPeer(n)'
    BY <1>2, Published DEF StatusTypeOK, ShownTypeOK
  <2>2. ShownPeers'
    BY ShownPeerType, PTL
  <2>3. obs'[n] # NoPeer /\ shown'[n].peer.node = obs'[n].from
    BY <2>1, <2>2 DEF ShownPeers
  <2> QED
    BY <2>3 DEF ObservesAccepted, Accepts
<1>3. CASE Acts /\ ~Running(n)
  BY <1>3, StartingActs
<1>4. CASE Acts /\ Running(n)
  <2>1. CASE Quiet(n) \/ Startled(n)
    BY <1>1, <1>4, <2>1 DEF Quiet, Startled
  <2>2. CASE Retold(n)
    <3>1. ShownTypeOK'
      BY StatusNextType DEF StatusTypeOK, ShownTypeOK, Counted
    <3> QED
      BY <1>2, <2>2, <3>1 DEF Retold
  <2>3. ASSUME NEW p \in net, ShowReceive(n, p)
        PROVE  Accepts(n, shown'[n].peer.node)
    BY <1>1, <1>2, <1>4, <2>3, ReceiveShows
  <2> QED
    BY <1>4, <2>1, <2>2, <2>3, RunningActs
<1>5. CASE Tick /\ UNCHANGED statusVars
  BY <1>1, <1>5 DEF Tick, statusVars, Running
<1>6. CASE UNCHANGED allVars
  BY <1>1, <1>6 DEF allVars, vars, statusVars, Running
<1> QED
  BY <1>3, <1>4, <1>5, <1>6 DEF StatusNext, Acts
-----------------------------------------------------------------------------
(* The packets of a running node reach its peer within a round *)

\* Of the steps but a tick one loses a packet of m, or leaves its packets and its
\* timer alone, or is its advertisement, or its peer's receipt of a packet of m.
LEMMA PacketActs ==
  ASSUME StatusTypeOK, NEW m \in Node, Running(m), Running(m)', Running(Peer[m]),
         Acts
  PROVE  \/ since'[m] = 0
         \/ advertIn'[m] = advertIn[m] /\ \A q \in net : q.from = m => q \in net'
         \/ advertIn[m] = 0 /\ net \subseteq net' /\ \E q \in net' : q.from = m /\ q.age = 0
         \/ \E p \in net : p.from = m /\ ShowReceive(Peer[m], p)
<1> DEFINE kept == advertIn'[m] = advertIn[m] /\ \A q \in net : q.from = m => q \in net'
           sent == /\ advertIn[m] = 0 /\ net \subseteq net'
                   /\ \E q \in net' : q.from = m /\ q.age = 0
<1>1. TypeOK /\ since \in [Node -> 0..Cap]
  BY DEF StatusTypeOK
<1>2. ASSUME NEW lost, StopWatch(0, lost), m \in lost
      PROVE  since'[m] = 0
  BY <1>1, <1>2, WatchStep
<1>3. ASSUME ShowNetwork, StopWatch(0, Lost)
      PROVE  since'[m] = 0 \/ kept
  <2>1. ASSUME NEW x \in Node, CutLink(x) \/ HealLink(x)
        PROVE  m \in Lost \/ kept
    BY <2>1 DEF CutLink, HealLink, Lost
  <2>2. ASSUME NEW p \in net, Lose(p)
        PROVE  m \in Lost \/ kept
    <3>1. faults' # faults
      BY <1>1, <2>2, EnvironmentAssumption DEF Lose, Spend, TypeOK
    <3>2. p \in net \ net' /\ advertIn' = advertIn /\ net' = net \ {p}
      BY <2>2 DEF Lose
    <3>3. p.from \in Lost
      BY <3>1, <3>2 DEF Lost
    <3> QED
      BY <3>2, <3>3
  <2>3. ASSUME NEW p \in net, Unheard(p)
        PROVE  kept
    BY <2>3 DEF Unheard
  <2> QED
    BY <1>2, <1>3, <2>1, <2>2, <2>3 DEF ShowNetwork
<1>4. ASSUME NEW x \in Node, ShowSendFails(x), StopWatch(0, cut \cup {x})
      PROVE  since'[m] = 0 \/ kept
  <2>1. CASE x = m
    BY <1>2, <1>4, <2>1
  <2>2. CASE x # m
    BY <1>1, <1>4, <2>2 DEF ShowSendFails, SendFails, TypeOK
  <2> QED
    BY <2>1, <2>2
<1>5. ASSUME NEW x \in Node, ShowSend(x), StopWatch(0, cut)
      PROVE  since'[m] = 0 \/ kept \/ sent
  <2> DEFINE q == [from |-> x, state |-> state[x], age |-> 0]
  <2>1. /\ advertIn[x] = 0 /\ net' = IF x \in cut THEN net ELSE net \cup {q}
        /\ \A y \in Node \ {x} : advertIn'[y] = advertIn[y]
    BY <1>1, <1>5 DEF ShowSend, SendAdvertisement, TypeOK
  <2>2. q.from = x /\ q.age = 0
    OBVIOUS
  <2> HIDE DEF q
  <2>3. CASE x = m /\ m \in cut
    BY <1>2, <1>5, <2>3
  <2>4. CASE x = m /\ m \notin cut
    BY <2>1, <2>2, <2>4
  <2>5. CASE x # m
    BY <2>1, <2>5
  <2> QED
    BY <2>3, <2>4, <2>5
<1>6. ASSUME NEW x \in Node, NEW p \in net, ShowReceive(x, p)
      PROVE  kept \/ (p.from = m /\ ShowReceive(Peer[m], p))
  BY <1>6 DEF ShowReceive, Receive, ReceiveDuplicated, HandleReceive
<1>7. ASSUME NEW x \in Node, \/ ShowRefresh(x) \/ ShowReceiveNothing(x) \/ ShowExit(x)
                             \/ ShowTaskFails(x)
      PROVE  kept
  BY <1>7 DEF ShowRefresh, Refresh, ShowReceiveNothing, ReceiveNothing, ShowExit, Shutdown,
              FatalError, Exit, ShowTaskFails, envVars, vars
<1>8. ASSUME NEW x \in Node, ShowStart(x)
      PROVE  kept
  <2>1. x # m
    BY <1>8 DEF ShowStart, Start, Running
  <2> QED
    BY <1>1, <1>8, <2>1 DEF ShowStart, Start, envVars, TypeOK
<1>9. ASSUME NEW x \in Node, ShowCleanup(x) \/ ShowCrash(x)
      PROVE  kept
  <2>1. x # m /\ \E r : End(x, r)
    BY <1>1, <1>9 DEF ShowCleanup, CleanupBeforeExit, ShowCrash, Crash, End, Running, TypeOK
  <2> QED
    BY <1>1, <2>1 DEF End, TypeOK
<1> HIDE DEF kept, sent
<1>10. \/ since'[m] = 0 \/ kept \/ sent
       \/ \E p \in net : p.from = m /\ ShowReceive(Peer[m], p)
  BY <1>3, <1>4, <1>5, <1>6, <1>7, <1>8, <1>9 DEF Acts, ShowStep
<1> QED
  BY <1>10 DEF kept, sent

LEMMA ChaseActs ==
  ASSUME StatusTypeOK, TypeOK', NEW m \in Node, Running(m), Running(m)', Running(Peer[m]), Acts,
         NEW gap \in Nat, NEW later \in Nat, later <= gap, since'[m] = 0 => later = 0,
         Chased(m, gap, advertIn[m], net)
  PROVE  \/ Chased(m, later, advertIn'[m], net')
         \/ \E p \in net : p.from = m /\ ShowReceive(Peer[m], p)
<1>1. /\ Config[m].interval \in Nat /\ advertIn[m] \in Nat
      /\ \A q \in net : q.age \in Nat
  BY ChaseTypes DEF StatusTypeOK
<1>2. CASE since'[m] = 0
  <2>1. ChasedNow'
    BY ChaseBegins, PTL
  <2> QED
    BY <1>2, <2>1 DEF ChasedNow, Chased
<1>3. CASE advertIn'[m] = advertIn[m] /\ \A q \in net : q.from = m => q \in net'
  BY <1>1, <1>3 DEF Chased
<1>4. ASSUME advertIn[m] = 0, net \subseteq net', NEW q \in net', q.from = m, q.age = 0
      PROVE  Chased(m, later, advertIn'[m], net')
  BY <1>1, <1>4 DEF Chased
<1> QED
  BY <1>2, <1>3, <1>4, PacketActs

\* How long two nodes have been running with nothing lost.
LEMMA BothStep ==
  ASSUME StatusTypeOK, NEW n \in Node, NEW m \in Node, NEW ticks \in {0, 1}, NEW lost,
         StopWatch(ticks, lost)
  PROVE  /\ Both(n, m) \in Nat /\ Both(n, m)' \in Nat /\ Both(n, m)' <= Both(n, m) + ticks
         /\ since'[n] = 0 \/ since'[m] = 0 => Both(n, m)' = 0
         /\ Running(n)' # Running(n) \/ Running(m)' # Running(m) => Both(n, m)' = 0
<1>1. /\ since[n] \in Nat /\ since[m] \in Nat /\ since'[n] \in Nat /\ since'[m] \in Nat
      /\ since'[n] <= since[n] + ticks /\ since'[m] <= since[m] + ticks
      /\ Running(n)' # Running(n) => since'[n] = 0
      /\ Running(m)' # Running(m) => since'[m] = 0
  BY WatchStep, StatusAssumption DEF StatusTypeOK
<1> QED
  BY <1>1 DEF Both

LEMMA BothActs ==
  ASSUME StatusTypeOK, NEW n \in Node, NEW m \in Node, Acts
  PROVE  /\ Both(n, m) \in Nat /\ Both(n, m)' \in Nat /\ Both(n, m)' <= Both(n, m)
         /\ since'[n] = 0 \/ since'[m] = 0 => Both(n, m)' = 0
         /\ Running(n)' # Running(n) \/ Running(m)' # Running(m) => Both(n, m)' = 0
<1>1. PICK lost : StopWatch(0, lost)
  BY DEF Acts
<1> QED
  BY <1>1, BothStep
-----------------------------------------------------------------------------
(* The packets of a node with the receiver's own id are counted, and shown *)

\* What has been counted of n, and what it shows of that.
Counting(n, m) ==
  \/ counters[n].duplicate > 0 /\ shown[n].counters.duplicate > 0
  \/ counters[n].duplicate > 0 /\ pc[n] = "refresh" /\ Both(n, m) <= Round(m)

\* A count is not taken back, and a node that comes around its loop shows it.
LEMMA CountingActs ==
  ASSUME StatusTypeOK, StatusTypeOK', NEW n \in Node, NEW m \in Node, Running(n), Running(n)',
         Acts, Counting(n, m)
  PROVE  Counting(n, m)'
<1>1. ShownTypeOK' /\ TypeOK' /\ ShownTypeOK
  BY DEF StatusTypeOK, ShownTypeOK, Counted
<1>2. Publish(n) => shown'[n].counters = counters'[n]
  BY <1>1, Published DEF ShownTypeOK
<1>3. Both(n, m)' <= Both(n, m) /\ Both(n, m) \in Nat /\ Both(n, m)' \in Nat
  BY BothActs
<1>4. Round(m) \in Nat
  BY ChaseTypes DEF Round, StatusTypeOK
<1>5. CASE Quiet(n)
  BY <1>3, <1>4, <1>5 DEF Quiet, NodeSame, Counting, Round
<1>6. CASE Retold(n)
  BY <1>2, <1>6 DEF Retold, Counting
<1>7. CASE Startled(n)
  BY <1>7 DEF Startled, Counting
<1>8. ASSUME NEW p \in net, ShowReceive(n, p) PROVE Counting(n, m)'
  <2>1. /\ pc[n] = "select" /\ counters'[n].duplicate > 0
        /\ Accepts(n, p.from) => Publish(n)
        /\ ~Accepts(n, p.from) => shown' = shown
    BY <1>1, <1>8, ReceiveShows DEF Counting
  <2>2. shown[n].counters.duplicate > 0
    BY <2>1 DEF Counting
  <2>3. shown'[n].counters.duplicate > 0
    BY <1>2, <2>1, <2>2
  <2> QED
    BY <2>1, <2>3 DEF Counting
<1> QED
  BY <1>1, <1>5, <1>6, <1>7, <1>8, RunningActs

LEMMA NextCount ==
  ASSUME Prompt, StatusTypeOK, StatusTypeOK', CountInv, [StatusNext]_allVars
  PROVE  CountInv'
<1> SUFFICES ASSUME NEW m \in Node, NEW n, n = Peer[m], Running(n)', Running(m)',
                    ~Accepts(n, m), Config[m].group = Config[n].group
             PROVE  \/ Chased(m, Both(n, m)', advertIn'[m], net')
                    \/ Counting(n, m)'
  BY DEF CountInv, Counting, Accepts
<1> n \in Node
  BY NodeAssumption
<1>1. TypeOK /\ TypeOK'
  BY DEF StatusTypeOK
<1>2. CASE Both(n, m)' = 0
  <2>1. ChasedNow'
    BY <1>1, ChaseBegins, PTL
  <2> QED
    BY <1>2, <2>1 DEF ChasedNow
<1>3. CASE Running(n) /\ Running(m) /\ Tick /\ UNCHANGED statusVars /\ StopWatch(1, cut)
  <2>1. Both(n, m) \in Nat /\ Both(n, m)' \in Nat /\ Both(n, m)' <= Both(n, m) + 1
    BY <1>3, BothStep
  <2>2. CASE Chased(m, Both(n, m), advertIn[m], net)
    BY <1>1, <1>3, <2>1, <2>2, ChaseTick
  <2>3. CASE counters[n].duplicate > 0 /\ shown[n].counters.duplicate > 0
    BY <1>3, <2>3 DEF statusVars, Counting
  <2>4. pc[n] # "refresh"
    BY <1>1, <1>3, PromptTick
  <2> QED
    BY <1>3, <2>2, <2>3, <2>4 DEF CountInv
<1>4. CASE Running(n) /\ Running(m) /\ Acts
  <2>1. /\ Both(n, m) \in Nat /\ Both(n, m)' \in Nat /\ Both(n, m)' <= Both(n, m)
        /\ since'[m] = 0 => Both(n, m)' = 0
    BY <1>4, BothActs
  <2>2. CASE Chased(m, Both(n, m), advertIn[m], net)
    <3>1. Both(n, m) <= Round(m) /\ Round(m) \in Nat
      BY <1>1, <2>1, <2>2, ChaseEnds, ChaseTypes DEF Round
    <3>2. ASSUME NEW p \in net, p.from = m, ShowReceive(n, p) PROVE Counting(n, m)'
      <4>1. counters'[n].duplicate > 0 /\ pc'[n] = "refresh"
        BY <1>1, <3>2, ReceiveShows
      <4>2. Both(n, m)' <= Round(m)
        BY <2>1, <3>1
      <4> QED
        BY <4>1, <4>2 DEF Counting, Round
    <3> QED
      BY <1>1, <1>4, <2>1, <2>2, <3>2, ChaseActs
  <2>3. CASE Counting(n, m)
    BY <1>4, <2>3, CountingActs
  <2> QED
    BY <1>4, <2>2, <2>3 DEF CountInv, Counting
<1>5. CASE Acts /\ ~(Running(n) /\ Running(m))
  BY <1>2, <1>5, BothActs
<1>6. CASE Tick /\ UNCHANGED statusVars /\ StopWatch(1, cut) /\ ~(Running(n) /\ Running(m))
  BY <1>2, <1>6, BothStep
<1>7. CASE UNCHANGED allVars
  <2>1. /\ Running(n) /\ Running(m)
        /\ Both(n, m)' = Both(n, m) /\ Counting(n, m)' = Counting(n, m)
    BY <1>7 DEF allVars, vars, statusVars, Running, Both, Counting, Round
  <2> QED
    BY <1>7, <2>1 DEF allVars, vars, CountInv, Counting
<1> QED
  BY <1>3, <1>4, <1>5, <1>6, <1>7 DEF StatusNext, Acts

\* Types, and whose packets a node has taken for its peer's.
HeardInv == StatusTypeOK /\ Forgotten /\ ObservesAccepted /\ ShowsAccepted

LEMMA HeardHolds == StatusSpec => []HeardInv
<1>1. StatusInit => HeardInv
  <2>1. ASSUME StatusInit PROVE ObservesAccepted /\ ShowsAccepted
    BY <2>1 DEF StatusInit, Init, ObservesAccepted, ShowsAccepted, Running
  <2> QED
    BY <2>1, StatusInitType, InitForgotten DEF StatusInit, HeardInv
<1>2. HeardInv /\ [StatusNext]_allVars => HeardInv'
  <2> SUFFICES ASSUME HeardInv, [StatusNext]_allVars PROVE HeardInv'
    OBVIOUS
  <2>1. StatusTypeOK /\ TypeOK /\ StatusTypeOK' /\ TypeOK' /\ [Next]_vars
    BY StatusNextType, StatusStep DEF HeardInv, StatusTypeOK
  <2>2. Forgotten' /\ ObservesAccepted'
    BY <2>1, NextForgotten, NextObservesAccepted DEF HeardInv
  <2>3. ShowsAccepted'
    BY <2>1, <2>2, NextShowsAccepted DEF HeardInv
  <2> QED
    BY <2>1, <2>2, <2>3 DEF HeardInv
<1> QED
  BY <1>1, <1>2, PTL DEF StatusSpec

\* A node that shares the receiver's id is never shown as its peer, and within a
\* round the receiver shows that it has counted one of its packets, whatever else
\* is lost, late or rejected.
THEOREM DuplicateIsShown ==
  ASSUME Prompt
  PROVE  StatusSpec => []DuplicateIdIsShown
<1>1. StatusInit => CountInv
  BY NodeAssumption DEF StatusInit, Init, CountInv, Running
<1>2. HeardInv /\ HeardInv' /\ CountInv /\ [StatusNext]_allVars => CountInv'
  BY NextCount DEF HeardInv
<1>3. HeardInv /\ CountInv => DuplicateIdIsShown
  <2> SUFFICES ASSUME HeardInv, CountInv, NEW m \in Node, NEW n, n = Peer[m], Running(n),
                      Config[m].id = Config[n].id, Config[m].group = Config[n].group
               PROVE  /\ shown[n].peer = NoPeer \/ shown[n].peer.node # m
                      /\ (Running(m) /\ since[n] > Round(m) /\ since[m] > Round(m))
                           => shown[n].counters.duplicate > 0
    BY DEF DuplicateIdIsShown
  <2>1. n \in Node /\ ~Accepts(n, m) /\ StatusTypeOK /\ TypeOK
    BY NodeAssumption DEF Accepts, HeardInv, StatusTypeOK
  <2>2. shown[n].peer = NoPeer \/ shown[n].peer.node # m
    BY <2>1 DEF HeardInv, ShowsAccepted
  <2>3. ASSUME Running(m), since[n] > Round(m), since[m] > Round(m)
        PROVE  shown[n].counters.duplicate > 0
    <3>1. Both(n, m) \in Nat /\ Both(n, m) > Round(m) /\ Round(m) \in Nat
      BY <2>1, <2>3, ChaseTypes, StatusAssumption DEF Both, StatusTypeOK, Round
    <3>2. ~Chased(m, Both(n, m), advertIn[m], net)
      BY <2>1, <3>1, ChaseEnds
    <3> QED
      BY <2>1, <2>3, <3>1, <3>2 DEF CountInv
  <2> QED
    BY <2>2, <2>3
<1> QED
  BY <1>1, <1>2, <1>3, HeardHolds, PTL DEF StatusSpec
-----------------------------------------------------------------------------
(* A peer that is there is shown to be alive *)

LEMMA UnshownType ==
  ASSUME StatusTypeOK, NEW n \in Node, NEW m \in Node
  PROVE  /\ Unshown(n, m) \in Nat /\ Unshown(n, m) <= Both(n, m)
         /\ (obs[n] # NoPeer /\ shown[n].alive) => Unshown(n, m) <= obs[n].age
<1>1. Both(n, m) \in Nat
  BY StatusAssumption DEF Both, StatusTypeOK
<1>2. obs[n] # NoPeer => obs[n].age \in Nat
  BY DEF StatusTypeOK, TypeOK, PeerObservation
<1> QED
  BY <1>1, <1>2 DEF Unshown

UnshownTypes ==
  \A n, m \in Node :
     /\ Unshown(n, m) \in Nat /\ Unshown(n, m) <= Both(n, m)
     /\ (obs[n] # NoPeer /\ shown[n].alive) => Unshown(n, m) <= obs[n].age

LEMMA NextUnshownType == StatusTypeOK' => UnshownTypes'
<1>1. StatusTypeOK => UnshownTypes
  BY UnshownType DEF UnshownTypes
<1> QED
  BY <1>1, PTL

\* It grows with time only, if the peer goes on being shown alive.
LEMMA UnshownGrows ==
  ASSUME StatusTypeOK, StatusTypeOK', NEW n \in Node, NEW m \in Node, NEW ticks \in {0, 1},
         Both(n, m)' <= Both(n, m) + ticks,
         (obs[n] # NoPeer /\ shown[n].alive /\ obs[n].age <= Both(n, m)) =>
           /\ obs'[n] # NoPeer /\ shown'[n].alive /\ obs'[n].age <= obs[n].age + ticks
  PROVE  Unshown(n, m)' <= Unshown(n, m) + ticks
<1>1. UnshownTypes' /\ Both(n, m) \in Nat /\ Both(n, m)' \in Nat
  BY NextUnshownType, StatusAssumption DEF Both, StatusTypeOK
<1>2. /\ obs[n] # NoPeer => obs[n].age \in Nat
      /\ obs'[n] # NoPeer => obs'[n].age \in Nat
  BY DEF StatusTypeOK, TypeOK, PeerObservation
<1>3. CASE obs[n] # NoPeer /\ shown[n].alive /\ obs[n].age <= Both(n, m)
  <2>1. Unshown(n, m) = obs[n].age
    BY <1>3 DEF Unshown
  <2>2. Unshown(n, m)' <= obs'[n].age /\ Unshown(n, m)' \in Nat
    BY <1>1, <1>3 DEF UnshownTypes
  <2> QED
    BY <1>2, <1>3, <2>1, <2>2
<1>4. CASE ~(obs[n] # NoPeer /\ shown[n].alive /\ obs[n].age <= Both(n, m))
  <2>1. Unshown(n, m) = Both(n, m)
    BY <1>4 DEF Unshown
  <2>2. Unshown(n, m)' <= Both(n, m)' /\ Unshown(n, m)' \in Nat
    BY <1>1 DEF UnshownTypes
  <2> QED
    BY <1>1, <2>1, <2>2
<1> QED
  BY <1>3, <1>4

\* A node that waits for its peer long enough does not stop showing it alive.
LEMMA UnshownActs ==
  ASSUME StatusTypeOK, StatusTypeOK', NEW n \in Node, NEW m \in Node, Running(n), Running(n)',
         Acts, Unshown(n, m) < Window(Config[n])
  PROVE  Unshown(n, m)' <= Unshown(n, m)
<1>1. ShownTypeOK' /\ TypeOK' /\ TypeOK /\ shown \in [Node -> Status \cup {NoStatus}]
  BY DEF StatusTypeOK, ShownTypeOK, Counted
<1>2. Both(n, m)' <= Both(n, m) /\ Both(n, m) \in Nat /\ Both(n, m)' \in Nat
  BY BothActs
<1>3. Unshown(n, m) \in Nat /\ Unshown(n, m)' \in Nat
  BY UnshownType, NextUnshownType DEF UnshownTypes
<1>4. obs[n] # NoPeer => obs[n].age \in Nat
  BY DEF StatusTypeOK, TypeOK, PeerObservation
<1>5. ASSUME obs'[n] = obs[n],
             \/ shown'[n].alive = shown[n].alive
             \/ shown'[n].alive = (obs'[n] # NoPeer /\ obs'[n].age < Window(Config[n]))
      PROVE  Unshown(n, m)' <= Unshown(n, m)
  <2>1. (obs[n] # NoPeer /\ shown[n].alive /\ obs[n].age <= Both(n, m)) =>
          /\ obs'[n] # NoPeer /\ shown'[n].alive /\ obs'[n].age <= obs[n].age + 0
    <3> SUFFICES ASSUME obs[n] # NoPeer, shown[n].alive, obs[n].age <= Both(n, m)
                 PROVE  obs'[n] # NoPeer /\ shown'[n].alive /\ obs'[n].age <= obs[n].age + 0
      OBVIOUS
    <3>1. obs'[n] # NoPeer /\ obs'[n].age < Window(Config[n]) /\ obs'[n].age <= obs[n].age + 0
      BY <1>4, <1>5 DEF Unshown
    <3>2. shown'[n].alive
      BY <1>5, <3>1
    <3> QED
      BY <3>1, <3>2
  <2>2. Both(n, m)' <= Both(n, m) + 0
    BY <1>2
  <2>3. Unshown(n, m)' <= Unshown(n, m) + 0
    BY <2>1, <2>2, UnshownGrows
  <2> QED
    BY <1>3, <2>3
<1>6. CASE Quiet(n) \/ Startled(n)
  BY <1>5, <1>6 DEF Quiet, NodeSame, Startled
<1>7. CASE Retold(n)
  <2>1. shown'[n].alive = (obs'[n] # NoPeer /\ obs'[n].age < Window(Config[n]))
    BY <1>1, <1>7, Published DEF Retold, ShownTypeOK
  <2> QED
    BY <1>5, <1>7, <2>1 DEF Retold
<1>8. ASSUME NEW p \in net, ShowReceive(n, p)
      PROVE  Unshown(n, m)' <= Unshown(n, m)
  <2>1. CASE Accepts(n, p.from)
    <3>1. obs'[n] # NoPeer /\ obs'[n].age = 0 /\ shown'[n].alive
      BY <1>1, <1>8, <2>1, ReceiveShows
    <3>2. Unshown(n, m)' <= 0
      BY <3>1, NextUnshownType DEF UnshownTypes
    <3> QED
      BY <1>3, <3>2
  <2>2. CASE ~Accepts(n, p.from)
    BY <1>1, <1>5, <1>8, <2>2, ReceiveShows
  <2> QED
    BY <2>1, <2>2
<1> QED
  BY <1>1, <1>6, <1>7, <1>8, RunningActs

LEMMA NextShown ==
  ASSUME Prompt, StatusTypeOK, StatusTypeOK', ShownInv, [StatusNext]_allVars
  PROVE  ShownInv'
<1> SUFFICES ASSUME NEW m \in Node, NEW n, n = Peer[m], Running(n)', Running(m)',
                    Peer[n] = m, Accepts(n, m), Patient(n)
             PROVE  Chased(m, Unshown(n, m)', advertIn'[m], net')
  BY DEF ShownInv, Accepts, Patient, Round
<1> n \in Node
  BY NodeAssumption
<1>1. /\ TypeOK /\ TypeOK' /\ Round(m) \in Nat /\ Round(m) < Window(Config[n])
      /\ Window(Config[n]) \in Nat
  <2>1. TypeOK /\ TypeOK'
    BY DEF StatusTypeOK
  <2>2. Round(m) \in Nat /\ Window(Config[n]) \in Nat
    BY <2>1, ChaseTypes, Settings DEF Round
  <2>3. Window(Config[n]) > Round(m)
    BY Zenon DEF Patient
  <2> QED
    BY <2>1, <2>2, <2>3
<1>2. /\ Unshown(n, m) \in Nat /\ Unshown(n, m)' \in Nat /\ Unshown(n, m)' <= Both(n, m)'
  BY UnshownType, NextUnshownType DEF UnshownTypes
<1>3. CASE Unshown(n, m)' = 0
  <2>1. ChasedNow'
    BY <1>1, ChaseBegins, PTL
  <2> QED
    BY <1>3, <2>1 DEF ChasedNow
<1>4. (Running(n) /\ Running(m)) =>
        /\ Chased(m, Unshown(n, m), advertIn[m], net)
        /\ Unshown(n, m) < Window(Config[n])
  BY <1>1, <1>2, ChaseEnds DEF ShownInv
<1>5. CASE Running(n) /\ Running(m) /\ Tick /\ UNCHANGED statusVars /\ StopWatch(1, cut)
  <2>1. Both(n, m)' <= Both(n, m) + 1
    BY <1>5, BothStep
  <2>2. obs[n] # NoPeer => obs'[n] # NoPeer /\ obs'[n].age <= obs[n].age + 1
    BY <1>1, <1>5, ObsTick
  <2>3. Unshown(n, m)' <= Unshown(n, m) + 1
    BY <1>5, <2>1, <2>2, UnshownGrows DEF statusVars
  <2> QED
    BY <1>1, <1>2, <1>4, <1>5, <2>3, ChaseTick
<1>6. CASE Running(n) /\ Running(m) /\ Acts
  <2>1. Unshown(n, m)' <= Unshown(n, m)
    BY <1>4, <1>6, UnshownActs
  <2>2. since'[m] = 0 => Unshown(n, m)' = 0
    BY <1>2, <1>6, BothActs
  <2>3. ASSUME NEW p \in net, p.from = m, ShowReceive(n, p) PROVE Unshown(n, m)' = 0
    <3>1. obs'[n] # NoPeer /\ obs'[n].age = 0 /\ shown'[n].alive
      BY <1>1, <2>3, ReceiveShows
    <3> QED
      BY <1>2, <3>1, NextUnshownType DEF UnshownTypes
  <2> QED
    BY <1>1, <1>2, <1>3, <1>4, <1>6, <2>1, <2>2, <2>3, ChaseActs
<1>7. CASE Acts /\ ~(Running(n) /\ Running(m))
  BY <1>2, <1>3, <1>7, BothActs
<1>8. CASE Tick /\ UNCHANGED statusVars /\ StopWatch(1, cut) /\ ~(Running(n) /\ Running(m))
  BY <1>2, <1>3, <1>8, BothStep
<1>9. CASE UNCHANGED allVars
  <2>1. Running(n) /\ Running(m) /\ Unshown(n, m)' = Unshown(n, m)
    BY <1>9 DEF allVars, vars, statusVars, Running, Unshown, Both
  <2> QED
    BY <1>4, <1>9, <2>1 DEF allVars, vars
<1> QED
  BY <1>5, <1>6, <1>7, <1>8, <1>9 DEF StatusNext, Acts
-----------------------------------------------------------------------------
(* A peer that is gone is shown to be dead *)

LEMMA ActsStep ==
  ASSUME Acts
  PROVE  Environment \/ (\E n \in Node : Loop(n)) \/ UNCHANGED vars
<1>1. ASSUME ShowNetwork PROVE Environment
  BY <1>1 DEF ShowNetwork, Environment
<1>2. ASSUME NEW n \in Node, ShowStep(n) \/ ShowSendFails(n)
      PROVE  Environment \/ Loop(n) \/ UNCHANGED vars
  BY <1>2 DEF ShowStep, ShowSendFails, ShowRefresh, ShowReceiveNothing, ShowSend, ShowExit,
              ShowCleanup, ShowTaskFails, ShowStart, ShowCrash, ShowReceive, Environment, Loop
<1> QED
  BY <1>1, <1>2 DEF Acts

\* What a node shows and knows of a peer that is gone, and when it next wakes up.
GoneOf(n, m) ==
  /\ obs[n] # NoPeer => \/ obs[n].age + MaxDelay >= since[m]
                        \/ obs[n].age = Window(Config[n])
  /\ \/ ~shown[n].alive
     \/ since[m] < DeadAfter(n)
     \/ since[m] + advertIn[n] < DeadAfter(n) + Config[n].interval

\* Its packets in flight.
Aging(m) == \A q \in net : q.from = m => q.age >= since[m]

LEMMA GoneTypes ==
  ASSUME StatusTypeOK, NEW n \in Node, NEW m \in Node
  PROVE  /\ Config[n].interval \in Nat /\ MaxDelay \in Nat
         /\ advertIn[n] \in Nat /\ advertIn[n] <= Config[n].interval
         /\ since[m] \in Nat /\ Window(Config[n]) \in Nat /\ 0 < Window(Config[n])
         /\ DeadAfter(n) = Window(Config[n]) + MaxDelay
         /\ obs[n] # NoPeer => obs[n].age \in Nat /\ obs[n].age <= Window(Config[n])
         /\ \A q \in net : q.age \in Nat /\ q.age <= MaxDelay
<1>1. obs[n] # NoPeer => obs[n].age \in Nat /\ obs[n].age <= Window(Config[n])
  BY DEF StatusTypeOK, TypeOK, PeerObservation
<1>2. since[m] \in Nat
  BY StatusAssumption DEF StatusTypeOK
<1> QED
  BY <1>1, <1>2, ChaseTypes, WindowIsPositive DEF StatusTypeOK, DeadAfter

\* A node that knows nothing of its peer, or shows what it knows, is in time.
LEMMA GoneTold ==
  ASSUME StatusTypeOK, NEW n \in Node, NEW m \in Node,
         obs[n] # NoPeer => \/ obs[n].age + MaxDelay >= since[m]
                            \/ obs[n].age = Window(Config[n]),
         shown[n].alive => obs[n] # NoPeer /\ obs[n].age < Window(Config[n])
  PROVE  GoneOf(n, m)
  BY GoneTypes DEF GoneOf

ToldInTime ==
  \A n, m \in Node :
    (/\ obs[n] # NoPeer => \/ obs[n].age + MaxDelay >= since[m]
                           \/ obs[n].age = Window(Config[n])
     /\ shown[n].alive => obs[n] # NoPeer /\ obs[n].age < Window(Config[n])) => GoneOf(n, m)

LEMMA NextToldInTime == StatusTypeOK' => ToldInTime'
<1>1. StatusTypeOK => ToldInTime
  BY GoneTold DEF ToldInTime
<1> QED
  BY <1>1, PTL

LEMMA GoneTick ==
  ASSUME Prompt, StatusTypeOK, Tick, UNCHANGED statusVars, StopWatch(1, cut), NEW m \in Node,
         Aging(m)
  PROVE  /\ Aging(m)'
         /\ \A n \in Node : Running(n) /\ GoneOf(n, m) => GoneOf(n, m)'
<1>1. TypeOK /\ since[m] \in Nat /\ since'[m] \in Nat /\ since'[m] <= since[m] + 1
  BY WatchStep, StatusAssumption DEF StatusTypeOK
<1>2. ASSUME NEW q \in net', q.from = m PROVE q.age >= since'[m]
  <2>1. PICK r \in net : q = [r EXCEPT !.age = Older(r.age, MaxDelay)]
    BY DEF Tick
  <2>2. r.from = m /\ q.age = Older(r.age, MaxDelay)
    BY <1>1, <1>2, <2>1 DEF TypeOK, HaPacket
  <2>3. r.age \in Nat /\ r.age + 1 <= MaxDelay /\ r.age >= since[m] /\ MaxDelay \in Nat
    BY <1>1, <2>2, PromptPacket, EnvironmentAssumption DEF Aging
  <2>4. q.age = r.age + 1
    BY <2>2, <2>3 DEF Older
  <2> QED
    BY <1>1, <2>3, <2>4
<1>3. ASSUME NEW n \in Node, Running(n), GoneOf(n, m) PROVE GoneOf(n, m)'
  <2>1. advertIn[n] # 0 /\ advertIn'[n] = advertIn[n] - 1
    BY <1>1, <1>3, PromptTick
  <2>2. obs'[n] # NoPeer => \/ obs'[n].age + MaxDelay >= since'[m]
                            \/ obs'[n].age = Window(Config[n])
    <3> SUFFICES ASSUME obs'[n] # NoPeer
                 PROVE  \/ obs'[n].age + MaxDelay >= since'[m]
                        \/ obs'[n].age = Window(Config[n])
      OBVIOUS
    <3>1. obs[n] # NoPeer
      BY DEF Tick
    <3>2. obs[n].age \in Nat /\ obs'[n].age = Older(obs[n].age, Window(Config[n]))
          /\ obs[n].age <= Window(Config[n]) /\ Window(Config[n]) \in Nat /\ MaxDelay \in Nat
      BY <1>1, <3>1, ObsTick, GoneTypes
    <3>3. obs[n].age + MaxDelay >= since[m] \/ obs[n].age = Window(Config[n])
      BY <1>3, <3>1 DEF GoneOf
    <3> QED
      BY <1>1, <3>2, <3>3 DEF Older
  <2>3. \/ ~shown'[n].alive
        \/ since'[m] < DeadAfter(n)
        \/ since'[m] + advertIn'[n] < DeadAfter(n) + Config[n].interval
    <3>1. shown' = shown
      BY DEF statusVars
    <3>2. CASE ~shown[n].alive
      BY <3>1, <3>2
    <3>3. CASE \/ since[m] < DeadAfter(n)
               \/ since[m] + advertIn[n] < DeadAfter(n) + Config[n].interval
      BY <1>1, <2>1, <3>3, GoneTypes
    <3> QED
      BY <1>3, <3>2, <3>3 DEF GoneOf
  <2> QED
    BY <2>2, <2>3 DEF GoneOf, DeadAfter
<1> QED
  BY <1>2, <1>3 DEF Aging

\* A node that goes on running, its peer being gone.
LEMMA GoneActs ==
  ASSUME PeersOnly, StatusTypeOK, StatusTypeOK', NEW n \in Node, NEW m \in Node, m = Peer[n],
         Running(n), Running(n)', Acts, Aging(m), GoneOf(n, m)
  PROVE  GoneOf(n, m)'
<1>1. ShownTypeOK' /\ TypeOK' /\ TypeOK /\ shown \in [Node -> Status \cup {NoStatus}]
  BY DEF StatusTypeOK, ShownTypeOK, Counted
<1>2. since[m] \in Nat /\ since'[m] \in Nat /\ since'[m] <= since[m]
  <2>1. PICK lost : StopWatch(0, lost)
    BY DEF Acts
  <2> QED
    BY <2>1, WatchStep, StatusAssumption DEF StatusTypeOK
<1>3. obs'[n] = obs[n] => (obs'[n] # NoPeer => \/ obs'[n].age + MaxDelay >= since'[m]
                                               \/ obs'[n].age = Window(Config[n]))
  BY <1>2, GoneTypes DEF GoneOf
<1>4. CASE obs'[n] = obs[n] /\ shown'[n] = shown[n] /\ advertIn'[n] = advertIn[n]
  BY <1>2, <1>3, <1>4, GoneTypes DEF GoneOf, DeadAfter
<1>5. CASE Retold(n)
  <2>1. shown'[n].alive = (obs'[n] # NoPeer /\ obs'[n].age < Window(Config[n]))
    BY <1>1, <1>5, Published DEF Retold, ShownTypeOK
  <2>2. obs'[n] = obs[n]
    BY <1>5 DEF Retold
  <2> QED
    BY <1>3, <2>1, <2>2, NextToldInTime DEF ToldInTime
<1>6. ASSUME NEW p \in net, ShowReceive(n, p) PROVE GoneOf(n, m)'
  <2>1. CASE ~Accepts(n, p.from)
    BY <1>1, <1>4, <1>6, <2>1, ReceiveShows
  <2>2. CASE Accepts(n, p.from)
    <3>1. /\ Peer[p.from] = n /\ obs'[n].age = 0 /\ obs'[n] # NoPeer
      BY <1>1, <1>6, <2>2, ReceiveShows
    <3>2. p.from \in Node
      BY <1>1 DEF TypeOK, HaPacket
    <3>3. p.from = m
      BY <2>2, <3>1, <3>2 DEF PeersOnly
    <3>4. 0 + MaxDelay >= since'[m]
      BY <1>2, <3>3, GoneTypes DEF Aging
    <3>5. obs'[n].age < Window(Config[n])
      BY <3>1, WindowIsPositive
    <3> QED
      BY <3>1, <3>4, <3>5, NextToldInTime DEF ToldInTime
  <2> QED
    BY <2>1, <2>2
<1>7. Quiet(n) \/ Startled(n) =>
        obs'[n] = obs[n] /\ shown'[n] = shown[n] /\ advertIn'[n] = advertIn[n]
  BY DEF Quiet, NodeSame, Startled
<1> QED
  BY <1>1, <1>4, <1>5, <1>6, <1>7, RunningActs

LEMMA NextGone ==
  ASSUME Prompt, PeersOnly, HeardInv, HeardInv', GoneInv, [StatusNext]_allVars
  PROVE  GoneInv'
<1> SUFFICES ASSUME NEW n \in Node, NEW m, m = Peer[n], ~Running(m)'
             PROVE  Aging(m)' /\ (Running(n)' => GoneOf(n, m)')
  BY DEF GoneInv, Aging, GoneOf, DeadAfter
<1> m \in Node
  BY NodeAssumption
<1>1. StatusTypeOK /\ StatusTypeOK' /\ TypeOK /\ TypeOK' /\ Forgotten
  BY DEF HeardInv, StatusTypeOK
<1>2. ~Running(m) => Aging(m) /\ (Running(n) => GoneOf(n, m))
  BY DEF GoneInv, Aging, GoneOf
<1>3. CASE Tick /\ UNCHANGED statusVars /\ StopWatch(1, cut)
  <2>1. ~Running(m) /\ (Running(n)' => Running(n))
    BY <1>3 DEF Tick, Running
  <2> QED
    BY <1>1, <1>2, <1>3, <2>1, GoneTick
<1>4. CASE Acts /\ ~Running(m)
  <2>1. since[m] \in Nat /\ since'[m] \in Nat /\ since'[m] <= since[m]
    <3>1. PICK lost : StopWatch(0, lost)
      BY <1>4 DEF Acts
    <3> QED
      BY <1>1, <3>1, WatchStep, StatusAssumption DEF StatusTypeOK
  <2>2. \A q \in net' : q.from = m => q \in net
    BY <1>1, <1>4, ActsStep, SilentStep DEF vars
  <2>3. Aging(m)'
    BY <1>2, <1>4, <2>1, <2>2, GoneTypes, <1>1 DEF Aging
  <2>4. CASE Running(n) /\ Running(n)'
    BY <1>1, <1>2, <1>4, <2>3, <2>4, GoneActs
  <2>5. CASE ~Running(n) /\ Running(n)'
    <3>1. obs'[n] = NoPeer /\ ~shown'[n].alive
      BY <1>1, <1>4, <2>5, StartingActs
    <3> QED
      BY <1>1, <2>3, <3>1, NextToldInTime DEF ToldInTime
  <2> QED
    BY <2>3, <2>4, <2>5
<1>5. CASE Acts /\ Running(m)
  <2>1. since'[m] = 0
    <3>1. PICK lost : StopWatch(0, lost)
      BY <1>5 DEF Acts
    <3> QED
      BY <1>1, <1>5, <3>1, WatchStep DEF StatusTypeOK
  <2>2. /\ \A q \in net' : q.age \in Nat
        /\ obs'[n] # NoPeer => obs'[n].age \in Nat
        /\ Window(Config[n]) \in Nat /\ 0 < Window(Config[n]) /\ MaxDelay \in Nat
    BY <1>1, WindowIsPositive, EnvironmentAssumption DEF TypeOK, HaPacket, PeerObservation
  <2> QED
    BY <2>1, <2>2 DEF Aging, GoneOf, DeadAfter
<1>6. CASE UNCHANGED allVars
  <2>1. /\ ~Running(m) /\ Running(n)' = Running(n)
        /\ Aging(m)' = Aging(m) /\ GoneOf(n, m)' = GoneOf(n, m)
    BY <1>6 DEF allVars, vars, statusVars, Running, Aging, GoneOf, DeadAfter
  <2> QED
    BY <1>2, <2>1
<1> QED
  BY <1>3, <1>4, <1>5, <1>6 DEF StatusNext, Acts

\* peer_alive on GET /status is late by no more than it takes to know: of a peer
\* that is there by a round of that peer, of one that is gone by the node's own
\* window and interval and the delay of the network.
THEOREM AliveIsTrue ==
  ASSUME Prompt, PeersOnly
  PROVE  StatusSpec => []PeerAliveIsTrue
<1>1. StatusInit => ShownInv /\ GoneInv
  BY NodeAssumption DEF StatusInit, Init, ShownInv, GoneInv, Running
<1>2. HeardInv /\ HeardInv' /\ ShownInv /\ GoneInv /\ [StatusNext]_allVars
        => (ShownInv /\ GoneInv)'
  BY NextShown, NextGone DEF HeardInv
<1>3. HeardInv /\ ShownInv /\ GoneInv => PeerAliveIsTrue
  <2> SUFFICES ASSUME HeardInv, ShownInv, GoneInv, NEW n \in Node, NEW m, m = Peer[n],
                      Running(n)
               PROVE  /\ (~Running(m) /\ since[m] >= Window(Config[n]) + Round(n))
                           => ~shown[n].alive
                      /\ (/\ Running(m) /\ Peer[m] = n /\ Accepts(n, m) /\ Patient(n)
                          /\ since[n] > Round(m) /\ since[m] > Round(m))
                           => shown[n].alive
    BY DEF PeerAliveIsTrue
  <2>1. m \in Node /\ StatusTypeOK /\ TypeOK
    BY NodeAssumption DEF HeardInv, StatusTypeOK
  <2>2. ASSUME ~Running(m), since[m] >= Window(Config[n]) + Round(n)
        PROVE  ~shown[n].alive
    <3>1. /\ ~(since[m] < DeadAfter(n))
          /\ ~(since[m] + advertIn[n] < DeadAfter(n) + Config[n].interval)
      BY <2>1, <2>2, GoneTypes DEF Round
    <3> QED
      BY <2>2, <3>1 DEF GoneInv
  <2>3. ASSUME Running(m), Peer[m] = n, Accepts(n, m), Patient(n),
               since[n] > Round(m), since[m] > Round(m)
        PROVE  shown[n].alive
    <3>1. Both(n, m) \in Nat /\ Both(n, m) > Round(m) /\ Round(m) \in Nat
      BY <2>1, <2>3, ChaseTypes, StatusAssumption DEF Both, StatusTypeOK, Round
    <3>2. Unshown(n, m) \in Nat /\ Unshown(n, m) <= Round(m)
      <4>1. Chased(m, Unshown(n, m), advertIn[m], net)
        BY <2>1, <2>3 DEF ShownInv
      <4> QED
        BY <2>1, <4>1, UnshownType, ChaseEnds
    <3> QED
      BY <3>1, <3>2 DEF Unshown
  <2> QED
    BY <2>2, <2>3
<1> QED
  BY <1>1, <1>2, <1>3, HeardHolds, PTL DEF StatusSpec
=============================================================================

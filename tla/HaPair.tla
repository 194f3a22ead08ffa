------------------------------- MODULE HaPair -------------------------------
(***************************************************************************)
(* The HA control loop of src/gruezi/ha.rs on each node of a pair, the UDP *)
(* advertisements between them, and time.                                  *)
(*                                                                         *)
(* run_with_status is a loop: refresh_local_state decides, tokio::select!  *)
(* waits for shutdown, a packet or the next advertisement, one handler     *)
(* runs, and the loop starts over.  pc[n] says where node n is:            *)
(*   "down"      the process is not running                                *)
(*   "refresh"   about to call refresh_local_state                         *)
(*   "select"    waiting in tokio::select!                                 *)
(*   "stopping"  in cleanup_before_exit, after the shutdown signal         *)
(*   "faulting"  in cleanup_before_exit, after a fatal error               *)
(*                                                                         *)
(* Counters, status snapshots and last_transition_* are written and never  *)
(* read by the loop: HaStatus adds them.  Of a sequence number the sender  *)
(* reads only its remainder in the jitter and the receiver nothing, so     *)
(* sequence holds that remainder.  The address and hook tasks a transition *)
(* spawns are modelled in VipTasks.                                        *)
(***************************************************************************)
EXTENDS HaDecision

CONSTANTS
  Node,        \* the nodes
  NoPeer,      \* peer_observation = None
  Config,      \* Config[n]: the HaRuntimeConfig of n
  Peer,        \* Peer[n]: the node behind ha.peer of n
  MaxDelay,    \* bound: a packet in flight ages at most this many ticks
  Prompt,      \* no node is late for a due step, no packet for MaxDelay
  Fifo,        \* packets of one sender are not reordered
  FaultKinds,  \* the faults of the environment that can happen
  MaxFaults    \* bound: how many of them, over a behaviour

\* An accepted packet's sender, as the last advertisement accepted from it
\* described it: PeerObservation.  Priority and node.id are those of its
\* configuration.
PeerObservation ==
  [from : Node, state : HaState, becameActive : BOOLEAN, age : Nat]

HaPacket == [from : Node, state : HaState, age : 0..MaxDelay]

ASSUME NodeAssumption ==
  /\ Config \in [Node -> HaRuntimeConfig]
  /\ Peer \in [Node -> Node]
  /\ \A n \in Node : Peer[n] # n
  /\ NoPeer \notin Node \cup PeerObservation

ASSUME EnvironmentAssumption ==
  /\ MaxDelay \in Nat /\ MaxFaults \in Nat
  /\ Prompt \in BOOLEAN /\ Fifo \in BOOLEAN
  /\ FaultKinds \subseteq { "crash", "stop", "fatal", "sendError", "loss",
                            "duplicate", "cut", "wake" }

VARIABLES
  pc, state, conflict, reason, obs, uptime, advertIn, sequence,
  net,     \* the packets in flight
  cut,     \* the nodes whose packets the network currently loses
  faults   \* what is left of MaxFaults

loopVars == <<state, conflict, reason, obs, uptime, sequence>>
envVars == <<net, cut, faults>>
vars == <<pc, state, conflict, reason, obs, uptime, advertIn, sequence, net, cut, faults>>

TypeOK ==
  /\ pc \in [Node -> {"down", "refresh", "select", "stopping", "faulting"}]
  /\ state \in [Node -> HaState]
  /\ conflict \in [Node -> BOOLEAN]
  /\ reason \in [Node -> HaDecisionReason]
  /\ obs \in [Node -> PeerObservation \cup {NoPeer}]
  /\ uptime \in [Node -> Nat]
  /\ advertIn \in [Node -> Nat]
  /\ sequence \in [Node -> Nat]
  /\ \A n \in Node : /\ uptime[n] <= Window(Config[n])
                     /\ advertIn[n] <= Config[n].interval
                     /\ sequence[n] <= Config[n].jitter
                     /\ obs[n] # NoPeer => obs[n].age <= Window(Config[n])
  /\ net \subseteq HaPacket
  /\ cut \subseteq Node
  /\ faults \in 0..MaxFaults

Running(n) == pc[n] \in {"refresh", "select"}

\* n owns the VIP: it runs its loop and last decided Active.
Owner(n) == Running(n) /\ state[n] = "Active"

-----------------------------------------------------------------------------
(* refresh_local_state *)

LivePeer(n) == obs[n] # NoPeer /\ obs[n].age < Window(Config[n])

HasLiveActivePeer(n) == LivePeer(n) /\ obs[n].state = "Active"

\* Mutant of DesiredState: an Active node stays so before its peer is looked at.
DesiredStateActiveFirst(n) ==
  IF state[n] = "Active" THEN Decision("Active", "AlreadyActive")
  ELSE IF ~LivePeer(n)
  THEN DesiredStateWithoutLivePeer(Config[n], state[n], obs[n] # NoPeer, uptime[n])
  ELSE IF obs[n].state = "Active"
  THEN DesiredStateWithActivePeer(Config[n], Config[obs[n].from],
                                  obs[n].becameActive, conflict[n])
  ELSE DesiredStateWithPassivePeer(Config[n], state[n], Config[obs[n].from])

\* desired_state.
DesiredState(n) ==
  IF ~LivePeer(n)
  THEN DesiredStateWithoutLivePeer(Config[n], state[n], obs[n] # NoPeer, uptime[n])
  ELSE IF obs[n].state = "Active"
  THEN DesiredStateWithActivePeer(Config[n], Config[obs[n].from],
                                  obs[n].becameActive, conflict[n])
  ELSE DesiredStateWithPassivePeer(Config[n], state[n], Config[obs[n].from])

\* Mutant of Refresh: the conflict is not cleared when the peer is no longer a
\* live Active one.
RefreshKeepsConflict(n) ==
  LET decision == DesiredState(n)
  IN  /\ pc[n] = "refresh"
      /\ state' = [state EXCEPT ![n] = decision.state]
      /\ reason' = [reason EXCEPT ![n] = decision.reason]
      /\ conflict' = [conflict EXCEPT ![n] =
            decision.reason = "PeerBecameActiveConflict" \/ conflict[n]]
      /\ pc' = [pc EXCEPT ![n] = "select"]
      /\ UNCHANGED <<obs, uptime, advertIn, sequence, envVars>>

\* The decision, taken on the time since the last packet and since the start.
Refresh(n) ==
  LET decision == DesiredState(n)
  IN  /\ pc[n] = "refresh"
      /\ state' = [state EXCEPT ![n] = decision.state]
      /\ reason' = [reason EXCEPT ![n] = decision.reason]
      /\ conflict' = [conflict EXCEPT ![n] =
            \/ decision.reason = "PeerBecameActiveConflict"
            \/ conflict[n] /\ HasLiveActivePeer(n)]
      /\ pc' = [pc EXCEPT ![n] = "select"]
      /\ UNCHANGED <<obs, uptime, advertIn, sequence, envVars>>
-----------------------------------------------------------------------------
(* The arms of tokio::select!: each ends back at the refresh, or exits. *)

Spend(kind) == kind \in FaultKinds /\ faults > 0 /\ faults' = faults - 1

WakeUp(n) == pc[n] = "select" /\ pc' = [pc EXCEPT ![n] = "refresh"]

\* The checks of handle_incoming_packet, in its order.
Accepts(n, from) ==
  /\ Config[from].group = Config[n].group
  /\ Config[from].id # Config[n].id

\* Mutant of Observe: observed_at moves only when the peer's state changes.
ObserveChanges(n, p) ==
  [ from |-> p.from,
    state |-> p.state,
    becameActive |-> /\ p.state = "Active"
                     /\ obs[n] # NoPeer
                     /\ Config[obs[n].from].id = Config[p.from].id
                     /\ obs[n].state # "Active",
    age |-> IF obs[n] # NoPeer /\ obs[n].state = p.state THEN obs[n].age ELSE 0 ]

\* Mutant of Observe: a Standby packet keeps an Active observation alive.
ObserveKeepsClaim(n, p) ==
  [ from |-> p.from,
    state |-> IF obs[n] # NoPeer /\ obs[n].state = "Active" THEN "Active" ELSE p.state,
    becameActive |-> FALSE,
    age |-> 0 ]

\* What an accepted packet makes of the observation.  No check relates it to
\* the packet before: an older one, arriving late, replaces a newer one.
Observe(n, p) ==
  [ from |-> p.from,
    state |-> p.state,
    becameActive |-> /\ p.state = "Active"
                     /\ obs[n] # NoPeer
                     /\ Config[obs[n].from].id = Config[p.from].id
                     /\ obs[n].state # "Active",
    age |-> 0 ]

Oldest(p) == \A q \in net : q.from = p.from => q.age <= p.age

HandleReceive(n, p) ==
  /\ Peer[p.from] = n
  /\ Fifo => Oldest(p)
  /\ WakeUp(n)
  /\ obs' = IF Accepts(n, p.from) THEN [obs EXCEPT ![n] = Observe(n, p)] ELSE obs
  /\ UNCHANGED <<state, conflict, reason, uptime, advertIn, sequence, cut>>

\* recv_from returns an advertisement of the peer.
Receive(n, p) == HandleReceive(n, p) /\ net' = net \ {p} /\ UNCHANGED faults

\* The same when the network carries a second copy, still in flight.
ReceiveDuplicated(n, p) ==
  HandleReceive(n, p) /\ UNCHANGED net /\ Spend("duplicate")

\* recv_from returns a transient error, or a datagram that is no valid packet.
ReceiveNothing(n) ==
  /\ "wake" \in FaultKinds
  /\ WakeUp(n)
  /\ UNCHANGED <<loopVars, advertIn, envVars>>

\* The sleep ends and the advertisement carries the state of the last refresh.
SendAdvertisement(n) ==
  LET next == JitterFor(Config[n], sequence[n] + 1)
  IN  /\ advertIn[n] = 0
      /\ WakeUp(n)
      /\ sequence' = [sequence EXCEPT ![n] = next]
      /\ advertIn' = [advertIn EXCEPT ![n] = NextAdvertDelay(Config[n], next + 1)]
      /\ net' = IF n \in cut THEN net
                ELSE net \cup {[from |-> n, state |-> state[n], age |-> 0]}
      /\ UNCHANGED <<state, conflict, reason, obs, uptime, cut, faults>>

\* send_to fails transiently: nothing is sent, the sequence does not advance.
SendFails(n) ==
  /\ advertIn[n] = 0
  /\ WakeUp(n)
  /\ Spend("sendError")
  /\ advertIn' = [advertIn EXCEPT ![n] = NextAdvertDelay(Config[n], sequence[n] + 1)]
  /\ UNCHANGED <<loopVars, net, cut>>

Exit(n, label, kind) ==
  /\ pc[n] = "select"
  /\ pc' = [pc EXCEPT ![n] = label]
  /\ Spend(kind)
  /\ UNCHANGED <<loopVars, advertIn, net, cut>>

\* The shutdown future resolves.
Shutdown(n) == Exit(n, "stopping", "stop")

\* A receive or a send fails for good.
FatalError(n) == Exit(n, "faulting", "fatal")
-----------------------------------------------------------------------------
(* The process: start, end of the cleanup, crash. *)

\* Mutant of Start: the loop waits before its first decision.
StartUndecided(n) ==
  /\ pc[n] = "down"
  /\ pc' = [pc EXCEPT ![n] = "select"]
  /\ reason' = [reason EXCEPT ![n] = "Startup"]
  /\ advertIn' = [advertIn EXCEPT ![n] = NextAdvertDelay(Config[n], 1)]
  /\ UNCHANGED <<state, conflict, obs, uptime, sequence, envVars>>

\* initialize_loop_state.
Start(n) ==
  /\ pc[n] = "down"
  /\ pc' = [pc EXCEPT ![n] = "refresh"]
  /\ reason' = [reason EXCEPT ![n] = "Startup"]
  /\ advertIn' = [advertIn EXCEPT ![n] = NextAdvertDelay(Config[n], 1)]
  /\ UNCHANGED <<state, conflict, obs, uptime, sequence, envVars>>

\* The process ends and its loop state with it; r is the last reason it showed.
End(n, r) ==
  /\ pc' = [pc EXCEPT ![n] = "down"]
  /\ state' = [state EXCEPT ![n] = "Init"]
  /\ conflict' = [conflict EXCEPT ![n] = FALSE]
  /\ reason' = [reason EXCEPT ![n] = r]
  /\ obs' = [obs EXCEPT ![n] = NoPeer]
  /\ uptime' = [uptime EXCEPT ![n] = 0]
  /\ advertIn' = [advertIn EXCEPT ![n] = 0]
  /\ sequence' = [sequence EXCEPT ![n] = 0]
  /\ UNCHANGED <<net, cut>>

\* The awaited address and hook commands of the cleanup are over, however long
\* they took; the node has been silent meanwhile.
CleanupBeforeExit(n) ==
  /\ \/ pc[n] = "stopping" /\ End(n, "GracefulShutdown")
     \/ pc[n] = "faulting" /\ End(n, "RuntimeFault")
  /\ UNCHANGED faults

\* The process or its host dies.
Crash(n) == pc[n] # "down" /\ End(n, "Startup") /\ Spend("crash")
-----------------------------------------------------------------------------
(* The network and time. *)

\* A packet is lost.
Lose(p) ==
  /\ Spend("loss")
  /\ net' = net \ {p}
  /\ UNCHANGED <<pc, loopVars, advertIn, cut>>

\* A packet finds nobody receiving.
Unheard(p) ==
  /\ ~Running(Peer[p.from])
  /\ net' = net \ {p}
  /\ UNCHANGED <<pc, loopVars, advertIn, cut, faults>>

\* The network starts to lose what n sends, those in flight included, and
\* stops losing it.
CutLink(n) ==
  /\ n \notin cut
  /\ Spend("cut")
  /\ cut' = cut \cup {n}
  /\ net' = {p \in net : p.from # n}
  /\ UNCHANGED <<pc, loopVars, advertIn>>

HealLink(n) ==
  /\ n \in cut
  /\ cut' = cut \ {n}
  /\ UNCHANGED <<pc, loopVars, advertIn, net, faults>>

Due(n) == pc[n] = "refresh" \/ (pc[n] = "select" /\ advertIn[n] = 0)

\* Ages that no comparison tells apart from the window stop there.
Older(age, limit) == IF age < limit THEN age + 1 ELSE age

Tick ==
  /\ Prompt => /\ \A n \in Node : ~Due(n)
               /\ \A p \in net : p.age < MaxDelay
  /\ obs' = [n \in Node |->
        IF obs[n] = NoPeer THEN NoPeer
        ELSE [obs[n] EXCEPT !.age = Older(@, Window(Config[n]))]]
  /\ uptime' = [n \in Node |->
        IF pc[n] = "down" THEN 0 ELSE Older(uptime[n], Window(Config[n]))]
  /\ advertIn' = [n \in Node |-> IF advertIn[n] = 0 THEN 0 ELSE advertIn[n] - 1]
  /\ net' = {[p EXCEPT !.age = Older(@, MaxDelay)] : p \in net}
  /\ UNCHANGED <<pc, state, conflict, reason, sequence, cut, faults>>
-----------------------------------------------------------------------------
Init ==
  /\ pc = [n \in Node |-> "down"]
  /\ state = [n \in Node |-> "Init"]
  /\ conflict = [n \in Node |-> FALSE]
  /\ reason = [n \in Node |-> "Startup"]
  /\ obs = [n \in Node |-> NoPeer]
  /\ uptime = [n \in Node |-> 0]
  /\ advertIn = [n \in Node |-> 0]
  /\ sequence = [n \in Node |-> 0]
  /\ net = {}
  /\ cut = {}
  /\ faults = MaxFaults

Loop(n) ==
  \/ Refresh(n)
  \/ \E p \in net : Receive(n, p) \/ ReceiveDuplicated(n, p)
  \/ ReceiveNothing(n)
  \/ SendAdvertisement(n)
  \/ SendFails(n)
  \/ Shutdown(n)
  \/ FatalError(n)
  \/ CleanupBeforeExit(n)

Environment ==
  \/ \E n \in Node : Start(n) \/ Crash(n) \/ CutLink(n) \/ HealLink(n)
  \/ \E p \in net : Lose(p) \/ Unheard(p)

Next == Environment \/ Tick \/ \E n \in Node : Loop(n)

Spec == Init /\ [][Next]_vars

-----------------------------------------------------------------------------
(* Fairness: time passes, and a process that runs is scheduled.  Nothing   *)
(* makes an operator restart a node or repair a link.                      *)

Progress(n) ==
  \/ Refresh(n)
  \/ \E p \in net : Receive(n, p)
  \/ SendAdvertisement(n)
  \/ CleanupBeforeExit(n)

Fairness ==
  /\ WF_vars(Tick)
  /\ WF_vars(\E p \in net : Unheard(p))
  /\ \A n \in Node : WF_vars(Progress(n))

FairSpec == Spec /\ Fairness
-----------------------------------------------------------------------------
(* Properties *)

\* The longest time from a change at the node n to the moment its peer has heard
\* of it, when n is scheduled in time and nothing is lost.
Round(n) == Config[n].interval + MaxDelay

\* n waits longer than its peer is ever silent.
Patient(n) == Window(Config[n]) > Round(Peer[n])

\* No advertisement says Init: a node decides Active or Standby before it can
\* send, and its cleanup, which goes back to Init, sends nothing.  So no node
\* ever observes a peer in Init, and the Init arm of desired_state is unused.
NoInitAdvertised ==
  /\ \A p \in net : p.state # "Init"
  /\ \A n \in Node : obs[n] # NoPeer => obs[n].state # "Init"

\* active_peer_conflict is the memory of a yield: for as long as it is set the
\* node is not Active, whatever was lost, duplicated or reordered, and however
\* late the node runs.
ConflictMeansYielded == \A n \in Node : conflict[n] => state[n] # "Active"

\* README.md:739: the conflict stays sticky while the peer remains a live
\* Active owner.  No step of anyone drops it, or makes the node Active, while
\* the node's observation still shows such a peer.
ConflictIsSticky ==
  [][ \A n \in Node :
        (conflict[n] /\ Running(n)' /\ HasLiveActivePeer(n)')
           => (conflict[n]' /\ ~Owner(n)') ]_vars

\* A running node never leaves Active on its own account: only the claim of a
\* peer that it has heard within the window makes it yield.  So a loss of
\* packets, a restart or the passing of time alone cannot leave the VIP unowned.
YieldsOnlyToALiveClaim ==
  [][ \A n \in Node :
        (Owner(n) /\ Running(n)' /\ ~Owner(n)') => HasLiveActivePeer(n)' ]_vars

OneOwner == \E n \in Node : Owner(n) /\ \A m \in Node \ {n} : ~Owner(m)

\* README.md:742: with one direction lost the pair converges to one owner.
\* Once a node stays up and no two directions are cut for good, there is from
\* some point on exactly one owner, even if the other node is down or cut off.
PairConverges ==
  (\E n \in Node : <>[]Running(n)) /\ <>[](cut # Node) => <>[]OneOwner
=============================================================================

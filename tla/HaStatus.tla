------------------------------ MODULE HaStatus ------------------------------
(***************************************************************************)
(* HaPair with what it tells the operator: the snapshot that the loop      *)
(* publishes on a watch channel and the management API hands out on        *)
(* GET /status, the counters in it, the hooks that a transition spawns and *)
(* those that a failed address task runs later.  The loop reads none of    *)
(* them.  auth_failures counts a part of the invalid packets as duplicate  *)
(* does, and is left out.                                                  *)
(*                                                                         *)
(* A refresh, an accepted packet and a sent or failed advertisement        *)
(* publish, each with the clock of its own step; a rejected packet and a   *)
(* transient receive error do not, and show with the refresh after them.   *)
(***************************************************************************)
EXTENDS HaPair, Sequences, FiniteSets

CONSTANTS
  NoStatus,  \* no process answers on the API port
  Faulty,    \* bound: the nodes whose processes end, whose sends, receives and
             \* address tasks fail, and which get datagrams that are no packet
  MaxTasks,  \* bound: the address tasks of a process that may still fail
  MaxCount,  \* bound: where the u64 counters saturate
  Cap        \* bound: the stop watch `since` stops here

HaCounters ==
  [ sent : 0..MaxCount, received : 0..MaxCount, invalid : 0..MaxCount,
    duplicate : 0..MaxCount ]

\* The peer in a snapshot or a hook's context: node, state and time since heard.
PeerShown == [node : Node, state : HaState, seen : Nat]

Status ==
  [ state : HaState, reason : HaDecisionReason,
    last : HaDecisionReason \cup {"none"},
    peer : PeerShown \cup {NoPeer}, alive : BOOLEAN, counters : HaCounters ]

HookEvent == {"promote", "demote", "backup", "fault"}

HookContext ==
  [ event : HookEvent, state : HaState, previous : HaState,
    reason : HaDecisionReason, peer : PeerShown \cup {NoPeer} ]

ASSUME StatusAssumption ==
  /\ Faulty \subseteq Node
  /\ MaxTasks \in Nat /\ MaxCount \in Nat \ {0} /\ Cap \in Nat
  /\ NoPeer \notin PeerShown /\ NoStatus \notin Status

VARIABLES
  counters,  \* HaCounters of the running process
  last,      \* last_transition_reason
  leaving,   \* the peer as cleanup_before_exit saw it when it began
  shown,     \* what GET /status answers
  hooks,     \* the hooks the process has started since it last changed state,
             \* that of the change first, each with its context
  tasks,     \* the contexts of its address tasks that may still fail; tasks of
             \* equal contexts are not told apart
  since      \* history: how long n has been running with none of its packets
             \* lost, or has not been running

statusVars == <<counters, last, leaving, shown, hooks, tasks>>
allVars == <<vars, statusVars, since>>

StatusTypeOK ==
  /\ TypeOK
  /\ counters \in [Node -> HaCounters]
  /\ last \in [Node -> HaDecisionReason \cup {"none"}]
  /\ leaving \in [Node -> PeerShown \cup {NoPeer}]
  /\ shown \in [Node -> Status \cup {NoStatus}]
  /\ hooks \in [Node -> Seq(HookContext)]
  /\ tasks \in [Node -> SUBSET HookContext]
  /\ since \in [Node -> 0..Cap]

NoCounts == [sent |-> 0, received |-> 0, invalid |-> 0, duplicate |-> 0]
-----------------------------------------------------------------------------
(* The snapshot *)

ShownPeer(n) ==
  IF obs[n] = NoPeer THEN NoPeer
  ELSE [node |-> obs[n].from, state |-> obs[n].state, seen |-> obs[n].age]

\* Mutant of Alive: a peer once heard is alive.
AliveOnceHeard(n, peer) == peer # NoPeer

Alive(n, peer) == peer # NoPeer /\ peer.seen < Window(Config[n])

\* status_snapshot.
Snapshot(n) ==
  [ state |-> state[n], reason |-> reason[n], last |-> last[n],
    peer |-> ShownPeer(n), alive |-> Alive(n, ShownPeer(n)), counters |-> counters[n] ]

\* publish_loop_status, at the end of the step that calls it.
Publish(n) == shown' = [shown EXCEPT ![n] = Snapshot(n)']

\* Mutant of Up: the counter does not saturate.
UpForever(count) == count + 1

Up(count) == IF count < MaxCount THEN count + 1 ELSE count
-----------------------------------------------------------------------------
(* The hooks *)

\* Mutant of TransitionEvent: the state left is not looked at.
TransitionEventPlain(previous, next) ==
  IF next = "Active" THEN "promote" ELSE "backup"

\* trigger_state_hooks: which hook a change of state runs.
TransitionEvent(previous, next) ==
  IF next = "Active" THEN "promote"
  ELSE IF previous = "Active" THEN "demote" ELSE "backup"

\* hook_context.
Context(event, previous, next, why, peer) ==
  [event |-> event, state |-> next, previous |-> previous, reason |-> why, peer |-> peer]

\* What the address task of a transition hands to the fault hook: the context of
\* that transition, whatever the node has done since.
FaultOf(told) == [told EXCEPT !.event = "fault", !.reason = "AddressActionFailed"]

\* trigger_state_hooks, of a change of state: it starts the hook of the transition
\* and an address task beside the earlier ones, of which some end well.
TriggerStateHooks(n) ==
  LET context == Context(TransitionEvent(state[n], state'[n]),
                         state[n], state'[n], reason'[n], ShownPeer(n))
  IN  \E mayFail \in SUBSET (tasks[n] \cup {context}) :
        /\ Cardinality(mayFail) <= MaxTasks
        /\ mayFail = {} \/ n \in Faulty
        /\ tasks' = [tasks EXCEPT ![n] = mayFail]
        /\ hooks' = [hooks EXCEPT ![n] = <<context>>]
-----------------------------------------------------------------------------
(* The steps of HaPair with what they publish *)

\* Mutant of ShowRefresh: a refresh that changes no state publishes nothing.
ShowRefreshOfTransition(n) ==
  /\ Refresh(n)
  /\ UNCHANGED <<counters, leaving>>
  /\ IF state'[n] = state[n]
     THEN UNCHANGED <<last, hooks, tasks, shown>>
     ELSE /\ last' = [last EXCEPT ![n] = reason'[n]]
          /\ TriggerStateHooks(n)
          /\ Publish(n)

ShowRefresh(n) ==
  /\ Refresh(n)
  /\ IF state'[n] = state[n]
     THEN UNCHANGED <<last, hooks, tasks>>
     ELSE /\ last' = [last EXCEPT ![n] = reason'[n]]
          /\ TriggerStateHooks(n)
  /\ UNCHANGED <<counters, leaving>>
  /\ Publish(n)

\* Mutant of CountPacket: a packet with the node's own id is invalid, no more.
CountPacketPlain(n, from) ==
  LET before == counters[n]
  IN  counters' = [counters EXCEPT ![n] =
        IF Accepts(n, from) THEN [before EXCEPT !.received = Up(@)]
        ELSE [before EXCEPT !.invalid = Up(@)]]

\* The group is checked before the node id.
CountPacket(n, from) ==
  LET before == counters[n]
  IN  counters' = [counters EXCEPT ![n] =
        IF Accepts(n, from) THEN [before EXCEPT !.received = Up(@)]
        ELSE IF Config[from].group = Config[n].group
        THEN [before EXCEPT !.invalid = Up(@), !.duplicate = Up(@)]
        ELSE [before EXCEPT !.invalid = Up(@)]]

ShowReceive(n, p) ==
  /\ Receive(n, p) \/ ReceiveDuplicated(n, p)
  /\ CountPacket(n, p.from)
  /\ UNCHANGED <<last, leaving, hooks, tasks>>
  /\ IF Accepts(n, p.from) THEN Publish(n) ELSE UNCHANGED shown

\* A transient error counts nothing; a datagram that is no valid packet is invalid.
ShowReceiveNothing(n) ==
  /\ n \in Faulty /\ ReceiveNothing(n)
  /\ \/ UNCHANGED counters
     \/ counters' = [counters EXCEPT ![n].invalid = Up(@)]
  /\ UNCHANGED <<last, leaving, shown, hooks, tasks>>

ShowSend(n) ==
  /\ SendAdvertisement(n)
  /\ counters' = [counters EXCEPT ![n].sent = Up(@)]
  /\ UNCHANGED <<last, leaving, hooks, tasks>>
  /\ Publish(n)

ShowSendFails(n) ==
  /\ n \in Faulty /\ SendFails(n)
  /\ UNCHANGED <<counters, last, leaving, hooks, tasks>>
  /\ Publish(n)

\* cleanup_before_exit reads the clock and the peer, and then awaits.
ShowExit(n) ==
  /\ n \in Faulty /\ (Shutdown(n) \/ FatalError(n))
  /\ leaving' = [leaving EXCEPT ![n] = ShownPeer(n)]
  /\ UNCHANGED <<counters, last, shown, hooks, tasks>>

\* The end of the cleanup: the fault hook has run, the last snapshot stands until
\* the process has ended, and beyond, for whoever polled. Address tasks outlive it.
ShowCleanup(n) ==
  /\ CleanupBeforeExit(n)
  /\ shown' = [shown EXCEPT ![n] =
        [ state |-> "Init", reason |-> reason'[n],
          last |-> IF state[n] = "Init" THEN last[n] ELSE reason'[n],
          peer |-> leaving[n], alive |-> Alive(n, leaving[n]), counters |-> counters[n] ]]
  /\ hooks' = [hooks EXCEPT ![n] =
        IF pc[n] = "faulting"
        THEN <<Context("fault", state[n], "Init", reason'[n], leaving[n])>> ELSE <<>>]
  /\ counters' = [counters EXCEPT ![n] = NoCounts]
  /\ last' = [last EXCEPT ![n] = "none"]
  /\ leaving' = [leaving EXCEPT ![n] = NoPeer]
  /\ UNCHANGED tasks

\* An ip command of an address task fails, at any time after the transition that
\* spawned it, and the task runs the fault hook.
ShowTaskFails(n) ==
  /\ n \in Faulty
  /\ \E told \in tasks[n] :
       /\ tasks' = [tasks EXCEPT ![n] = @ \ {told}]
       /\ hooks' = [hooks EXCEPT ![n] = Append(@, FaultOf(told))]
  /\ UNCHANGED <<vars, counters, last, leaving, shown>>

\* initialize_loop_state, of a new process.
ShowStart(n) ==
  /\ Start(n)
  /\ hooks' = [hooks EXCEPT ![n] = <<>>]
  /\ tasks' = [tasks EXCEPT ![n] = {}]
  /\ UNCHANGED <<counters, last, leaving>>
  /\ Publish(n)

ShowCrash(n) ==
  /\ n \in Faulty /\ Crash(n)
  /\ shown' = [shown EXCEPT ![n] = NoStatus]
  /\ hooks' = [hooks EXCEPT ![n] = <<>>]
  /\ tasks' = [tasks EXCEPT ![n] = {}]
  /\ counters' = [counters EXCEPT ![n] = NoCounts]
  /\ last' = [last EXCEPT ![n] = "none"]
  /\ leaving' = [leaving EXCEPT ![n] = NoPeer]
-----------------------------------------------------------------------------
StatusInit ==
  /\ Init
  /\ counters = [n \in Node |-> NoCounts]
  /\ last = [n \in Node |-> "none"]
  /\ leaving = [n \in Node |-> NoPeer]
  /\ shown = [n \in Node |-> NoStatus]
  /\ hooks = [n \in Node |-> <<>>]
  /\ tasks = [n \in Node |-> {}]
  /\ since = [n \in Node |-> Cap]

ShowNetwork ==
  /\ \/ \E n \in Node : CutLink(n) \/ HealLink(n)
     \/ \E p \in net : Lose(p) \/ Unheard(p)
  /\ UNCHANGED statusVars

ShowStep(n) ==
  \/ ShowRefresh(n) \/ ShowReceiveNothing(n) \/ ShowSend(n)
  \/ ShowExit(n) \/ ShowCleanup(n) \/ ShowTaskFails(n) \/ ShowStart(n) \/ ShowCrash(n)
  \/ \E p \in net : ShowReceive(n, p)

\* The nodes of which a step loses a packet.
Lost ==
  cut' \cup (IF faults' # faults THEN {p.from : p \in net \ net'} ELSE {})

StopWatch(ticks, lost) ==
  since' = [n \in Node |->
    IF Running(n)' # Running(n) \/ n \in lost THEN 0
    ELSE IF since[n] + ticks <= Cap THEN since[n] + ticks ELSE Cap]

StatusNext ==
  \/ Tick /\ UNCHANGED statusVars /\ StopWatch(1, cut)
  \/ ShowNetwork /\ StopWatch(0, Lost)
  \/ \E n \in Node :
       \/ ShowStep(n) /\ StopWatch(0, cut)
       \/ ShowSendFails(n) /\ StopWatch(0, cut \cup {n})

StatusSpec == StatusInit /\ [][StatusNext]_allVars
-----------------------------------------------------------------------------
(* Properties *)

Standbys == { "StartupHold", "PeerHigherPriority", "PeerNodeIdTiebreak",
              "PeerActiveNoPreempt", "PeerBecameActiveConflict" }

Inits == {"Startup", "GracefulShutdown", "RuntimeFault"}

\* The state that a reason is given for.
StateFor(why) ==
  IF why \in Inits THEN "Init" ELSE IF why \in Standbys THEN "Standby" ELSE "Active"

\* What a node that gives a reason must have seen of its peer.
Explains(why, n, peer) ==
  CASE why = "PeerTimeout" -> peer # NoPeer /\ ~(peer.seen < Window(Config[n]))
    [] why \in {"StartupHold", "StartupDeadlineExpired"} -> peer = NoPeer
    [] why \in {"LocalHigherPriority", "LocalNodeIdTiebreak"} ->
         peer # NoPeer /\ peer.seen < Window(Config[n]) /\ peer.state # "Active"
    [] why \in {"PeerBecameActiveConflict", "PreemptHigherPriority",
                "PreemptNodeIdTiebreak", "PeerActiveNoPreempt"} ->
         peer # NoPeer /\ peer.seen < Window(Config[n]) /\ peer.state = "Active"
    [] why \in {"PeerHigherPriority", "PeerNodeIdTiebreak"} ->
         peer # NoPeer /\ peer.seen < Window(Config[n])
    [] OTHER -> TRUE

\* README.md:590: /status reflects the actual runtime state during election,
\* failover and recovery.  The answer agrees with itself at every moment,
\* whichever steps published it and whatever they failed to publish: the reason
\* is one for the state shown, the last transition led to that state, and a peer
\* is shown exactly when a packet has been counted.  Between two rounds of the
\* loop the peer shown also bears the reason out, and a process shows Init
\* exactly when it has cleaned up; a packet or a wake-up publishes a newer peer
\* or clock with the older decision, until the refresh after it.
StatusIsCoherent ==
  \A n \in Node : shown[n] # NoStatus =>
    LET s == shown[n]
    IN  /\ s.state = StateFor(s.reason)
        /\ s.state = IF s.last = "none" THEN "Init" ELSE StateFor(s.last)
        /\ s.peer = NoPeer <=> s.counters.received = 0
        /\ pc[n] # "refresh" => /\ s.state = "Init" <=> pc[n] = "down"
                               /\ Explains(s.reason, n, s.peer)

\* peer_alive is the truth, but for the time it takes to know: it is false once
\* the peer has been gone for the window, an interval of the node itself (which
\* publishes only when it wakes up) and the delay of the network, and true once
\* the two have run for a round with nothing lost.
PeerAliveIsTrue ==
  \A n \in Node : Running(n) =>
    LET m == Peer[n]
    IN  /\ (~Running(m) /\ since[m] >= Window(Config[n]) + Round(n))
             => ~shown[n].alive
        /\ (/\ Running(m) /\ Peer[m] = n /\ Accepts(n, m) /\ Patient(n)
            /\ since[n] > Round(m) /\ since[m] > Round(m))
             => shown[n].alive

\* README.md:747: packets with the receiver's own node.id are counted as invalid
\* duplicate-node-id packets and are ignored.  Within a round the operator of the
\* receiver sees the count, and never the sender as a peer.
DuplicateIdIsShown ==
  \A m \in Node :
    LET n == Peer[m]
    IN  (Running(n) /\ Config[m].id = Config[n].id /\ Config[m].group = Config[n].group) =>
          /\ shown[n].peer = NoPeer \/ shown[n].peer.node # m
          /\ (Running(m) /\ since[n] > Round(m) /\ since[m] > Round(m))
               => shown[n].counters.duplicate > 0

\* h is the hook of a change of state of n, which went from `before`.
Announces(h, n, before) ==
  /\ h.previous = before /\ h.state = StateFor(h.reason) /\ h.state # before
  /\ h.event \in IF h.state = "Init" THEN {"fault"}
                 ELSE CASE before = "Init" -> {"backup", "promote"}
                        [] before = "Standby" -> {"promote"}
                        [] before = "Active" -> {"demote"}
  /\ Explains(h.reason, n, h.peer)

\* README.md:588: hooks run once per transition with the expected state context.
\* A change of state runs one hook, which goes on where the hook of the change
\* before it left; none runs when the process is told to stop or dies.  Between
\* two changes nothing runs but the fault hooks of failed address tasks
\* (README.md:227), each task's at most once: it repeats a transition of this
\* process, which may not be its last one.
HooksFormAChain ==
  [][ \A n \in Node :
        LET before == IF hooks[n] = <<>> THEN "Init" ELSE hooks[n][1].state
        IN  IF state'[n] # state[n]
            THEN \/ /\ Len(hooks'[n]) = 1 /\ hooks'[n][1].state = state'[n]
                    /\ Announces(hooks'[n][1], n, before)
                 \/ hooks'[n] = <<>> /\ pc'[n] = "down"
            ELSE \/ hooks'[n] = hooks[n]
                 \/ hooks'[n] = <<>> /\ pc[n] = "down"
                 \/ \E told \in tasks[n] \ tasks'[n] :
                      /\ hooks'[n] = Append(hooks[n], FaultOf(told))
                      /\ told.state # told.previous /\ told.state # "Init" ]_allVars
=============================================================================

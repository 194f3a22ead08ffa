# gruezi in TLA+

gruezi keeps a virtual IP address (VIP) on one of two nodes. Each node runs a
control loop that advertises its state to its peer over unicast UDP, decides
from what it hears whether to be `Active` or `Standby`, and adds or removes the
configured addresses with `ip`. This directory specifies that behaviour in
TLA+, checks it with TLC on small instances, and proves with TLAPS what holds
for every configuration.

Paths below are relative to the repository. "Owner" means: a running node that
last decided `Active`.

## 1. Inventory

| Part | Source | State | Operations | Talks to |
|---|---|---|---|---|
| HA control loop | `src/gruezi/ha.rs` `run_with_status` | `HaLoopState`: state, active-peer conflict, decision reason, peer observation, sequence, next advertisement, counters | refresh, receive, send, cleanup | peer (UDP), VIP tasks, hooks, status channel, shutdown future |
| Election decision | `ha.rs` `desired_state` and below | none (pure) | ranking, timers, decision tree | the loop |
| Packet codec | `ha.rs` `HaPacket`, `PacketCursor` | none (pure) | encode, decode, auth tag | the loop |
| VIP management | `src/gruezi/addresses.rs` | the interface; one task per transition | add, remove, announce | `ip`, `arping`, `ndsend` |
| Hooks | `src/gruezi/hooks.rs` | none; one task per transition | run with a timeout | operator scripts |
| Supervisor | `src/gruezi/start.rs`, `signal.rs`, `src/bin/gruezi.rs` | two tasks, shutdown channel | start, select, await, exit | HA loop, API, signals |
| Management API | `src/gruezi/api.rs`, `status.rs` | listener | serve the last snapshot | status channel |
| Socket binding | `ha.rs` `bind_ha_socket`, `src/gruezi/net.rs` | none | bind, retry, fall back | the kernel |
| Configuration | `src/config.rs`, `ha.rs` `HaRuntimeConfig` | none | parse, validate, convert | everything |
| KV mode | `start.rs`, `config.rs` | none | validated, then refused: not implemented | - |
| Start action | `src/cli/actions/start.rs` | none | choose a file, load it, start | configuration, supervisor |
| Command line, status client, telemetry | `src/cli/` | none | parse, one HTTP request, print, export traces | API |
| Deployment and lab | `contrib/`, `ansible/`, `scripts/` | none | - | - |

How the parts interact. The loop is one task: refresh, then `tokio::select!` on
the shutdown future, a datagram, and the sleep until the next advertisement,
then the handler, then refresh again. A refresh that changes the state spawns an
address task and a hook task and does not wait for them. On its way out the loop
awaits a removal of the addresses and, after a fatal error, the fault hook. The
supervisor runs the loop and the API as two tasks and ends the process when a
signal arrives or either task ends.

What is hard here:

* *two loops and a network*: packets cross, are lost, late, duplicated and
  reordered, one direction at a time; no packet is ever compared with an older one;
* *time*: the decision is a comparison of ages with a window, evaluated only
  when something wakes the loop;
* *restarts*: a process forgets everything, its peer nothing;
* *detached tasks*: additions and removals of addresses overlap, fail half way
  and outlive the process;
* *endings*: signals, failures of either task and the cleanup race;
* *what is shown*: a snapshot is taken at one moment and read at another, and
  pieces of it are written by different handlers.

What makes each part correct: at most briefly two owners, soon exactly one, no
take-over from a living peer, no yield without a claim, a remembered yield
(loop and decision); the interface follows the state (VIP tasks); the cleanup is
completed before the process ends, and it does end (supervisor); what `/status`
shows and what the hooks are told is what is the case, or soon is (status);
what validation accepts also starts (configuration). `PROJECT.json`
lists the hazards, each at its line, with the properties that watch it.

## 2. Modules

| Module | Models |
|---|---|
| `HaDecision` | the pure part of `ha.rs`: ranking, timers, the decision tree |
| `HaPair` | the loop of every node, the packets in flight, faults, and time; EXTENDS `HaDecision` |
| `HaPairTiming` | `HaPair` with stop watches, for properties with durations |
| `Ownership` | the abstract specification: who owns the VIP, whose claims are under way, who goes by which |
| `HaOwnership` | the refinement mapping from `HaPair` to `Ownership` |
| `HaStatus` | `HaPair` with its counters, the snapshot of `/status` and the hooks of transitions |
| `PairConfig`, `MCHaPair`, `MCHaPairTiming`, `MCHaStatus` | the pair TLC checks; in `MCHaStatus` with a third node |
| `VipTasks` | one node's address tasks, their commands, the awaited cleanup, and the interface |
| `Service` | the supervisor, the binding of the sockets and the API task around `VipTasks` |
| `HaWire` | one advertisement: `build_packet`, `encode`, the datagram, `decode`, the checks on arrival |
| `Startup`, `MCStartup` | from a configuration file to that advertisement; EXTENDS `HaWire` |
| `HaPairProofs`, `HaPairTimingProofs`, `HaPairSettleProofs`, `HaOwnershipProofs`, `HaStatusProofs`, `ServiceProofs`, `HaWireProofs`, `StartupProofs` | the theorems |

### HaPair

`pc[n]` is the point the loop of `n` has reached; the other variables are the
fields of `HaLoopState`. One action stands for one handler together with all it
calls: `Refresh` (`refresh_local_state` and `desired_state`), `Receive`
(`handle_receive_event` and `handle_incoming_packet`), `SendAdvertisement` and
`SendFails` (`handle_send_event`), `ReceiveNothing` (transient errors, invalid
datagrams), `Shutdown` and `FatalError` (the arms that leave the loop),
`CleanupBeforeExit` (its end), `Start` (`initialize_loop_state`). A handler and
the refresh after it are two steps, so other nodes, packets and time come
between them.

Time is discrete. The code stores instants and compares them with `now`; the
module stores ages, stopped at the window because no comparison tells larger
ones apart, and `next_advert_at` as a countdown. A duration is in ticks; one
tick stands for any fixed number of milliseconds. `Prompt = TRUE` says that a
tick waits for every due step and for packets as old as `MaxDelay`;
`Prompt = FALSE` drops that: a node may run arbitrarily late.

Priority and node id of a packet are those of its sender's configuration.
`group` stands for group id, protocol version and key together, since a
mismatch in any has the same effect. Of the sequence number only the remainder
that the jitter uses is kept: nothing in the receiver reads it. Counters,
snapshots and transition reasons are written and never read by the loop:
`HaStatus` adds them. Logs and the times of transitions are left out.

Faults are counted over a behaviour: `FaultKinds` says which can happen,
`MaxFaults` how many. Reordering and delay are not counted. A cut link loses all
packets of one direction until it is repaired.

### Ownership and its refinement

`Ownership` says what the nodes promise about the VIP and leaves out how they
know: no clock, no timer, no packet format, no settings but who outranks whom
and who preempts. A node is `"down"`, `"standby"`, `"owner"` or `"yielded"`
(standby after giving way); it goes by at most one claim of another node; claims
under way may be lost, repeated or late. The promise is in the guards: an owner
gives way only to a claim; nobody takes the VIP against a claim except by
preemption, and not after giving way to it; only owners make claims.

`HaOwnership` maps the pair to it: the role from `pc`, `state` and
`active_peer_conflict`; the claim a node goes by from `has_live_active_peer`; the
claims under way from the Active packets in flight. A `Refresh` is `Promote`,
`GiveWay`, `Recover` or a stutter; a received Active packet is `Hear`; a tick can
`Forget` the claims of several nodes whose windows end at once.

### HaStatus

Each step of `HaPair` gets what it counts, publishes and spawns. `shown[n]` is
what `GET /status` answers: the last snapshot, computed by `status_snapshot` with
the clock of the step that published it. Refresh, an accepted packet and a sent or
failed advertisement publish; a rejected packet and a transient receive error do
not. `cleanup_before_exit` reads clock and peer before it awaits, so that much is
kept in `leaving`. Before the HA socket is bound `/status` answers with
`HaStatus::new`, state `Init` and no peer; `shown[n] = NoStatus` stands for that
answer as well as for a process that does not run. After a cleanup the last
snapshot stays in `shown`: the API serves it while it drains.

`hooks[n]` are the hooks the process has started since it last changed state, each
with its context: first the one of that change, spawned by `trigger_state_hooks` or
awaited by the cleanup, then the fault hooks of address tasks that failed.
`trigger_state_hooks` hands the context of its transition to the address task, which
runs the fault hook with it when an `ip` command fails (`ShowTaskFails`), at whatever
later moment: after other transitions, in either order with other tasks, while the
API drains. `tasks[n]` holds the contexts of the tasks that may still fail; what a
task does until then is in `VipTasks`. Two tasks of equal contexts count as one.
`auth_failures` and `last_transition_ms_ago` are left out: the first counts a part
of the invalid packets as the duplicate counter does, which is there.

### VipTasks

`trigger_state_hooks` becomes `Transition`, which spawns a task; a task does one
command per address (`BeginCommand`, `EndCommand`, `FailCommand`), announces
(`Announce`) and goes on, or stops at the first failure and runs the fault hook.
`BeginCleanup`, `EndCleanup`, `EndFaultHook` are `cleanup_before_exit`. Commands
are child processes: the end of the parent (`Exit`, `Crash`) drops the tasks and
leaves running commands as orphans. A command takes effect when it ends; `ip`
answers as `is_ignorable_ip_error` expects of it. A transition is any change of
state, after a first one to Standby: what the loop would decide is in `HaPair`.

### Service

`main` is the point `start_ha_service` has reached. The HA task is `VipTasks`,
whose actions it takes as they are. Before that it binds its socket:
`bind_ha_socket` makes a dual-stack series of attempts when the address is
`0.0.0.0` (`Wildcard`), then one on the address itself, and each series is
`bind_udp_socket_with_retry` (`BindHaFails`, `EndSeries`), whose sleep blocks its
thread: meanwhile the task does not see the shutdown, and the other tasks go on.
`BindHa` is the attempt that succeeds, after which `ha.peer` may still be no
socket address. The API task binds (`bind_tcp_listener`, dual-stack, then IPv4),
serves, drains, fails. A process that exits while the HA task has not returned is
a `Crash` of `VipTasks`: its tasks are dropped where they stand. A panic of a
task is not modelled.

### HaWire

A byte is a digit of `Base` (256 in the code, 4 in the run), and the text of an id
is the sequence of its bytes. Integers are made of two bytes, as `U16`, and put
together to four and eight (`U32`, `U64`; `ReadU16`, `ReadU32`, `ReadU64` on the way
back). Byte classes stand for what `trim` drops and for what UTF-8 excludes. `Send`
is `send_advertisement`, `Arrive` is `handle_receive_event` as far as `decode`;
`Accepted` is the rest of the checks, which `HaPair` abstracts as `Accepts`. In
between, `Cut`, `Extend` and `Change` damage a datagram in one place.
`PacketSettings` is wider than what a packet holds, as the configuration is:
`validate_ha` limits neither the interval to 32 bits nor the ids to 64 bytes, so a
node so configured fails at its first advertisement.

`Hash` is a constant operator and stands for `DefaultHasher` on the key and the
hashed fields. Only the length of a digest and that it consists of bytes are
assumed of it, and that for the keys and packets in use (`HashAssumption`): digests
may collide, and a collision makes a packet of a wrong key acceptable.
`NoCollision` says that no two keys in use make the same digest of one packet; it
is a hypothesis of the theorems that need it. In the run `Hash` is a sum that tells
the keys and packets there apart.

### Startup

Three places may name a configuration file: `--config`, `GRUEZI_CONFIG`, the
default path. `File` is `resolve_config_path`, `Load` reads and validates the
file (`Config::validate`), `StartWithConfig` converts it (`try_from`) or refuses
KV mode, `OpenSocket` is what `run_with_status` does before its loop: it binds
`ha.bind`, which can fail for any address, and parses `ha.peer`; `validate` looks at
neither as an address. `Advertise` is `HaWire` with the converted configuration as
its sender. A file that cannot be read and one that is no `Config` fail alike, so
both are `Unreadable`. Texts are sequences of bytes because trimming matters;
`hooks` keeps the set of the paths that are given.

## 3. Runs

All passing runs explore the whole state space of their instance.

| Run | Instance | Question |
|---|---|---|
| `pair_faults` | interval 1, dead factor 2, preempt, any lateness, any reordering, all eight kinds of fault, one fault | What does no step do, however bad the environment is? Is every step one of `Ownership`? |
| `pair_reordered` | intervals 2 and 3, dead factor 2, hold-down 2, delay up to 2, reordering, no preempt, a crash | How long do take-over and dual ownership last; is there a false timeout or a failback; what if the timers differ? |
| `pair_settles` | interval 2, jitter 1, delay up to 1, preempt, equal priorities, a crash or a stop | Do two running nodes agree, and how fast? |
| `pair_one_way` | interval 2, delay up to 1, no preempt, two crashes, stops or cuts | Does the pair end with one owner? |
| `preempt_one_way` | the same with preempt, one fault | Violated: see below. |
| `preferred_stuck` | preempt, no fault | Violated: see below. |
| `vip_standby` | 2 addresses, 3 transitions, no failure | Violated: see below. |
| `vip_exit` | 2 addresses, 2 transitions, a signal, no failure | Violated: see below. |
| `service` | 2 addresses, any of them there at the start, 2 transitions, 2 failing commands, a dual-stack bind, 2 attempts a series; starts until one gets its socket | Which endings cut the cleanup short; when is a bind given up; do the cleanup and the process end; does an undisturbed transition repair the interface? |
| `wire` | base 4, ids of one and two bytes and one byte too long, extreme intervals and sequences, no key and two keys; a keyed and a plain file with one setting at a time set otherwise, and every combination of readable, unreadable and missing places | Does what was accepted convert, and advertise once it is bound? Does what is sent arrive as it was sent, and nothing else? Which files agree? |
| `status` | interval 1, dead factor 2, preempt, prompt, any reordering; a third node that sends to `a` under `a`'s id; one crash, stop, fatal error, failed send or early wake-up, at `a` | Is what `/status` shows true? |
| `hooks` | interval 1, dead factor 2, preempt, prompt, any reordering; two crashes, stops, fatal errors, lost packets or early wake-ups, at `a`; two address tasks at a time that may fail | Which hooks run, and what are they told? |

What the passing properties say:

* `ConflictMeansYielded`, `ConflictIsSticky`: a recorded conflict always goes
  with a node that is not Active, and neither is undone while the peer is a live
  Active owner. `YieldsOnlyToALiveClaim`: an owner stops being one only on such
  a claim. `NoInitAdvertised`: the `Init` arm of `desired_state` for a peer is
  never used.
* `TakeoverIsBounded`: a node left alone owns the VIP after at most its window,
  one interval and one delay. The interval is there because nothing wakes the
  loop when the window ends.
* `DualOwnershipIsBrief`: at most one interval and one delay, when nothing is
  lost, even with reordering. `NoFalseTimeout` holds because the window is at
  least two intervals and here exceeds an interval plus the delay.
* `ImplementsOwnership`: every step of the pair, under any fault and any lateness,
  is a step of `Ownership` or a stutter.
* `EstablishedOwnerKeeps`: without preemption an owner that its peer must have
  heard of stays the only one. It is established after a round and two delays: a
  late Standby packet of the owner can still make the peer promote, and a late
  claim of the peer make the owner yield.
* With different timers (`pair_reordered`) a peer that is awake looks dead when
  its round is longer than the node's window. `Patient` excludes that where a
  property needs it; the code does not check it.
* `PairSettles`: three rounds (interval plus delay) after both run there is
  exactly one owner. It needs packets in order: a late Active packet can make
  the preferred node yield to a claim that is over, which prolongs it. It needs
  both nodes `Patient`: with intervals 5 and 2 and dead factor 2, the impatient
  one can take its peer for dead at any time and become a second owner.
* `PairConverges`: if one node stays up and not both directions are cut for
  good, there is eventually exactly one owner for ever.
* `UndisturbedTaskSettles`: an address task that runs alone and does not fail
  leaves all addresses, or none, as the state demands, whatever was there.
  `CleanupEnds`, `ServiceStops`: no failure keeps the process from ending.
* `CleanupIsAwaited`: only a kill, a failure of the API and one of the signal
  handlers end a process before its cleanup. `GivesUpAfterItsAttempts`: a bind is
  given up for `AddrInUse` only when the last address tried has had all its
  attempts (ha.rs:1365).
* `StatusIsCoherent` (README.md:590): at every moment the reason and the last
  transition are for the state shown, and a peer is shown exactly when a packet has
  been counted, whichever handlers wrote them. Between two rounds of the loop the
  peer also bears the reason out, and `Init` is shown exactly after a cleanup. Within
  a round that need not be: an accepted packet publishes the new peer beside the old
  decision, a start publishes `Init`. `PeerAliveIsTrue`: `peer_alive` is wrong no
  longer than a window and a round. `DuplicateIdIsShown` (README.md:747-748): a node
  that receives its own id counts it within a round, and never shows the sender as
  its peer.
* `HooksFormAChain` (README.md:588 and 227): a change of state runs one hook, which
  continues the hook of the change before it, with the event, the states and the
  peer that its reason is about. The fault hook of a failed address task repeats an
  earlier transition, which need not be the last one: it can tell a Standby node
  that it is Active. Between two changes of state nothing else runs, and no task
  reports twice.
* `AcceptedConfigConverts`: `try_from` repeats some checks of `validate`, and
  refuses nothing that passed. `AdvertisesOnceBound`: an accepted file whose
  socket is bound advertises unless `ha.peer` is no socket address, or an id or
  the interval is larger than a packet holds: `validate` checks none of these,
  and leaves nothing else. `FilesDecide`: what two files must agree on for their
  nodes to hear each other, and the part that white space plays: it counts in
  the group and not in the id and the key.
* `RoundTrip`, `DecodesOnlyEncodings`: `decode` inverts `encode` for every
  combination of lengths and for the largest numbers, and accepts no other bytes.
  `AgreementDecides`: an undamaged packet is accepted exactly when version, group
  and key agree and the ids differ, so tag and packet hash the same fields on
  both sides. `FitsBuffer`: `recv_from` never cuts an advertisement.

What the violated ones show, each a disagreement of the code with README.md:

* `preempt_one_way`, README.md:738 and 742. A preferred node that starts or
  restarts while its sending direction is cut never sees the peer *become*
  Active, so it does not yield, and both own the VIP until the link is repaired.
* `preferred_stuck`, README.md:511 and 513. When starts are staggered by about a
  window, the promotions cross, the preferred node yields, and the conflict,
  which is right for a one-way loss, keeps it in Standby for good.
* `vip_standby`, README.md:225. The address task of a short promotion can act
  after the one of the demotion that follows.
* `vip_exit`, README.md:230. The removal that the cleanup awaits does not wait
  for an addition that is still running.

### Bounds

Two nodes are what the program supports. Interval 2 with dead factor 2 is the
smallest instance in which an advertisement, a window and a delay can fall in
every order; interval 1 is used where lateness is unbounded, because then a tick
has no meaning beyond its order. One fault suffices for the bounds on durations,
which are measured from the last fault; two let a node restart while a link is
cut. `Cap` is above every duration a property mentions. In `status` counters
saturate at `MaxCount` = 1, which tells none from some, and only `a` meets
faults, garbage and socket errors (`Faulty`): `a` outranks `b` and has a
duplicate, so its end makes `b` take over and its return makes it preempt or
yield, all of which `b` shows too. Address tasks end well there (`MaxTasks` =
0): nothing of `/status` depends on them. In `hooks` two may fail, and two
faults make `a` lose the VIP and win it back, so that a task can fail after
later transitions, and two in either order.

Two addresses are needed for a partial failure, two failures for one in a task
and one in the cleanup, three transitions (`vip_standby`) for a promotion
between two demotions. A process that has had its socket is not followed by
another: what it leaves on the interface is among the initial states, and that
an orphaned command of it changes nothing of the safety properties is proved for
any number of starts. Two attempts a series instead of 20 tell the first attempt
from the last.

In `wire`, base 4 makes room for an id limit of two bytes and a tag of two; with
a buffer of exactly the largest packet, 29 bytes. The code's own numbers leave
room: 4 + 20 + 64 + 64 + 64 bytes of 1024.

### Fairness

`HaPair`: time passes (`Tick`), packets for nobody vanish, and a node that can
take a step of its loop does. Nothing is assumed of restarts and repairs, nor
that a particular packet is received before a node is due again. `Service`, with
`VipTasks` in it: tasks are scheduled, commands and hooks end. Hooks have a
timeout; for `ip` the code has none and the assumption is about `ip`: one that
hangs keeps the process alive and deaf to further signals. The HA task sees the
shutdown although packets keep coming because `select!` polls its arms in random
order.

`CHECK_DEADLOCK FALSE` is in the configurations of `VipTasks`, `Service` and
`Startup` only: there the bounds on transitions and processes, or the one packet,
end every behaviour.

## 4. Proofs

The theorems about the loop hold for every set of nodes, every `Config` that
satisfies what `validate_ha` enforces (`NodeAssumption`), every `Peer`, and every
environment (`EnvironmentAssumption`); the others for every value of the constants
that satisfies the named assumption of their module.

* `HaPairProofs`: first the decision's own numbers: `WindowSpansTwoIntervals`,
  `NextAdvertDelayRange` (never a zero delay, never more than the interval),
  `RankIsStrict` (the two ends never disagree on who outranks whom). Then
  `TypeCorrect`, one lemma per action. Its ranges (ages up to the window, countdown
  up to the interval) need `NextAdvertDelayRange`.
* `InitIsNeverAdvertised` needs the strengthening `Decided`: a node in `select`
  has a state other than `Init`. Without it a node could send before it decides.
* `YieldIsKept` (`ConflictMeansYielded`) is inductive together with `TypeOK`: the
  only step that changes state or conflict of a live node is `Refresh`
  (`StateChanges`), and a live Active peer and a conflict give Standby
  (`ConflictDecision`).
* `ConflictSticks` and `OwnersYieldToClaims` are action properties from the same
  invariants and the same case split.
* `HaOwnershipProofs`, `PairImplementsOwnership`: `OwnershipInv` adds to the
  invariants above that a node that is down has no observation and no conflict
  (`Forgotten`), without which a start would begin with a claim. Then one lemma
  per action shows the step of `Ownership` it is.
* `HaPairTimingProofs`: four of the five bounds, under hypotheses stated in the
  theorems. `Paired`: the nodes are in pairs that accept each other. `Lossless`:
  prompt scheduling, and no loss, cut or failed send among the faults.
  * `NoTimeoutIsFalse` (`Paired`, `Lossless`) and `DualOwnershipEnds` (the same):
    the invariant says where the advertisement that must arrive is: still to be
    sent within `advertIn`, in flight with an age, or already observed, and relates
    that to the stop watch (`FreshInv`, `DualInv`).
  * `TakeoverEnds` (`Paired`, `Prompt`): `AloneInv` compares the stop watch with the
    age of the packets of the peer still in flight, of the observation and of the
    node itself, and bounds what is left until it wakes up. Loss does not matter.
  * `EstablishedOwnersKeep` (`Paired`, `Lossless`, `NoPreempt`): `KeepInv` follows the
    claim of an owner: what is younger than its ownership says Active (`Claims`);
    its peer hears of it in time (`Loud`); once only claims are under way the next
    one that arrives makes the peer give way for good (`Heed`), and a delay after
    that no claim of the peer is left (`Undisputed`). The three stages are why the
    bound is a round and two delays.
* `HaPairSettleProofs`, `PairsSettle`: the fifth (`Paired`, `Lossless`, `Fifo`, two
  nodes, both `Patient`). Let `h` be the one that outranks, `l` the other.
  `SettleInv` says how far the pair has come, measured by the stop watch:
  * Next to `FreshInv` it keeps what order of sending means: a node does not send
    twice in a tick (`Spaced`); what `l` claimed before it yielded is older than the
    packet it yielded to (`Orderly`); `l` yields to a live claim at once
    (`YieldsAtOnce`).
  * While `l` may own the VIP (`MayOwn`), `Contending`: the advertisement that tells
    `h` of it is due or under way (`Telling`); then `h` knows (`Informed`) and either
    leaves `l` the VIP (`Ceded`) or has claimed it, and the claim is under way.
  * From then on, `Succeeding`: the news that `l` is not Active is due or under way;
    then `h` knows it and is Active, and stays.
  * The two stages end within `Contest(h) + Round(l)`, a round of `h` and two of `l`,
    which is sharper than `PairSettles`, and neither goes back to the one before:
    that is what fails with reordering.
* `HaStatusProofs`: each step of `HaStatus` is a step of `HaPair` and a publication,
  so the invariants of the pair carry over.
  * `StatusTypeCorrect`: whatever a handler publishes is a complete `Status`.
  * `SnapshotIsCoherent` is about every moment and needs two strengthenings
    (`CoherenceInv`): the reason, the last transition and the hook of the last change
    are those of the state the node is in, and its address tasks those of transitions
    (`Recorded`); and a node that is down has forgotten its peer. `HooksChain` is the
    action property of the same invariant, for any `MaxTasks`.
  * `DuplicateIsShown` (`Prompt`): `CountInv` follows the advertisement that the
    duplicate owes from its countdown through the network to the two counters, the
    loop's and the shown one, which a rejected packet leaves apart.
  * `AliveIsTrue` (`Prompt`, `PeersOnly`): `ShownInv` does the same for a peer that
    is there; for one that is gone `GoneInv` compares its absence with the age of
    its last packets, of the observation and of the shown snapshot. `PeersOnly`: a
    packet that a node accepts comes from a node whose own peer it is.
* `ServiceProofs`, the address tasks: `VipTypes` is inductive with `TasksInv` (ids of tasks are at most
  `spawned`, so a new task is new; a process that is down has none).
  `UndisturbedTasksSettle` needs `Settling`: an undisturbed task is the only one and
  has settled the addresses before the one it is at, and no orphan is left.
* `ServiceProofs`, the supervisor: on top of `TasksInv`, `AwaitInv` (the HA task is there from the
  bind to the end of the process, and a return of `start_ha_service` for a signal
  or the HA task comes after its end) gives `CleanupAwaited`; `SeriesInv` (while
  trying, the answers counted are the attempts of the current series) gives
  `StartIsGivenUp`; both give `ServiceTypes`.
* `HaWireProofs`: for every base, magic, limit, digest and set of configurations
  that satisfy `WireAssumption` and `HashAssumption`. `Layout(b, p)` says, field by
  field, what stands where in a datagram `b` of a packet `p`.
  * `LayoutIsEncoding`: `b` is laid out as `p` exactly if it is `Encode(p)`.
    `LayoutFields`: the cursor reads the fields back. Together `decode` inverts
    `encode` (`Codec`).
  * `DecodedLayout`: what `decode` accepts is laid out as the packet it returns, so
    it is that packet's encoding (`DecodedIsEncoding`).
  * `FramedEnds`: an encoding ends where its own length fields say, so a datagram
    cut short or continued is not the encoding of anything.
  * `Flight` says what is in flight: an encoding of a packet that the sender built,
    or one that was damaged in one place. From it and the above follow
    `EncodingFits` (`FitsBuffer`), `PacketsRoundTrip` (`RoundTrip`) and
    `DecodingIsStrict` (`DecodesOnlyEncodings`); `AgreementSuffices`
    (`AgreementDecides`) needs `NoCollision` besides. `PacketsRoundTrip` has the
    hypothesis that a digest is shorter than `MAX_AUTH_TAG_LEN`, as 8 bytes are
    shorter than 64: then the length of a tag has room to be wrong by one.
* `StartupProofs`: `StartInv` follows the file through the start: once loaded it is
  valid, once running the sender is its conversion, and from there on `Flight` holds.
  * `AcceptedConfigsConvert` is then that `Valid` implies `Convertible`;
    `AcceptedConfigsAdvertise` that a trimmed accepted id is not empty (`Trimmed`,
    from least and greatest elements of a set of positions), so that only size can
    make `encode` fail; before that only a peer that does not parse can end a bound
    service.
  * `StartedEncodingFits`, `StartedPacketsRoundTrip`, `StartedAgreementSuffices`: the
    theorems of `HaWireProofs` for senders that come from files.
  * `FilesSuffice` (`FilesDecide`, with `NoCollision`): what `AgreementDecides` says
    of runtime settings, in terms of what the two files say before trimming.

Model-checked only: what holds under fairness (`PairConverges`, `CleanupEnds`,
`ServiceStops`), which is out of the prover's reach.

## 5. Not modelled

* *KV mode* beyond its validation and refusal: there is no runtime.
* *Argument parsing, the status client, the peers stub*: sequential I/O without
  state; the direct path without a file (`boot = "direct"`) is a stub that logs.
* *YAML, unknown fields, defaults*: the job of the parser library and of constants.
* *Telemetry, deployment, lab scripts*: no state of the service.
* *The order in which hook scripts finish*, and what they do: outside the program.
* *Address families and socket options*: whether a socket can reach the family of
  `ha.peer` is up to the kernel; a node that cannot send is a cut link.
* *`auth_failures`, `last_transition_ms_ago`*, *panics of a task*, as said above; and
  how `DefaultHasher` computes a digest.
* *Repeated crashes of a preferred node*, which keep the survivor waiting: a bound
  would need an assumption on restarts that nothing in the code makes.

------------------------------ MODULE VipTasks ------------------------------
(***************************************************************************)
(* The VIP of one node: the tasks that trigger_state_hooks spawns to add   *)
(* and remove its addresses (src/gruezi/addresses.rs), the removal that    *)
(* cleanup_before_exit awaits, and what is left when the process ends.     *)
(*                                                                         *)
(* Every transition spawns a task of its own and nothing orders the tasks. *)
(* A task runs one `ip` command per address; a command is a child process  *)
(* that the end of the parent does not stop.  pc says where the process is:*)
(*   "down"     not running                                                *)
(*   "loop"     in the control loop of HaPair, free to change state        *)
(*   "cleanup"  awaiting the removal in cleanup_before_exit                *)
(*   "hook"     awaiting the fault hook there                              *)
(*   "returned" run_with_status has returned, the process still exits      *)
(* The hooks of a transition run beside the tasks, touch none of this and  *)
(* end by their timeout at the latest: they are left out.                  *)
(***************************************************************************)
EXTENDS Naturals, FiniteSets

CONSTANTS
  AddressCount,   \* the number of addresses in ha.addresses
  MaxTasks,       \* bound: tasks spawned by transitions, of one process
  MaxFailures,    \* bound: `ip` commands that fail
  MaxStarts,      \* bound: starts of the process
  Endings         \* how the process may end: "graceful", "fault", "crash"

ASSUME VipAssumption ==
  /\ AddressCount \in Nat \ {0}
  /\ MaxTasks \in Nat \ {0} /\ MaxFailures \in Nat /\ MaxStarts \in Nat
  /\ Endings \subseteq {"graceful", "fault", "crash"}

\* The addresses, in the order apply handles them.
Address == 1..AddressCount

CleanupTask == 0  \* the id of the removal awaited by cleanup_before_exit

\* A task is about to run the command of address `at`, runs it, announces the
\* address to the neighbours, or runs the fault hook and ends.
Task ==
  [ id : 0..MaxTasks, action : {"add", "del"}, at : Address,
    step : {"ready", "command", "announce", "hook"} ]

VARIABLES
  pc, state,
  tasks,        \* the tasks that have not ended
  orphans,      \* commands whose process has ended before them
  vip,          \* the addresses on the interface
  spawned, failures, starts,  \* the bounded counts
  ending,       \* how the process ends or has ended
  undisturbed   \* history: the last task began with no other task or command
                \* pending, and no command has failed since

vars ==
  <<pc, state, tasks, orphans, vip, spawned, failures, starts, ending, undisturbed>>

TypeOK ==
  /\ pc \in {"down", "loop", "cleanup", "hook", "returned"}
  /\ state \in {"Init", "Standby", "Active"}
  /\ tasks \subseteq Task
  /\ \A s, t \in tasks : s.id = t.id => s = t
  /\ orphans \subseteq [action : {"add", "del"}, address : Address]
  /\ vip \subseteq Address
  /\ spawned \in 0..MaxTasks /\ failures \in 0..MaxFailures /\ starts \in 0..MaxStarts
  /\ ending \in {"none", "graceful", "fault", "crash"}
  /\ undisturbed \in BOOLEAN

-----------------------------------------------------------------------------
(* The control loop and its cleanup *)

Spawn(id, action) ==
  /\ tasks' = tasks \cup {[id |-> id, action |-> action, at |-> 1, step |-> "ready"]}
  /\ undisturbed' = (tasks = {} /\ orphans = {})

\* refresh_local_state changes the state: trigger_state_hooks spawns an address
\* task and returns at once.  The first decision of a process is Standby: it has
\* heard nothing and its window has not passed.
Transition(next) ==
  /\ pc = "loop" /\ next # state
  /\ state = "Init" => next = "Standby"
  /\ spawned < MaxTasks
  /\ spawned' = spawned + 1
  /\ Spawn(spawned', IF next = "Active" THEN "add" ELSE "del")
  /\ state' = next
  /\ UNCHANGED <<pc, orphans, vip, failures, starts, ending>>

\* The shutdown future resolves, or a receive or a send fails for good:
\* cleanup_before_exit awaits apply(Remove), and no other task.
BeginCleanup(how) ==
  /\ pc = "loop" /\ state # "Init"  \* the loop begins with a refresh
  /\ how \in Endings \ {"crash"}
  /\ pc' = "cleanup"
  /\ ending' = how
  /\ Spawn(CleanupTask, "del")
  /\ UNCHANGED <<state, orphans, vip, spawned, failures, starts>>

\* Mutant of EndCleanup: a removal that failed is not let pass.
EndCleanupWhenRemoved ==
  /\ pc = "cleanup"
  /\ \A t \in tasks : t.id # CleanupTask
  /\ vip = {}
  /\ pc' = IF ending = "fault" THEN "hook" ELSE "returned"
  /\ state' = IF ending = "fault" THEN state ELSE "Init"
  /\ UNCHANGED <<tasks, orphans, vip, spawned, failures, starts, ending, undisturbed>>

\* The awaited removal is over, done or failed; a failure is only logged.
EndCleanup ==
  /\ pc = "cleanup"
  /\ \A t \in tasks : t.id # CleanupTask
  /\ pc' = IF ending = "fault" THEN "hook" ELSE "returned"
  /\ state' = IF ending = "fault" THEN state ELSE "Init"
  /\ UNCHANGED <<tasks, orphans, vip, spawned, failures, starts, ending, undisturbed>>

\* The fault hook succeeds, fails or times out.
EndFaultHook ==
  /\ pc = "hook"
  /\ pc' = "returned"
  /\ state' = "Init"
  /\ UNCHANGED <<tasks, orphans, vip, spawned, failures, starts, ending, undisturbed>>

\* The process is gone and its tasks with it, but not the commands they run.
Vanish ==
  /\ pc' = "down"
  /\ state' = "Init"
  /\ tasks' = {}
  /\ orphans' = orphans \cup
       {[action |-> t.action, address |-> t.at] : t \in {t \in tasks : t.step = "command"}}
  /\ UNCHANGED <<vip, spawned, failures, starts>>

Exit ==
  /\ pc = "returned"
  /\ Vanish
  /\ undisturbed' = (undisturbed /\ tasks = {})
  /\ UNCHANGED ending

Crash ==
  /\ "crash" \in Endings
  /\ pc # "down"
  /\ Vanish
  /\ ending' = "crash" /\ undisturbed' = FALSE

Start ==
  /\ pc = "down" /\ starts < MaxStarts
  /\ starts' = starts + 1
  /\ spawned' = 0
  /\ pc' = "loop"
  /\ ending' = "none" /\ undisturbed' = FALSE
  /\ UNCHANGED <<state, tasks, orphans, vip, failures>>
-----------------------------------------------------------------------------
(* A task: AddressManager::apply and run_address_command *)

Becomes(t, step) == tasks' = (tasks \ {t}) \cup {[t EXCEPT !.step = step]}

\* Mutant of Advance: one address too many.
AdvancePastLast(t) ==
  tasks' = (tasks \ {t}) \cup
    IF t.at <= AddressCount
    THEN {[t EXCEPT !.at = @ + 1, !.step = "ready"]} ELSE {}

\* apply goes on with the next address, or the task ends.
Advance(t) ==
  tasks' = (tasks \ {t}) \cup
    IF t.at < AddressCount
    THEN {[t EXCEPT !.at = @ + 1, !.step = "ready"]} ELSE {}

\* apply stops at the first failure.  A spawned task runs the fault hook, the
\* cleanup logs.
Abandon(t) ==
  IF t.id = CleanupTask THEN tasks' = tasks \ {t} ELSE Becomes(t, "hook")

\* What the kernel answers to a command, and makes of the interface.
Answer(action, address) ==
  IF action = "add"
  THEN IF address \in vip THEN "File exists" ELSE "ok"
  ELSE IF address \in vip THEN "ok" ELSE "Cannot assign requested address"

Effect(action, address) ==
  IF action = "add" THEN vip \cup {address} ELSE vip \ {address}

\* Mutant of Ignorable: an address that is already there is a failure.
IgnorableOnRemove(action, answer) ==
  action = "del" /\ answer = "Cannot assign requested address"

\* is_ignorable_ip_error.
Ignorable(action, answer) ==
  \/ action = "add" /\ answer = "File exists"
  \/ action = "del" /\ answer = "Cannot assign requested address"

\* The child process starts.
BeginCommand(t) ==
  /\ t.step = "ready"
  /\ Becomes(t, "command")
  /\ UNCHANGED <<pc, state, orphans, vip, spawned, failures, starts, ending, undisturbed>>

\* The kernel has answered and the child has ended.
EndCommand(t) ==
  /\ t.step = "command"
  /\ IF Answer(t.action, t.at) = "ok" \/ Ignorable(t.action, Answer(t.action, t.at))
     THEN IF t.action = "add" THEN Becomes(t, "announce") ELSE Advance(t)
     ELSE Abandon(t)
  /\ vip' = Effect(t.action, t.at)
  /\ UNCHANGED <<pc, state, orphans, spawned, failures, starts, ending, undisturbed>>

\* The command cannot be run or fails, and changes nothing.
FailCommand(t) ==
  /\ t.step = "command" /\ failures < MaxFailures
  /\ failures' = failures + 1
  /\ Abandon(t)
  /\ undisturbed' = FALSE
  /\ UNCHANGED <<pc, state, orphans, vip, spawned, starts, ending>>

\* announce_address ends; its failure is only logged.
Announce(t) ==
  /\ t.step = "announce"
  /\ Advance(t)
  /\ UNCHANGED <<pc, state, orphans, vip, spawned, failures, starts, ending, undisturbed>>

EndHook(t) ==
  /\ t.step = "hook"
  /\ tasks' = tasks \ {t}
  /\ UNCHANGED <<pc, state, orphans, vip, spawned, failures, starts, ending, undisturbed>>

\* A command that outlived its process takes effect.
EndOrphan(c) ==
  /\ vip' = Effect(c.action, c.address)
  /\ orphans' = orphans \ {c}
  /\ UNCHANGED <<pc, state, tasks, spawned, failures, starts, ending, undisturbed>>
-----------------------------------------------------------------------------
\* An earlier process may have left any of the addresses.
Init ==
  /\ pc = "down" /\ state = "Init"
  /\ tasks = {} /\ orphans = {}
  /\ vip \in SUBSET Address
  /\ spawned = 0 /\ failures = 0 /\ starts = 0
  /\ ending = "none" /\ undisturbed = FALSE

TaskStep(t) == BeginCommand(t) \/ EndCommand(t) \/ Announce(t) \/ EndHook(t)

Process ==
  \/ \E next \in {"Standby", "Active"} : Transition(next)
  \/ \E how \in {"graceful", "fault"} : BeginCleanup(how)
  \/ EndCleanup \/ EndFaultHook \/ Exit \/ Crash \/ Start

Commands ==
  \/ \E t \in tasks : TaskStep(t) \/ FailCommand(t)
  \/ \E c \in orphans : EndOrphan(c)

Next == Process \/ Commands

Spec == Init /\ [][Next]_vars
-----------------------------------------------------------------------------
(* Properties *)

Idle == tasks = {} /\ orphans = {}

\* A task that began when nothing else was pending and met no failure leaves
\* the interface as its state demands, whatever earlier failures, crashes or
\* races had left there: every address when Active, none otherwise.
UndisturbedTaskSettles ==
  (pc \in {"loop", "returned", "down"} /\ Idle /\ undisturbed)
     => vip = IF state = "Active" THEN Address ELSE {}

\* README.md:225: transitions to Standby remove the configured VIP addresses.
\* Once everything a node in Standby has started is over, and no command has
\* ever failed, the interface holds none of them.
StandbyHoldsNoVip ==
  (pc = "loop" /\ state = "Standby" /\ Idle /\ failures = 0) => vip = {}

\* README.md:230: on graceful shutdown the node removes its configured VIP
\* addresses before the runtime exits.
GracefulExitRemovesVip ==
  (pc = "down" /\ ending = "graceful" /\ Idle /\ failures = 0) => vip = {}

\* Once the loop leaves for its cleanup the process ends, also when a removal
\* fails, other tasks are still running or the fault hook hangs.
CleanupEnds == (pc = "cleanup") ~> (pc = "down")
=============================================================================

---------------------------- MODULE ServiceProofs ----------------------------
(***************************************************************************)
(* Service for every number of addresses, tasks, attempts and restarts: its *)
(* types, when a start is given up, and that the cleanup is awaited.       *)
(***************************************************************************)
EXTENDS Service, TLAPS

\* Every task of a transition has an id of its own; the removal of the cleanup
\* is there during the cleanup only; a process that is down has no task; one that
\* has returned is in no state but Init.
TasksInv ==
  /\ TypeOK
  /\ \A t \in tasks : t.id <= spawned /\ (t.id = CleanupTask => pc = "cleanup")
  /\ pc = "down" => tasks = {}
  /\ pc \in {"returned", "down"} => state = "Init"

LEMMA Bounds == /\ AddressCount \in Nat \ {0} /\ MaxTasks \in Nat \ {0}
                /\ MaxFailures \in Nat /\ MaxStarts \in Nat
  BY VipAssumption

\* Replacing a task by what becomes of it keeps the tasks well formed.
LEMMA Replaced ==
  ASSUME TasksInv, NEW t \in tasks, NEW u \in Task, u.id = t.id,
         tasks' \in {(tasks \ {t}) \cup {u}, tasks \ {t}}
  PROVE  /\ tasks' \subseteq Task
         /\ \A x, y \in tasks' : x.id = y.id => x = y
         /\ \A x \in tasks' : x.id <= spawned /\ (x.id = CleanupTask => pc = "cleanup")
  BY DEF TasksInv, TypeOK

LEMMA BecomesTask ==
  ASSUME TypeOK, NEW t \in tasks, NEW step \in {"command", "announce", "hook"}, Becomes(t, step)
  PROVE  \E u \in Task : /\ u = [t EXCEPT !.step = step] /\ u.id = t.id /\ u.action = t.action
                         /\ u.at = t.at /\ u.step = step
                         /\ tasks' = (tasks \ {t}) \cup {u}
  BY DEF TypeOK, Task, Becomes

LEMMA AdvancedTask ==
  ASSUME TypeOK, NEW t \in tasks, Advance(t)
  PROVE  \/ t.at = AddressCount /\ tasks' = tasks \ {t}
         \/ \E u \in Task : /\ u.id = t.id /\ u.action = t.action /\ u.at = t.at + 1
                            /\ u.step = "ready" /\ tasks' = (tasks \ {t}) \cup {u}
<1>1. t \in Task /\ t.at \in 1..AddressCount /\ AddressCount \in Nat
  BY Bounds DEF TypeOK, Task, Address
<1>2. CASE t.at < AddressCount
  <2> DEFINE u == [t EXCEPT !.at = t.at + 1, !.step = "ready"]
  <2>1. t.at + 1 \in Address
    BY <1>1, <1>2 DEF Address
  <2>2. u \in Task /\ u.id = t.id /\ u.action = t.action /\ u.at = t.at + 1 /\ u.step = "ready"
    BY <1>1, <2>1 DEF Task
  <2>3. tasks' = (tasks \ {t}) \cup {u}
    BY <1>2 DEF Advance
  <2> QED
    BY <2>2, <2>3
<1>3. CASE ~(t.at < AddressCount)
  BY <1>1, <1>3 DEF Advance
<1> QED
  BY <1>2, <1>3

\* What a step of a task or a command does to the tasks: one becomes another of the
\* same id, or ends.
LEMMA TaskStepTasks ==
  ASSUME TasksInv, NEW t \in tasks, TaskStep(t) \/ FailCommand(t)
  PROVE  /\ \E u \in Task : u.id = t.id /\ tasks' \in {(tasks \ {t}) \cup {u}, tasks \ {t}}
         /\ UNCHANGED <<pc, state, orphans, spawned, starts, ending>>
<1>1. t \in Task /\ TypeOK
  BY DEF TasksInv, TypeOK
<1>2. ASSUME NEW step \in {"command", "announce", "hook"}, Becomes(t, step)
      PROVE  \E u \in Task : u.id = t.id /\ tasks' \in {(tasks \ {t}) \cup {u}, tasks \ {t}}
  BY <1>1, <1>2, BecomesTask
<1>3. ASSUME Advance(t)
      PROVE  \E u \in Task : u.id = t.id /\ tasks' \in {(tasks \ {t}) \cup {u}, tasks \ {t}}
  BY <1>1, <1>3, AdvancedTask
<1>4. ASSUME tasks' = tasks \ {t}
      PROVE  \E u \in Task : u.id = t.id /\ tasks' \in {(tasks \ {t}) \cup {u}, tasks \ {t}}
  BY <1>1, <1>4
<1>5. CASE BeginCommand(t)
  BY <1>2, <1>5 DEF BeginCommand
<1>6. CASE EndCommand(t)
  BY <1>2, <1>3, <1>4, <1>6 DEF EndCommand, Abandon
<1>7. CASE FailCommand(t)
  BY <1>2, <1>4, <1>7 DEF FailCommand, Abandon
<1>8. CASE Announce(t)
  BY <1>3, <1>8 DEF Announce
<1>9. CASE EndHook(t)
  BY <1>4, <1>9 DEF EndHook
<1> QED
  BY <1>5, <1>6, <1>7, <1>8, <1>9 DEF TaskStep

\* The other variables a step of a task touches keep their types.
LEMMA TaskStepData ==
  ASSUME TasksInv, NEW t \in tasks, TaskStep(t) \/ FailCommand(t)
  PROVE  vip' \subseteq Address /\ failures' \in 0..MaxFailures /\ undisturbed' \in BOOLEAN
<1>1. /\ t.at \in Address /\ vip \subseteq Address /\ failures \in 0..MaxFailures
      /\ undisturbed \in BOOLEAN
  BY DEF TasksInv, TypeOK, Task
<1>2. CASE BeginCommand(t) \/ Announce(t) \/ EndHook(t)
  BY <1>1, <1>2 DEF BeginCommand, Announce, EndHook
<1>3. CASE EndCommand(t)
  <2>1. vip' = Effect(t.action, t.at) /\ failures' = failures /\ undisturbed' = undisturbed
    BY <1>3 DEF EndCommand
  <2>2. Effect(t.action, t.at) \subseteq Address
    BY <1>1 DEF Effect
  <2> QED
    BY <1>1, <2>1, <2>2
<1>4. CASE FailCommand(t)
  <2>1. failures < MaxFailures /\ failures' = failures + 1 /\ vip' = vip /\ undisturbed' = FALSE
    BY <1>4 DEF FailCommand
  <2>2. failures' \in 0..MaxFailures
    BY <1>1, <2>1, Bounds
  <2> QED
    BY <1>1, <2>1, <2>2
<1> QED
  BY <1>2, <1>3, <1>4 DEF TaskStep

LEMMA InitTasks == Init => TasksInv
<1> SUFFICES ASSUME Init PROVE TasksInv
  OBVIOUS
<1>1. spawned \in 0..MaxTasks /\ failures \in 0..MaxFailures /\ starts \in 0..MaxStarts
  BY Bounds DEF Init
<1>2. tasks = {} /\ orphans = {} /\ vip \subseteq Address
  BY DEF Init
<1> QED
  BY <1>1, <1>2 DEF Init, TasksInv, TypeOK

\* A task is spawned under a fresh id.
LEMMA SpawnTasks ==
  ASSUME TasksInv, NEW id \in 0..MaxTasks, NEW action \in {"add", "del"}, Spawn(id, action),
         \A t \in tasks : t.id # id
  PROVE  /\ tasks' \subseteq Task /\ undisturbed' \in BOOLEAN
         /\ \A s, t \in tasks' : s.id = t.id => s = t
         /\ \A t \in tasks' : t \in tasks \/ t.id = id
<1> DEFINE new == [id |-> id, action |-> action, at |-> 1, step |-> "ready"]
<1>1. new \in Task /\ new.id = id
  BY Bounds DEF Task, Address
<1>2. tasks' = tasks \cup {new}
  BY DEF Spawn
<1> HIDE DEF new
<1> QED
  BY <1>1, <1>2 DEF Spawn, TasksInv, TypeOK

LEMMA ProcessTasks == TasksInv /\ Process => TasksInv'
<1> SUFFICES ASSUME TasksInv, Process PROVE TasksInv'
  OBVIOUS
<1>0. TypeOK /\ spawned \in Nat /\ spawned <= MaxTasks /\ MaxTasks \in Nat \ {0}
  BY Bounds DEF TasksInv, TypeOK
<1>1. ASSUME NEW next \in {"Standby", "Active"}, Transition(next) PROVE TasksInv'
  <2>1. /\ spawned' = spawned + 1 /\ spawned' \in 1..MaxTasks /\ pc = "loop" /\ pc' = pc
        /\ state' = next /\ UNCHANGED <<orphans, vip, failures, starts, ending>>
    BY <1>0, <1>1 DEF Transition
  <2>2. Spawn(spawned', IF next = "Active" THEN "add" ELSE "del")
    BY <1>1 DEF Transition
  <2>3. \A t \in tasks : t.id # spawned' /\ t.id \in 0..MaxTasks /\ t.id <= spawned
    BY <1>0, <2>1 DEF TasksInv, TypeOK, Task
  <2>4. /\ tasks' \subseteq Task /\ undisturbed' \in BOOLEAN
        /\ \A s, t \in tasks' : s.id = t.id => s = t
        /\ \A t \in tasks' : t \in tasks \/ t.id = spawned'
    BY <2>1, <2>2, <2>3, SpawnTasks
  <2>5. \A t \in tasks' : t.id <= spawned' /\ (t.id = CleanupTask => pc' = "cleanup")
    BY <1>0, <2>1, <2>3, <2>4 DEF TasksInv, CleanupTask
  <2> QED
    BY <1>0, <2>1, <2>4, <2>5 DEF TasksInv, TypeOK
<1>2. ASSUME NEW how \in {"graceful", "fault"}, BeginCleanup(how) PROVE TasksInv'
  <2>1. /\ pc = "loop" /\ pc' = "cleanup" /\ ending' = how
        /\ UNCHANGED <<state, orphans, vip, spawned, failures, starts>>
        /\ Spawn(CleanupTask, "del")
    BY <1>2 DEF BeginCleanup
  <2>2. /\ tasks' \subseteq Task /\ undisturbed' \in BOOLEAN
        /\ \A s, t \in tasks' : s.id = t.id => s = t
        /\ \A t \in tasks' : t \in tasks \/ t.id = CleanupTask
    BY <1>0, <2>1, SpawnTasks DEF TasksInv, CleanupTask
  <2>3. \A t \in tasks' : t.id <= spawned'
    BY <1>0, <2>1, <2>2 DEF TasksInv, CleanupTask
  <2> QED
    BY <1>0, <2>1, <2>2, <2>3 DEF TasksInv, TypeOK
<1>3. CASE EndCleanup \/ EndFaultHook
  BY <1>0, <1>3 DEF EndCleanup, EndFaultHook, TasksInv, TypeOK
<1>4. CASE Vanish /\ undisturbed' \in BOOLEAN /\ ending' \in {"none", "graceful", "fault", "crash"}
  BY <1>0, <1>4 DEF Vanish, TasksInv, TypeOK, Task
<1>5. CASE Exit \/ Crash
  BY <1>0, <1>4, <1>5 DEF Exit, Crash, TypeOK
<1>6. CASE Start
  <2>1. starts' \in 0..MaxStarts /\ spawned' \in 0..MaxTasks
    BY <1>0, <1>6, Bounds DEF Start, TypeOK
  <2>2. tasks = {} /\ pc' = "loop" /\ ending' = "none" /\ undisturbed' = FALSE
        /\ UNCHANGED <<state, tasks, orphans, vip, failures>>
    BY <1>6 DEF Start, TasksInv
  <2> QED
    BY <1>0, <2>1, <2>2 DEF TasksInv, TypeOK
<1> QED
  BY <1>1, <1>2, <1>3, <1>5, <1>6 DEF Process

LEMMA CommandsTasks == TasksInv /\ Commands => TasksInv'
<1> SUFFICES ASSUME TasksInv, Commands PROVE TasksInv'
  OBVIOUS
<1>1. ASSUME NEW t \in tasks, TaskStep(t) \/ FailCommand(t) PROVE TasksInv'
  <2>1. PICK u \in Task : u.id = t.id /\ tasks' \in {(tasks \ {t}) \cup {u}, tasks \ {t}}
    BY <1>1, TaskStepTasks
  <2>2. UNCHANGED <<pc, state, orphans, spawned, starts, ending>>
    BY <1>1, TaskStepTasks
  <2>3. /\ tasks' \subseteq Task
        /\ \A x, y \in tasks' : x.id = y.id => x = y
        /\ \A x \in tasks' : x.id <= spawned /\ (x.id = CleanupTask => pc = "cleanup")
    BY <2>1, Replaced
  <2>4. vip' \subseteq Address /\ failures' \in 0..MaxFailures /\ undisturbed' \in BOOLEAN
    BY <1>1, TaskStepData
  <2>5. pc = "down" => FALSE
    BY DEF TasksInv
  <2> QED
    BY <2>2, <2>3, <2>4, <2>5 DEF TasksInv, TypeOK
<1>2. ASSUME NEW c \in orphans, EndOrphan(c) PROVE TasksInv'
  BY <1>2 DEF EndOrphan, Effect, TasksInv, TypeOK
<1> QED
  BY <1>1, <1>2 DEF Commands

LEMMA NextTasks == TasksInv /\ [Next]_vars => TasksInv'
<1>1. TasksInv /\ UNCHANGED vars => TasksInv'
  BY DEF vars, TasksInv, TypeOK
<1> QED
  BY <1>1, ProcessTasks, CommandsTasks DEF Next

\* The types, and with them that no two tasks share an id, whatever the races of
\* tasks, failures, crashes and restarts.
THEOREM VipTypes == Spec => []TypeOK
<1>1. TasksInv => TypeOK
  BY DEF TasksInv
<1> QED
  BY <1>1, InitTasks, NextTasks, PTL DEF Spec
-----------------------------------------------------------------------------
(* An undisturbed task settles *)

\* What the interface has to come to, and the tasks that bring it there.
Owning == pc = "loop" /\ state = "Active"
Wanted == IF Owning THEN Address ELSE {}
WantedAction == IF Owning THEN "add" ELSE "del"

\* The addresses t has dealt with are on the interface exactly when it adds.
Done(t, interface) ==
  \A x \in Address :
    (x < t.at \/ (x = t.at /\ t.step = "announce")) => (x \in interface <=> t.action = "add")

\* t does what is wanted and has met nothing that fails.
OnItsWay(t) ==
  /\ t.action = WantedAction /\ t.step # "hook" /\ Done(t, vip)
  /\ pc = "loop" \/ (pc = "cleanup" /\ t.id = CleanupTask)

\* The strengthening: an undisturbed task is alone and on its way, and leaves what
\* is wanted.
Settling ==
  undisturbed =>
    /\ orphans = {}
    /\ tasks = {} => vip = Wanted
    /\ \A t \in tasks : tasks = {t} /\ OnItsWay(t)

LEMMA SpawnSettles ==
  ASSUME TasksInv, NEW id, NEW action, Spawn(id, action), UNCHANGED <<orphans, vip>>,
         action = WantedAction', pc' = "loop" \/ (pc' = "cleanup" /\ id = CleanupTask)
  PROVE  Settling'
<1> SUFFICES ASSUME undisturbed' PROVE Settling'
  BY DEF Settling
<1> DEFINE new == [id |-> id, action |-> action, at |-> 1, step |-> "ready"]
<1>1. tasks = {} /\ orphans = {} /\ tasks' = {new}
  BY DEF Spawn
<1>2. \A x \in Address : ~(x < 1)
  BY Bounds DEF Address
<1>3. /\ new.action = action /\ new.step = "ready" /\ new.at = 1 /\ new.id = id
  OBVIOUS
<1> HIDE DEF new
<1>4. Done(new, vip')
  BY <1>2, <1>3 DEF Done
<1>5. OnItsWay(new)'
  BY <1>3, <1>4 DEF OnItsWay, Done
<1> QED
  BY <1>1, <1>5 DEF Settling

LEMMA ProcessSettles == TasksInv /\ Settling /\ Process => Settling'
<1> SUFFICES ASSUME TasksInv, Settling, Process PROVE Settling'
  OBVIOUS
<1>1. ASSUME NEW next \in {"Standby", "Active"}, Transition(next) PROVE Settling'
  <2>1. /\ pc' = "loop" /\ state' = next /\ UNCHANGED <<orphans, vip>>
        /\ Spawn(spawned', IF next = "Active" THEN "add" ELSE "del")
    BY <1>1 DEF Transition
  <2>2. WantedAction' = IF next = "Active" THEN "add" ELSE "del"
    BY <2>1 DEF WantedAction, Owning
  <2> QED
    BY <2>1, <2>2, SpawnSettles
<1>2. ASSUME NEW how \in {"graceful", "fault"}, BeginCleanup(how) PROVE Settling'
  <2>1. pc' = "cleanup" /\ UNCHANGED <<orphans, vip>> /\ Spawn(CleanupTask, "del")
    BY <1>2 DEF BeginCleanup
  <2>2. WantedAction' = "del"
    BY <2>1 DEF WantedAction, Owning
  <2> QED
    BY <2>1, <2>2, SpawnSettles
<1>3. CASE EndCleanup
  <2>1. /\ pc = "cleanup" /\ pc' # "loop" /\ \A t \in tasks : t.id # CleanupTask
        /\ UNCHANGED <<tasks, orphans, vip, undisturbed>>
    BY <1>3 DEF EndCleanup
  <2>2. undisturbed => tasks = {}
    BY <2>1 DEF Settling, OnItsWay
  <2> QED
    BY <2>1, <2>2 DEF Settling, Wanted, Owning
<1>4. CASE EndFaultHook
  <2>1. pc = "hook" /\ pc' = "returned" /\ UNCHANGED <<tasks, orphans, vip, undisturbed>>
    BY <1>4 DEF EndFaultHook
  <2>2. undisturbed => tasks = {}
    BY <2>1 DEF Settling, OnItsWay
  <2> QED
    BY <2>1, <2>2 DEF Settling, Wanted, Owning
<1>5. CASE Exit
  <2>1. /\ pc = "returned" /\ pc' = "down" /\ vip' = vip /\ tasks' = {}
        /\ undisturbed' = (undisturbed /\ tasks = {})
        /\ tasks = {} => orphans' = orphans
    BY <1>5 DEF Exit, Vanish
  <2> QED
    BY <2>1 DEF Settling, Wanted, Owning
<1>6. CASE Crash \/ Start
  BY <1>6 DEF Crash, Start, Settling
<1> QED
  BY <1>1, <1>2, <1>3, <1>4, <1>5, <1>6 DEF Process

\* A task that has dealt with the address it is at goes on, or is done.
LEMMA AdvanceSettles ==
  ASSUME TasksInv, NEW t \in tasks, tasks = {t}, Advance(t), orphans' = {},
         UNCHANGED <<pc, state>>,
         t.action = WantedAction, pc = "loop" \/ (pc = "cleanup" /\ t.id = CleanupTask),
         \A x \in Address : x <= t.at => (x \in vip' <=> t.action = "add"),
         vip' \subseteq Address
  PROVE  Settling'
<1>1. t.at \in 1..AddressCount /\ AddressCount \in Nat
  BY Bounds DEF TasksInv, TypeOK, Task, Address
<1>2. CASE t.at = AddressCount /\ tasks' = tasks \ {t}
  <2>1. \A x \in Address : x \in vip' <=> t.action = "add"
    BY <1>1, <1>2 DEF Address
  <2>2. vip' = Wanted
    BY <2>1 DEF WantedAction, Wanted
  <2> QED
    BY <1>2, <2>2 DEF Settling, Wanted, Owning
<1>3. ASSUME NEW u \in Task, u.id = t.id, u.action = t.action, u.at = t.at + 1,
             u.step = "ready", tasks' = (tasks \ {t}) \cup {u}
      PROVE  Settling'
  <2>1. tasks' = {u}
    BY <1>3
  <2>2. \A x \in Address : x < u.at => x <= t.at
    BY <1>1, <1>3 DEF Address
  <2>3. Done(u, vip')
    BY <1>3, <2>2 DEF Done
  <2>4. OnItsWay(u)'
    BY <1>3, <2>3 DEF OnItsWay, Done, WantedAction, Owning
  <2> QED
    BY <2>1, <2>4 DEF Settling
<1> QED
  BY <1>2, <1>3, AdvancedTask DEF TasksInv

LEMMA CommandsSettle == TasksInv /\ Settling /\ Commands => Settling'
<1> SUFFICES ASSUME TasksInv, Settling, Commands, undisturbed' PROVE Settling'
  BY DEF Settling
<1>1. ASSUME NEW t \in tasks, TaskStep(t) PROVE Settling'
  <2>1. UNCHANGED <<pc, state, orphans, undisturbed>>
    BY <1>1 DEF TaskStep, BeginCommand, EndCommand, Announce, EndHook
  <2>2. orphans = {} /\ tasks = {t} /\ OnItsWay(t)
    BY <1>1, <2>1 DEF Settling
  <2>3. t.at \in Address /\ t.at \in Nat /\ (\A x \in Address : x \in Nat) /\ vip \subseteq Address /\ t \in Task
    BY DEF TasksInv, TypeOK, Task, Address
  <2>4. t.action \in {"add", "del"} /\ TypeOK
    BY <2>3 DEF Task, TasksInv
  <2>5. CASE BeginCommand(t)
    <3>1. Becomes(t, "command") /\ vip' = vip /\ t.step = "ready"
      BY <2>5 DEF BeginCommand
    <3>2. PICK u \in Task : /\ u.id = t.id /\ u.action = t.action /\ u.at = t.at
                            /\ u.step = "command" /\ tasks' = (tasks \ {t}) \cup {u}
      BY <2>4, <3>1, BecomesTask
    <3>3. OnItsWay(u)'
      BY <2>1, <2>2, <3>1, <3>2 DEF OnItsWay, Done, WantedAction, Owning
    <3> QED
      BY <2>1, <2>2, <3>2, <3>3 DEF Settling
  <2>6. CASE EndCommand(t)
    <3>1. vip' = Effect(t.action, t.at) /\ t.step = "command"
      BY <2>6 DEF EndCommand
    <3>2. vip' \subseteq Address
      BY <2>3, <3>1 DEF Effect
    <3>3. \A x \in Address : x <= t.at => (x \in vip' <=> t.action = "add")
      <4> SUFFICES ASSUME NEW x \in Address, x <= t.at PROVE x \in vip' <=> t.action = "add"
        OBVIOUS
      <4>1. x < t.at \/ x = t.at
        BY <2>3
      <4>2. x < t.at => (x \in vip <=> t.action = "add")
        BY <2>2 DEF OnItsWay, Done
      <4>3. x # t.at => (x \in vip' <=> x \in vip)
        BY <3>1 DEF Effect
      <4>4. t.at \in vip' <=> t.action = "add"
        BY <2>4, <3>1 DEF Effect
      <4> QED
        BY <4>1, <4>2, <4>3, <4>4
    <3>4. Answer(t.action, t.at) = "ok" \/ Ignorable(t.action, Answer(t.action, t.at))
      BY <2>4 DEF Answer, Ignorable
    <3>5. CASE Advance(t)
      BY <2>1, <2>2, <3>2, <3>3, <3>5, AdvanceSettles DEF OnItsWay
    <3>6. CASE Becomes(t, "announce")
      <4>1. PICK u \in Task : /\ u.id = t.id /\ u.action = t.action /\ u.at = t.at
                              /\ u.step = "announce" /\ tasks' = (tasks \ {t}) \cup {u}
        BY <2>4, <3>6, BecomesTask
      <4>2. \A x \in Address : x < t.at \/ x = t.at => x <= t.at
        BY <2>3
      <4>3. Done(u, vip')
        BY <3>3, <4>1, <4>2 DEF Done
      <4>4. OnItsWay(u)'
        BY <2>1, <2>2, <4>1, <4>3 DEF OnItsWay, Done, WantedAction, Owning
      <4> QED
        BY <2>1, <2>2, <4>1, <4>4 DEF Settling
    <3> QED
      BY <2>6, <3>4, <3>5, <3>6 DEF EndCommand
  <2>7. CASE Announce(t)
    <3>1. Advance(t) /\ vip' = vip /\ t.step = "announce"
      BY <2>7 DEF Announce
    <3>2. \A x \in Address : x <= t.at => (x < t.at \/ x = t.at)
      BY <2>3
    <3>3. \A x \in Address : x <= t.at => (x \in vip' <=> t.action = "add")
      BY <2>2, <3>1, <3>2 DEF OnItsWay, Done
    <3> QED
      BY <2>1, <2>2, <2>3, <3>1, <3>3, AdvanceSettles DEF OnItsWay
  <2>8. CASE EndHook(t)
    BY <2>2, <2>8 DEF EndHook, OnItsWay
  <2> QED
    BY <1>1, <2>5, <2>6, <2>7, <2>8 DEF TaskStep
<1>2. ASSUME NEW t \in tasks, FailCommand(t) PROVE FALSE
  BY <1>2 DEF FailCommand
<1>3. ASSUME NEW c \in orphans, EndOrphan(c) PROVE FALSE
  BY <1>3 DEF EndOrphan, Settling
<1> QED
  BY <1>1, <1>2, <1>3 DEF Commands

\* A task that began alone and met no failure leaves the interface as its state
\* demands, for every number of addresses and after every earlier race or crash.
THEOREM UndisturbedTasksSettle == Spec => []UndisturbedTaskSettles
<1>1. Init => TasksInv /\ Settling
  BY InitTasks DEF Init, Settling
<1>2. TasksInv /\ Settling /\ [Next]_vars => (TasksInv /\ Settling)'
  <2>1. TasksInv /\ Settling /\ UNCHANGED vars => Settling'
    BY DEF vars, Settling, OnItsWay, Done, Wanted, WantedAction, Owning
  <2> QED
    BY <2>1, NextTasks, ProcessSettles, CommandsSettle DEF Next
<1>3. TasksInv /\ Settling => UndisturbedTaskSettles
  <2> SUFFICES ASSUME TasksInv, Settling, pc \in {"loop", "returned", "down"}, Idle, undisturbed
               PROVE  vip = IF state = "Active" THEN Address ELSE {}
    BY DEF UndisturbedTaskSettles
  <2>1. vip = Wanted
    BY DEF Settling, Idle
  <2>2. pc # "loop" => state # "Active"
    BY DEF TasksInv, TypeOK
  <2> QED
    BY <2>1, <2>2 DEF Wanted, Owning
<1> QED
  BY <1>1, <1>2, <1>3, PTL DEF Spec

-----------------------------------------------------------------------------
(* The supervisor around the tasks *)

Trying == bound \in {"dual-stack", "direct"}

\* A series has met AddrInUse as often as it has attempted; one that is given up,
\* as often as it may, or another error at last.
SeriesInv ==
  /\ Trying => inUse = attempt
  /\ bound = "failed" => inUse \in {0, MaxAttempts}

\* The HA task is there from the moment its socket is bound until the process ends;
\* nobody but the end of the process makes it crash; and start_ha_service returns
\* for a signal, or for the HA task, after that has ended.
AwaitInv ==
  /\ bound # "bound" => pc = "down"
  /\ main # "down" /\ bound = "bound" => pc # "down" /\ ending # "crash"
  /\ main = "await api" => HaEnded
  /\ main = "returning" /\ cause \in {"signal", "ha"} => HaEnded
  /\ CleanupIsAwaited

ServiceInv == TasksInv /\ ServiceTypeOK /\ SeriesInv /\ AwaitInv

LEMMA Attempts == MaxAttempts \in Nat \ {0} /\ FirstSeries \in {"dual-stack", "direct"}
  BY ServiceAssumption DEF FirstSeries

\* The steps of the HA task, its tasks and its commands that leave the rest alone.
HaStep == StopHa \/ FaultHa \/ DecideHa \/ FinishHa \/ RunCommands

\* The steps that leave the HA task and the attempts to bind its socket alone.
OtherStep ==
  \/ SignalArrives \/ SignalFails \/ HaEndsFirst \/ ApiEndsFirst \/ AwaitHa \/ AwaitApi
  \/ BindApi \/ FailApi \/ StopApi \/ DrainApi

\* Every step is one of VipTasks or leaves its variables alone.
LEMMA ServiceStep == [ServiceNext]_serviceVars => [Next]_vars
<1> SUFFICES ASSUME [ServiceNext]_serviceVars PROVE [Next]_vars
  OBVIOUS
<1>1. CASE HaStep
  <2>1. Process \/ Commands
    BY <1>1 DEF HaStep, StopHa, FaultHa, DecideHa, FinishHa, RunCommands, Process
  <2> QED
    BY <2>1 DEF Next
<1>2. CASE OtherStep
  BY <1>2 DEF OtherStep, SignalArrives, SignalFails, HaEndsFirst, ApiEndsFirst, Leave,
              AwaitHa, AwaitApi, BindApi, FailApi, StopApi, DrainApi, ApiStep
<1>3. CASE Launch \/ BindHaFails \/ UNCHANGED serviceVars
  BY <1>3 DEF Launch, BindHaFails, serviceVars
<1>4. CASE BindHa \/ ExitProcess \/ Kill
  BY <1>4 DEF BindHa, ExitProcess, Kill, Next, Process
<1> QED
  BY <1>1, <1>2, <1>3, <1>4 DEF ServiceNext, HaStep, OtherStep

LEMMA ServiceInitInv == ServiceInit => ServiceInv
<1> SUFFICES ASSUME ServiceInit PROVE ServiceInv
  OBVIOUS
<1>1. TasksInv
  BY InitTasks DEF ServiceInit
<1>2. 0 \in 0..MaxAttempts - 1 /\ 0 \in 0..MaxAttempts
  BY Attempts
<1> QED
  BY <1>1, <1>2, Attempts DEF ServiceInit, Init, ServiceInv, TasksInv, ServiceTypeOK, SeriesInv,
     Trying, AwaitInv, CleanupIsAwaited

\* The steps of the HA task, its tasks and its commands neither start nor end it, do
\* not take back its return, and do not make it crash.
LEMMA HaStepRuns ==
  ASSUME HaStep
  PROVE  /\ (pc = "down") <=> (pc' = "down")
         /\ pc = "returned" => pc' = "returned"
         /\ ending # "crash" => ending' # "crash"
         /\ Beside
<1>1. CASE StopHa \/ FaultHa
  BY <1>1 DEF StopHa, FaultHa, BeginCleanup
<1>2. CASE DecideHa
  BY <1>2 DEF DecideHa, Transition
<1>3. CASE FinishHa
  BY <1>3 DEF FinishHa, EndCleanup, EndFaultHook
<1>4. CASE RunCommands
  BY <1>4 DEF RunCommands, Commands, TaskStep, BeginCommand, EndCommand, FailCommand,
              Announce, EndHook, EndOrphan
<1> QED
  BY <1>1, <1>2, <1>3, <1>4 DEF HaStep

LEMMA HaStepKeeps == ServiceInv /\ HaStep => SeriesInv' /\ AwaitInv'
<1> SUFFICES ASSUME ServiceInv, HaStep PROVE SeriesInv' /\ AwaitInv'
  OBVIOUS
<1> QED
  BY HaStepRuns DEF ServiceInv, SeriesInv, Trying, AwaitInv, HaEnded, CleanupIsAwaited, Beside,
     bindVars, ServiceTypeOK

\* Nobody who has waited for the HA task still finds its socket unbound.
LEMMA BindingIsNotAwaited ==
  ASSUME ServiceInv, Binding
  PROVE  pc = "down" /\ Trying /\ main \notin {"down", "await api"}
         /\ ~ (main = "returning" /\ cause \in {"signal", "ha"})
  BY DEF ServiceInv, AwaitInv, Binding, Trying, HaEnded

LEMMA SeriesEnds ==
  ASSUME ServiceInv, Binding, NEW met \in {0, inUse + 1}, EndSeries(met),
         met # 0 => attempt + 1 >= MaxAttempts
  PROVE  SeriesInv' /\ bound' \in {"direct", "failed"} /\ attempt' \in 0..MaxAttempts - 1
         /\ inUse' \in 0..MaxAttempts
<1>1. attempt \in 0..MaxAttempts - 1 /\ inUse = attempt
  BY BindingIsNotAwaited DEF ServiceInv, ServiceTypeOK, SeriesInv
<1>2. met \in {0, MaxAttempts}
  BY <1>1, Attempts
<1>3. 0 \in 0..MaxAttempts - 1 /\ {0, MaxAttempts} \subseteq 0..MaxAttempts
  BY Attempts
<1> QED
  BY <1>1, <1>2, <1>3 DEF EndSeries, SeriesInv, Trying

LEMMA BindHaFailsKeeps ==
  ASSUME ServiceInv, BindHaFails
  PROVE  SeriesInv' /\ AwaitInv' /\ bound' \in {"dual-stack", "direct", "failed"}
         /\ attempt' \in 0..MaxAttempts - 1 /\ inUse' \in 0..MaxAttempts
<1>1. Binding /\ UNCHANGED <<vars, main, api, told, cause>>
  BY DEF BindHaFails
<1>2. SeriesInv' /\ bound' \in {"dual-stack", "direct", "failed"}
      /\ attempt' \in 0..MaxAttempts - 1 /\ inUse' \in 0..MaxAttempts
  <2>1. CASE /\ attempt + 1 < MaxAttempts
             /\ attempt' = attempt + 1 /\ inUse' = inUse + 1
             /\ UNCHANGED bound
    <3>1. attempt \in 0..MaxAttempts - 1 /\ inUse = attempt /\ Trying
      BY <1>1, BindingIsNotAwaited DEF ServiceInv, ServiceTypeOK, SeriesInv
    <3>2. attempt + 1 \in 0..MaxAttempts - 1 /\ attempt + 1 \in 0..MaxAttempts
      BY <2>1, <3>1, Attempts
    <3> QED
      BY <2>1, <3>1, <3>2 DEF SeriesInv, Trying
  <2>2. CASE attempt + 1 >= MaxAttempts /\ EndSeries(inUse + 1)
    BY <1>1, <2>2, SeriesEnds
  <2>3. CASE EndSeries(0)
    BY <1>1, <2>3, SeriesEnds
  <2> QED
    BY <2>1, <2>2, <2>3 DEF BindHaFails
<1>3. AwaitInv'
  <2>1. pc' = "down" /\ main' = main /\ cause' = cause
    BY <1>1, BindingIsNotAwaited DEF vars
  <2> QED
    BY <1>1, <1>2, <2>1, BindingIsNotAwaited DEF AwaitInv, HaEnded, CleanupIsAwaited
<1> QED
  BY <1>2, <1>3

LEMMA OtherStepKeeps ==
  ASSUME ServiceInv, OtherStep
  PROVE  SeriesInv' /\ AwaitInv'
<1>1. UNCHANGED <<vars, bindVars>> /\ main # "down" /\ main' # "down"
  BY DEF OtherStep, SignalArrives, SignalFails, HaEndsFirst, ApiEndsFirst, Leave, AwaitHa,
         AwaitApi, BindApi, FailApi, StopApi, DrainApi, ApiStep
<1>2. HaEnded' <=> HaEnded
  BY <1>1 DEF HaEnded, vars, bindVars
<1>3. /\ main' = "await api" => HaEnded
      /\ main' = "returning" /\ cause' \in {"signal", "ha"} => HaEnded
  <2>1. CASE SignalArrives \/ SignalFails \/ ApiEndsFirst
    BY <2>1 DEF SignalArrives, SignalFails, ApiEndsFirst, Leave
  <2>2. CASE HaEndsFirst \/ AwaitHa
    BY <2>2 DEF HaEndsFirst, AwaitHa
  <2>3. CASE AwaitApi
    BY <2>3 DEF AwaitApi, ServiceInv, AwaitInv
  <2>4. CASE BindApi \/ FailApi \/ StopApi \/ DrainApi
    BY <2>4 DEF BindApi, FailApi, StopApi, DrainApi, ApiStep, ServiceInv, AwaitInv
  <2> QED
    BY <2>1, <2>2, <2>3, <2>4 DEF OtherStep
<1> QED
  BY <1>1, <1>2, <1>3 DEF ServiceInv, SeriesInv, Trying, AwaitInv, CleanupIsAwaited, vars, bindVars

\* The end of the process: whoever waited for the HA task finds it returned, and
\* lets it go without a crash.
LEMMA ProcessEndKeeps ==
  ASSUME ServiceInv, ExitProcess \/ Kill
  PROVE  SeriesInv' /\ AwaitInv' /\ pc' = "down"
<1>1. UNCHANGED bindVars /\ main' = "down"
  BY DEF ExitProcess, Kill
<1>2. pc' = "down"
  BY DEF ExitProcess, Kill, Exit, Crash, Vanish, vars
<1>3. CleanupIsAwaited'
  <2>1. CASE ExitProcess
    <3> SUFFICES ASSUME bound = "bound", cause \in {"signal", "ha"} PROVE ending' # "crash"
      BY <1>1, <2>1 DEF CleanupIsAwaited, ExitProcess, bindVars
    <3>1. pc = "returned" /\ ending # "crash"
      BY <2>1 DEF ServiceInv, AwaitInv, HaEnded, ExitProcess
    <3> QED
      BY <2>1, <3>1 DEF ExitProcess, Exit
  <2>2. CASE Kill
    BY <2>2 DEF Kill, CleanupIsAwaited
  <2> QED
    BY <2>1, <2>2
<1> QED
  BY <1>1, <1>2, <1>3 DEF ServiceInv, SeriesInv, Trying, AwaitInv, bindVars

LEMMA BindHaKeeps ==
  ASSUME ServiceInv, BindHa
  PROVE  SeriesInv' /\ AwaitInv'
<1>1. Binding /\ UNCHANGED <<main, inUse, cause>>
  BY DEF BindHa
<1>2. \/ pc' = "loop" /\ ending' = "none" /\ bound' = "bound"
      \/ bound' = "no peer" /\ pc' = pc
  BY DEF BindHa, Start, vars
<1>3. /\ pc = "down" /\ main \notin {"down", "await api"}
      /\ ~ (main = "returning" /\ cause \in {"signal", "ha"})
  BY <1>1, BindingIsNotAwaited
<1> QED
  BY <1>1, <1>2, <1>3 DEF SeriesInv, Trying, AwaitInv, HaEnded, CleanupIsAwaited

LEMMA LaunchKeeps ==
  ASSUME ServiceInv, Launch
  PROVE  SeriesInv' /\ AwaitInv'
<1>1. pc' = "down" /\ main' = "select" /\ bound' = FirstSeries /\ inUse' = attempt'
  BY DEF ServiceInv, ServiceTypeOK, Launch, vars
<1> QED
  BY <1>1, Attempts DEF SeriesInv, Trying, AwaitInv, HaEnded, CleanupIsAwaited

LEMMA ServiceTypesKept ==
  ASSUME ServiceInv, [ServiceNext]_serviceVars
  PROVE  ServiceTypeOK'
<1>1. TypeOK'
  BY ServiceStep, NextTasks DEF ServiceInv, TasksInv
<1>2. CASE HaStep
  BY <1>1, <1>2, HaStepRuns DEF ServiceInv, ServiceTypeOK, Beside, bindVars
<1>3. CASE OtherStep
  BY <1>1, <1>3 DEF ServiceInv, ServiceTypeOK, OtherStep, SignalArrives, SignalFails,
     HaEndsFirst, ApiEndsFirst, Leave, AwaitHa, AwaitApi, BindApi, FailApi, StopApi, DrainApi,
     ApiStep, vars, bindVars
<1>4. CASE ExitProcess \/ Kill
  <2>1. pc' = "down" /\ main' = "down"
    BY <1>4, ProcessEndKeeps DEF ExitProcess, Kill
  <2> QED
    BY <1>1, <1>4, <2>1 DEF ServiceInv, ServiceTypeOK, ExitProcess, Kill, bindVars
<1>5. CASE BindHaFails
  <2>1. UNCHANGED <<main, api, told, cause, pc>>
    BY <1>5 DEF BindHaFails, vars
  <2> QED
    BY <1>1, <1>5, <2>1, BindHaFailsKeeps DEF ServiceInv, ServiceTypeOK
<1>6. CASE BindHa
  BY <1>1, <1>6 DEF ServiceInv, ServiceTypeOK, BindHa, Binding
<1>7. CASE Launch
  <2>1. 0 \in 0..MaxAttempts - 1 /\ 0 \in 0..MaxAttempts
    BY Attempts
  <2> QED
    BY <1>1, <1>7, <2>1, Attempts DEF ServiceInv, ServiceTypeOK, Launch, vars
<1>8. CASE UNCHANGED serviceVars
  BY <1>1, <1>8 DEF ServiceInv, ServiceTypeOK, serviceVars, vars, bindVars
<1> QED
  BY <1>2, <1>3, <1>4, <1>5, <1>6, <1>7, <1>8 DEF ServiceNext, HaStep, OtherStep

LEMMA NextService == ServiceInv /\ [ServiceNext]_serviceVars => ServiceInv'
<1> SUFFICES ASSUME ServiceInv, [ServiceNext]_serviceVars PROVE ServiceInv'
  OBVIOUS
<1>1. TasksInv' /\ ServiceTypeOK'
  BY ServiceStep, NextTasks, ServiceTypesKept DEF ServiceInv
<1>2. SeriesInv' /\ AwaitInv'
  <2>1. CASE UNCHANGED serviceVars
    BY <2>1 DEF ServiceInv, SeriesInv, Trying, AwaitInv, HaEnded, CleanupIsAwaited,
       serviceVars, vars, bindVars
  <2> QED
    BY <2>1, HaStepKeeps, BindHaFailsKeeps, OtherStepKeeps, ProcessEndKeeps, BindHaKeeps,
       LaunchKeeps DEF ServiceNext, HaStep, OtherStep
<1> QED
  BY <1>1, <1>2 DEF ServiceInv

LEMMA ServiceIsInductive == ServiceSpec => []ServiceInv
  BY ServiceInitInv, NextService, PTL DEF ServiceSpec

\* Every variable of the service keeps its type.
THEOREM ServiceTypes == ServiceSpec => []ServiceTypeOK
<1>1. ServiceInv => ServiceTypeOK
  BY DEF ServiceInv
<1> QED
  BY <1>1, ServiceIsInductive, PTL

\* After a signal, or the end of the HA task, start_ha_service returns only when the
\* HA task has cleaned up, whatever happens to the API task meanwhile.
THEOREM CleanupAwaited == ServiceSpec => []CleanupIsAwaited
<1>1. ServiceInv => CleanupIsAwaited
  BY DEF ServiceInv, AwaitInv
<1> QED
  BY <1>1, ServiceIsInductive, PTL

\* AddrInUse ends a start only after MaxAttempts answers of the last series: the
\* attempts of bind_udp_socket_with_retry on the dual-stack address do not count.
THEOREM StartIsGivenUp == ServiceSpec => []GivesUpAfterItsAttempts
<1>1. ServiceInv => GivesUpAfterItsAttempts
  BY DEF ServiceInv, SeriesInv, GivesUpAfterItsAttempts
<1> QED
  BY <1>1, ServiceIsInductive, PTL
=============================================================================

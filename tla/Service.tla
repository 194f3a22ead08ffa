------------------------------ MODULE Service ------------------------------
(***************************************************************************)
(* The process around the control loop: start_ha_service spawns the HA     *)
(* task and the status API, waits in tokio::select! for a signal or for    *)
(* the end of either, and decides what it still waits for.  VipTasks is    *)
(* the HA task, its address tasks and the interface; its pc is "down"      *)
(* until the HA socket is bound.                                           *)
(***************************************************************************)
EXTENDS VipTasks

CONSTANTS
  Wildcard,    \* ha.bind is 0.0.0.0: a dual-stack socket is tried first
  MaxAttempts  \* the constant of bind_udp_socket_with_retry, 20 in the code

ASSUME ServiceAssumption == Wildcard \in BOOLEAN /\ MaxAttempts \in Nat \ {0}

VARIABLES
  main,   \* start_ha_service: "down", "select", "await ha", "await api",
          \* or "returning", until the runtime has dropped every task
  bound,  \* the HA socket: tried "dual-stack" or "direct", then "bound",
          \* "failed", or, when ha.peer is no socket address, "no peer"
  attempt,  \* failed attempts of the current series to bind it
  inUse,  \* history: the answers AddrInUse to the current series
  api,    \* the API task: "starting", then "fallback" to IPv4, "serving",
          \* "draining", "ok", "error"
  told,   \* the value of the shutdown channel
  cause   \* why start_ha_service left its select, or "kill"

bindVars == <<bound, attempt, inUse>>
serviceVars == <<vars, main, bindVars, api, told, cause>>

ServiceTypeOK ==
  /\ TypeOK
  /\ main \in {"down", "select", "await ha", "await api", "returning"}
  /\ bound \in {"dual-stack", "direct", "bound", "failed", "no peer"}
  /\ attempt \in 0..MaxAttempts - 1 /\ inUse \in 0..MaxAttempts
  /\ api \in {"starting", "fallback", "serving", "draining", "ok", "error"}
  /\ told \in BOOLEAN
  /\ cause \in {"none", "signal", "no signal handler", "ha", "api", "kill"}
  /\ main \in {"await ha", "await api"} => told
  /\ main = "down" => pc = "down"

-----------------------------------------------------------------------------
(* The tasks *)

\* wait_for_shutdown returns when the value is true, or its sender is gone.
ShutdownSeen == told \/ main = "returning"

FirstSeries == IF Wildcard THEN "dual-stack" ELSE "direct"

Binding == main # "down" /\ bound \in {"dual-stack", "direct"}

\* run_with_status has its socket and enters its loop, or returns the error that
\* ha.peer is no socket address, with nothing to clean up.
BindHa ==
  /\ Binding
  /\ \/ Start /\ bound' = "bound"
     \/ bound' = "no peer" /\ UNCHANGED vars
  /\ UNCHANGED <<main, attempt, inUse, api, told, cause>>

\* Mutant of EndSeries: the attempts of the first series count in the second.
EndSeriesUncleared(met) ==
  IF bound = "dual-stack"
  THEN bound' = "direct" /\ inUse' = 0 /\ UNCHANGED attempt
  ELSE bound' = "failed" /\ inUse' = met /\ UNCHANGED attempt

\* bind_ha_socket falls back to the configured address, or returns the error.
EndSeries(met) ==
  IF bound = "dual-stack"
  THEN bound' = "direct" /\ inUse' = 0 /\ attempt' = 0
  ELSE bound' = "failed" /\ inUse' = met /\ UNCHANGED attempt

\* An attempt of bind_udp_socket_with_retry fails: with AddrInUse the task sleeps
\* and tries again, or has done so often enough; with another error it does not
\* try again.  It sleeps its thread: it cannot see the shutdown, others go on.
BindHaFails ==
  /\ Binding
  /\ \/ /\ attempt + 1 < MaxAttempts
        /\ attempt' = attempt + 1 /\ inUse' = inUse + 1
        /\ UNCHANGED bound
     \/ attempt + 1 >= MaxAttempts /\ EndSeries(inUse + 1)
     \/ EndSeries(0)
  /\ UNCHANGED <<vars, main, api, told, cause>>

Beside == UNCHANGED <<main, bindVars, api, told, cause>>

StopHa == ShutdownSeen /\ BeginCleanup("graceful") /\ Beside
FaultHa == BeginCleanup("fault") /\ Beside

\* The other steps of the HA task, of its address tasks and of commands.
DecideHa == \E next \in {"Standby", "Active"} : Transition(next) /\ Beside
FinishHa == (EndCleanup \/ EndFaultHook) /\ Beside
RunCommands == Commands /\ Beside

HaEnded == bound \in {"failed", "no peer"} \/ pc = "returned"

HaResult == IF bound = "bound" /\ ending = "graceful" THEN "ok" ELSE "error"

ApiStep(from, to) ==
  /\ main # "down" /\ api = from /\ api' = to
  /\ UNCHANGED <<vars, main, bindVars, told, cause>>

\* run_ha_api: bind_tcp_listener gets a dual-stack listener or, whatever was wrong
\* with that, an IPv4 one, or fails; the server fails or, when told to stop,
\* finishes the requests it has.
BindApi ==
  \/ ApiStep("starting", "serving") \/ ApiStep("starting", "fallback")
  \/ ApiStep("fallback", "serving") \/ ApiStep("fallback", "error")
FailApi == ApiStep("serving", "error")
StopApi == ShutdownSeen /\ ApiStep("serving", "draining")
DrainApi == ApiStep("draining", "ok")

ApiEnded == api \in {"ok", "error"}
-----------------------------------------------------------------------------
(* start_ha_service *)

Launch ==
  /\ main = "down" /\ starts < MaxStarts
  /\ main' = "select"
  /\ bound' = FirstSeries /\ attempt' = 0 /\ inUse' = 0
  /\ api' = "starting"
  /\ told' = FALSE /\ cause' = "none"
  /\ UNCHANGED vars

Leave(why, next) ==
  /\ main = "select"
  /\ main' = next
  /\ cause' = why
  /\ UNCHANGED <<vars, bindVars, api>>

\* Mutants of SignalArrives: the tasks are not told; the HA task is not awaited.
SignalUntold == Leave("signal", "await ha") /\ UNCHANGED told
SignalSkipsHa == Leave("signal", "await api") /\ told' = TRUE

\* SIGINT or SIGTERM; from here on further signals are caught and ignored.
SignalArrives == Leave("signal", "await ha") /\ told' = TRUE

\* A signal handler cannot be installed: signal? returns at once.
SignalFails == Leave("no signal handler", "returning") /\ UNCHANGED told

\* A task ends before any signal: the others are told, and not awaited.
HaEndsFirst == HaEnded /\ Leave("ha", "returning") /\ told' = TRUE
ApiEndsFirst == ApiEnded /\ Leave("api", "returning") /\ told' = TRUE

AwaitHa ==
  /\ main = "await ha" /\ HaEnded
  /\ main' = IF HaResult = "ok" THEN "await api" ELSE "returning"
  /\ UNCHANGED <<vars, bindVars, api, told, cause>>

AwaitApi ==
  /\ main = "await api" /\ ApiEnded
  /\ main' = "returning"
  /\ UNCHANGED <<vars, bindVars, api, told, cause>>

\* The runtime is dropped: every task ends where it stands.  An HA task that
\* has not returned leaves its addresses as a crash would.
ExitProcess ==
  /\ main = "returning"
  /\ \/ pc = "down" /\ UNCHANGED vars
     \/ Exit
     \/ pc \in {"loop", "cleanup", "hook"} /\ Crash
  /\ main' = "down"
  /\ UNCHANGED <<bindVars, api, told, cause>>

\* SIGKILL, or the host dies.
Kill ==
  /\ main # "down"
  /\ IF pc = "down" THEN UNCHANGED vars ELSE Crash
  /\ main' = "down"
  /\ cause' = "kill"
  /\ UNCHANGED <<bindVars, api, told>>
-----------------------------------------------------------------------------
ServiceInit ==
  /\ Init
  /\ main = "down" /\ bound = FirstSeries /\ attempt = 0 /\ inUse = 0
  /\ api = "starting"
  /\ told = FALSE /\ cause = "none"

ServiceNext ==
  \/ Launch \/ SignalArrives \/ SignalFails \/ HaEndsFirst \/ ApiEndsFirst
  \/ AwaitHa \/ AwaitApi \/ ExitProcess \/ Kill
  \/ BindHa \/ BindHaFails \/ StopHa \/ FaultHa \/ DecideHa \/ FinishHa \/ RunCommands
  \/ BindApi \/ FailApi \/ StopApi \/ DrainApi

ServiceSpec == ServiceInit /\ [][ServiceNext]_serviceVars

\* Every task of the process is scheduled, and commands, hooks and the requests
\* being served end; the code sets no limit to an `ip` command: that it ends is
\* assumed of `ip`.  The HA task takes the shutdown arm of its select even when
\* other arms are always ready, because select! polls its arms in random order;
\* it decides once before its first select.
ServiceFairness ==
  /\ WF_serviceVars(state = "Init" /\ DecideHa)
  /\ WF_serviceVars(BindHa \/ BindHaFails) /\ WF_serviceVars(StopHa) /\ WF_serviceVars(FinishHa)
  /\ WF_serviceVars((\E t \in tasks : TaskStep(t)) /\ Beside)
  /\ WF_serviceVars(BindApi) /\ WF_serviceVars(StopApi) /\ WF_serviceVars(DrainApi)
  /\ WF_serviceVars(HaEndsFirst) /\ WF_serviceVars(ApiEndsFirst)
  /\ WF_serviceVars(AwaitHa) /\ WF_serviceVars(AwaitApi)
  /\ WF_serviceVars(ExitProcess)

FairServiceSpec == ServiceSpec /\ ServiceFairness
-----------------------------------------------------------------------------
(* Properties *)

\* The process does not end before the HA task has cleaned up, except when it
\* is killed, when the status API fails, or when no signal handler can be
\* installed.  After a signal neither a failure of the HA task nor one of the
\* API, at whatever moment, cuts the cleanup short.
CleanupIsAwaited ==
  (main = "down" /\ bound = "bound" /\ cause \in {"signal", "ha"})
     => ending # "crash"

\* ha.rs:1365: a few short retries succeed on a port that is free; a port that is
\* actually occupied still fails once the window is exhausted.  The start is given
\* up for AddrInUse only after that many attempts on the last address tried,
\* however many the dual-stack series before it has used.
GivesUpAfterItsAttempts == bound = "failed" => inUse \in {0, MaxAttempts}

\* Once a signal or the end of a task has ended the select, the process ends: no
\* task misses the shutdown or waits for another that waits for it.
ServiceStops ==
  (main \in {"await ha", "await api", "returning"}) ~> (main = "down")
=============================================================================

----------------------------- MODULE HaDecision -----------------------------
(***************************************************************************)
(* The pure part of src/gruezi/ha.rs: ranking, the timers derived from the *)
(* configuration, and the decision a node takes each time around its loop. *)
(*                                                                         *)
(* The code compares instants; this module compares the time elapsed since *)
(* them: now >= t + window is written age >= window.  A duration is a      *)
(* number of ticks.  Node ids are naturals ordered as their strings are.   *)
(***************************************************************************)
EXTENDS Naturals

HaState == {"Init", "Standby", "Active"}

HaDecisionReason ==
  { "Startup", "StartupHold", "StartupDeadlineExpired", "PeerTimeout",
    "PeerBecameActiveConflict", "AlreadyActive", "PeerActiveNoPreempt",
    "LocalHigherPriority", "PeerHigherPriority", "PreemptHigherPriority",
    "LocalNodeIdTiebreak", "PeerNodeIdTiebreak", "PreemptNodeIdTiebreak",
    "GracefulShutdown", "RuntimeFault", "AddressActionFailed" }

\* The settings of HaRuntimeConfig that the election reads, as validate_ha
\* accepts them.  group stands for everything a packet is checked against
\* besides node.id: group_id, protocol_version and the key of the auth tag.
HaRuntimeConfig ==
  { c \in [ id : Nat, priority : 1..255, preempt : BOOLEAN, interval : Nat \ {0},
            deadFactor : 2..255, holdDown : Nat, jitter : Nat, group : Nat ] :
      c.jitter < c.interval }

-----------------------------------------------------------------------------
(* Timers *)

\* follower_deadline(t) = t + Window: how long a silent peer stays alive, and
\* how long a starting node holds.
Window(cfg) == cfg.interval * cfg.deadFactor + cfg.holdDown

JitterFor(cfg, sequence) == sequence % (cfg.jitter + 1)

\* Mutant of NextAdvertDelay: one tick late.
NextAdvertDelayLate(cfg, sequence) == cfg.interval + 1 - JitterFor(cfg, sequence)

NextAdvertDelay(cfg, sequence) == cfg.interval - JitterFor(cfg, sequence)

-----------------------------------------------------------------------------
(* Ranking *)

\* Mutant of Outranks: no tiebreak.
OutranksByPriority(local, peer) == local.priority > peer.priority

\* rank_order(..) = Greater: priority first, node.id to break a tie.
Outranks(local, peer) ==
  \/ local.priority > peer.priority
  \/ local.priority = peer.priority /\ local.id > peer.id

LocalWinReason(local, peer, byPriority, byId) ==
  IF local.priority > peer.priority THEN byPriority ELSE byId

PeerWinReason(local, peer, byPriority, byId) ==
  IF local.priority < peer.priority THEN byPriority ELSE byId

-----------------------------------------------------------------------------
(* The decision *)

Decision(state, reason) == [state |-> state, reason |-> reason]

\* Mutant of DesiredStateWithoutLivePeer: the startup hold comes before the
\* timeout, so a node that has heard of its peer waits for ever.
DesiredStateHolding(cfg, current, heard, uptime) ==
  IF current = "Active" THEN Decision("Active", "AlreadyActive")
  ELSE IF ~heard /\ uptime >= Window(cfg)
  THEN Decision("Active", "StartupDeadlineExpired")
  ELSE Decision("Standby", "StartupHold")

\* heard: a packet has been accepted since the start; uptime: time since it.
DesiredStateWithoutLivePeer(cfg, current, heard, uptime) ==
  IF heard THEN Decision("Active", "PeerTimeout")
  ELSE IF current = "Active" THEN Decision("Active", "AlreadyActive")
  ELSE IF uptime >= Window(cfg) THEN Decision("Active", "StartupDeadlineExpired")
  ELSE Decision("Standby", "StartupHold")

\* Mutants of DesiredStateWithActivePeer: the conflict of an earlier refresh is
\* not consulted; preempt is not consulted.
DesiredStateForgetful(cfg, peer, becameActive, conflict) ==
  IF Outranks(cfg, peer) /\ becameActive
  THEN Decision("Standby", "PeerBecameActiveConflict")
  ELSE IF cfg.preempt /\ Outranks(cfg, peer)
  THEN Decision("Active", "PreemptHigherPriority")
  ELSE Decision("Standby", "PeerHigherPriority")

DesiredStatePreempting(cfg, peer, becameActive, conflict) ==
  IF Outranks(cfg, peer) /\ (becameActive \/ conflict)
  THEN Decision("Standby", "PeerBecameActiveConflict")
  ELSE IF Outranks(cfg, peer)
  THEN Decision("Active", "PreemptHigherPriority")
  ELSE Decision("Standby", "PeerHigherPriority")

DesiredStateWithActivePeer(cfg, peer, becameActive, conflict) ==
  LET localWins == Outranks(cfg, peer)
  IN  IF localWins /\ (becameActive \/ conflict)
      THEN Decision("Standby", "PeerBecameActiveConflict")
      ELSE IF cfg.preempt /\ localWins
      THEN Decision("Active", LocalWinReason(cfg, peer, "PreemptHigherPriority",
                                                        "PreemptNodeIdTiebreak"))
      ELSE IF cfg.preempt
      THEN Decision("Standby", PeerWinReason(cfg, peer, "PeerHigherPriority",
                                                        "PeerNodeIdTiebreak"))
      ELSE Decision("Standby", "PeerActiveNoPreempt")

\* Mutant of DesiredStateWithPassivePeer: an Active node is ranked again.
DesiredStateReranking(cfg, current, peer) ==
  IF Outranks(cfg, peer)
  THEN Decision("Active", LocalWinReason(cfg, peer, "LocalHigherPriority",
                                                    "LocalNodeIdTiebreak"))
  ELSE Decision("Standby", PeerWinReason(cfg, peer, "PeerHigherPriority",
                                                    "PeerNodeIdTiebreak"))

\* The peer is alive and advertises Standby (the match arm Init | Standby).
DesiredStateWithPassivePeer(cfg, current, peer) ==
  IF current = "Active" THEN Decision("Active", "AlreadyActive")
  ELSE IF Outranks(cfg, peer)
  THEN Decision("Active", LocalWinReason(cfg, peer, "LocalHigherPriority",
                                                    "LocalNodeIdTiebreak"))
  ELSE Decision("Standby", PeerWinReason(cfg, peer, "PeerHigherPriority",
                                                    "PeerNodeIdTiebreak"))
=============================================================================

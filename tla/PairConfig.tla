----------------------------- MODULE PairConfig -----------------------------
(***************************************************************************)
(* The pair that TLC checks: nodes a and b point at each other and have    *)
(* the same settings except their interval and their rank: a outranks b,   *)
(* by priority or, when priorities are equal, by node.id.                  *)
(***************************************************************************)
EXTENDS Naturals

CONSTANTS a, b, Preempt, EqualPriority, IntervalA, IntervalB, DeadFactor, HoldDown, Jitter

MCNode == {a, b}

MCPeer == [n \in MCNode |-> IF n = a THEN b ELSE a]

MCConfig ==
  [ n \in MCNode |->
    [ id |-> IF n = a THEN 2 ELSE 1,
      priority |-> IF n = a /\ ~EqualPriority THEN 150 ELSE 100,
      preempt |-> Preempt,
      interval |-> IF n = a THEN IntervalA ELSE IntervalB, deadFactor |-> DeadFactor,
      holdDown |-> HoldDown, jitter |-> Jitter, group |-> 0 ] ]
=============================================================================

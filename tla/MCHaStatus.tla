----------------------------- MODULE MCHaStatus -----------------------------
(***************************************************************************)
(* HaStatus on the pair of PairConfig and a third node c, which has the    *)
(* node.id of a and a for its peer.                                        *)
(***************************************************************************)
EXTENDS HaStatus, PairConfig

CONSTANTS c, IntervalC

StrayNode == MCNode \cup {c}

StrayPeer == [n \in StrayNode |-> IF n = c THEN a ELSE MCPeer[n]]

StrayConfig ==
  [ n \in StrayNode |->
    IF n = c THEN [MCConfig[a] EXCEPT !.interval = IntervalC, !.priority = 200]
    ELSE MCConfig[n] ]
=============================================================================

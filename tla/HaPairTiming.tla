---------------------------- MODULE HaPairTiming ----------------------------
(***************************************************************************)
(* HaPair with stop watches: what its timers promise, in ticks.  The stop  *)
(* watches are history: they follow the pair and constrain nothing.        *)
(***************************************************************************)
EXTENDS HaPair

CONSTANT Cap  \* bound: a stop watch stops here, above every bound below

ASSUME CapAssumption == Cap \in Nat

VARIABLES
  dualFor,      \* how long both nodes have been owners
  togetherFor,  \* how long both nodes have been running
  aloneFor,     \* how long n has been running and its peer not
  ownedFor      \* how long n has been an owner

timedVars == <<vars, dualFor, togetherFor, aloneFor, ownedFor>>

Measured(holds, count, ticks) ==
  IF ~holds THEN 0 ELSE IF count + ticks <= Cap THEN count + ticks ELSE Cap

Watch(ticks) ==
  /\ dualFor' = Measured(\A n \in Node : Owner(n)', dualFor, ticks)
  /\ togetherFor' = Measured(\A n \in Node : Running(n)', togetherFor, ticks)
  /\ aloneFor' = [n \in Node |->
        Measured(Running(n)' /\ ~Running(Peer[n])', aloneFor[n], ticks)]
  /\ ownedFor' = [n \in Node |-> Measured(Owner(n)', ownedFor[n], ticks)]

TimedInit ==
  /\ Init
  /\ dualFor = 0 /\ togetherFor = 0
  /\ aloneFor = [n \in Node |-> 0] /\ ownedFor = [n \in Node |-> 0]

TimedNext ==
  \/ Tick /\ Watch(1)
  \/ (Environment \/ \E n \in Node : Loop(n)) /\ Watch(0)

TimedSpec == TimedInit /\ [][TimedNext]_timedVars
-----------------------------------------------------------------------------
(* Properties.  The timers of the two nodes may differ: an advertisement     *)
(* says how often its sender sends, but each node waits for what its own     *)
(* settings say.                                                             *)

\* A node left alone is the owner no later than its window, one advertisement
\* interval (it looks at the clock when it wakes up to send) and the delay of
\* the peer's last packet after the peer stopped, reordered packets or not.
TakeoverIsBounded ==
  \A n \in Node : aloneFor[n] >= Window(Config[n]) + Round(n) => Owner(n)

\* Without loss, two owners at a time last no longer than one round of the one
\* that outranks: its first advertisement makes the other yield, whatever the
\* order of packets and although nobody consults the other's timers.
DualOwnershipIsBrief ==
  \A n \in Node : Outranks(Config[n], Config[Peer[n]]) => dualFor <= Round(n)

\* Without loss or reordering, two patient nodes that run for three rounds have
\* exactly one owner, from whatever state their starts and crashes found them in: they
\* neither wait for each other nor yield to each other for ever.
PairSettles == (\A n \in Node : togetherFor > 3 * Round(n)) => OneOwner

\* Without loss a node takes no running peer for dead: after the first round its
\* observation is always fresher than its window, if its own window is longer
\* than the peer's round.  The code does not check that it is.
NoFalseTimeout ==
  \A n \in Node : togetherFor > Round(Peer[n]) /\ Patient(n) => LivePeer(n)

\* README.md:514: with preempt: false, the current healthy active node keeps
\* the VIP even if a higher-priority node comes back.  A late Standby packet can
\* still make the peer promote, and a late claim of that peer make n yield; once
\* both must be over, an owner that stays up stays the only owner.
EstablishedOwnerKeeps ==
  [][ \A n \in Node :
        (ownedFor[n] > Round(n) + 2 * MaxDelay /\ Patient(Peer[n]) /\ Running(n)')
           => (Owner(n)' /\ ~Owner(Peer[n])') ]_timedVars

\* README.md:511: if both nodes are healthy, the higher priority wins.  Two
\* nodes that run together for three rounds are owned by the one that outranks.
HigherRankOwns ==
  (\A n \in Node : togetherFor > 3 * Round(n))
     => \A n \in Node : Owner(n) <=> Outranks(Config[n], Config[Peer[n]])
=============================================================================

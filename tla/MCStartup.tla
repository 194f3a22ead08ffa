------------------------------ MODULE MCStartup ------------------------------
(***************************************************************************)
(* Startup with bytes of base 4: ids of one and two bytes are within the    *)
(* limit, one of three is not; byte 0 is white space and byte 3 no text.    *)
(* One text is the address that parses.                                     *)
(***************************************************************************)
EXTENDS Startup

MCMagic == <<2, 1>>

\* A number made of the bytes of a text.
Weight(text) == MapThenSumSet(LAMBDA i : text[i] * Base^(Len(text) - i), DOMAIN text)

\* A digest that tells the keys and the packets below apart.
MCHash(fields) ==
  U16((Weight(fields[1]) + Weight(fields[2]) + Weight(fields[3]) + fields[4] + fields[5]
         + fields[6] + fields[7] + fields[8]) % Base2)

MCSocketAddr == {<<1>>}

Plain ==
  [ mode |-> "ha", nodeId |-> <<1>>, peer |-> <<1>>, key |-> Unset, bind |-> <<1>>,
    groupId |-> <<1>>, interface |-> <<1>>, addresses |-> <<<<1>>>>, hooks |-> {<<1>>},
    version |-> 1, priority |-> 1, deadFactor |-> 2,
    interval |-> 1, jitter |-> 0, hookTimeout |-> 1, authMode |-> "none",
    dataDir |-> <<1>>, members |-> <<<<1>>, <<2>>, <<1, 2>>>> ]

Keyed == [Plain EXCEPT !.authMode = "shared_key", !.key = <<1>>]

\* One setting at a time takes its other values.
Variants ==
  UNION
    { {c}
      \cup {[c EXCEPT !.version = n] : n \in {0, 2}}
      \cup {[c EXCEPT !.priority = n] : n \in {0, 3}}
      \cup {[c EXCEPT !.deadFactor = 1]}
      \cup {[c EXCEPT !.interval = n] : n \in {0, Base4 - 1, Base4}}
      \cup {[c EXCEPT !.jitter = 1], [c EXCEPT !.hookTimeout = 0]}
      \cup {[c EXCEPT !.nodeId = id] :
              id \in {Unset, <<0>>, <<2>>, <<0, 2>>, <<1, 2>>, <<1, 2, 0>>, <<1, 2, 1>>}}
      \cup {[c EXCEPT !.groupId = id] : id \in {<<>>, <<0>>, <<0, 1>>, <<1, 2, 1>>}}
      \cup {[c EXCEPT !.nodeId = id, !.groupId = id] : id \in {<<2, 2>>, <<1, 2, 1>>}}
      \cup {[c EXCEPT !.peer = text] : text \in {Unset, <<0>>, <<2>>, <<0, 1>>}}
      \cup {[c EXCEPT !.bind = text] : text \in {<<>>, <<2>>, <<0, 1>>}}
      \cup {[c EXCEPT !.interface = <<0>>], [c EXCEPT !.hooks = {<<0>>}]}
      \cup {[c EXCEPT !.addresses = list] : list \in {<<>>, <<<<1>>, <<0>>>>}}
      \cup {[c EXCEPT !.key = text] : text \in {Unset, <<0>>, <<1, 0>>, <<2>>}}
      \cup {[c EXCEPT !.mode = "kv"], [c EXCEPT !.mode = "kv", !.dataDir = <<>>],
            [c EXCEPT !.mode = "kv", !.members = <<<<1>>, <<2>>>>],
            [c EXCEPT !.mode = "kv", !.members[3] = <<0>>]}
      : c \in {Plain, Keyed} }

\* A file in one of the three places, the others empty; and a place that comes
\* first with a file of its own, or with one that cannot be read.
MCPlaces ==
  {[cli |-> c, env |-> NoFile, default |-> NoFile] : c \in Variants}
    \cup [cli : {NoFile, Unreadable}, env : {NoFile, Unreadable, Keyed},
          default : {NoFile, Unreadable, Plain}]

MCPeers ==
  {[c EXCEPT !.nodeId = id] : c \in {Plain, Keyed}, id \in {<<1>>, <<2>>}}
    \cup {[Keyed EXCEPT !.nodeId = <<2, 0>>, !.key = <<0, 2>>]}

MCSequence == {1, Base8 - 1}

\* The configurations a started node may have.
MCSender == {Runtime(c) : c \in {c \in Variants : c.mode = "ha" /\ ValidHa(c)}}
MCReceiver == {Runtime(c) : c \in MCPeers}

\* The hypotheses of the theorems about the digest.
ASSUME DigestAssumption == NoCollision /\ TagLen < MaxAuthTagLen
=============================================================================

---------------------------- MODULE StartupProofs ----------------------------
(***************************************************************************)
(* Startup for every base, limit and configuration: an accepted file       *)
(* converts and, once its socket is bound, advertises unless its peer is   *)
(* no address or it is too large for a packet; and the peer accepts what   *)
(* is advertised just when the two files agree.                            *)
(***************************************************************************)
EXTENDS Startup, HaWireProofs, WellFoundedInduction

-----------------------------------------------------------------------------
(* Trim *)

Less == {pair \in Nat \X Nat : pair[1] < pair[2]}

LEMMA LeastExists ==
  ASSUME NEW S, S \subseteq Nat, S # {}
  PROVE  \E x \in S : \A y \in S : x <= y
<1>1. IsWellFoundedOn(Less, Nat)
  BY NatLessThanWellFounded DEF OpToRel, Less
<1>2. \E x \in S : \A y \in S : ~ (<<y, x>> \in Less)
  BY <1>1, WFMin
<1>3. PICK x \in S : \A y \in S : ~ (<<y, x>> \in Less)
  BY <1>2
<1>4. ASSUME NEW y \in S PROVE x <= y
  <2>1. x \in Nat /\ y \in Nat /\ <<y, x>> \notin Less
    BY <1>3
  <2> QED
    BY <2>1 DEF Less
<1> QED
  BY <1>4

LEMMA MinOf ==
  ASSUME NEW S, S \subseteq Nat, S # {}
  PROVE  Min(S) \in S
  BY LeastExists DEF Min

LEMMA MaxOf ==
  ASSUME NEW n \in Nat, NEW S, S \subseteq 1..n, S # {}
  PROVE  Max(S) \in S /\ \A y \in S : Max(S) >= y
<1> DEFINE T == {n - x : x \in S}
<1>1. T \subseteq Nat /\ T # {}
  <2>1. \A x \in S : x \in 1..n /\ n - x \in Nat
    OBVIOUS
  <2> QED
    BY <2>1
<1>2. PICK t \in T : \A u \in T : t <= u
  BY <1>1, LeastExists
<1>3. PICK x \in S : t = n - x
  BY <1>2
<1>4. ASSUME NEW y \in S PROVE x >= y
  <2>1. n - y \in T /\ n - x <= n - y /\ x \in 1..n /\ y \in 1..n
    BY <1>2, <1>3
  <2> QED
    BY <2>1
<1> QED
  BY <1>4 DEF Max

\* What is left of a text that is not blank is a text with a byte that counts.
LEMMA Trimmed ==
  ASSUME NEW text \in Text, ~ Blank(text)
  PROVE  /\ Trim(text) \in Text
         /\ \E i \in DOMAIN Trim(text) : Trim(text)[i] \notin Whitespace
<1> DEFINE kept == {i \in DOMAIN text : text[i] \notin Whitespace}
<1>1. kept # {} /\ kept \subseteq 1..Len(text) /\ Len(text) \in Nat
  BY DEF Blank, Text
<1>2. Min(kept) \in kept /\ Max(kept) \in kept /\ Max(kept) >= Min(kept)
  <2> HIDE DEF kept
  <2>1. kept \subseteq Nat
    BY <1>1
  <2>2. Min(kept) \in kept
    BY <1>1, <2>1, MinOf
  <2>3. Max(kept) \in kept /\ \A i \in kept : Max(kept) >= i
    BY <1>1, MaxOf
  <2> QED
    BY <2>2, <2>3
<1>3. Trim(text) = SubSeq(text, Min(kept), Max(kept))
  BY <1>1 DEF Trim
<1> DEFINE m == Min(kept)  n == Max(kept)
<1>4. /\ m \in 1..Len(text) /\ n \in 1..Len(text) /\ n >= m /\ text[m] \notin Whitespace
  BY <1>1, <1>2
<1> HIDE DEF m, n, kept
<1>5. /\ SubSeq(text, m, n) \in Seq(Byte \ NotUtf8)
      /\ Len(SubSeq(text, m, n)) = n - m + 1 /\ SubSeq(text, m, n)[1] = text[m]
  <2> DEFINE S == Byte \ NotUtf8
  <2> HIDE DEF S
  <2>1. text \in Seq(S)
    BY DEF Text, S
  <2>2. /\ SubSeq(text, m, n) \in Seq(S)
        /\ Len(SubSeq(text, m, n)) = n - m + 1 /\ SubSeq(text, m, n)[1] = text[m]
    BY <1>4, <2>1
  <2> QED
    BY <2>2 DEF S
<1>6. 1 \in DOMAIN SubSeq(text, m, n)
  BY <1>4, <1>5
<1> QED
  BY <1>3, <1>4, <1>5, <1>6 DEF Text, m, n, kept

-----------------------------------------------------------------------------
(* What an accepted configuration is worth *)

LEMMA AcceptedConverts ==
  ASSUME NEW c, c.mode = "ha", ValidHa(c)
  PROVE  Convertible(c)
  BY DEF ValidHa, ValidTexts, ValidAuth, Convertible

LEMMA AcceptedTexts ==
  ASSUME NEW c \in Config, ValidHa(c)
  PROVE  /\ c.groupId \in Text /\ Trim(c.nodeId) \in Text
         /\ \E i \in DOMAIN c.groupId : c.groupId[i] \notin Whitespace
         /\ \E i \in DOMAIN Trim(c.nodeId) : Trim(c.nodeId)[i] \notin Whitespace
<1>1. c.groupId \in Text /\ ~ Blank(c.groupId)
  BY DEF Config, ValidHa, ValidTexts
<1>2. c.nodeId \in Text /\ ~ Blank(c.nodeId)
  BY DEF Config, ValidHa, ValidTexts, Given
<1>3. \E i \in DOMAIN c.groupId : c.groupId[i] \notin Whitespace
  BY <1>1 DEF Blank
<1> QED
  BY <1>1, <1>2, <1>3, Trimmed

LEMMA RuntimeSettings ==
  ASSUME NEW c \in Config
  PROVE  /\ Runtime(c).version = c.version /\ Runtime(c).interval = c.interval
         /\ Runtime(c).nodeId = Trim(c.nodeId) /\ Runtime(c).groupId = c.groupId
         /\ Runtime(c).key = IF c.authMode = "none" THEN NoKey ELSE Trim(c.key)
  BY DEF Runtime

\* Two accepted files make the same key exactly if both name none, or the same.
LEMMA RuntimeKeys ==
  ASSUME NEW c \in Config, ValidHa(c), NEW d \in Config, ValidHa(d)
  PROVE  Runtime(c).key = Runtime(d).key <=>
           /\ c.authMode = d.authMode
           /\ c.authMode = "shared_key" => Trim(c.key) = Trim(d.key)
<1>1. ASSUME NEW f \in Config, ValidHa(f)
      PROVE  /\ f.authMode = "none" => Runtime(f).key = NoKey
             /\ f.authMode # "none" => /\ f.authMode = "shared_key"
                                       /\ Runtime(f).key = Trim(f.key)
                                       /\ Trim(f.key) # NoKey
  <2>1. f.authMode \in {"none", "shared_key"} /\ f.key \in Text \cup {Unset}
    BY DEF Config
  <2>2. CASE f.authMode = "none"
    BY <2>2, RuntimeSettings
  <2>3. CASE f.authMode # "none"
    <3>1. f.key \in Text /\ ~ Blank(f.key)
      BY <1>1, <2>1, <2>3 DEF ValidHa, ValidAuth, Given
    <3>2. Trim(f.key) \in Text /\ NoKey \notin Text
      BY <3>1, Trimmed, WireAssumption
    <3>3. Runtime(f).key = Trim(f.key)
      BY <2>3, RuntimeSettings
    <3> QED
      BY <2>1, <2>3, <3>2, <3>3
  <2> QED
    BY <2>2, <2>3
<1> QED
  BY <1>1

\* No tag is longer than encode allows.
LEMMA TagFits ==
  ASSUME NEW c \in Sender, NEW state \in HaState \ {"Init"}, NEW sequence \in Sequence
  PROVE  Len(BuildPacket(c, state, sequence).authTag) <= MaxAuthTagLen
<1> DEFINE p == BuildPacket(c, state, sequence)
<1>1. TagLen \in Nat /\ TagLen <= MaxAuthTagLen /\ MaxAuthTagLen \in Nat
  BY WireAssumption, Bases
<1>2. p.authTag = AuthTag(c.key, p)
  BY PacketFields
<1>3. c.key # NoKey => Len(Digest(c.key, p)) = TagLen
  BY HashAssumption
<1> HIDE DEF p
<1>4. CASE c.key = NoKey
  <2>1. p.authTag = <<>> /\ Len(<<>>) = 0
    BY <1>2, <1>4 DEF AuthTag
  <2> QED
    BY <1>1, <2>1 DEF p
<1>5. CASE c.key # NoKey
  <2>1. Len(p.authTag) = TagLen
    BY <1>2, <1>3, <1>5 DEF AuthTag
  <2> QED
    BY <1>1, <2>1 DEF p
<1> QED
  BY <1>4, <1>5

\* validate leaves encode nothing to refuse but what is too large.
LEMMA OnlyTooLarge ==
  ASSUME NEW c \in Config, ValidHa(c), Runtime(c) \in Sender,
         NEW state \in HaState \ {"Init"}, NEW sequence \in Sequence,
         ~ Sendable(Runtime(c), state, sequence)
  PROVE  \/ Len(Trim(c.nodeId)) > MaxIdLen \/ Len(c.groupId) > MaxIdLen
         \/ ~ (c.interval < Base4)
<1> SUFFICES ASSUME c.interval < Base4
             PROVE  Len(Trim(c.nodeId)) > MaxIdLen \/ Len(c.groupId) > MaxIdLen
  OBVIOUS
<1> DEFINE p == BuildPacket(Runtime(c), state, sequence)
<1>1. ~ Encodable(p)
  BY RuntimeSettings DEF Sendable
<1>2. p.nodeId = Trim(c.nodeId) /\ p.groupId = c.groupId
  BY RuntimeSettings, PacketFields
<1>3. ~ ValidField(p.nodeId) \/ ~ ValidField(p.groupId)
  BY <1>1, TagFits DEF Encodable
<1>4. ~ (Len(Trim(c.nodeId)) <= MaxIdLen) \/ ~ (Len(c.groupId) <= MaxIdLen)
  BY <1>2, <1>3, AcceptedTexts DEF ValidField
<1>5. Len(Trim(c.nodeId)) \in Nat /\ Len(c.groupId) \in Nat /\ MaxIdLen \in Int
  BY AcceptedTexts, WireAssumption DEF Text
<1> QED
  BY <1>4, <1>5
-----------------------------------------------------------------------------
(* The invariant *)

\* A file that was loaded is accepted; the node that runs has been made of it; its
\* loop has not begun for its peer's address only, and has ended only for a packet it
\* could not send; and the datagram on its way is one that it could.
StartInv ==
  /\ places \in Places /\ theirs \in Peers /\ receiver = Runtime(theirs)
  /\ boot = "loaded" => File \in Config /\ Valid(File)
  /\ boot \in {"converted", "running"} =>
       File \in Config /\ File.mode = "ha" /\ ValidHa(File) /\ sender = Runtime(File)
  /\ boot = "peerless" => Trim(File.peer) \notin SocketAddr
  /\ boot # "unconvertible"
  /\ boot # "running" => phase = "sending"
  /\ phase = "fatal" =>
       \E state \in HaState \ {"Init"}, sequence \in Sequence :
         ~ Sendable(sender, state, sequence)
  /\ Flight

LEMMA FileType ==
  ASSUME places \in Places
  PROVE  File \in Config \cup {NoFile, Unreadable}
<1>1. places \in [{"cli", "env", "default"} -> Config \cup {NoFile, Unreadable}]
  BY StartAssumption
<1> QED
  BY <1>1 DEF File

\* The node that runs is one of the senders, and its peer one of the receivers.
LEMMA Running ==
  ASSUME StartInv
  PROVE  /\ boot = "running" => sender \in Sender
         /\ theirs \in Config /\ ValidHa(theirs) /\ receiver \in Receiver
<1>1. /\ places \in Places /\ theirs \in Peers /\ receiver = Runtime(theirs)
      /\ boot = "running" =>
           File \in Config /\ File.mode = "ha" /\ ValidHa(File) /\ sender = Runtime(File)
  BY DEF StartInv
<1>2. theirs \in Config /\ ValidHa(theirs) /\ receiver \in Receiver
  BY <1>1, StartAssumption
<1>3. /\ DOMAIN places = {"cli", "env", "default"}
      /\ \A place \in DOMAIN places :
           (places[place] \in Config /\ places[place].mode = "ha" /\ ValidHa(places[place]))
             => Runtime(places[place]) \in Sender
  BY <1>1, StartAssumption
<1>4. \E place \in DOMAIN places : File = places[place]
  BY <1>3 DEF File
<1> QED
  BY <1>1, <1>2, <1>3, <1>4

LEMMA InitStart == StartInit => StartInv
  BY DEF StartInit, StartInv, Flight

LEMMA AdvertiseKeeps == ASSUME StartInv, Advertise PROVE StartInv'
<1>1. /\ boot = "running" /\ UNCHANGED <<boot, places, theirs>> /\ Next /\ Flight
      /\ File' = File /\ Runtime(File)' = Runtime(File) /\ Runtime(theirs)' = Runtime(theirs)
  BY DEF Advertise, File, Runtime, StartInv
<1>2. Flight' /\ UNCHANGED <<sender, receiver>>
  BY <1>1, FlightStep
<1>3. phase' = "fatal" =>
        \E state \in HaState \ {"Init"}, sequence \in Sequence :
          ~ Sendable(sender, state, sequence)
  <2>1. ASSUME NEW state \in HaState \ {"Init"}, NEW sequence \in Sequence,
               Send(state, sequence)
        PROVE  <1>3!:
    <3>1. CASE Sendable(sender, state, sequence)
      BY <2>1, <3>1 DEF Send
    <3>2. CASE ~ Sendable(sender, state, sequence)
      BY <3>2
    <3> QED
      BY <3>1, <3>2
  <2>2. CASE Cut \/ Extend \/ Change \/ Arrive
    BY <2>2 DEF Cut, Extend, Change, Damage, Arrive
  <2> QED
    BY <1>1, <2>1, <2>2 DEF Next
<1> QED
  BY <1>1, <1>2, <1>3 DEF StartInv

LEMMA NextStart == StartInv /\ [StartNext]_startVars => StartInv'
<1> SUFFICES ASSUME StartInv, [StartNext]_startVars PROVE StartInv'
  OBVIOUS
<1>1. CASE Load
  <2>1. /\ UNCHANGED <<vars, places, theirs>> /\ File' = File /\ boot = "loading"
        /\ Runtime(theirs)' = Runtime(theirs)
        /\ boot' \in {"direct", "failed", "loaded"}
        /\ boot' = "loaded" => File \notin {NoFile, Unreadable} /\ Valid(File)
    BY <1>1 DEF Load, File, Runtime
  <2>2. boot' = "loaded" => File \in Config
    BY <2>1, FileType DEF StartInv
  <2>3. Flight'
    BY <2>1 DEF StartInv, vars, Flight, OnWire, Received
  <2> QED
    BY <2>1, <2>2, <2>3 DEF StartInv, vars
<1>2. CASE StartWithConfig
  <2>1. /\ UNCHANGED <<places, theirs, receiver, sent, wire, damage, phase, outcome>>
        /\ File' = File /\ Runtime(theirs)' = Runtime(theirs)
        /\ boot = "loaded" /\ File \in Config /\ Valid(File) /\ phase = "sending"
    BY <1>2 DEF StartWithConfig, File, Runtime, StartInv
  <2>2. Flight'
    BY <2>1 DEF StartInv, Flight
  <2>3. CASE File.mode = "kv"
    BY <1>2, <2>1, <2>2, <2>3 DEF StartWithConfig, StartInv
  <2>4. CASE File.mode # "kv"
    <3>1. File.mode = "ha"
      BY <2>1, <2>4 DEF Config
    <3>2. ValidHa(File)
      BY <2>1, <3>1 DEF Valid
    <3>3. Convertible(File)
      BY <3>1, <3>2, AcceptedConverts
    <3>4. boot' = "converted" /\ sender' = Runtime(File)
      BY <1>2, <2>4, <3>3 DEF StartWithConfig
    <3>5. Runtime(File)' = Runtime(File)
      BY <2>1 DEF Runtime
    <3> QED
      BY <2>1, <2>2, <3>1, <3>2, <3>4, <3>5 DEF StartInv
  <2> QED
    BY <2>3, <2>4
<1>3. CASE OpenSocket
  <2>1. /\ UNCHANGED <<vars, places, theirs>> /\ File' = File /\ boot = "converted"
        /\ Runtime(File)' = Runtime(File) /\ Runtime(theirs)' = Runtime(theirs)
        /\ boot' \in {"unbound", "peerless", "running"}
        /\ boot' = "peerless" => Trim(File.peer) \notin SocketAddr
    BY <1>3 DEF OpenSocket, File, Runtime
  <2>2. /\ phase = "sending"
        /\ File \in Config /\ File.mode = "ha" /\ ValidHa(File) /\ sender = Runtime(File)
    BY <2>1 DEF StartInv
  <2>3. Flight'
    BY <2>1, <2>2 DEF StartInv, vars, Flight
  <2>4. Trim(File.peer)' = Trim(File.peer)
    BY <2>1 DEF Trim
  <2> QED
    BY <2>1, <2>2, <2>3, <2>4 DEF StartInv, vars
<1>4. CASE UNCHANGED startVars
  <2>1. Flight'
    BY <1>4 DEF startVars, vars, StartInv, Flight, OnWire, Received
  <2> QED
    BY <1>4, <2>1 DEF startVars, vars, StartInv, File, Runtime, Trim
<1> QED
  BY <1>1, <1>2, <1>3, <1>4, AdvertiseKeeps DEF StartNext

LEMMA StartIsInductive == StartSpec => []StartInv
  BY InitStart, NextStart, PTL DEF StartSpec

\* No configuration that Config::validate accepts fails in HaRuntimeConfig::try_from.
THEOREM AcceptedConfigsConvert == StartSpec => []AcceptedConfigConverts
<1>1. StartInv => AcceptedConfigConverts
  BY DEF StartInv, AcceptedConfigConverts
<1> QED
  BY <1>1, StartIsInductive, PTL

\* Of what validate accepts, a bound node comes to its first advertisement and sends
\* it, but for a peer that is no address and for the size of an id or the interval.
THEOREM AcceptedConfigsAdvertise == StartSpec => []AdvertisesOnceBound
<1>1. StartInv => AdvertisesOnceBound
  <2> SUFFICES ASSUME StartInv, phase = "fatal"
               PROVE  \/ Len(Trim(File.nodeId)) > MaxIdLen
                      \/ Len(File.groupId) > MaxIdLen \/ ~ (File.interval < Base4)
    BY DEF AdvertisesOnceBound, StartInv
  <2>1. boot = "running" /\ File \in Config /\ ValidHa(File) /\ sender = Runtime(File)
    BY DEF StartInv
  <2>2. sender \in Sender
    BY <2>1, Running
  <2>3. PICK state \in HaState \ {"Init"}, sequence \in Sequence :
          ~ Sendable(sender, state, sequence)
    BY DEF StartInv
  <2> QED
    BY <2>1, <2>2, <2>3, OnlyTooLarge
<1> QED
  BY <1>1, StartIsInductive, PTL

\* A datagram is under way only from a node that runs.
LEMMA Underway ==
  ASSUME StartInv, phase # "sending"
  PROVE  /\ boot = "running" /\ Flight /\ sender \in Sender /\ receiver \in Receiver
         /\ File \in Config /\ ValidHa(File) /\ sender = Runtime(File)
  BY Running DEF StartInv

\* No advertisement of a node that was started from a file is cut by recv_from.
THEOREM StartedEncodingFits == StartSpec => []FitsBuffer
<1>1. StartInv => FitsBuffer
  BY Underway, FlightFits DEF FitsBuffer
<1> QED
  BY <1>1, StartIsInductive, PTL

\* The theorems about the datagram hold for a node that was started from a file.
THEOREM StartedPacketsRoundTrip ==
  ASSUME TagLen < MaxAuthTagLen
  PROVE  StartSpec => [](RoundTrip /\ DecodesOnlyEncodings)
<1>1. StartInv => RoundTrip /\ DecodesOnlyEncodings
  <2>1. CASE phase = "sending"
    BY <2>1 DEF RoundTrip, DecodesOnlyEncodings
  <2>2. CASE phase # "sending"
    BY <2>2, Underway, FlightRoundTrip, FlightDecodes
  <2> QED
    BY <2>1, <2>2
<1> QED
  BY <1>1, StartIsInductive, PTL

LEMMA StartedAgreement ==
  ASSUME TagLen < MaxAuthTagLen, NoCollision, StartInv
  PROVE  AgreementDecides
<1>1. CASE phase = "sending"
  BY <1>1 DEF AgreementDecides
<1>2. CASE phase # "sending"
  BY <1>2, Underway, FlightAgreement
<1> QED
  BY <1>1, <1>2

\* Of what the two started nodes are, it is version, group, key and id that decide.
THEOREM StartedAgreementSuffices ==
  ASSUME TagLen < MaxAuthTagLen, NoCollision
  PROVE  StartSpec => []AgreementDecides
<1>1. StartInv => AgreementDecides
  BY StartedAgreement
<1> QED
  BY <1>1, StartIsInductive, PTL

\* The files of two nodes decide whether they hear each other: nothing that happens
\* between the file and the check on arrival does, and no setting that is not named.
THEOREM FilesSuffice ==
  ASSUME TagLen < MaxAuthTagLen, NoCollision
  PROVE  StartSpec => []FilesDecide
<1>1. StartInv => FilesDecide
  <2> SUFFICES ASSUME StartInv, phase = "arrived", damage = "none"
               PROVE  Accepted(receiver, outcome) <=>
                        /\ File.version = theirs.version
                        /\ File.groupId = theirs.groupId
                        /\ File.authMode = theirs.authMode
                        /\ File.authMode = "shared_key" => Trim(File.key) = Trim(theirs.key)
                        /\ Trim(File.nodeId) # Trim(theirs.nodeId)
    BY DEF FilesDecide
  <2>1. /\ File \in Config /\ ValidHa(File) /\ sender = Runtime(File)
        /\ theirs \in Config /\ ValidHa(theirs) /\ receiver = Runtime(theirs)
    BY Underway, Running DEF StartInv
  <2>2. Accepted(receiver, outcome) <=>
          /\ sender.version = receiver.version /\ sender.groupId = receiver.groupId
          /\ sender.key = receiver.key /\ sender.nodeId # receiver.nodeId
    BY StartedAgreement DEF AgreementDecides
  <2>3. sender.key = receiver.key <=>
          /\ File.authMode = theirs.authMode
          /\ File.authMode = "shared_key" => Trim(File.key) = Trim(theirs.key)
    BY <2>1, RuntimeKeys
  <2> QED
    BY <2>1, <2>2, <2>3, RuntimeSettings
<1> QED
  BY <1>1, StartIsInductive, PTL
=============================================================================

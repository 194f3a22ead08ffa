------------------------------- MODULE HaWire -------------------------------
(***************************************************************************)
(* One advertisement on its way: build_packet and HaPacket::encode at the  *)
(* sender, the datagram, HaPacket::decode and the checks of                *)
(* handle_incoming_packet at the receiver (src/gruezi/ha.rs).              *)
(*                                                                         *)
(* A byte is a digit of Base, 256 in the code: a u16 is a number below the *)
(* square of Base, a u32 and a u64 are numbers below the fourth and the    *)
(* eighth power.  The text of an id is its sequence of bytes.              *)
(***************************************************************************)
EXTENDS Naturals, Sequences

CONSTANTS
  Base, Magic, MaxIdLen, MaxAuthTagLen,
  BufferSize,   \* of the receive buffer: recv_from cuts a longer datagram
  Whitespace,   \* the bytes that trim drops
  NotUtf8,      \* the bytes that no text contains
  Hash(_),      \* DefaultHasher: the bytes of the digest of a tuple of fields
  TagLen,       \* the length of a digest
  NoKey,        \* HaAuth::None
  Malformed,    \* the result of decode when it fails
  Sender, Receiver,  \* the configurations of either side
  Sequence      \* the sequence numbers that are sent

Byte == 0..(Base - 1)
Base2 == Base * Base
Base4 == Base2 * Base2
Base8 == Base4 * Base4

\* A String: sequences of bytes that are no UTF-8 do not occur in the code.
Text == Seq(Byte \ NotUtf8)

HaState == {"Init", "Standby", "Active"}

\* The settings of HaRuntimeConfig that a packet carries or is checked against.
\* validate_ha limits neither the interval nor the ids to what a packet holds.
PacketSettings ==
  [ version : Byte, priority : Byte, deadFactor : Byte, interval : Nat,
    nodeId : Text, groupId : Text, key : Text \cup {NoKey} ]

HaPacket ==
  [ version : Byte, state : HaState, priority : Byte, deadFactor : Byte,
    interval : 0..(Base4 - 1), sequence : 0..(Base8 - 1),
    nodeId : Text, groupId : Text, authTag : Seq(Byte) ]

ASSUME WireAssumption ==
  /\ Base \in Nat /\ Base > 3
  /\ MaxIdLen \in 1..(Base - 1)
  /\ MaxAuthTagLen \in 0..(Base2 - 1) /\ TagLen \in 1..MaxAuthTagLen
  /\ Magic \in Seq(Byte)
  /\ BufferSize \in Nat
  /\ NotUtf8 \subseteq Byte
  /\ Sender \cup Receiver \subseteq PacketSettings
  /\ Sequence \subseteq 0..(Base8 - 1)
  /\ Malformed \notin HaPacket /\ NoKey \notin Text
  /\ Len(Magic) + 20 + 2 * MaxIdLen + MaxAuthTagLen <= BufferSize

-----------------------------------------------------------------------------
(* Bytes and numbers *)

\* to_be_bytes.
U16(x) == <<x \div Base, x % Base>>
U32(x) == U16(x \div Base2) \o U16(x % Base2)
U64(x) == U32(x \div Base4) \o U32(x % Base4)

\* Mutant of ReadU16: the last byte first.
ReadU16LittleEndian(b, at) == b[at + 1] * Base + b[at]

\* from_be_bytes of the bytes of b from `at` on.
ReadU16(b, at) == b[at] * Base + b[at + 1]

ReadU32(b, at) == ReadU16(b, at) * Base2 + ReadU16(b, at + 2)
ReadU64(b, at) == ReadU32(b, at) * Base4 + ReadU32(b, at + 4)

StateByte(state) ==
  CASE state = "Init" -> 0 [] state = "Standby" -> 1 [] state = "Active" -> 2

\* HaState::try_from of a byte that is a state.
StateOf(byte) ==
  CASE byte = 0 -> "Init" [] byte = 1 -> "Standby" [] byte = 2 -> "Active"

\* Mutant of ValidField: one byte more.
ValidFieldLong(text) ==
  /\ \E i \in DOMAIN text : text[i] \notin Whitespace
  /\ Len(text) <= MaxIdLen + 1

\* validate_packet_field: a field of white space counts as empty.
ValidField(text) ==
  /\ \E i \in DOMAIN text : text[i] \notin Whitespace
  /\ Len(text) <= MaxIdLen

\* String::from_utf8, by the bytes that no UTF-8 text has.
IsText(bytes) == \A i \in DOMAIN bytes : bytes[i] \notin NotUtf8

-----------------------------------------------------------------------------
(* HaPacket::encode *)

Encodable(p) ==
  /\ ValidField(p.nodeId) /\ ValidField(p.groupId)
  /\ Len(p.authTag) <= MaxAuthTagLen

Encode(p) ==
  Magic \o <<p.version, StateByte(p.state), p.priority, p.deadFactor>>
        \o U32(p.interval) \o U64(p.sequence)
        \o <<Len(p.nodeId)>> \o p.nodeId
        \o <<Len(p.groupId)>> \o p.groupId
        \o U16(Len(p.authTag)) \o p.authTag

-----------------------------------------------------------------------------
(* HaPacket::decode *)

\* Where the length of each variable field stands, and where the packet ends.
NodeIdLenAt == Len(Magic) + 17
GroupIdLenAt(b) == NodeIdLenAt + b[NodeIdLenAt] + 1
AuthTagLenAt(b) == GroupIdLenAt(b) + b[GroupIdLenAt(b)] + 1
AuthTagAt(b) == AuthTagLenAt(b) + 2
EndOf(b) == AuthTagAt(b) + ReadU16(b, AuthTagLenAt(b)) - 1

\* Mutant of Framed: trailing bytes are ignored.
FramedLoosely(b) ==
  /\ NodeIdLenAt <= Len(b)
  /\ SubSeq(b, 1, Len(Magic)) = Magic
  /\ GroupIdLenAt(b) <= Len(b)
  /\ AuthTagLenAt(b) < Len(b)
  /\ EndOf(b) <= Len(b)

\* Every read of the cursor finds its bytes, and the last one the end.
Framed(b) ==
  /\ NodeIdLenAt <= Len(b)
  /\ SubSeq(b, 1, Len(Magic)) = Magic
  /\ GroupIdLenAt(b) <= Len(b)
  /\ AuthTagLenAt(b) < Len(b)
  /\ EndOf(b) = Len(b)

Fields(b) ==
  LET at(n) == Len(Magic) + n
  IN  [ version |-> b[at(1)],
        state |-> StateOf(b[at(2)]),
        priority |-> b[at(3)],
        deadFactor |-> b[at(4)],
        interval |-> ReadU32(b, at(5)),
        sequence |-> ReadU64(b, at(9)),
        nodeId |-> SubSeq(b, NodeIdLenAt + 1, GroupIdLenAt(b) - 1),
        groupId |-> SubSeq(b, GroupIdLenAt(b) + 1, AuthTagLenAt(b) - 1),
        authTag |-> SubSeq(b, AuthTagAt(b), EndOf(b)) ]

Decode(b) ==
  IF /\ Framed(b)
     /\ b[Len(Magic) + 2] <= 2
     /\ IsText(Fields(b).nodeId) /\ IsText(Fields(b).groupId)
     /\ Encodable(Fields(b))
  THEN Fields(b) ELSE Malformed

-----------------------------------------------------------------------------
(* build_packet, and the checks on arrival *)

\* auth_tag: the digest covers every field but the version and the tag itself.
Digest(key, p) ==
  Hash(<<key, p.groupId, p.nodeId, p.priority, p.deadFactor, p.interval,
         StateByte(p.state), p.sequence>>)

AuthTag(key, p) == IF key = NoKey THEN <<>> ELSE Digest(key, p)

\* Mutant of BuildPacket: the tag is computed over the sequence before.
BuildPacketEarlyTag(c, state, sequence) ==
  LET untagged == [ version |-> c.version, state |-> state, priority |-> c.priority,
                    deadFactor |-> c.deadFactor, interval |-> c.interval,
                    sequence |-> sequence, nodeId |-> c.nodeId,
                    groupId |-> c.groupId, authTag |-> <<>> ]
  IN  [untagged EXCEPT !.authTag = AuthTag(c.key, [untagged EXCEPT !.sequence = @ + 1])]

BuildPacket(c, state, sequence) ==
  LET untagged == [ version |-> c.version, state |-> state, priority |-> c.priority,
                    deadFactor |-> c.deadFactor, interval |-> c.interval,
                    sequence |-> sequence, nodeId |-> c.nodeId,
                    groupId |-> c.groupId, authTag |-> <<>> ]
  IN  [untagged EXCEPT !.authTag = AuthTag(c.key, untagged)]

\* build_packet and encode return no error.
Sendable(c, state, sequence) ==
  c.interval < Base4 /\ Encodable(BuildPacket(c, state, sequence))

ASSUME HashAssumption ==
  \A c \in Sender, d \in Sender \cup Receiver,
     state \in HaState \ {"Init"}, sequence \in Sequence :
    d.key # NoKey =>
      LET tag == Digest(d.key, BuildPacket(c, state, sequence))
      IN  tag \in Seq(Byte) /\ Len(tag) = TagLen

\* No two keys in use make the same digest of a packet that is sent: not so for
\* every pair of keys, since a digest has 64 bits.
NoCollision ==
  \A c \in Sender, d \in Receiver, state \in HaState \ {"Init"}, sequence \in Sequence :
    c.key # d.key /\ NoKey \notin {c.key, d.key} =>
      LET p == BuildPacket(c, state, sequence)
      IN  Digest(d.key, p) # Digest(c.key, p)

Accepted(c, p) ==
  /\ p # Malformed
  /\ p.version = c.version
  /\ p.groupId = c.groupId
  /\ p.nodeId # c.nodeId
  /\ AuthTag(c.key, p) = p.authTag

-----------------------------------------------------------------------------
VARIABLES
  sender, receiver,
  sent,     \* the packet build_packet has made, or Malformed: none yet
  wire,     \* the datagram
  damage,   \* what has happened to it: "none", "cut", "extended", "changed"
  phase,    \* "sending", "fatal", "flying", "arrived"
  outcome   \* what decode has returned

vars == <<sender, receiver, sent, wire, damage, phase, outcome>>

Init ==
  /\ sender \in Sender /\ receiver \in Receiver
  /\ sent = Malformed /\ wire = <<>> /\ damage = "none"
  /\ phase = "sending" /\ outcome = Malformed

\* send_advertisement: a packet that cannot be encoded is an error that is not
\* transient, and ends the loop.
Send(state, sequence) ==
  /\ phase = "sending"
  /\ IF Sendable(sender, state, sequence)
     THEN /\ sent' = BuildPacket(sender, state, sequence)
          /\ wire' = Encode(sent')
          /\ phase' = "flying"
     ELSE phase' = "fatal" /\ UNCHANGED <<sent, wire>>
  /\ UNCHANGED <<sender, receiver, damage, outcome>>

Damage(kind, bytes) ==
  /\ phase = "flying" /\ damage = "none"
  /\ damage' = kind /\ wire' = bytes
  /\ UNCHANGED <<sender, receiver, sent, phase, outcome>>

\* A datagram that is not the one that was sent.
Cut == \E n \in 0..(Len(wire) - 1) : Damage("cut", SubSeq(wire, 1, n))
Extend == \E byte \in Byte : Damage("extended", Append(wire, byte))
Change == \E i \in DOMAIN wire : \E byte \in Byte \ {wire[i]} :
            Damage("changed", [wire EXCEPT ![i] = byte])

Arrive ==
  /\ phase = "flying" /\ phase' = "arrived"
  /\ outcome' = Decode(SubSeq(wire, 1, IF Len(wire) <= BufferSize THEN Len(wire)
                                       ELSE BufferSize))
  /\ UNCHANGED <<sender, receiver, sent, wire, damage>>

Next ==
  \/ \E state \in HaState \ {"Init"}, sequence \in Sequence : Send(state, sequence)
  \/ Cut \/ Extend \/ Change \/ Arrive

Spec == Init /\ [][Next]_vars
-----------------------------------------------------------------------------
(* Properties *)

\* An undamaged datagram arrives as the packet that was sent, for the extreme
\* values of every field; one that was cut or extended is refused as a whole, and
\* one with a changed byte is not taken for the original.
RoundTrip ==
  phase = "arrived" =>
    CASE damage = "none" -> outcome = sent
      [] damage \in {"cut", "extended"} -> outcome = Malformed
      [] OTHER -> outcome # sent

\* decode is strict: what it accepts is exactly what encode makes of the
\* result, so no two datagrams mean the same packet.
DecodesOnlyEncodings ==
  (phase = "arrived" /\ outcome # Malformed) => (Encodable(outcome) /\ Encode(outcome) = wire)

\* An undamaged advertisement is accepted exactly when both nodes agree on the
\* version, the group and the key and have different ids: the condition that
\* HaPair calls Accepts.
AgreementDecides ==
  (phase = "arrived" /\ damage = "none") =>
    ( Accepted(receiver, outcome) <=>
        /\ sender.version = receiver.version
        /\ sender.groupId = receiver.groupId
        /\ sender.key = receiver.key
        /\ sender.nodeId # receiver.nodeId )

\* No datagram that encode makes is longer than the receive buffer, whatever ids
\* the configuration has: the limits of encode keep recv_from from cutting it.
FitsBuffer == (phase = "flying" /\ damage = "none") => Len(wire) <= BufferSize
=============================================================================

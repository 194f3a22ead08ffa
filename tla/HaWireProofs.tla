---------------------------- MODULE HaWireProofs ----------------------------
(***************************************************************************)
(* The wire format for every base, magic, limit, configuration and digest: *)
(* numbers and bytes, where encode puts each field, what decode reads, and *)
(* with them what becomes of a datagram that is damaged on its way.        *)
(***************************************************************************)
EXTENDS HaWire, TLAPS

-----------------------------------------------------------------------------
(* Numbers and their digits *)

\* Quotient and remainder.
LEMMA DivMod ==
  ASSUME NEW m \in Nat, 0 < m, NEW x \in Nat
  PROVE  /\ x \div m \in Nat /\ x % m \in 0..(m - 1)
         /\ x = (x \div m) * m + (x % m)
  OBVIOUS

\* A positive multiple of a number is at least the number.
LEMMA Multiple ==
  ASSUME NEW m \in Nat, NEW k \in Nat, 0 < k
  PROVE  m <= k * m /\ k * m \in Nat
  OBVIOUS

\* A number has one quotient and one remainder.
LEMMA Unique ==
  ASSUME NEW m \in Nat, 0 < m, NEW h \in Nat, NEW k \in Nat, NEW l \in 0..(m - 1), NEW r \in 0..(m-1),
         h * m + l = k * m + r
  PROVE  h = k /\ l = r
<1>1. ASSUME h < k PROVE FALSE
  <2>1. k - h \in Nat /\ 0 < k - h
    BY <1>1
  <2>2. m <= (k - h) * m
    BY <2>1, Multiple
  <2>3. (k - h) * m = k * m - h * m
    OBVIOUS
  <2> QED BY <2>2, <2>3
<1>2. ASSUME k < h PROVE FALSE
  <2>1. h - k \in Nat /\ 0 < h - k
    BY <1>2
  <2>2. m <= (h - k) * m
    BY <2>1, Multiple
  <2>3. (h - k) * m = h * m - k * m
    OBVIOUS
  <2> QED BY <2>2, <2>3
<1>3. h = k
  BY <1>1, <1>2
<1> QED BY <1>3

\* The quotient and the remainder of a number made of the two.
LEMMA Compose ==
  ASSUME NEW m \in Nat, 0 < m, NEW h \in Nat, NEW l \in 0..(m - 1)
  PROVE  /\ h * m + l \in Nat
         /\ (h * m + l) \div m = h /\ (h * m + l) % m = l
<1>1. h * m + l \in Nat
  OBVIOUS
<1>2. DEFINE x == h * m + l
<1>3. /\ x \div m \in Nat /\ x % m \in 0..(m - 1)
      /\ x = (x \div m) * m + (x % m)
  BY <1>1, DivMod
<1> HIDE DEF x
<1>4. x = h * m + l
  BY DEF x
<1>5. x \div m = h /\ x % m = l
  BY <1>3, <1>4, Unique
<1> QED BY <1>1, <1>5 DEF x

\* A number is below a multiple of m exactly if its quotient is below the factor.
LEMMA Below ==
  ASSUME NEW m \in Nat, 0 < m, NEW h \in Nat, NEW l \in 0..(m - 1), NEW n \in Nat
  PROVE  h * m + l < n * m <=> h < n
<1>1. ASSUME h < n PROVE h * m + l < n * m
  <2>1. m <= (n - h) * m
    BY <1>1, Multiple
  <2>2. (n - h) * m = n * m - h * m
    OBVIOUS
  <2> QED BY <2>1, <2>2
<1>2. ASSUME ~ (h < n) PROVE ~ (h * m + l < n * m)
  <2>1. CASE h = n
    BY <2>1
  <2>2. CASE h # n
    <3>1. m <= (h - n) * m
      BY <1>2, <2>2, Multiple
    <3>2. (h - n) * m = h * m - n * m
      OBVIOUS
    <3> QED BY <3>1, <3>2
  <2> QED BY <2>1, <2>2
<1> QED BY <1>1, <1>2

\* The bases are positive numbers, each the square of the one before.
LEMMA Bases ==
  /\ Base \in Nat /\ 3 < Base /\ Base2 \in Nat /\ 0 < Base2 /\ Base4 \in Nat /\ 0 < Base4
  /\ Base2 = Base * Base /\ Base4 = Base2 * Base2 /\ Base8 = Base4 * Base4
<1>1. Base \in Nat /\ 3 < Base
  BY WireAssumption
<1>2. Base2 \in Nat /\ Base <= Base2
  BY <1>1, Multiple DEF Base2
<1>3. Base4 \in Nat /\ Base2 <= Base4
  BY <1>1, <1>2, Multiple DEF Base4
<1> QED
  BY <1>1, <1>2, <1>3 DEF Base2, Base4, Base8

\* The halves of a number below the square of m, and the number of two halves.
LEMMA Halves ==
  ASSUME NEW m \in Nat, 0 < m, NEW x \in 0..(m * m - 1)
  PROVE  /\ x \div m \in 0..(m - 1) /\ x % m \in 0..(m - 1)
         /\ (x \div m) * m + (x % m) = x
<1>0. m * m \in Nat
  OBVIOUS
<1>1. /\ x \div m \in Nat /\ x % m \in 0..(m - 1) /\ x = (x \div m) * m + (x % m)
  BY <1>0, DivMod
<1>2. x < m * m
  BY <1>0
<1>3. x \div m < m
  BY <1>1, <1>2, Below
<1> QED
  BY <1>1, <1>3

\* Two halves below m make a number below the square of m.
LEMMA Whole ==
  ASSUME NEW m \in Nat, 0 < m, NEW h \in 0..(m - 1), NEW l \in 0..(m - 1)
  PROVE  /\ h * m + l \in 0..(m * m - 1)
         /\ (h * m + l) \div m = h /\ (h * m + l) % m = l
<1>1. h \in Nat /\ h < m /\ m * m \in Nat
  OBVIOUS
<1>2. /\ h * m + l \in Nat /\ (h * m + l) \div m = h /\ (h * m + l) % m = l
  BY <1>1, Compose
<1>3. h * m + l < m * m
  BY <1>1, Below
<1> QED
  BY <1>1, <1>2, <1>3

\* s stands in b, from `at` on.
Holds(b, at, s) == \A i \in 1..Len(s) : b[at + i - 1] = s[i]

\* A sequence stands in b exactly if its parts do, the second after the first.
LEMMA HoldsBoth ==
  ASSUME NEW S, NEW s \in Seq(S), NEW t \in Seq(S), NEW b, NEW at \in Nat
  PROVE  Holds(b, at, s \o t) <=> Holds(b, at, s) /\ Holds(b, at + Len(s), t)
<1>1. /\ Len(s) \in Nat /\ Len(t) \in Nat /\ Len(s \o t) = Len(s) + Len(t)
      /\ \A i \in 1..Len(s) : (s \o t)[i] = s[i]
      /\ \A i \in 1..Len(t) : (s \o t)[Len(s) + i] = t[i]
  OBVIOUS
<1> DEFINE u == s \o t
<1> HIDE DEF u
<1>2. ASSUME Holds(b, at, u) PROVE Holds(b, at, s) /\ Holds(b, at + Len(s), t)
  <2>1. ASSUME NEW i \in 1..Len(s) PROVE b[at + i - 1] = s[i]
    BY <1>1, <1>2 DEF Holds, u
  <2>2. ASSUME NEW i \in 1..Len(t) PROVE b[(at + Len(s)) + i - 1] = t[i]
    <3>1. Len(s) + i \in 1..Len(u) /\ at + (Len(s) + i) - 1 = (at + Len(s)) + i - 1
      BY <1>1 DEF u
    <3>2. b[at + (Len(s) + i) - 1] = u[Len(s) + i]
      BY <1>2, <3>1 DEF Holds
    <3> QED
      BY <1>1, <3>1, <3>2 DEF u
  <2> QED
    BY <2>1, <2>2 DEF Holds
<1>3. ASSUME Holds(b, at, s), Holds(b, at + Len(s), t) PROVE Holds(b, at, u)
  <2> SUFFICES ASSUME NEW i \in 1..Len(u) PROVE b[at + i - 1] = u[i]
    BY DEF Holds
  <2>1. CASE i <= Len(s)
    <3>1. i \in 1..Len(s)
      BY <1>1, <2>1 DEF u
    <3> QED
      BY <1>1, <1>3, <3>1 DEF Holds, u
  <2>2. CASE ~ (i <= Len(s))
    <3>1. i - Len(s) \in 1..Len(t) /\ (at + Len(s)) + (i - Len(s)) - 1 = at + i - 1
          /\ Len(s) + (i - Len(s)) = i
      BY <1>1, <2>2 DEF u
    <3>2. b[(at + Len(s)) + (i - Len(s)) - 1] = t[i - Len(s)]
      BY <1>3, <3>1 DEF Holds
    <3> QED
      BY <1>1, <3>1, <3>2 DEF u
  <2> QED
    BY <2>1, <2>2
<1> QED
  BY <1>2, <1>3 DEF u

\* Two sequences of bytes make one.
LEMMA Joined ==
  ASSUME NEW s \in Seq(Byte), NEW t \in Seq(Byte)
  PROVE  s \o t \in Seq(Byte) /\ Len(s \o t) = Len(s) + Len(t)
  OBVIOUS

\* n bytes.
Bytes(s, n) == s \in Seq(Byte) /\ Len(s) = n

\* The parts of a sequence at the start of b, the second part after the first.
LEMMA HoldsNext ==
  ASSUME NEW m \in Nat, NEW n \in Nat, NEW s, NEW t, Bytes(s, m), Bytes(t, n), NEW b
  PROVE  /\ Bytes(s \o t, m + n)
         /\ Holds(b, 1, s \o t) <=> Holds(b, 1, s) /\ Holds(b, 1 + m, t)
<1>1. s \in Seq(Byte) /\ t \in Seq(Byte) /\ Len(s) = m /\ Len(t) = n
  BY DEF Bytes
<1>2. s \o t \in Seq(Byte) /\ Len(s \o t) = Len(s) + Len(t)
  BY <1>1, Joined
<1>3. Holds(b, 1, s \o t) <=> Holds(b, 1, s) /\ Holds(b, 1 + Len(s), t)
  BY <1>1, HoldsBoth
<1> QED
  BY <1>1, <1>2, <1>3 DEF Bytes

\* Two bytes are a number, and a number is two bytes.
LEMMA Write16 ==
  ASSUME NEW x \in 0..(Base2 - 1)
  PROVE  U16(x) \in Seq(Byte) /\ Len(U16(x)) = 2
  BY Bases, Halves DEF U16, Byte

\* Reading what was written gives the number back.
LEMMA Read16 ==
  ASSUME NEW x \in 0..(Base2 - 1), NEW b, NEW at \in Nat, Holds(b, at, U16(x))
  PROVE  ReadU16(b, at) = x
<1>1. U16(x)[1] = x \div Base /\ U16(x)[2] = x % Base /\ Len(U16(x)) = 2
  BY DEF U16
<1>2. b[at + 1 - 1] = U16(x)[1] /\ b[at + 2 - 1] = U16(x)[2]
  BY <1>1 DEF Holds
<1>3. at + 1 - 1 = at /\ at + 2 - 1 = at + 1
  OBVIOUS
<1>4. ReadU16(b, at) = (x \div Base) * Base + (x % Base)
  BY <1>1, <1>2, <1>3 DEF ReadU16
<1> QED
  BY <1>4, Bases, Halves

\* Writing what was read gives the bytes back.
LEMMA Bytes16 ==
  ASSUME NEW b, NEW at \in Nat, b[at] \in Byte, b[at + 1] \in Byte
  PROVE  ReadU16(b, at) \in 0..(Base2 - 1) /\ Holds(b, at, U16(ReadU16(b, at)))
<1> DEFINE h == b[at]  l == b[at + 1]
<1>1. h \in 0..(Base - 1) /\ l \in 0..(Base - 1)
  BY DEF Byte
<1>2. ReadU16(b, at) = h * Base + l
  BY DEF ReadU16
<1> HIDE DEF h, l
<1>3. /\ h * Base + l \in 0..(Base * Base - 1)
      /\ (h * Base + l) \div Base = h /\ (h * Base + l) % Base = l
  BY <1>1, Bases, Whole
<1>4. ReadU16(b, at) \in 0..(Base2 - 1)
  BY <1>2, <1>3 DEF Base2
<1>5. U16(ReadU16(b, at)) = <<h, l>>
  BY <1>2, <1>3 DEF U16
<1>6. at + 1 - 1 = at /\ at + 2 - 1 = at + 1
  OBVIOUS
<1>7. Holds(b, at, <<h, l>>)
  <2>1. b[at + 1 - 1] = <<h, l>>[1] /\ b[at + 2 - 1] = <<h, l>>[2]
    BY <1>6 DEF h, l
  <2>2. Len(<<h, l>>) = 2 /\ 1..2 = {1, 2}
    OBVIOUS
  <2> QED
    BY <2>1, <2>2 DEF Holds
<1> QED
  BY <1>4, <1>5, <1>7

\* Twice as many bytes, by their halves.
LEMMA Write32 ==
  ASSUME NEW x \in 0..(Base4 - 1)
  PROVE  U32(x) \in Seq(Byte) /\ Len(U32(x)) = 4
<1> DEFINE h == x \div Base2  l == x % Base2
<1>1. h \in 0..(Base2 - 1) /\ l \in 0..(Base2 - 1)
  BY Bases, Halves
<1>2. U32(x) = U16(h) \o U16(l)
  BY DEF U32
<1> HIDE DEF h, l
<1>3. /\ U16(h) \in Seq(Byte) /\ Len(U16(h)) = 2
      /\ U16(l) \in Seq(Byte) /\ Len(U16(l)) = 2
  BY <1>1, Write16
<1>4. U16(h) \o U16(l) \in Seq(Byte) /\ Len(U16(h) \o U16(l)) = 2 + 2
  BY <1>3, Joined
<1>5. Len(U32(x)) = 2 + 2
  BY <1>2, <1>4
<1> QED
  BY <1>2, <1>4, <1>5

\* The same for eight bytes.
LEMMA Write64 ==
  ASSUME NEW x \in 0..(Base8 - 1)
  PROVE  U64(x) \in Seq(Byte) /\ Len(U64(x)) = 8
<1> DEFINE h == x \div Base4  l == x % Base4
<1>1. h \in 0..(Base4 - 1) /\ l \in 0..(Base4 - 1)
  BY Bases, Halves
<1>2. U64(x) = U32(h) \o U32(l)
  BY DEF U64
<1> HIDE DEF h, l
<1>3. /\ U32(h) \in Seq(Byte) /\ Len(U32(h)) = 4
      /\ U32(l) \in Seq(Byte) /\ Len(U32(l)) = 4
  BY <1>1, Write32
<1>4. U32(h) \o U32(l) \in Seq(Byte) /\ Len(U32(h) \o U32(l)) = 4 + 4
  BY <1>3, Joined
<1>5. Len(U64(x)) = 4 + 4
  BY <1>2, <1>4
<1> QED
  BY <1>2, <1>4, <1>5

\* A number of four bytes that was written is read.
LEMMA Read32 ==
  ASSUME NEW x \in 0..(Base4 - 1), NEW b, NEW at \in Nat, Holds(b, at, U32(x))
  PROVE  ReadU32(b, at) = x
<1> DEFINE h == x \div Base2  l == x % Base2
<1>1. h \in 0..(Base2 - 1) /\ l \in 0..(Base2 - 1) /\ h * Base2 + l = x
  BY Bases, Halves
<1>2. U32(x) = U16(h) \o U16(l)
  BY DEF U32
<1> HIDE DEF h, l
<1>3. /\ U16(h) \in Seq(Byte) /\ Len(U16(h)) = 2 /\ U16(l) \in Seq(Byte)
  BY <1>1, Write16
<1>4. Holds(b, at, U16(h)) /\ Holds(b, at + 2, U16(l))
  BY <1>2, <1>3, HoldsBoth
<1>5. ReadU16(b, at) = h /\ ReadU16(b, at + 2) = l
  BY <1>1, <1>4, Read16
<1> QED
  BY <1>1, <1>5 DEF ReadU32

\* A number of eight bytes that was written is read.
LEMMA Read64 ==
  ASSUME NEW x \in 0..(Base8 - 1), NEW b, NEW at \in Nat, Holds(b, at, U64(x))
  PROVE  ReadU64(b, at) = x
<1> DEFINE h == x \div Base4  l == x % Base4
<1>1. h \in 0..(Base4 - 1) /\ l \in 0..(Base4 - 1) /\ h * Base4 + l = x
  BY Bases, Halves
<1>2. U64(x) = U32(h) \o U32(l)
  BY DEF U64
<1> HIDE DEF h, l
<1>3. /\ U32(h) \in Seq(Byte) /\ Len(U32(h)) = 4 /\ U32(l) \in Seq(Byte)
  BY <1>1, Write32
<1>4. Holds(b, at, U32(h)) /\ Holds(b, at + 4, U32(l))
  BY <1>2, <1>3, HoldsBoth
<1>5. ReadU32(b, at) = h /\ ReadU32(b, at + 4) = l
  BY <1>1, <1>4, Read32
<1> QED
  BY <1>1, <1>5 DEF ReadU64

\* Four bytes that were read are the bytes of what was read.
LEMMA Bytes32 ==
  ASSUME NEW b, NEW at \in Nat, \A i \in 0..3 : b[at + i] \in Byte
  PROVE  ReadU32(b, at) \in 0..(Base4 - 1) /\ Holds(b, at, U32(ReadU32(b, at)))
<1> DEFINE h == ReadU16(b, at)  l == ReadU16(b, at + 2)
<1>1. /\ b[at] \in Byte /\ b[at + 1] \in Byte
      /\ b[at + 2] \in Byte /\ b[(at + 2) + 1] \in Byte
  <2>1. at + 0 = at /\ (at + 2) + 1 = at + 3 /\ 0..3 = {0, 1, 2, 3}
    OBVIOUS
  <2> QED
    BY <2>1
<1>2. /\ h \in 0..(Base2 - 1) /\ Holds(b, at, U16(h))
      /\ l \in 0..(Base2 - 1) /\ Holds(b, at + 2, U16(l))
  BY <1>1, Bytes16
<1>3. ReadU32(b, at) = h * Base2 + l
  BY DEF ReadU32
<1> HIDE DEF h, l
<1>4. /\ h * Base2 + l \in 0..(Base4 - 1)
      /\ (h * Base2 + l) \div Base2 = h /\ (h * Base2 + l) % Base2 = l
  BY <1>2, Bases, Whole
<1>5. U32(ReadU32(b, at)) = U16(h) \o U16(l)
  BY <1>3, <1>4 DEF U32
<1>6. /\ U16(h) \in Seq(Byte) /\ Len(U16(h)) = 2 /\ U16(l) \in Seq(Byte)
  BY <1>2, Write16
<1>7. Holds(b, at, U16(h) \o U16(l))
  BY <1>2, <1>6, HoldsBoth
<1> QED
  BY <1>3, <1>4, <1>5, <1>7

\* The same for eight bytes.
LEMMA Bytes64 ==
  ASSUME NEW b, NEW at \in Nat, \A i \in 0..7 : b[at + i] \in Byte
  PROVE  ReadU64(b, at) \in 0..(Base8 - 1) /\ Holds(b, at, U64(ReadU64(b, at)))
<1> DEFINE h == ReadU32(b, at)  l == ReadU32(b, at + 4)
<1>1. /\ \A i \in 0..3 : b[at + i] \in Byte
      /\ \A i \in 0..3 : b[(at + 4) + i] \in Byte
  <2>1. \A i \in 0..3 : i \in 0..7 /\ 4 + i \in 0..7 /\ (at + 4) + i = at + (4 + i)
    OBVIOUS
  <2> QED
    BY <2>1
<1>2. /\ h \in 0..(Base4 - 1) /\ Holds(b, at, U32(h))
      /\ l \in 0..(Base4 - 1) /\ Holds(b, at + 4, U32(l))
  BY <1>1, Bytes32
<1>3. ReadU64(b, at) = h * Base4 + l
  BY DEF ReadU64
<1> HIDE DEF h, l
<1>4. /\ h * Base4 + l \in 0..(Base8 - 1)
      /\ (h * Base4 + l) \div Base4 = h /\ (h * Base4 + l) % Base4 = l
  BY <1>2, Bases, Whole
<1>5. U64(ReadU64(b, at)) = U32(h) \o U32(l)
  BY <1>3, <1>4 DEF U64
<1>6. /\ U32(h) \in Seq(Byte) /\ Len(U32(h)) = 4 /\ U32(l) \in Seq(Byte)
  BY <1>2, Write32
<1>7. Holds(b, at, U32(h) \o U32(l))
  BY <1>2, <1>6, HoldsBoth
<1> QED
  BY <1>3, <1>4, <1>5, <1>7

-----------------------------------------------------------------------------
(* Where encode puts each field *)

Header(p) == <<p.version, StateByte(p.state), p.priority, p.deadFactor>>

\* The lengths of the variable fields have room in a byte, a byte and a u16.
Fits(p) ==
  /\ p \in HaPacket
  /\ Len(p.nodeId) < Base /\ Len(p.groupId) < Base /\ Len(p.authTag) < Base2

Layout(p, b) ==
  LET m == Len(Magic)
      n == Len(p.nodeId)
      g == Len(p.groupId)
  IN  /\ Len(b) = m + 20 + n + g + Len(p.authTag)
      /\ Holds(b, 1, Magic)
      /\ Holds(b, m + 1, Header(p))
      /\ Holds(b, m + 5, U32(p.interval))
      /\ Holds(b, m + 9, U64(p.sequence))
      /\ Holds(b, m + 17, <<n>>)
      /\ Holds(b, m + 18, p.nodeId)
      /\ Holds(b, m + 18 + n, <<g>>)
      /\ Holds(b, m + 19 + n, p.groupId)
      /\ Holds(b, m + 19 + n + g, U16(Len(p.authTag)))
      /\ Holds(b, m + 21 + n + g, p.authTag)

\* Each part of an encoded packet is made of bytes.
LEMMA Parts ==
  ASSUME NEW p, Fits(p)
  PROVE  /\ Magic \in Seq(Byte) /\ Len(Magic) \in Nat
         /\ Header(p) \in Seq(Byte) /\ Len(Header(p)) = 4
         /\ U32(p.interval) \in Seq(Byte) /\ Len(U32(p.interval)) = 4
         /\ U64(p.sequence) \in Seq(Byte) /\ Len(U64(p.sequence)) = 8
         /\ p.nodeId \in Seq(Byte) /\ Len(p.nodeId) \in Nat
         /\ <<Len(p.nodeId)>> \in Seq(Byte)
         /\ p.groupId \in Seq(Byte) /\ Len(p.groupId) \in Nat
         /\ <<Len(p.groupId)>> \in Seq(Byte)
         /\ U16(Len(p.authTag)) \in Seq(Byte) /\ Len(U16(Len(p.authTag))) = 2
         /\ p.authTag \in Seq(Byte) /\ Len(p.authTag) \in Nat
<1>1. /\ p.version \in Byte /\ p.priority \in Byte /\ p.deadFactor \in Byte
      /\ p.state \in HaState
      /\ p.interval \in 0..(Base4 - 1) /\ p.sequence \in 0..(Base8 - 1)
      /\ p.nodeId \in Seq(Byte \ NotUtf8) /\ p.groupId \in Seq(Byte \ NotUtf8)
      /\ p.authTag \in Seq(Byte)
  BY DEF Fits, HaPacket, Text
<1>2. p.nodeId \in Seq(Byte) /\ p.groupId \in Seq(Byte)
  BY <1>1
<1>3. /\ Len(p.nodeId) \in 0..(Base - 1) /\ Len(p.groupId) \in 0..(Base - 1)
      /\ Len(p.authTag) \in 0..(Base2 - 1)
  BY <1>1, <1>2, Bases DEF Fits
<1>4. StateByte(p.state) \in Byte
  <2>1. {0, 1, 2} \subseteq Byte
    BY Bases DEF Byte
  <2>2. StateByte(p.state) \in {0, 1, 2}
    BY <1>1 DEF HaState, StateByte
  <2> QED
    BY <2>1, <2>2
<1>5. Magic \in Seq(Byte) /\ Len(Magic) \in Nat
  BY WireAssumption
<1>6. Header(p) \in Seq(Byte) /\ Len(Header(p)) = 4
  BY <1>1, <1>4 DEF Header
<1>7. /\ U32(p.interval) \in Seq(Byte) /\ Len(U32(p.interval)) = 4
      /\ U64(p.sequence) \in Seq(Byte) /\ Len(U64(p.sequence)) = 8
      /\ U16(Len(p.authTag)) \in Seq(Byte) /\ Len(U16(Len(p.authTag))) = 2
  BY <1>1, <1>3, Write16, Write32, Write64
<1>8. Len(p.nodeId) \in Byte /\ Len(p.groupId) \in Byte
  BY <1>3 DEF Byte
<1>9. <<Len(p.nodeId)>> \in Seq(Byte) /\ <<Len(p.groupId)>> \in Seq(Byte)
  BY <1>8
<1> QED
  BY <1>1, <1>2, <1>3, <1>5, <1>6, <1>7, <1>9

\* The layout describes the encoding of a packet, and nothing else.
LEMMA LayoutIsEncoding ==
  ASSUME NEW p, Fits(p), NEW b \in Seq(Byte)
  PROVE  /\ Encode(p) \in Seq(Byte)
         /\ Len(Encode(p)) = Len(Magic) + 20 + Len(p.nodeId) + Len(p.groupId) + Len(p.authTag)
         /\ Layout(p, b) <=> b = Encode(p)
<1> DEFINE m == Len(Magic)  n == Len(p.nodeId)  g == Len(p.groupId)  t == Len(p.authTag)
           h == Header(p)  i == U32(p.interval)  s == U64(p.sequence)  a == U16(t)
           nodeId == p.nodeId  groupId == p.groupId  authTag == p.authTag
           ln == <<n>>  lg == <<g>>
           l1 == m + 4  l2 == l1 + 4  l3 == l2 + 8  l4 == l3 + 1  l5 == l4 + n
           l6 == l5 + 1  l7 == l6 + g  l8 == l7 + 2  l9 == l8 + t
           e1 == Magic \o h
           e2 == e1 \o i
           e3 == e2 \o s
           e4 == e3 \o ln
           e5 == e4 \o nodeId
           e6 == e5 \o lg
           e7 == e6 \o groupId
           e8 == e7 \o a
           e9 == e8 \o authTag
<1>1. /\ m \in Nat /\ n \in Nat /\ g \in Nat /\ t \in Nat
      /\ 1 \in Nat /\ 2 \in Nat /\ 4 \in Nat /\ 8 \in Nat
  BY Parts
<1>2. /\ Bytes(Magic, m) /\ Bytes(h, 4) /\ Bytes(i, 4) /\ Bytes(s, 8)
      /\ Bytes(nodeId, n) /\ Bytes(groupId, g) /\ Bytes(a, 2) /\ Bytes(authTag, t)
  BY Parts DEF Bytes
<1>3. Bytes(ln, 1) /\ Bytes(lg, 1)
  <2>1. ln \in Seq(Byte) /\ lg \in Seq(Byte)
    BY Parts
  <2>2. Len(ln) = 1 /\ Len(lg) = 1
    OBVIOUS
  <2> QED
    BY <2>1, <2>2 DEF Bytes
<1>4. Encode(p) = e9
  BY DEF Encode, Header
<1>5. Layout(p, b) <=>
        /\ Len(b) = m + 20 + n + g + t
        /\ Holds(b, 1, Magic) /\ Holds(b, m + 1, h) /\ Holds(b, m + 5, i)
        /\ Holds(b, m + 9, s) /\ Holds(b, m + 17, ln) /\ Holds(b, m + 18, nodeId)
        /\ Holds(b, m + 18 + n, lg) /\ Holds(b, m + 19 + n, groupId)
        /\ Holds(b, m + 19 + n + g, a) /\ Holds(b, m + 21 + n + g, authTag)
  BY DEF Layout
<1> HIDE DEF m, n, g, t, h, i, s, a, nodeId, groupId, authTag, ln, lg
<1>6. /\ l1 \in Nat /\ l2 \in Nat /\ l3 \in Nat /\ l4 \in Nat /\ l5 \in Nat
      /\ l6 \in Nat /\ l7 \in Nat /\ l8 \in Nat /\ l9 = m + 20 + n + g + t
      /\ 1 + m = m + 1 /\ 1 + l1 = m + 5 /\ 1 + l2 = m + 9 /\ 1 + l3 = m + 17
      /\ 1 + l4 = m + 18 /\ 1 + l5 = m + 18 + n /\ 1 + l6 = m + 19 + n
      /\ 1 + l7 = m + 19 + n + g /\ 1 + l8 = m + 21 + n + g
  BY <1>1
<1>7. /\ Bytes(e1, l1)
      /\ Holds(b, 1, e1) <=> Holds(b, 1, Magic) /\ Holds(b, 1 + m, h)
  <2>1. m \in Nat /\ 4 \in Nat /\ Bytes(Magic, m) /\ Bytes(h, 4)
    BY <1>1, <1>2, <1>3, <1>6, <1>2
  <2> QED
    BY <2>1, HoldsNext
<1>8. /\ Bytes(e2, l2)
      /\ Holds(b, 1, e2) <=> Holds(b, 1, e1) /\ Holds(b, 1 + l1, i)
  <2>1. l1 \in Nat /\ 4 \in Nat /\ Bytes(e1, l1) /\ Bytes(i, 4)
    BY <1>1, <1>2, <1>3, <1>6, <1>7
  <2> HIDE DEF e1, l1
  <2> QED
    BY <2>1, HoldsNext
<1>9. /\ Bytes(e3, l3)
      /\ Holds(b, 1, e3) <=> Holds(b, 1, e2) /\ Holds(b, 1 + l2, s)
  <2>1. l2 \in Nat /\ 8 \in Nat /\ Bytes(e2, l2) /\ Bytes(s, 8)
    BY <1>1, <1>2, <1>3, <1>6, <1>8
  <2> HIDE DEF e1, e2, l1, l2
  <2> QED
    BY <2>1, HoldsNext
<1>10. /\ Bytes(e4, l4)
       /\ Holds(b, 1, e4) <=> Holds(b, 1, e3) /\ Holds(b, 1 + l3, ln)
  <2>1. l3 \in Nat /\ 1 \in Nat /\ Bytes(e3, l3) /\ Bytes(ln, 1)
    BY <1>1, <1>2, <1>3, <1>6, <1>9
  <2> HIDE DEF e1, e2, e3, l1, l2, l3
  <2> QED
    BY <2>1, HoldsNext
<1>11. /\ Bytes(e5, l5)
       /\ Holds(b, 1, e5) <=> Holds(b, 1, e4) /\ Holds(b, 1 + l4, nodeId)
  <2>1. l4 \in Nat /\ n \in Nat /\ Bytes(e4, l4) /\ Bytes(nodeId, n)
    BY <1>1, <1>2, <1>3, <1>6, <1>10
  <2> HIDE DEF e1, e2, e3, e4, l1, l2, l3, l4
  <2> QED
    BY <2>1, HoldsNext
<1>12. /\ Bytes(e6, l6)
       /\ Holds(b, 1, e6) <=> Holds(b, 1, e5) /\ Holds(b, 1 + l5, lg)
  <2>1. l5 \in Nat /\ 1 \in Nat /\ Bytes(e5, l5) /\ Bytes(lg, 1)
    BY <1>1, <1>2, <1>3, <1>6, <1>11
  <2> HIDE DEF e1, e2, e3, e4, e5, l1, l2, l3, l4, l5
  <2> QED
    BY <2>1, HoldsNext
<1>13. /\ Bytes(e7, l7)
       /\ Holds(b, 1, e7) <=> Holds(b, 1, e6) /\ Holds(b, 1 + l6, groupId)
  <2>1. l6 \in Nat /\ g \in Nat /\ Bytes(e6, l6) /\ Bytes(groupId, g)
    BY <1>1, <1>2, <1>3, <1>6, <1>12
  <2> HIDE DEF e1, e2, e3, e4, e5, e6, l1, l2, l3, l4, l5, l6
  <2> QED
    BY <2>1, HoldsNext
<1>14. /\ Bytes(e8, l8)
       /\ Holds(b, 1, e8) <=> Holds(b, 1, e7) /\ Holds(b, 1 + l7, a)
  <2>1. l7 \in Nat /\ 2 \in Nat /\ Bytes(e7, l7) /\ Bytes(a, 2)
    BY <1>1, <1>2, <1>3, <1>6, <1>13
  <2> HIDE DEF e1, e2, e3, e4, e5, e6, e7, l1, l2, l3, l4, l5, l6, l7
  <2> QED
    BY <2>1, HoldsNext
<1>15. /\ Bytes(e9, l9)
       /\ Holds(b, 1, e9) <=> Holds(b, 1, e8) /\ Holds(b, 1 + l8, authTag)
  <2>1. l8 \in Nat /\ t \in Nat /\ Bytes(e8, l8) /\ Bytes(authTag, t)
    BY <1>1, <1>2, <1>3, <1>6, <1>14
  <2> HIDE DEF e1, e2, e3, e4, e5, e6, e7, e8, l1, l2, l3, l4, l5, l6, l7, l8
  <2> QED
    BY <2>1, HoldsNext
<1> HIDE DEF e1, e2, e3, e4, e5, e6, e7, e8, e9, l1, l2, l3, l4, l5, l6, l7, l8, l9
<1>16. Layout(p, b) <=> Len(b) = l9 /\ Holds(b, 1, e9)
  <2>1. Holds(b, 1, e9) <=>
          /\ Holds(b, 1, Magic) /\ Holds(b, 1 + m, h) /\ Holds(b, 1 + l1, i)
          /\ Holds(b, 1 + l2, s) /\ Holds(b, 1 + l3, ln) /\ Holds(b, 1 + l4, nodeId)
          /\ Holds(b, 1 + l5, lg) /\ Holds(b, 1 + l6, groupId)
          /\ Holds(b, 1 + l7, a) /\ Holds(b, 1 + l8, authTag)
    BY <1>7, <1>8, <1>9, <1>10, <1>11, <1>12, <1>13, <1>14, <1>15
  <2> QED
    BY <1>5, <1>6, <2>1
<1>17. e9 \in Seq(Byte) /\ Len(e9) = l9
  <2>1. Bytes(e9, l9)
    BY <1>15
  <2> QED
    BY <2>1 DEF Bytes
<1>18. \A k \in 1..Len(e9) : 1 + k - 1 = k
  BY <1>17
<1>19. Len(b) = Len(e9) /\ Holds(b, 1, e9) => b = e9
  <2> SUFFICES ASSUME Len(b) = Len(e9), Holds(b, 1, e9) PROVE b = e9
    OBVIOUS
  <2>1. \A k \in 1..Len(e9) : b[k] = e9[k]
    BY <1>18 DEF Holds
  <2> QED
    BY <1>17, <2>1
<1>20. Holds(e9, 1, e9)
  BY <1>18 DEF Holds
<1>21. Layout(p, b) <=> b = e9
  BY <1>16, <1>17, <1>19, <1>20
<1>22. Len(e9) = m + 20 + n + g + t
  BY <1>6, <1>17
<1>23. Encode(p) \in Seq(Byte) /\ (Layout(p, b) <=> b = Encode(p))
  BY <1>4, <1>17, <1>21
<1> QED
  BY <1>4, <1>22, <1>23 DEF m, n, g, t

-----------------------------------------------------------------------------
(* What decode reads *)

\* What stands in b is a part of b, and a part of b stands in it.
LEMMA HeldPart ==
  ASSUME NEW b \in Seq(Byte), NEW s \in Seq(Byte), NEW at \in Nat \ {0},
         at + Len(s) - 1 <= Len(b), Holds(b, at, s)
  PROVE  SubSeq(b, at, at + Len(s) - 1) = s
<1> DEFINE to == at + Len(s) - 1
<1>1. Len(s) \in Nat /\ to \in Nat /\ to <= Len(b) /\ to - at + 1 = Len(s)
  OBVIOUS
<1> HIDE DEF to
<1>2. /\ SubSeq(b, at, to) \in Seq(Byte) /\ Len(SubSeq(b, at, to)) = Len(s)
      /\ \A i \in 1..Len(s) : SubSeq(b, at, to)[i] = b[at + i - 1]
  BY <1>1
<1>3. SubSeq(b, at, to) = s
  BY <1>2 DEF Holds
<1> QED
  BY <1>3 DEF to

\* A part of b stands where it was taken from.
LEMMA PartIsHeld ==
  ASSUME NEW b \in Seq(Byte), NEW at \in Nat \ {0}, NEW to \in Nat,
         at <= to + 1, to <= Len(b)
  PROVE  /\ SubSeq(b, at, to) \in Seq(Byte) /\ Len(SubSeq(b, at, to)) = to - at + 1
         /\ Holds(b, at, SubSeq(b, at, to))
<1>1. /\ SubSeq(b, at, to) \in Seq(Byte) /\ Len(SubSeq(b, at, to)) = to - at + 1
      /\ \A i \in 1..(to - at + 1) : SubSeq(b, at, to)[i] = b[at + i - 1]
  OBVIOUS
<1> QED
  BY <1>1 DEF Holds

\* One byte stands in b.
LEMMA HoldsOne ==
  ASSUME NEW b, NEW at \in Nat, NEW x
  PROVE  Holds(b, at, <<x>>) <=> b[at] = x
<1>1. Len(<<x>>) = 1 /\ <<x>>[1] = x /\ 1..1 = {1} /\ at + 1 - 1 = at
  OBVIOUS
<1> QED
  BY <1>1 DEF Holds

\* The four bytes before the interval stand in b.
LEMMA HoldsHeader ==
  ASSUME NEW b, NEW at \in Nat, NEW p
  PROVE  Holds(b, at, Header(p)) <=>
           /\ b[at] = p.version /\ b[at + 1] = StateByte(p.state)
           /\ b[at + 2] = p.priority /\ b[at + 3] = p.deadFactor
<1> DEFINE s == Header(p)
<1>1. /\ Len(s) = 4 /\ s[1] = p.version /\ s[2] = StateByte(p.state)
      /\ s[3] = p.priority /\ s[4] = p.deadFactor
      /\ 1..4 = {1, 2, 3, 4}
      /\ at + 1 - 1 = at /\ at + 2 - 1 = at + 1 /\ at + 3 - 1 = at + 2 /\ at + 4 - 1 = at + 3
  BY DEF Header
<1> HIDE DEF s
<1>2. Holds(b, at, s) <=>
        /\ b[at] = p.version /\ b[at + 1] = StateByte(p.state)
        /\ b[at + 2] = p.priority /\ b[at + 3] = p.deadFactor
  BY <1>1 DEF Holds
<1> QED
  BY <1>2 DEF s

\* The cursor of decode in a laid out packet.
LEMMA Cursor ==
  ASSUME NEW p, Fits(p), NEW b \in Seq(Byte), Layout(p, b)
  PROVE  LET m == Len(Magic)
             n == Len(p.nodeId)
             g == Len(p.groupId)
             t == Len(p.authTag)
         IN  /\ m \in Nat /\ n \in Nat /\ g \in Nat /\ t \in Nat
             /\ Len(b) = m + 20 + n + g + t
             /\ NodeIdLenAt = m + 17
             /\ GroupIdLenAt(b) = m + 18 + n
             /\ AuthTagLenAt(b) = m + 19 + n + g
             /\ AuthTagAt(b) = m + 21 + n + g
             /\ EndOf(b) = m + 20 + n + g + t
<1> DEFINE m == Len(Magic)  n == Len(p.nodeId)  g == Len(p.groupId)  t == Len(p.authTag)
<1>1. m \in Nat /\ n \in Nat /\ g \in Nat /\ t \in Nat /\ t \in 0..(Base2 - 1)
  BY Parts, Bases DEF Fits
<1>2. /\ Len(b) = m + 20 + n + g + t
      /\ Holds(b, m + 17, <<n>>) /\ Holds(b, m + 18 + n, <<g>>)
      /\ Holds(b, m + 19 + n + g, U16(t))
  BY DEF Layout
<1>3. NodeIdLenAt = m + 17
  BY DEF NodeIdLenAt
<1> HIDE DEF m, n, g, t
<1>4. b[m + 17] = n /\ b[m + 18 + n] = g
  BY <1>1, <1>2, HoldsOne
<1>5. ReadU16(b, m + 19 + n + g) = t
  BY <1>1, <1>2, Read16
<1>6. GroupIdLenAt(b) = m + 18 + n
  BY <1>1, <1>3, <1>4 DEF GroupIdLenAt
<1>7. AuthTagLenAt(b) = m + 19 + n + g
  BY <1>1, <1>4, <1>6 DEF AuthTagLenAt
<1>8. AuthTagAt(b) = m + 21 + n + g
  BY <1>1, <1>7 DEF AuthTagAt
<1>9. EndOf(b) = m + 20 + n + g + t
  BY <1>1, <1>5, <1>7, <1>8 DEF EndOf
<1> QED
  BY <1>1, <1>2, <1>3, <1>6, <1>7, <1>8, <1>9 DEF m, n, g, t

\* The cursor comes to the end of a laid out packet.
LEMMA LayoutIsFramed ==
  ASSUME NEW p, Fits(p), NEW b \in Seq(Byte), Layout(p, b)
  PROVE  Framed(b)
<1> DEFINE m == Len(Magic)  n == Len(p.nodeId)  g == Len(p.groupId)  t == Len(p.authTag)
<1>1. /\ m \in Nat /\ n \in Nat /\ g \in Nat /\ t \in Nat
      /\ Len(b) = m + 20 + n + g + t
      /\ NodeIdLenAt = m + 17 /\ GroupIdLenAt(b) = m + 18 + n
      /\ AuthTagLenAt(b) = m + 19 + n + g
      /\ EndOf(b) = m + 20 + n + g + t
  BY Cursor
<1>2. Holds(b, 1, Magic) /\ Magic \in Seq(Byte) /\ m = Len(Magic)
  BY Parts DEF Layout
<1> HIDE DEF m, n, g, t
<1>3. SubSeq(b, 1, m) = Magic
  <2>1. m = 1 + Len(Magic) - 1 /\ m <= Len(b) /\ 1 \in Nat \ {0}
    BY <1>1, <1>2
  <2> QED
    BY <1>1, <1>2, <2>1, HeldPart
<1>4. /\ NodeIdLenAt <= Len(b) /\ GroupIdLenAt(b) <= Len(b)
      /\ AuthTagLenAt(b) < Len(b) /\ EndOf(b) = Len(b)
  BY <1>1
<1> QED
  BY <1>2, <1>3, <1>4 DEF Framed

\* decode reads each field of a laid out packet back.
LEMMA LayoutFields ==
  ASSUME NEW p, Fits(p), NEW b \in Seq(Byte), Layout(p, b)
  PROVE  Fields(b) = p /\ b[Len(Magic) + 2] <= 2
<1> DEFINE m == Len(Magic)  n == Len(p.nodeId)  g == Len(p.groupId)  t == Len(p.authTag)
<1>1. /\ m \in Nat /\ n \in Nat /\ g \in Nat /\ t \in Nat
      /\ Len(b) = m + 20 + n + g + t
      /\ NodeIdLenAt = m + 17 /\ GroupIdLenAt(b) = m + 18 + n
      /\ AuthTagLenAt(b) = m + 19 + n + g /\ AuthTagAt(b) = m + 21 + n + g
      /\ EndOf(b) = m + 20 + n + g + t
  BY Cursor
<1>2. /\ Holds(b, m + 1, Header(p))
      /\ Holds(b, m + 5, U32(p.interval)) /\ Holds(b, m + 9, U64(p.sequence))
      /\ Holds(b, m + 18, p.nodeId) /\ Holds(b, m + 19 + n, p.groupId)
      /\ Holds(b, m + 21 + n + g, p.authTag)
  BY DEF Layout
<1>3. /\ p.nodeId \in Seq(Byte) /\ p.groupId \in Seq(Byte) /\ p.authTag \in Seq(Byte)
      /\ Len(p.nodeId) = n /\ Len(p.groupId) = g /\ Len(p.authTag) = t
  BY Parts
<1>4. /\ p \in HaPacket /\ p.interval \in 0..(Base4 - 1) /\ p.sequence \in 0..(Base8 - 1)
      /\ p.state \in HaState
  BY DEF Fits, HaPacket
<1> HIDE DEF m, n, g, t
<1>5. /\ b[m + 1] = p.version /\ b[m + 2] = StateByte(p.state)
      /\ b[m + 3] = p.priority /\ b[m + 4] = p.deadFactor
  <2>1. m + 1 \in Nat /\ (m + 1) + 1 = m + 2 /\ (m + 1) + 2 = m + 3 /\ (m + 1) + 3 = m + 4
    BY <1>1
  <2>2. /\ b[m + 1] = p.version /\ b[(m + 1) + 1] = StateByte(p.state)
        /\ b[(m + 1) + 2] = p.priority /\ b[(m + 1) + 3] = p.deadFactor
    BY <1>2, <2>1, HoldsHeader
  <2> QED
    BY <2>1, <2>2
<1>6. StateByte(p.state) <= 2 /\ StateOf(StateByte(p.state)) = p.state
  BY <1>4 DEF HaState, StateByte, StateOf
<1>7. ReadU32(b, m + 5) = p.interval /\ ReadU64(b, m + 9) = p.sequence
  BY <1>1, <1>2, <1>4, Read32, Read64
<1>8. SubSeq(b, NodeIdLenAt + 1, GroupIdLenAt(b) - 1) = p.nodeId
  <2>1. /\ NodeIdLenAt + 1 = m + 18 /\ m + 18 \in Nat \ {0}
        /\ GroupIdLenAt(b) - 1 = m + 17 + n /\ m + 17 + n \in Nat
        /\ m + 17 + n = (m + 18) + n - 1 /\ m + 17 + n <= Len(b)
    BY <1>1
  <2>2. SubSeq(b, m + 18, (m + 18) + Len(p.nodeId) - 1) = p.nodeId
    BY <1>2, <1>3, <2>1, HeldPart
  <2> QED
    BY <1>3, <2>1, <2>2
<1>9. SubSeq(b, GroupIdLenAt(b) + 1, AuthTagLenAt(b) - 1) = p.groupId
  <2>1. /\ GroupIdLenAt(b) + 1 = m + 19 + n /\ m + 19 + n \in Nat \ {0}
        /\ AuthTagLenAt(b) - 1 = m + 18 + n + g /\ m + 18 + n + g \in Nat
        /\ m + 18 + n + g = (m + 19 + n) + g - 1 /\ m + 18 + n + g <= Len(b)
    BY <1>1
  <2>2. SubSeq(b, m + 19 + n, (m + 19 + n) + Len(p.groupId) - 1) = p.groupId
    BY <1>2, <1>3, <2>1, HeldPart
  <2> QED
    BY <1>3, <2>1, <2>2
<1>10. SubSeq(b, AuthTagAt(b), EndOf(b)) = p.authTag
  <2>1. /\ m + 21 + n + g \in Nat \ {0} /\ m + 20 + n + g + t \in Nat
        /\ m + 20 + n + g + t = (m + 21 + n + g) + t - 1 /\ m + 20 + n + g + t <= Len(b)
    BY <1>1
  <2>2. SubSeq(b, m + 21 + n + g, (m + 21 + n + g) + Len(p.authTag) - 1) = p.authTag
    BY <1>2, <1>3, <2>1, HeldPart
  <2> QED
    BY <1>1, <1>3, <2>1, <2>2
<1>11. Fields(b) =
         [ version |-> p.version, state |-> p.state, priority |-> p.priority,
           deadFactor |-> p.deadFactor, interval |-> p.interval, sequence |-> p.sequence,
           nodeId |-> p.nodeId, groupId |-> p.groupId, authTag |-> p.authTag ]
  BY <1>5, <1>6, <1>7, <1>8, <1>9, <1>10 DEF Fields, m
<1>12. Fields(b) = p
  BY <1>4, <1>11 DEF HaPacket
<1> QED
  BY <1>5, <1>6, <1>12 DEF m

\* A datagram that decode accepts is laid out as the packet decode makes of it.
LEMMA DecodedLayout ==
  ASSUME NEW b \in Seq(Byte), Framed(b), b[Len(Magic) + 2] <= 2,
         IsText(Fields(b).nodeId), IsText(Fields(b).groupId)
  PROVE  Fits(Fields(b)) /\ Layout(Fields(b), b)
<1> DEFINE m == Len(Magic)  p == Fields(b)
           n == b[m + 17]  g == b[m + 18 + n]  at == m + 19 + n + g  t == ReadU16(b, at)
<1>1. m \in Nat /\ Magic \in Seq(Byte) /\ NodeIdLenAt = m + 17
  BY WireAssumption DEF NodeIdLenAt
<1>2. /\ NodeIdLenAt <= Len(b) /\ SubSeq(b, 1, m) = Magic
      /\ GroupIdLenAt(b) <= Len(b) /\ AuthTagLenAt(b) < Len(b) /\ EndOf(b) = Len(b)
  BY DEF Framed
<1>3. \A i \in 1..Len(b) : b[i] \in Byte
  OBVIOUS
<1>4. Len(b) \in Nat
  OBVIOUS
<1> HIDE DEF m
<1>5. n \in 0..(Base - 1) /\ n \in Nat
  <2>1. m + 17 \in 1..Len(b)
    BY <1>1, <1>2, <1>4
  <2> QED
    BY <1>3, <2>1, Bases DEF Byte
<1>6. GroupIdLenAt(b) = m + 18 + n /\ m + 18 + n <= Len(b)
  <2>1. GroupIdLenAt(b) = m + 17 + n + 1
    BY <1>1 DEF GroupIdLenAt
  <2> HIDE DEF n
  <2> QED
    BY <1>1, <1>2, <1>5, <2>1
<1>7. g \in 0..(Base - 1) /\ g \in Nat
  <2>1. m + 18 + n \in 1..Len(b)
    BY <1>1, <1>4, <1>5, <1>6
  <2> QED
    BY <1>3, <2>1, Bases DEF Byte
<1>8. AuthTagLenAt(b) = at /\ at \in Nat /\ at < Len(b)
  <2>1. AuthTagLenAt(b) = m + 18 + n + g + 1
    BY <1>6 DEF AuthTagLenAt
  <2> HIDE DEF n, g
  <2> QED
    BY <1>1, <1>2, <1>5, <1>7, <2>1
<1>9. t \in 0..(Base2 - 1) /\ t \in Nat /\ Holds(b, at, U16(t))
  <2>1. at \in 1..Len(b) /\ at + 1 \in 1..Len(b)
    <3> HIDE DEF n, g
    <3> QED
      BY <1>1, <1>4, <1>5, <1>7, <1>8
  <2>2. b[at] \in Byte /\ b[at + 1] \in Byte
    BY <1>3, <2>1
  <2> HIDE DEF at
  <2> QED
    BY <1>8, <2>2, Bytes16, Bases
<1>10. AuthTagAt(b) = m + 21 + n + g /\ EndOf(b) = m + 20 + n + g + t
       /\ Len(b) = m + 20 + n + g + t
  <2>1. AuthTagAt(b) = at + 2 /\ EndOf(b) = at + 2 + t - 1
    BY <1>8 DEF AuthTagAt, EndOf
  <2>2. at = m + 19 + n + g
    OBVIOUS
  <2> HIDE DEF n, g, t, at
  <2>3. m \in Nat /\ n \in Nat /\ g \in Nat /\ t \in Nat /\ EndOf(b) = Len(b)
    BY <1>1, <1>2, <1>5, <1>7, <1>9
  <2>4. at + 2 = m + 21 + n + g /\ at + 2 + t - 1 = m + 20 + n + g + t
    BY <2>2, <2>3
  <2> QED
    BY <2>1, <2>3, <2>4
<1>11. /\ p.version = b[m + 1] /\ p.state = StateOf(b[m + 2]) /\ p.priority = b[m + 3]
       /\ p.deadFactor = b[m + 4] /\ p.interval = ReadU32(b, m + 5)
       /\ p.sequence = ReadU64(b, m + 9)
       /\ p.nodeId = SubSeq(b, NodeIdLenAt + 1, GroupIdLenAt(b) - 1)
       /\ p.groupId = SubSeq(b, GroupIdLenAt(b) + 1, AuthTagLenAt(b) - 1)
       /\ p.authTag = SubSeq(b, AuthTagAt(b), EndOf(b))
       /\ p = [ version |-> p.version, state |-> p.state, priority |-> p.priority,
                deadFactor |-> p.deadFactor, interval |-> p.interval,
                sequence |-> p.sequence, nodeId |-> p.nodeId, groupId |-> p.groupId,
                authTag |-> p.authTag ]
  BY DEF Fields, m
<1> HIDE DEF n, g, t, at, p
<1>12. at = m + 19 + n + g
  BY DEF at
<1>13. /\ p.nodeId \in Seq(Byte) /\ Len(p.nodeId) = n /\ Holds(b, m + 18, p.nodeId)
  <2>1. /\ NodeIdLenAt + 1 = m + 18 /\ GroupIdLenAt(b) - 1 = m + 17 + n
        /\ m + 18 \in Nat \ {0} /\ m + 17 + n \in Nat /\ m + 18 <= (m + 17 + n) + 1
        /\ m + 17 + n <= Len(b) /\ (m + 17 + n) - (m + 18) + 1 = n
    BY <1>1, <1>4, <1>5, <1>6
  <2>2. p.nodeId = SubSeq(b, m + 18, m + 17 + n)
    BY <1>11, <2>1
  <2>3. /\ SubSeq(b, m + 18, m + 17 + n) \in Seq(Byte)
        /\ Len(SubSeq(b, m + 18, m + 17 + n)) = (m + 17 + n) - (m + 18) + 1
        /\ Holds(b, m + 18, SubSeq(b, m + 18, m + 17 + n))
    BY <2>1, PartIsHeld
  <2> QED
    BY <2>1, <2>2, <2>3
<1>14. /\ p.groupId \in Seq(Byte) /\ Len(p.groupId) = g
       /\ Holds(b, m + 19 + n, p.groupId)
  <2>1. /\ GroupIdLenAt(b) + 1 = m + 19 + n /\ AuthTagLenAt(b) - 1 = m + 18 + n + g
        /\ m + 19 + n \in Nat \ {0} /\ m + 18 + n + g \in Nat
        /\ m + 19 + n <= (m + 18 + n + g) + 1
        /\ m + 18 + n + g <= Len(b) /\ (m + 18 + n + g) - (m + 19 + n) + 1 = g
    BY <1>1, <1>4, <1>5, <1>6, <1>7, <1>8, <1>12
  <2>2. p.groupId = SubSeq(b, m + 19 + n, m + 18 + n + g)
    BY <1>11, <2>1
  <2>3. /\ SubSeq(b, m + 19 + n, m + 18 + n + g) \in Seq(Byte)
        /\ Len(SubSeq(b, m + 19 + n, m + 18 + n + g)) = (m + 18 + n + g) - (m + 19 + n) + 1
        /\ Holds(b, m + 19 + n, SubSeq(b, m + 19 + n, m + 18 + n + g))
    BY <2>1, PartIsHeld
  <2> QED
    BY <2>1, <2>2, <2>3
<1>15. /\ p.authTag \in Seq(Byte) /\ Len(p.authTag) = t
       /\ Holds(b, m + 21 + n + g, p.authTag)
  <2>1. /\ m + 21 + n + g \in Nat \ {0} /\ m + 20 + n + g + t \in Nat
        /\ m + 21 + n + g <= (m + 20 + n + g + t) + 1
        /\ m + 20 + n + g + t <= Len(b)
        /\ (m + 20 + n + g + t) - (m + 21 + n + g) + 1 = t
    BY <1>1, <1>4, <1>5, <1>7, <1>9, <1>10
  <2>2. p.authTag = SubSeq(b, m + 21 + n + g, m + 20 + n + g + t)
    BY <1>10, <1>11
  <2>3. /\ SubSeq(b, m + 21 + n + g, m + 20 + n + g + t) \in Seq(Byte)
        /\ Len(SubSeq(b, m + 21 + n + g, m + 20 + n + g + t))
             = (m + 20 + n + g + t) - (m + 21 + n + g) + 1
        /\ Holds(b, m + 21 + n + g, SubSeq(b, m + 21 + n + g, m + 20 + n + g + t))
    BY <2>1, PartIsHeld
  <2> QED
    BY <2>1, <2>2, <2>3
<1>16. \A i \in 1..(m + 16) : b[i] \in Byte
  <2>1. \A i \in 1..(m + 16) : i \in 1..Len(b)
    BY <1>1, <1>4, <1>5, <1>7, <1>9, <1>10
  <2> QED
    BY <1>3, <2>1
<1>17. /\ b[m + 1] \in Byte /\ b[m + 2] \in Byte /\ b[m + 3] \in Byte /\ b[m + 4] \in Byte
       /\ \A i \in 0..3 : b[(m + 5) + i] \in Byte
       /\ \A i \in 0..7 : b[(m + 9) + i] \in Byte
  <2>1. /\ m + 1 \in 1..(m + 16) /\ m + 2 \in 1..(m + 16)
        /\ m + 3 \in 1..(m + 16) /\ m + 4 \in 1..(m + 16)
        /\ \A i \in 0..3 : (m + 5) + i \in 1..(m + 16)
        /\ \A i \in 0..7 : (m + 9) + i \in 1..(m + 16)
    BY <1>1
  <2> QED
    BY <1>16, <2>1
<1>18. p.state \in HaState /\ StateByte(p.state) = b[m + 2]
  <2>1. b[m + 2] \in {0, 1, 2}
    <3>1. b[m + 2] <= 2
      BY DEF m
    <3>2. b[m + 2] \in 0..(Base - 1)
      BY <1>17 DEF Byte
    <3> HIDE DEF m
    <3> QED
      BY <3>1, <3>2, Bases
  <2> QED
    BY <1>11, <2>1 DEF StateOf, StateByte, HaState
<1>19. /\ p.interval \in 0..(Base4 - 1) /\ Holds(b, m + 5, U32(p.interval))
       /\ p.sequence \in 0..(Base8 - 1) /\ Holds(b, m + 9, U64(p.sequence))
  <2>1. m + 5 \in Nat /\ m + 9 \in Nat
    BY <1>1
  <2> QED
    BY <1>11, <1>17, <2>1, Bytes32, Bytes64
<1>20. p.nodeId \in Text /\ p.groupId \in Text
  <2>1. ASSUME NEW s \in Seq(Byte), IsText(s) PROVE s \in Seq(Byte \ NotUtf8)
    BY <2>1 DEF IsText
  <2>2. IsText(p.nodeId) /\ IsText(p.groupId)
    BY DEF p
  <2> QED
    BY <1>13, <1>14, <2>1, <2>2 DEF Text
<1>21. p \in HaPacket
  <2>1. /\ p.version \in Byte /\ p.priority \in Byte /\ p.deadFactor \in Byte
    BY <1>11, <1>17
  <2> QED
    BY <1>11, <1>15, <1>18, <1>19, <1>20, <2>1 DEF HaPacket
<1>22. Fits(p)
  <2>1. Len(p.nodeId) < Base /\ Len(p.groupId) < Base /\ Len(p.authTag) < Base2
    BY <1>5, <1>7, <1>9, <1>13, <1>14, <1>15, Bases
  <2> QED
    BY <1>21, <2>1 DEF Fits
<1>23. Holds(b, 1, Magic)
  <2>1. 1 \in Nat \ {0} /\ m <= Len(b) /\ 1 <= m + 1
    BY <1>1, <1>4, <1>5, <1>7, <1>9, <1>10
  <2>2. Holds(b, 1, SubSeq(b, 1, m))
    BY <1>1, <2>1, PartIsHeld
  <2> QED
    BY <1>2, <2>2
<1>24. Holds(b, m + 1, Header(p))
  <2>1. m + 1 \in Nat /\ (m + 1) + 1 = m + 2 /\ (m + 1) + 2 = m + 3 /\ (m + 1) + 3 = m + 4
    BY <1>1
  <2> QED
    BY <1>11, <1>18, <2>1, HoldsHeader
<1>25. Holds(b, m + 17, <<n>>) /\ Holds(b, m + 18 + n, <<g>>)
  <2>1. b[m + 17] = n /\ b[m + 18 + n] = g /\ m + 17 \in Nat /\ m + 18 + n \in Nat
    BY <1>1, <1>5 DEF n, g
  <2> QED
    BY <2>1, HoldsOne
<1>26. Layout(p, b)
  BY <1>9, <1>10, <1>12, <1>13, <1>14, <1>15, <1>19, <1>23, <1>24, <1>25 DEF Layout, m
<1> QED
  BY <1>22, <1>26 DEF p

-----------------------------------------------------------------------------
(* encode and decode *)

\* A packet that encode accepts has a length of its own in every length field.
LEMMA EncodableFits ==
  ASSUME NEW p \in HaPacket, Encodable(p)
  PROVE  Fits(p)
<1>1. Len(p.nodeId) \in Nat /\ Len(p.groupId) \in Nat /\ Len(p.authTag) \in Nat
  BY DEF HaPacket, Text
<1>2. /\ Len(p.nodeId) <= MaxIdLen /\ Len(p.groupId) <= MaxIdLen
      /\ Len(p.authTag) <= MaxAuthTagLen
  BY DEF Encodable, ValidField
<1>3. MaxIdLen \in 1..(Base - 1) /\ MaxAuthTagLen \in 0..(Base2 - 1)
  BY WireAssumption
<1>4. Base \in Nat /\ Base2 \in Nat
  BY Bases
<1> QED
  BY <1>1, <1>2, <1>3, <1>4 DEF Fits

\* What encode makes is decoded to the packet it was made of.
LEMMA Codec ==
  ASSUME NEW p \in HaPacket, Encodable(p)
  PROVE  /\ Encode(p) \in Seq(Byte) /\ Framed(Encode(p)) /\ Decode(Encode(p)) = p
         /\ Len(Encode(p)) <= Len(Magic) + 20 + 2 * MaxIdLen + Len(p.authTag)
<1>1. Fits(p)
  BY EncodableFits
<1>2. <<>> \in Seq(Byte)
  OBVIOUS
<1>3. /\ Encode(p) \in Seq(Byte)
      /\ Len(Encode(p)) = Len(Magic) + 20 + Len(p.nodeId) + Len(p.groupId) + Len(p.authTag)
  BY <1>1, <1>2, LayoutIsEncoding
<1>4. Layout(p, Encode(p))
  BY <1>1, <1>3, LayoutIsEncoding
<1> DEFINE b == Encode(p)
<1>5. Framed(b) /\ Fields(b) = p /\ b[Len(Magic) + 2] <= 2
  BY <1>1, <1>3, <1>4, LayoutIsFramed, LayoutFields
<1>6. IsText(p.nodeId) /\ IsText(p.groupId)
  <2>1. p.nodeId \in Seq(Byte \ NotUtf8) /\ p.groupId \in Seq(Byte \ NotUtf8)
    BY DEF HaPacket, Text
  <2>2. \A s \in Seq(Byte \ NotUtf8) : IsText(s)
    BY DEF IsText
  <2> QED
    BY <2>1, <2>2
<1>7. Len(b) <= Len(Magic) + 20 + 2 * MaxIdLen + Len(p.authTag)
  <2> DEFINE m == Len(Magic)  n == Len(p.nodeId)  g == Len(p.groupId)  t == Len(p.authTag)
  <2>1. m \in Nat /\ n \in Nat /\ g \in Nat /\ t \in Nat
    BY <1>1, Parts
  <2>2. n <= MaxIdLen /\ g <= MaxIdLen /\ MaxIdLen \in Nat
    BY WireAssumption DEF Encodable, ValidField
  <2>3. Len(b) = m + 20 + n + g + t
    BY <1>3
  <2> HIDE DEF m, n, g, t, b
  <2>4. Len(b) <= m + 20 + 2 * MaxIdLen + t
    BY <2>1, <2>2, <2>3
  <2> QED
    BY <2>4 DEF m, t
<1> HIDE DEF b
<1>8. Decode(b) = p
  BY <1>5, <1>6 DEF Decode
<1> QED
  BY <1>3, <1>5, <1>7, <1>8 DEF b

\* What decode accepts is the encoding of what it returns.
LEMMA DecodedIsEncoding ==
  ASSUME NEW b \in Seq(Byte), Decode(b) # Malformed
  PROVE  Framed(b) /\ Encodable(Decode(b)) /\ Encode(Decode(b)) = b
<1>1. /\ Framed(b) /\ b[Len(Magic) + 2] <= 2
      /\ IsText(Fields(b).nodeId) /\ IsText(Fields(b).groupId)
      /\ Encodable(Fields(b)) /\ Decode(b) = Fields(b)
  BY DEF Decode
<1>2. Fits(Fields(b)) /\ Layout(Fields(b), b)
  BY <1>1, DecodedLayout
<1>3. Encode(Fields(b)) = b
  BY <1>2, LayoutIsEncoding
<1> QED
  BY <1>1, <1>3

\* A framed datagram ends where its own length fields say: one that begins with
\* another is the other.
LEMMA FramedEnds ==
  ASSUME NEW b \in Seq(Byte), NEW c \in Seq(Byte), Framed(b), Framed(c),
         Len(b) <= Len(c), \A i \in 1..Len(b) : b[i] = c[i]
  PROVE  Len(b) = Len(c)
<1> DEFINE m == Len(Magic)
<1>1. m \in Nat /\ NodeIdLenAt = m + 17
  BY WireAssumption DEF NodeIdLenAt
<1>2. /\ NodeIdLenAt <= Len(b) /\ GroupIdLenAt(b) <= Len(b)
      /\ AuthTagLenAt(b) < Len(b) /\ EndOf(b) = Len(b) /\ EndOf(c) = Len(c)
  BY DEF Framed
<1>3. Len(b) \in Nat /\ \A i \in 1..Len(b) : b[i] \in Nat
  BY Bases DEF Byte
<1> HIDE DEF m
<1>4. NodeIdLenAt \in 1..Len(b)
  BY <1>1, <1>2, <1>3
<1>5. GroupIdLenAt(c) = GroupIdLenAt(b)
  BY <1>4 DEF GroupIdLenAt
<1>6. GroupIdLenAt(b) \in 1..Len(b)
  <2>1. b[NodeIdLenAt] \in Nat /\ NodeIdLenAt \in Nat
    BY <1>3, <1>4
  <2> QED
    BY <1>2, <1>3, <2>1 DEF GroupIdLenAt
<1>7. AuthTagLenAt(c) = AuthTagLenAt(b)
  BY <1>5, <1>6 DEF AuthTagLenAt
<1>8. AuthTagLenAt(b) \in 1..Len(b) /\ AuthTagLenAt(b) + 1 \in 1..Len(b)
  <2>1. b[GroupIdLenAt(b)] \in Nat /\ GroupIdLenAt(b) \in Nat
    BY <1>3, <1>6
  <2>2. AuthTagLenAt(b) \in Nat \ {0}
    BY <2>1 DEF AuthTagLenAt
  <2> QED
    BY <1>2, <1>3, <2>2
<1>9. ReadU16(c, AuthTagLenAt(b)) = ReadU16(b, AuthTagLenAt(b))
  BY <1>8 DEF ReadU16
<1>10. EndOf(c) = EndOf(b)
  BY <1>7, <1>9 DEF EndOf, AuthTagAt
<1> QED
  BY <1>2, <1>10

\* No proper beginning of a framed datagram is framed.
LEMMA CutIsMalformed ==
  ASSUME NEW e \in Seq(Byte), Framed(e), NEW n \in 0..(Len(e) - 1)
  PROVE  SubSeq(e, 1, n) \in Seq(Byte) /\ Decode(SubSeq(e, 1, n)) = Malformed
<1> DEFINE b == SubSeq(e, 1, n)
<1>1. b \in Seq(Byte) /\ Len(b) = n /\ \A i \in 1..n : b[i] = e[i]
  OBVIOUS
<1>2. Len(e) \in Nat /\ n \in Nat /\ n < Len(e)
  OBVIOUS
<1> HIDE DEF b
<1>3. ~ Framed(b)
  <2> SUFFICES ASSUME Framed(b) PROVE FALSE
    OBVIOUS
  <2>1. Len(b) = Len(e)
    BY <1>1, <1>2, FramedEnds
  <2> QED
    BY <1>1, <1>2, <2>1
<1>4. Decode(b) = Malformed
  BY <1>3 DEF Decode
<1> QED
  BY <1>1, <1>4 DEF b

\* A framed datagram with one byte more is not framed.
LEMMA ExtendedIsMalformed ==
  ASSUME NEW e \in Seq(Byte), Framed(e), NEW byte \in Byte
  PROVE  /\ Append(e, byte) \in Seq(Byte) /\ Len(Append(e, byte)) = Len(e) + 1
         /\ Decode(Append(e, byte)) = Malformed
<1> DEFINE b == Append(e, byte)
<1>1. b \in Seq(Byte) /\ Len(b) = Len(e) + 1 /\ \A i \in 1..Len(e) : e[i] = b[i]
  OBVIOUS
<1>2. Len(e) \in Nat
  OBVIOUS
<1> HIDE DEF b
<1>3. ~ Framed(b)
  <2> SUFFICES ASSUME Framed(b) PROVE FALSE
    OBVIOUS
  <2>1. Len(e) = Len(b)
    BY <1>1, <1>2, FramedEnds
  <2> QED
    BY <1>1, <1>2, <2>1
<1>4. Decode(b) = Malformed
  BY <1>3 DEF Decode
<1> QED
  BY <1>1, <1>4 DEF b

\* An encoding with one byte changed is not decoded to its packet.
LEMMA ChangedIsAnother ==
  ASSUME NEW p, p # Malformed, Encode(p) \in Seq(Byte), NEW i \in DOMAIN Encode(p),
         NEW byte \in Byte \ {Encode(p)[i]}, NEW b, b = [Encode(p) EXCEPT ![i] = byte]
  PROVE  b \in Seq(Byte) /\ Len(b) = Len(Encode(p)) /\ Decode(b) # p
<1> DEFINE e == Encode(p)
<1>1. b \in Seq(Byte) /\ Len(b) = Len(e) /\ b[i] # e[i]
  OBVIOUS
<1> HIDE DEF e
<1>2. Decode(b) # p
  <2> SUFFICES ASSUME Decode(b) = p PROVE FALSE
    OBVIOUS
  <2>1. Encode(p) = b
    BY <1>1, DecodedIsEncoding
  <2> QED
    BY <1>1, <2>1 DEF e
<1> QED
  BY <1>1, <1>2 DEF e

-----------------------------------------------------------------------------
(* build_packet *)

\* A packet carries its sender's settings, and the tag that its own fields and the
\* sender's key make: the digest does not cover the tag itself.
LEMMA PacketFields ==
  ASSUME NEW c, NEW state, NEW sequence
  PROVE  LET p == BuildPacket(c, state, sequence)
         IN  /\ p.version = c.version /\ p.state = state /\ p.priority = c.priority
             /\ p.deadFactor = c.deadFactor /\ p.interval = c.interval
             /\ p.sequence = sequence /\ p.nodeId = c.nodeId /\ p.groupId = c.groupId
             /\ p.authTag = AuthTag(c.key, p)
             /\ p = [ version |-> p.version, state |-> p.state, priority |-> p.priority,
                      deadFactor |-> p.deadFactor, interval |-> p.interval,
                      sequence |-> p.sequence, nodeId |-> p.nodeId,
                      groupId |-> p.groupId, authTag |-> p.authTag ]
<1> DEFINE untagged == [ version |-> c.version, state |-> state, priority |-> c.priority,
                         deadFactor |-> c.deadFactor, interval |-> c.interval,
                         sequence |-> sequence, nodeId |-> c.nodeId,
                         groupId |-> c.groupId, authTag |-> <<>> ]
           tag == AuthTag(c.key, untagged)
           p == BuildPacket(c, state, sequence)
<1>1. p = [ version |-> c.version, state |-> state, priority |-> c.priority,
            deadFactor |-> c.deadFactor, interval |-> c.interval,
            sequence |-> sequence, nodeId |-> c.nodeId,
            groupId |-> c.groupId, authTag |-> tag ]
  <2>1. p = [untagged EXCEPT !.authTag = tag]
    BY DEF BuildPacket
  <2> HIDE DEF tag
  <2> QED
    BY <2>1
<1>2. untagged.version = c.version /\ untagged.state = state
      /\ untagged.priority = c.priority /\ untagged.deadFactor = c.deadFactor
      /\ untagged.interval = c.interval /\ untagged.sequence = sequence
      /\ untagged.nodeId = c.nodeId /\ untagged.groupId = c.groupId
  OBVIOUS
<1> HIDE DEF untagged, p
<1>3. /\ p.version = c.version /\ p.state = state /\ p.priority = c.priority
      /\ p.deadFactor = c.deadFactor /\ p.interval = c.interval
      /\ p.sequence = sequence /\ p.nodeId = c.nodeId /\ p.groupId = c.groupId
      /\ p.authTag = tag
  <2> HIDE DEF tag
  <2> QED
    BY <1>1
<1>4. Digest(c.key, untagged) = Digest(c.key, p)
  BY <1>2, <1>3 DEF Digest
<1>5. tag = AuthTag(c.key, p)
  BY <1>4 DEF AuthTag
<1> QED
  BY <1>1, <1>3, <1>5 DEF p

\* What build_packet makes and encode accepts is a packet, whatever the digest is.
LEMMA SentPacket ==
  ASSUME NEW c \in Sender, NEW state \in HaState \ {"Init"}, NEW sequence \in Sequence,
         Sendable(c, state, sequence)
  PROVE  LET p == BuildPacket(c, state, sequence)
         IN  /\ p \in HaPacket /\ p # Malformed /\ Encodable(p)
             /\ Len(p.authTag) \in Nat /\ Len(p.authTag) <= TagLen
<1> DEFINE p == BuildPacket(c, state, sequence)
<1>1. /\ p.version = c.version /\ p.state = state /\ p.priority = c.priority
      /\ p.deadFactor = c.deadFactor /\ p.interval = c.interval
      /\ p.sequence = sequence /\ p.nodeId = c.nodeId /\ p.groupId = c.groupId
      /\ p.authTag = AuthTag(c.key, p)
      /\ p = [ version |-> p.version, state |-> p.state, priority |-> p.priority,
               deadFactor |-> p.deadFactor, interval |-> p.interval,
               sequence |-> p.sequence, nodeId |-> p.nodeId,
               groupId |-> p.groupId, authTag |-> p.authTag ]
  BY PacketFields
<1>2. c.interval < Base4 /\ Encodable(p)
  BY DEF Sendable
<1>3. c \in PacketSettings /\ sequence \in 0..(Base8 - 1) /\ Malformed \notin HaPacket
      /\ TagLen \in Nat
  BY WireAssumption
<1>4. c.key # NoKey => /\ Digest(c.key, p) \in Seq(Byte)
                       /\ Len(Digest(c.key, p)) = TagLen
  BY HashAssumption
<1> HIDE DEF p
<1>5. p.authTag \in Seq(Byte) /\ Len(p.authTag) \in Nat /\ Len(p.authTag) <= TagLen
  <2>1. CASE c.key = NoKey
    <3>1. p.authTag = <<>>
      BY <1>1, <2>1 DEF AuthTag
    <3>2. <<>> \in Seq(Byte) /\ Len(<<>>) = 0
      OBVIOUS
    <3> QED
      BY <1>3, <3>1, <3>2
  <2>2. CASE c.key # NoKey
    <3>1. p.authTag = Digest(c.key, p)
      BY <1>1, <2>2 DEF AuthTag
    <3> QED
      BY <1>3, <1>4, <2>2, <3>1
  <2> QED
    BY <2>1, <2>2
<1>6. /\ c.version \in Byte /\ c.priority \in Byte /\ c.deadFactor \in Byte
      /\ c.interval \in 0..(Base4 - 1) /\ c.nodeId \in Text /\ c.groupId \in Text
  <2>1. /\ c.version \in Byte /\ c.priority \in Byte /\ c.deadFactor \in Byte
        /\ c.interval \in Nat /\ c.nodeId \in Text /\ c.groupId \in Text
    BY <1>3 DEF PacketSettings
  <2> QED
    BY <1>2, <2>1, Bases
<1>7. p \in HaPacket
  BY <1>1, <1>3, <1>5, <1>6 DEF HaPacket
<1> QED
  BY <1>2, <1>3, <1>5, <1>7 DEF p

-----------------------------------------------------------------------------
(* The datagram *)

\* What has become of the datagram of the packet p.
OnWire(p) ==
  /\ damage \in {"none", "cut", "extended", "changed"}
  /\ damage = "none" => wire = Encode(p)
  /\ damage = "cut" => \E n \in 0..(Len(Encode(p)) - 1) : wire = SubSeq(Encode(p), 1, n)
  /\ damage = "extended" => \E byte \in Byte : wire = Append(Encode(p), byte)
  /\ damage = "changed" =>
       \E i \in DOMAIN Encode(p) : \E byte \in Byte \ {Encode(p)[i]} :
         wire = [Encode(p) EXCEPT ![i] = byte]

\* recv_from: as much of the datagram as the buffer holds.
Received(b) == SubSeq(b, 1, IF Len(b) <= BufferSize THEN Len(b) ELSE BufferSize)

\* The packet on its way is one that the sender could send.
Flight ==
  /\ phase = "sending" => damage = "none"
  /\ phase \in {"flying", "arrived"} =>
       /\ \E state \in HaState \ {"Init"}, sequence \in Sequence :
            Sendable(sender, state, sequence) /\ sent = BuildPacket(sender, state, sequence)
       /\ OnWire(sent)
  /\ phase = "arrived" => outcome = Decode(Received(wire))

\* Damage makes one of the three kinds of damaged datagrams.
LEMMA DamageKinds ==
  ASSUME Flight, Cut \/ Extend \/ Change
  PROVE  Flight'
<1>1. /\ phase = "flying" /\ phase' = "flying" /\ damage = "none"
      /\ UNCHANGED <<sender, sent>>
      /\ damage' \in {"cut", "extended", "changed"}
  BY DEF Cut, Extend, Change, Damage
<1>2. wire = Encode(sent)
  BY <1>1 DEF Flight, OnWire
<1>3. OnWire(sent)'
  <2>1. CASE Cut
    BY <1>1, <1>2, <2>1 DEF Cut, Damage, OnWire
  <2>2. CASE Extend
    BY <1>1, <1>2, <2>2 DEF Extend, Damage, OnWire
  <2>3. CASE Change
    BY <1>1, <1>2, <2>3 DEF Change, Damage, OnWire
  <2> QED
    BY <2>1, <2>2, <2>3
<1> QED
  BY <1>1, <1>3 DEF Flight

\* Each step keeps what is known of the datagram.
LEMMA FlightStep ==
  ASSUME Flight, Next
  PROVE  Flight' /\ UNCHANGED <<sender, receiver>>
<1>1. UNCHANGED <<sender, receiver>>
  BY DEF Next, Send, Cut, Extend, Change, Damage, Arrive
<1>2. ASSUME NEW state \in HaState \ {"Init"}, NEW sequence \in Sequence,
             Send(state, sequence)
      PROVE  Flight'
  <2>1. phase = "sending" /\ damage' = "none" /\ damage = "none"
    BY <1>2 DEF Send, Flight
  <2>2. CASE Sendable(sender, state, sequence)
    <3>1. /\ phase' = "flying" /\ wire' = Encode(sent')
          /\ sent' = BuildPacket(sender, state, sequence)
      BY <1>2, <2>2 DEF Send
    <3>2. OnWire(sent)'
      BY <2>1, <3>1 DEF OnWire
    <3> QED
      BY <1>1, <2>2, <3>1, <3>2 DEF Flight
  <2>3. CASE ~ Sendable(sender, state, sequence)
    <3>1. phase' = "fatal"
      BY <1>2, <2>3 DEF Send
    <3> QED
      BY <3>1 DEF Flight
  <2> QED
    BY <2>2, <2>3
<1>3. CASE Arrive
  <2>1. /\ phase = "flying" /\ phase' = "arrived" /\ UNCHANGED <<sent, wire, damage>>
        /\ outcome' = Decode(Received(wire))
    BY <1>3 DEF Arrive, Received
  <2>2. OnWire(sent)'
    BY <2>1 DEF Flight, OnWire
  <2>3. Received(wire)' = Received(wire)
    BY <2>1 DEF Received
  <2> QED
    BY <1>1, <2>1, <2>2, <2>3 DEF Flight
<1> QED
  BY <1>1, <1>2, <1>3, DamageKinds DEF Next

-----------------------------------------------------------------------------
(* What a datagram on its way is worth *)

\* The packet on its way is encodable, and framed.
LEMMA SentInFlight ==
  ASSUME Flight, sender \in Sender, phase \in {"flying", "arrived"}
  PROVE  /\ sent \in HaPacket /\ sent # Malformed /\ OnWire(sent)
         /\ Encode(sent) \in Seq(Byte) /\ Framed(Encode(sent)) /\ Decode(Encode(sent)) = sent
         /\ Len(Encode(sent)) <= Len(Magic) + 20 + 2 * MaxIdLen + TagLen
<1>1. PICK state \in HaState \ {"Init"}, sequence \in Sequence :
        Sendable(sender, state, sequence) /\ sent = BuildPacket(sender, state, sequence)
  BY DEF Flight
<1>2. /\ sent \in HaPacket /\ sent # Malformed /\ Encodable(sent)
      /\ Len(sent.authTag) \in Nat /\ Len(sent.authTag) <= TagLen
  BY <1>1, SentPacket
<1>3. /\ Encode(sent) \in Seq(Byte) /\ Framed(Encode(sent)) /\ Decode(Encode(sent)) = sent
      /\ Len(Encode(sent)) <= Len(Magic) + 20 + 2 * MaxIdLen + Len(sent.authTag)
  BY <1>2, Codec
<1>4. OnWire(sent)
  BY DEF Flight
<1>5. Len(Magic) \in Nat /\ MaxIdLen \in Nat /\ TagLen \in Nat /\ Len(Encode(sent)) \in Nat
  BY <1>3, WireAssumption
<1>6. Len(Encode(sent)) <= Len(Magic) + 20 + 2 * MaxIdLen + TagLen
  <2> DEFINE l == Len(Encode(sent))  m == Len(Magic)  t == Len(sent.authTag)
  <2>1. /\ l \in Nat /\ m \in Nat /\ t \in Nat /\ MaxIdLen \in Nat /\ TagLen \in Nat
        /\ t <= TagLen /\ l <= m + 20 + 2 * MaxIdLen + t
    BY <1>2, <1>3, <1>5
  <2> HIDE DEF l, m, t
  <2>2. l <= m + 20 + 2 * MaxIdLen + TagLen
    BY <2>1
  <2> QED
    BY <2>2 DEF l, m
<1> QED
  BY <1>2, <1>3, <1>4, <1>6

\* An undamaged datagram fits the buffer.
LEMMA FlightFits ==
  ASSUME Flight, sender \in Sender
  PROVE  FitsBuffer
<1> SUFFICES ASSUME phase = "flying", damage = "none"
             PROVE  Len(wire) <= BufferSize
  BY DEF FitsBuffer
<1>1. /\ wire = Encode(sent) /\ Encode(sent) \in Seq(Byte)
      /\ Len(wire) <= Len(Magic) + 20 + 2 * MaxIdLen + TagLen
  BY SentInFlight DEF OnWire
<1>2. Len(wire) \in Nat /\ Len(Magic) \in Nat
  BY <1>1, WireAssumption
<1>3. /\ MaxIdLen \in Nat /\ TagLen \in Nat /\ MaxAuthTagLen \in Nat /\ TagLen <= MaxAuthTagLen
      /\ BufferSize \in Nat /\ Len(Magic) + 20 + 2 * MaxIdLen + MaxAuthTagLen <= BufferSize
  BY WireAssumption
<1> QED
  BY <1>1, <1>2, <1>3

\* The buffer has room for one byte more than is ever sent, so that recv_from cuts
\* no datagram that has grown by a byte, either.
LEMMA Arrived ==
  ASSUME Flight, sender \in Sender, phase \in {"flying", "arrived"},
         TagLen < MaxAuthTagLen
  PROVE  /\ wire \in Seq(Byte) /\ Received(wire) = wire
         /\ damage = "none" => Decode(wire) = sent
         /\ damage \in {"cut", "extended"} => Decode(wire) = Malformed
         /\ damage = "changed" => Decode(wire) # sent
<1> DEFINE e == Encode(sent)
<1>1. /\ sent # Malformed /\ OnWire(sent) /\ e \in Seq(Byte) /\ Framed(e)
      /\ Decode(e) = sent /\ e = Encode(sent)
      /\ Len(e) <= Len(Magic) + 20 + 2 * MaxIdLen + TagLen
  BY SentInFlight
<1>2. /\ damage \in {"none", "cut", "extended", "changed"}
      /\ damage = "none" => wire = e
      /\ damage = "cut" => \E n \in 0..(Len(e) - 1) : wire = SubSeq(e, 1, n)
      /\ damage = "extended" => \E byte \in Byte : wire = Append(e, byte)
      /\ damage = "changed" =>
           \E i \in DOMAIN e : \E byte \in Byte \ {e[i]} : wire = [e EXCEPT ![i] = byte]
  BY <1>1 DEF OnWire
<1> HIDE DEF e
<1>3. Len(e) \in Nat /\ Len(e) + 1 <= BufferSize
  <2>1. /\ MaxIdLen \in Nat /\ TagLen \in Nat /\ MaxAuthTagLen \in Nat /\ Len(Magic) \in Nat
        /\ BufferSize \in Nat /\ Len(Magic) + 20 + 2 * MaxIdLen + MaxAuthTagLen <= BufferSize
    BY WireAssumption
  <2>2. Len(e) \in Nat
    BY <1>1
  <2> QED
    BY <1>1, <2>1, <2>2
<1>4. /\ wire \in Seq(Byte) /\ Len(wire) <= Len(e) + 1
      /\ damage = "none" => Decode(wire) = sent
      /\ damage \in {"cut", "extended"} => Decode(wire) = Malformed
      /\ damage = "changed" => Decode(wire) # sent
  <2>1. CASE damage = "none"
    BY <1>1, <1>2, <1>3, <2>1
  <2>2. CASE damage = "cut"
    <3>1. PICK n \in 0..(Len(e) - 1) : wire = SubSeq(e, 1, n)
      BY <1>2, <2>2
    <3>2. wire \in Seq(Byte) /\ Decode(wire) = Malformed
      BY <1>1, <3>1, CutIsMalformed
    <3>3. Len(wire) = n
      BY <1>1, <3>1
    <3> QED
      BY <1>3, <2>2, <3>2, <3>3
  <2>3. CASE damage = "extended"
    <3>1. PICK byte \in Byte : wire = Append(e, byte)
      BY <1>2, <2>3
    <3>2. wire \in Seq(Byte) /\ Len(wire) = Len(e) + 1 /\ Decode(wire) = Malformed
      BY <1>1, <3>1, ExtendedIsMalformed
    <3> QED
      BY <1>3, <2>3, <3>2
  <2>4. CASE damage = "changed"
    <3>1. PICK i \in DOMAIN e : \E byte \in Byte \ {e[i]} : wire = [e EXCEPT ![i] = byte]
      BY <1>2, <2>4
    <3>2. PICK byte \in Byte \ {e[i]} : wire = [e EXCEPT ![i] = byte]
      BY <3>1
    <3>3. wire \in Seq(Byte) /\ Len(wire) = Len(e) /\ Decode(wire) # sent
      BY <1>1, <3>2, ChangedIsAnother DEF e
    <3> QED
      BY <1>3, <2>4, <3>3
  <2> QED
    BY <1>2, <2>1, <2>2, <2>3, <2>4
<1>5. Received(wire) = wire
  <2>1. Len(wire) \in Nat /\ Len(wire) <= BufferSize
    <3>1. Len(wire) \in Nat /\ BufferSize \in Nat
      BY <1>4, WireAssumption
    <3> QED
      BY <1>3, <1>4, <3>1
  <2>2. SubSeq(wire, 1, Len(wire)) = wire
    BY <1>4
  <2> QED
    BY <2>1, <2>2 DEF Received
<1> QED
  BY <1>4, <1>5

\* The properties of the run, one by one.
LEMMA FlightRoundTrip ==
  ASSUME Flight, sender \in Sender, TagLen < MaxAuthTagLen
  PROVE  RoundTrip
<1> SUFFICES ASSUME phase = "arrived"
             PROVE  /\ damage = "none" => outcome = sent
                    /\ damage \in {"cut", "extended"} => outcome = Malformed
                    /\ damage \notin {"none", "cut", "extended"} => outcome # sent
  BY DEF RoundTrip
<1>1. outcome = Decode(wire)
  BY Arrived DEF Flight
<1>2. damage \in {"none", "cut", "extended", "changed"}
  BY SentInFlight DEF OnWire
<1> QED
  BY <1>1, <1>2, Arrived

LEMMA FlightDecodes ==
  ASSUME Flight, sender \in Sender, TagLen < MaxAuthTagLen
  PROVE  DecodesOnlyEncodings
<1> SUFFICES ASSUME phase = "arrived", outcome # Malformed
             PROVE  Encodable(outcome) /\ Encode(outcome) = wire
  BY DEF DecodesOnlyEncodings
<1>1. outcome = Decode(wire) /\ wire \in Seq(Byte)
  BY Arrived DEF Flight
<1> QED
  BY <1>1, DecodedIsEncoding

\* Whether a receiver accepts what a sender has sent.
LEMMA Agreement ==
  ASSUME NoCollision, NEW c \in Sender, NEW d \in Receiver,
         NEW state \in HaState \ {"Init"}, NEW sequence \in Sequence,
         Sendable(c, state, sequence)
  PROVE  Accepted(d, BuildPacket(c, state, sequence)) <=>
           /\ c.version = d.version /\ c.groupId = d.groupId
           /\ c.key = d.key /\ c.nodeId # d.nodeId
<1> DEFINE p == BuildPacket(c, state, sequence)
<1>1. /\ p.version = c.version /\ p.nodeId = c.nodeId /\ p.groupId = c.groupId
      /\ p.authTag = AuthTag(c.key, p)
  BY PacketFields
<1>2. p # Malformed
  BY SentPacket
<1>3. /\ c.key # NoKey => Len(Digest(c.key, p)) = TagLen
      /\ d.key # NoKey => Len(Digest(d.key, p)) = TagLen
  BY HashAssumption
<1>4. (c.key # d.key /\ c.key # NoKey /\ d.key # NoKey) => Digest(d.key, p) # Digest(c.key, p)
  BY DEF NoCollision
<1> HIDE DEF p
<1>5. AuthTag(d.key, p) = AuthTag(c.key, p) <=> c.key = d.key
  <2>1. Len(<<>>) = 0 /\ TagLen # 0
    <3>1. TagLen \in 1..MaxAuthTagLen
      BY WireAssumption
    <3> QED
      BY <3>1
  <2>2. CASE c.key = d.key
    BY <2>2
  <2>3. CASE c.key # d.key /\ c.key = NoKey
    BY <1>3, <2>1, <2>3 DEF AuthTag
  <2>4. CASE c.key # d.key /\ d.key = NoKey
    BY <1>3, <2>1, <2>4 DEF AuthTag
  <2>5. CASE c.key # d.key /\ c.key # NoKey /\ d.key # NoKey
    BY <1>4, <2>5 DEF AuthTag
  <2> QED
    BY <2>2, <2>3, <2>4, <2>5
<1>6. Accepted(d, p) <=>
        /\ c.version = d.version /\ c.groupId = d.groupId
        /\ c.key = d.key /\ c.nodeId # d.nodeId
  BY <1>1, <1>2, <1>5 DEF Accepted
<1> QED
  BY <1>6 DEF p

LEMMA FlightAgreement ==
  ASSUME Flight, sender \in Sender, receiver \in Receiver,
         TagLen < MaxAuthTagLen, NoCollision
  PROVE  AgreementDecides
<1> SUFFICES ASSUME phase = "arrived", damage = "none"
             PROVE  Accepted(receiver, outcome) <=>
                      /\ sender.version = receiver.version
                      /\ sender.groupId = receiver.groupId
                      /\ sender.key = receiver.key
                      /\ sender.nodeId # receiver.nodeId
  BY DEF AgreementDecides
<1>1. outcome = sent
  BY Arrived DEF Flight
<1>2. PICK state \in HaState \ {"Init"}, sequence \in Sequence :
        Sendable(sender, state, sequence) /\ sent = BuildPacket(sender, state, sequence)
  BY DEF Flight
<1> QED
  BY <1>1, <1>2, Agreement

-----------------------------------------------------------------------------
(* The theorems *)

WireInv == sender \in Sender /\ receiver \in Receiver /\ Flight

LEMMA InitWire == Init => WireInv
  BY DEF Init, WireInv, Flight

LEMMA NextWire == WireInv /\ [Next]_vars => WireInv'
<1> SUFFICES ASSUME WireInv, [Next]_vars PROVE WireInv'
  OBVIOUS
<1>1. CASE Next
  BY <1>1, FlightStep DEF WireInv
<1>2. CASE UNCHANGED vars
  BY <1>2 DEF vars, WireInv, Flight, OnWire, Received
<1> QED
  BY <1>1, <1>2

LEMMA WireIsInductive == Spec => []WireInv
  BY InitWire, NextWire, PTL DEF Spec

\* No advertisement is longer than the buffer it is received into, for every
\* magic, every limit and every configuration: recv_from never cuts one.
THEOREM EncodingFits == Spec => []FitsBuffer
<1>1. WireInv => FitsBuffer
  BY FlightFits DEF WireInv
<1> QED
  BY <1>1, WireIsInductive, PTL

\* For every base, every limit, every configuration and every digest: an undamaged
\* datagram decodes to the packet that was sent, one that was cut or that has grown is
\* refused, and a changed byte changes the packet or refuses it.  A digest is shorter than
\* MAX_AUTH_TAG_LEN, as the eight bytes of DefaultHasher are.
THEOREM PacketsRoundTrip ==
  ASSUME TagLen < MaxAuthTagLen
  PROVE  Spec => []RoundTrip
<1>1. WireInv => RoundTrip
  BY FlightRoundTrip DEF WireInv
<1> QED
  BY <1>1, WireIsInductive, PTL

\* decode accepts nothing that encode does not make, whatever has become of the
\* datagram on its way.
THEOREM DecodingIsStrict ==
  ASSUME TagLen < MaxAuthTagLen
  PROVE  Spec => []DecodesOnlyEncodings
<1>1. WireInv => DecodesOnlyEncodings
  BY FlightDecodes DEF WireInv
<1> QED
  BY <1>1, WireIsInductive, PTL

\* Version, group, key and id decide whether an advertisement is accepted, as long
\* as no two keys in use make the same digest.
THEOREM AgreementSuffices ==
  ASSUME TagLen < MaxAuthTagLen, NoCollision
  PROVE  Spec => []AgreementDecides
<1>1. WireInv => AgreementDecides
  BY FlightAgreement DEF WireInv
<1> QED
  BY <1>1, WireIsInductive, PTL
=============================================================================

--------------------------- MODULE LldpLinkProofs ---------------------------
(***************************************************************************)
(* The octets of a link, and the safety of the link itself.                 *)
(*                                                                          *)
(* What a sender writes, a monitor reads: an element, whatever its type and *)
(* value and whatever follows it, the three elements every announcement     *)
(* begins with, and the addresses behind them.  Octets may be any integers  *)
(* here, as nothing but headers and lengths is computed with.               *)
(*                                                                          *)
(* The link is safe for every value of the protocol constants, lag, loss    *)
(* and buffers that the assumptions of LldpLink allow.  Sender and table    *)
(* are tied together by two countdowns: the seconds until the next          *)
(* announcement reaches the listener, which the entry outlasts while the    *)
(* neighbour is steady, and the seconds until nothing is left of a          *)
(* neighbour that has stopped.  What the table says needs neither: it is    *)
(* what is proved of a frame, carried through the map.                      *)
(***************************************************************************)
EXTENDS LldpLink, LldpSenderProofs, SequenceTheorems, WellFoundedInduction

----------------------------------------------------------------------------
(* Elements of a data unit.                                                 *)

\* The two octets of a number.
LEMMA HeaderOctets ==
    ASSUME NEW n \in Int
    PROVE  /\ htons(n) \in Seq(Int)
           /\ Len(htons(n)) = 2
           /\ ntohs(htons(n)) = n
<1>1. n \div 256 \in Int /\ (n % 256) \in Int
  OBVIOUS
<1>2. 256 * (n \div 256) + (n % 256) = n
  OBVIOUS
<1> QED
  BY <1>1, <1>2 DEF htons, ntohs

\* Type and length share a header.
LEMMA HeaderParts ==
    ASSUME NEW type \in Nat, NEW length \in Nat, length < LENGTH_RANGE
    PROVE  LET n == type * LENGTH_RANGE + length
           IN  n \in Int /\ (n % LENGTH_RANGE) = length /\ n \div LENGTH_RANGE = type
  BY DEF LENGTH_RANGE

\* The parts of a sequence made of two.
LEMMA TwoParts ==
    ASSUME NEW a \in Seq(Int), NEW b \in Seq(Int)
    PROVE  /\ a \o b \in Seq(Int)
           /\ Len(a \o b) = Len(a) + Len(b)
           /\ \A k \in 1..Len(a) : (a \o b)[k] = a[k]
           /\ \A k \in 1..Len(b) : (a \o b)[Len(a) + k] = b[k]
<1>1. /\ a \o b \in Seq(Int)
      /\ Len(a \o b) = Len(a) + Len(b)
      /\ \A k \in 1..Len(a) + Len(b) :
             (a \o b)[k] = IF k <= Len(a) THEN a[k] ELSE b[k - Len(a)]
  BY ConcatProperties
<1>2. Len(a) \in Nat /\ Len(b) \in Nat
  OBVIOUS
<1>3. ASSUME NEW k \in 1..Len(a) PROVE (a \o b)[k] = a[k]
  <2>1. k \in 1..Len(a) + Len(b) /\ k <= Len(a)
    BY <1>2
  <2> QED
    BY <1>1, <2>1
<1>4. ASSUME NEW k \in 1..Len(b) PROVE (a \o b)[Len(a) + k] = b[k]
  <2> DEFINE j == Len(a) + k
  <2>1. j \in 1..Len(a) + Len(b) /\ ~(j <= Len(a)) /\ j - Len(a) = k
    BY <1>2
  <2> HIDE DEF j
  <2>2. (a \o b)[j] = b[j - Len(a)]
    BY <1>1, <2>1
  <2> QED
    BY <2>1, <2>2 DEF j
<1> QED
  BY <1>1, <1>3, <1>4

\* What is read from a place in a sequence on, if it is what one looks for.
LEMMA PartIs ==
    ASSUME NEW s \in Seq(Int), NEW part \in Seq(Int), NEW n \in Nat,
           n + Len(part) <= Len(s),
           \A k \in 1..Len(part) : s[n + k] = part[k]
    PROVE  SubSeq(s, n + 1, n + Len(part)) = part
<1> DEFINE found == SubSeq(s, n + 1, n + Len(part))
<1>1. Len(part) \in Nat /\ Len(s) \in Nat
  OBVIOUS
<1>2. \A k \in n + 1 .. n + Len(part) : s[k] \in Int
  BY <1>1
<1>3. /\ found \in Seq(Int) /\ Len(found) = Len(part)
      /\ \A k \in 1 .. (n + Len(part)) - (n + 1) + 1 : found[k] = s[n + 1 + k - 1]
  BY <1>1, <1>2, SubSeqProperties
<1> HIDE DEF found
<1>4. ASSUME NEW k \in 1..Len(part) PROVE found[k] = part[k]
  <2>1. k \in 1 .. (n + Len(part)) - (n + 1) + 1 /\ n + 1 + k - 1 = n + k
    BY <1>1
  <2> QED
    BY <1>3, <2>1
<1>5. found = part
  BY <1>3, <1>4, SeqEqual
<1> QED
  BY <1>5 DEF found

\* An element that has been written is read back as it was, and what follows it
\* is left for the next one (LLDPDUTypeLengthValue::ToFrameBuffer, FromSpan).
THEOREM ElementReadBack ==
    ASSUME NEW type \in Nat,
           NEW value \in Seq(Int), Len(value) < LENGTH_RANGE,
           NEW rest \in Seq(Int)
    PROVE  LET tlv   == [type |-> type, value |-> value]
               bytes == ToFrameBuffer(tlv) \o rest
           IN  FromSpan(bytes) = tlv /\ Behind(bytes) = rest
<1> DEFINE tlv    == [type |-> type, value |-> value]
           header == htons(type * LENGTH_RANGE + Len(value))
           bytes  == (header \o value) \o rest
<1>1. /\ header \in Seq(Int)
      /\ Len(header) = 2
      /\ (ntohs(header) % LENGTH_RANGE) = Len(value)
      /\ ntohs(header) \div LENGTH_RANGE = type
  BY HeaderParts, HeaderOctets
<1>2. bytes = ToFrameBuffer(tlv) \o rest
  BY DEF ToFrameBuffer
<1> HIDE DEF header
<1>3. /\ bytes \in Seq(Int)
      /\ Len(bytes) = 2 + Len(value) + Len(rest)
      /\ bytes[1] = header[1] /\ bytes[2] = header[2]
      /\ SubSeq(bytes, 3, 2 + Len(value)) = value
      /\ SubSeq(bytes, 3 + Len(value), Len(bytes)) = rest
  <2> DEFINE front == header \o value
  <2>1. /\ front \in Seq(Int) /\ Len(front) = 2 + Len(value)
        /\ \A k \in 1..2 : front[k] = header[k]
        /\ \A k \in 1..Len(value) : front[2 + k] = value[k]
    <3>1. /\ front \in Seq(Int) /\ Len(front) = Len(header) + Len(value)
          /\ \A k \in 1..Len(header) : front[k] = header[k]
          /\ \A k \in 1..Len(value) : front[Len(header) + k] = value[k]
      BY <1>1, TwoParts
    <3> HIDE DEF front
    <3> QED
      BY <1>1, <3>1
  <2> HIDE DEF front
  <2>2. /\ front \o rest \in Seq(Int)
        /\ Len(front \o rest) = Len(front) + Len(rest)
        /\ \A k \in 1..Len(front) : (front \o rest)[k] = front[k]
        /\ \A k \in 1..Len(rest) : (front \o rest)[Len(front) + k] = rest[k]
    BY <2>1, TwoParts
  <2>3. bytes = front \o rest
    BY DEF front
  <2> HIDE DEF bytes
  <2>4. Len(value) \in Nat /\ Len(rest) \in Nat
    OBVIOUS
  <2>5. ASSUME NEW k \in 1..Len(value) PROVE bytes[2 + k] = value[k]
    <3>1. 2 + k \in 1..Len(front)
      BY <2>1, <2>4
    <3> QED
      BY <2>1, <2>2, <2>3, <3>1
  <2>6. SubSeq(bytes, 2 + 1, 2 + Len(value)) = value
    <3>1. bytes \in Seq(Int) /\ 2 + Len(value) <= Len(bytes)
      BY <2>1, <2>2, <2>3, <2>4
    <3>2. \A k \in 1..Len(value) : bytes[2 + k] = value[k]
      BY <2>5
    <3> QED
      BY <3>1, <3>2, PartIs
  <2>7. \A k \in 1..Len(rest) : bytes[2 + Len(value) + k] = rest[k]
    BY <2>1, <2>2, <2>3
  <2>8. SubSeq(bytes, (2 + Len(value)) + 1, (2 + Len(value)) + Len(rest)) = rest
    BY <2>1, <2>2, <2>3, <2>4, <2>7, PartIs
  <2>9. bytes[1] = header[1] /\ bytes[2] = header[2]
    <3>1. 1 \in 1..Len(front) /\ 2 \in 1..Len(front)
      BY <2>1, <2>4
    <3> QED
      BY <2>1, <2>2, <2>3, <3>1
  <2>10. 2 + 1 = 3 /\ (2 + Len(value)) + 1 = 3 + Len(value)
    BY <2>4
  <2> QED
    BY <2>1, <2>2, <2>3, <2>6, <2>8, <2>9, <2>10
<1> HIDE DEF bytes, header
<1>4. LengthOf(bytes) = Len(value) /\ TypeOf(bytes) = type
  BY <1>1, <1>3 DEF LengthOf, TypeOf, ntohs
<1>5. Fits(bytes)
  BY <1>3, <1>4 DEF Fits
<1> QED
  BY <1>2, <1>3, <1>4, <1>5 DEF FromSpan, Behind

\* An element that can be written: its length fits into the header.
Element == {tlv \in [type : Nat, value : Seq(Int)] : Len(tlv.value) < LENGTH_RANGE}

LEMMA IsElement ==
    ASSUME NEW type \in Nat, NEW value \in Seq(Int), Len(value) < LENGTH_RANGE
    PROVE  [type |-> type, value |-> value] \in Element
  BY DEF Element

\* The same as above, for an element as a record.
LEMMA ElementStep ==
    ASSUME NEW tlv \in Element, NEW rest \in Seq(Int)
    PROVE  /\ ToFrameBuffer(tlv) \o rest \in Seq(Int)
           /\ FromSpan(ToFrameBuffer(tlv) \o rest) = tlv
           /\ Behind(ToFrameBuffer(tlv) \o rest) = rest
<1>1. /\ tlv.type \in Nat /\ tlv.value \in Seq(Int) /\ Len(tlv.value) < LENGTH_RANGE
      /\ tlv = [type |-> tlv.type, value |-> tlv.value]
  BY DEF Element
<1>2. /\ FromSpan(ToFrameBuffer(tlv) \o rest) = tlv
      /\ Behind(ToFrameBuffer(tlv) \o rest) = rest
  BY <1>1, ElementReadBack
<1>3. tlv.type * LENGTH_RANGE + Len(tlv.value) \in Int
  BY <1>1 DEF LENGTH_RANGE
<1>4. htons(tlv.type * LENGTH_RANGE + Len(tlv.value)) \in Seq(Int)
  BY <1>3, HeaderOctets
<1>5. ToFrameBuffer(tlv) \in Seq(Int)
  BY <1>1, <1>4, TwoParts DEF ToFrameBuffer
<1> QED
  BY <1>2, <1>5, TwoParts

\* The three elements every announcement begins with can be written.
LEMMA MandatoryElements ==
    ASSUME NEW machine_id, machine_id \in Seq(Int), Len(machine_id) + 1 < LENGTH_RANGE,
           NEW f, f.mac \in Seq(Int), Len(f.mac) + 1 < LENGTH_RANGE, f.ttl \in Nat,
           NEW if_index
    PROVE  LET frame == constructFrame(machine_id, f, if_index)
           IN  /\ frame.chassis_id \in Element /\ frame.chassis_id.type = CHASSIS_ID
               /\ frame.chassis_id.value = ChassisValue(machine_id)
               /\ frame.port_id \in Element /\ frame.port_id.type = PORT_ID
               /\ frame.port_id.value = PortValue(f.mac)
               /\ frame.time_to_live \in Element /\ frame.time_to_live.type = TIME_TO_LIVE
               /\ ntohs(frame.time_to_live.value) = f.ttl
<1> DEFINE c == ChassisValue(machine_id)
           p == PortValue(f.mac)
           t == htons(f.ttl)
<1>1. c \in Seq(Int) /\ Len(c) < LENGTH_RANGE
  <2> DEFINE x == <<PORT_TLV_SUBTYPE_LOCAL>>
  <2>1. x \in Seq(Int) /\ Len(x) = 1
    BY DEF PORT_TLV_SUBTYPE_LOCAL
  <2>2. c = x \o machine_id
    BY DEF ChassisValue
  <2> HIDE DEF x, c
  <2>3. x \o machine_id \in Seq(Int) /\ Len(x \o machine_id) = Len(x) + Len(machine_id)
    BY <2>1, TwoParts
  <2> QED
    BY <2>1, <2>2, <2>3
<1>2. p \in Seq(Int) /\ Len(p) < LENGTH_RANGE
  <2> DEFINE x == <<PORT_TLV_SUBTYPE_MAC>>
             mac == f.mac
  <2>1. x \in Seq(Int) /\ Len(x) = 1 /\ mac \in Seq(Int) /\ Len(mac) + 1 < LENGTH_RANGE
    BY DEF PORT_TLV_SUBTYPE_MAC
  <2>2. p = x \o mac
    BY DEF PortValue
  <2> HIDE DEF x, p, mac
  <2>3. x \o mac \in Seq(Int) /\ Len(x \o mac) = Len(x) + Len(mac)
    BY <2>1, TwoParts
  <2> QED
    BY <2>1, <2>2, <2>3
<1>3. t \in Seq(Int) /\ Len(t) < LENGTH_RANGE /\ ntohs(t) = f.ttl
  <2>1. htons(f.ttl) \in Seq(Int) /\ Len(htons(f.ttl)) = 2 /\ ntohs(htons(f.ttl)) = f.ttl
    BY HeaderOctets
  <2> QED
    BY <2>1 DEF LENGTH_RANGE
<1>4. /\ constructFrame(machine_id, f, if_index).chassis_id = [type |-> CHASSIS_ID, value |-> c]
      /\ constructFrame(machine_id, f, if_index).port_id = [type |-> PORT_ID, value |-> p]
      /\ constructFrame(machine_id, f, if_index).time_to_live = [type |-> TIME_TO_LIVE, value |-> t]
  BY DEF constructFrame
<1> HIDE DEF c, p, t
<1>5. CHASSIS_ID \in Nat /\ PORT_ID \in Nat /\ TIME_TO_LIVE \in Nat
  BY DEF CHASSIS_ID, PORT_ID, TIME_TO_LIVE
<1>6. /\ [type |-> CHASSIS_ID, value |-> c] \in Element
      /\ [type |-> PORT_ID, value |-> p] \in Element
      /\ [type |-> TIME_TO_LIVE, value |-> t] \in Element
  BY <1>1, <1>2, <1>3, <1>5, IsElement
<1> QED
  BY <1>3, <1>4, <1>6 DEF c, p

\* A monitor reads from an announcement the chassis, the port and the time to
\* live that its sender put in, whatever optional elements follow them
\* (LLDPDataUnit::ToFrameBuffer, FromSpan; constructFrame).
THEOREM AnnouncementReadBack ==
    ASSUME None \notin [type : Nat, value : Seq(Int)],
           NEW machine_id, machine_id \in Seq(Int), Len(machine_id) + 1 < LENGTH_RANGE,
           NEW f, f.mac \in Seq(Int), Len(f.mac) + 1 < LENGTH_RANGE, f.ttl \in Nat,
           NEW if_index,
           NEW rest, rest \in Seq(Int)
    PROVE  LET frame == constructFrame(machine_id, f, if_index)
               unit  == DataUnitFromSpan(ToFrameBuffer(frame.chassis_id) \o
                            (ToFrameBuffer(frame.port_id) \o
                                (ToFrameBuffer(frame.time_to_live) \o rest)))
           IN  /\ unit = [chassis_id   |-> frame.chassis_id,
                          port_id      |-> frame.port_id,
                          time_to_live |-> frame.time_to_live,
                          optional_tlv |-> OptionalTlvs(rest)]
               /\ ntohs(unit.time_to_live.value) = f.ttl
<1> DEFINE frame   == constructFrame(machine_id, f, if_index)
           chassis == frame.chassis_id
           port    == frame.port_id
           ttl     == frame.time_to_live
           third   == ToFrameBuffer(ttl) \o rest
           second  == ToFrameBuffer(port) \o third
           bytes   == ToFrameBuffer(chassis) \o second
<1>1. /\ chassis \in Element /\ chassis.type = CHASSIS_ID
      /\ port \in Element /\ port.type = PORT_ID
      /\ ttl \in Element /\ ttl.type = TIME_TO_LIVE
      /\ ntohs(ttl.value) = f.ttl
  BY MandatoryElements
<1> HIDE DEF chassis, port, ttl
<1>2. third \in Seq(Int) /\ FromSpan(third) = ttl /\ Behind(third) = rest
  BY <1>1, ElementStep
<1> HIDE DEF third
<1>3. second \in Seq(Int) /\ FromSpan(second) = port /\ Behind(second) = third
  BY <1>1, <1>2, ElementStep
<1> HIDE DEF second
<1>4. FromSpan(bytes) = chassis /\ Behind(bytes) = second
  BY <1>1, <1>3, ElementStep
<1> HIDE DEF bytes
<1>5. /\ IsTlv(chassis, CHASSIS_ID)
      /\ IsTlv(port, PORT_ID)
      /\ IsTlv(ttl, TIME_TO_LIVE)
  <2>1. chassis # None /\ port # None /\ ttl # None
    BY <1>1 DEF Element
  <2> QED
    BY <1>1, <2>1 DEF IsTlv
<1>6. DataUnitFromSpan(bytes) =
          [chassis_id |-> chassis, port_id |-> port, time_to_live |-> ttl,
           optional_tlv |-> OptionalTlvs(rest)]
  BY <1>2, <1>3, <1>4, <1>5 DEF DataUnitFromSpan
<1>7. DataUnitFromSpan(bytes).time_to_live = ttl
  BY <1>6
<1> QED
  BY <1>1, <1>6, <1>7 DEF bytes, second, third, chassis, port, ttl

----------------------------------------------------------------------------
(* The whole data unit, which FlattenSeq puts together from left to right.  *)

Flattens(N, s, g) ==
    g = [i \in 1..N |-> IF i = 1 THEN s[i] ELSE g[i - 1] \o s[i]]

\* The value of FlattenSeq, once it is known to have one.
LEMMA FlattenBy ==
    ASSUME NEW s, NEW N \in Nat \ {0}, Len(s) = N, NEW h, Flattens(N, s, h)
    PROVE  \E g : Flattens(N, s, g) /\ FlattenSeq(s) = g[N]
<1> DEFINE flatten == CHOOSE g : Flattens(N, s, g)
<1>1. FlattenSeq(s) = flatten[N]
  BY DEF FlattenSeq, Flattens
<1>2. Flattens(N, s, flatten)
  OBVIOUS
<1> QED
  BY <1>1, <1>2

LEMMA FlattenFour ==
    ASSUME NEW s, Len(s) = 4
    PROVE  FlattenSeq(s) = ((s[1] \o s[2]) \o s[3]) \o s[4]
<1> DEFINE h == [i \in 1..4 |-> IF i = 1 THEN s[1] ELSE IF i = 2 THEN s[1] \o s[2]
                                ELSE IF i = 3 THEN (s[1] \o s[2]) \o s[3]
                                ELSE ((s[1] \o s[2]) \o s[3]) \o s[4]]
<1>2. h = [i \in 1..4 |-> h[i]] /\ h[1] = s[1] /\ h[2] = s[1] \o s[2] /\ h[3] = (s[1] \o s[2]) \o s[3] /\ h[4] = ((s[1] \o s[2]) \o s[3]) \o s[4]
  OBVIOUS
<1>3. \A i \in 1..4 : i = 1 \/ i = 2 \/ i = 3 \/ i = 4
  OBVIOUS
<1> HIDE DEF h
<1>4. ASSUME NEW i \in 1..4 PROVE h[i] = IF i = 1 THEN s[i] ELSE h[i - 1] \o s[i]
  <2>1. CASE i = 1
    BY <1>2, <2>1
  <2>2. CASE i = 2
    <3>1. i # 1 /\ i - 1 = 1
      BY <2>2
    <3> QED
      BY <1>2, <2>2, <3>1
  <2>3. CASE i = 3
    <3>1. i # 1 /\ i - 1 = 2
      BY <2>3
    <3> QED
      BY <1>2, <2>3, <3>1
  <2>4. CASE i = 4
    <3>1. i # 1 /\ i - 1 = 3
      BY <2>4
    <3> QED
      BY <1>2, <2>4, <3>1
  <2> QED
    BY <1>3, <2>1, <2>2, <2>3, <2>4
<1>5. Flattens(4, s, h)
  <2>1. [i \in 1..4 |-> h[i]] =
            [i \in 1..4 |-> IF i = 1 THEN s[i] ELSE h[i - 1] \o s[i]]
    BY <1>4
  <2> QED
    BY <1>2, <2>1 DEF Flattens
<1>6. PICK g : Flattens(4, s, g) /\ FlattenSeq(s) = g[4]
  <2>1. 4 \in Nat \ {0} /\ Len(s) = 4
    OBVIOUS
  <2> QED
    BY <1>5, <2>1, FlattenBy
<1>7. \A i \in 1..4 : g[i] = IF i = 1 THEN s[i] ELSE g[i - 1] \o s[i]
  BY <1>6 DEF Flattens
<1>8. g[1] = s[1] /\ g[2] = g[1] \o s[2] /\ g[3] = g[2] \o s[3] /\ g[4] = g[3] \o s[4]
  <2>1. g[1] = s[1]
    BY <1>7
  <2>2. g[2] = g[1] \o s[2]
    <3>1. 2 \in 1..4 /\ 2 # 1 /\ 2 - 1 = 1
      OBVIOUS
    <3> QED
      BY <1>7, <3>1
  <2>3. g[3] = g[2] \o s[3]
    <3>1. 3 \in 1..4 /\ 3 # 1 /\ 3 - 1 = 2
      OBVIOUS
    <3> QED
      BY <1>7, <3>1
  <2>4. g[4] = g[3] \o s[4]
    <3>1. 4 \in 1..4 /\ 4 # 1 /\ 4 - 1 = 3
      OBVIOUS
    <3> QED
      BY <1>7, <3>1
  <2> QED
    BY <2>1, <2>2, <2>3, <2>4
<1> QED
  BY <1>6, <1>8

LEMMA FlattenFive ==
    ASSUME NEW s, Len(s) = 5
    PROVE  FlattenSeq(s) = (((s[1] \o s[2]) \o s[3]) \o s[4]) \o s[5]
<1> DEFINE h == [i \in 1..5 |-> IF i = 1 THEN s[1] ELSE IF i = 2 THEN s[1] \o s[2]
                                ELSE IF i = 3 THEN (s[1] \o s[2]) \o s[3]
                                ELSE IF i = 4 THEN ((s[1] \o s[2]) \o s[3]) \o s[4]
                                ELSE (((s[1] \o s[2]) \o s[3]) \o s[4]) \o s[5]]
<1>2. h = [i \in 1..5 |-> h[i]] /\ h[1] = s[1] /\ h[2] = s[1] \o s[2] /\ h[3] = (s[1] \o s[2]) \o s[3] /\ h[4] = ((s[1] \o s[2]) \o s[3]) \o s[4] /\ h[5] = (((s[1] \o s[2]) \o s[3]) \o s[4]) \o s[5]
  OBVIOUS
<1>3. \A i \in 1..5 : i = 1 \/ i = 2 \/ i = 3 \/ i = 4 \/ i = 5
  OBVIOUS
<1> HIDE DEF h
<1>4. ASSUME NEW i \in 1..5 PROVE h[i] = IF i = 1 THEN s[i] ELSE h[i - 1] \o s[i]
  <2>1. CASE i = 1
    BY <1>2, <2>1
  <2>2. CASE i = 2
    <3>1. i # 1 /\ i - 1 = 1
      BY <2>2
    <3> QED
      BY <1>2, <2>2, <3>1
  <2>3. CASE i = 3
    <3>1. i # 1 /\ i - 1 = 2
      BY <2>3
    <3> QED
      BY <1>2, <2>3, <3>1
  <2>4. CASE i = 4
    <3>1. i # 1 /\ i - 1 = 3
      BY <2>4
    <3> QED
      BY <1>2, <2>4, <3>1
  <2>5. CASE i = 5
    <3>1. i # 1 /\ i - 1 = 4
      BY <2>5
    <3> QED
      BY <1>2, <2>5, <3>1
  <2> QED
    BY <1>3, <2>1, <2>2, <2>3, <2>4, <2>5
<1>5. Flattens(5, s, h)
  <2>1. [i \in 1..5 |-> h[i]] =
            [i \in 1..5 |-> IF i = 1 THEN s[i] ELSE h[i - 1] \o s[i]]
    BY <1>4
  <2> QED
    BY <1>2, <2>1 DEF Flattens
<1>6. PICK g : Flattens(5, s, g) /\ FlattenSeq(s) = g[5]
  <2>1. 5 \in Nat \ {0} /\ Len(s) = 5
    OBVIOUS
  <2> QED
    BY <1>5, <2>1, FlattenBy
<1>7. \A i \in 1..5 : g[i] = IF i = 1 THEN s[i] ELSE g[i - 1] \o s[i]
  BY <1>6 DEF Flattens
<1>8. g[1] = s[1] /\ g[2] = g[1] \o s[2] /\ g[3] = g[2] \o s[3] /\ g[4] = g[3] \o s[4] /\ g[5] = g[4] \o s[5]
  <2>1. g[1] = s[1]
    BY <1>7
  <2>2. g[2] = g[1] \o s[2]
    <3>1. 2 \in 1..5 /\ 2 # 1 /\ 2 - 1 = 1
      OBVIOUS
    <3> QED
      BY <1>7, <3>1
  <2>3. g[3] = g[2] \o s[3]
    <3>1. 3 \in 1..5 /\ 3 # 1 /\ 3 - 1 = 2
      OBVIOUS
    <3> QED
      BY <1>7, <3>1
  <2>4. g[4] = g[3] \o s[4]
    <3>1. 4 \in 1..5 /\ 4 # 1 /\ 4 - 1 = 3
      OBVIOUS
    <3> QED
      BY <1>7, <3>1
  <2>5. g[5] = g[4] \o s[5]
    <3>1. 5 \in 1..5 /\ 5 # 1 /\ 5 - 1 = 4
      OBVIOUS
    <3> QED
      BY <1>7, <3>1
  <2> QED
    BY <2>1, <2>2, <2>3, <2>4, <2>5
<1> QED
  BY <1>6, <1>8


\* The octets of an element.
LEMMA ElementOctets ==
    ASSUME NEW tlv \in Element
    PROVE  ToFrameBuffer(tlv) \in Seq(Int)
<1>1. tlv.type \in Nat /\ tlv.value \in Seq(Int) /\ Len(tlv.value) \in Nat
  BY DEF Element
<1>2. tlv.type * LENGTH_RANGE + Len(tlv.value) \in Int
  BY <1>1 DEF LENGTH_RANGE
<1>3. htons(tlv.type * LENGTH_RANGE + Len(tlv.value)) \in Seq(Int)
  BY <1>2, HeaderOctets
<1> QED
  BY <1>1, <1>3, TwoParts DEF ToFrameBuffer

LEMMA Associative ==
    \A x, y, z \in Seq(Int) : (x \o y) \o z = x \o (y \o z)
  BY ConcatAssociative, SMTT(30)

FromLeft(a, b, c, d, e) == (((a \o b) \o c) \o d) \o e
FromRight(a, b, c, d, e) == a \o (b \o (c \o (d \o e)))

LEMMA Regroup ==
    ASSUME NEW a, NEW b, NEW c, NEW d, NEW e,
           a \in Seq(Int), b \in Seq(Int), c \in Seq(Int), d \in Seq(Int), e \in Seq(Int)
    PROVE  FromLeft(a, b, c, d, e) = FromRight(a, b, c, d, e)
<1> DEFINE ab == a \o b
           abc == ab \o c
           de == d \o e
           cde == c \o de
<1>1. ab \in Seq(Int) /\ abc \in Seq(Int) /\ de \in Seq(Int) /\ cde \in Seq(Int)
  <2>1. ab \in Seq(Int) /\ de \in Seq(Int)
    OBVIOUS
  <2> HIDE DEF ab, de
  <2> QED
    BY <2>1
<1>2. FromLeft(a, b, c, d, e) = (abc \o d) \o e
  BY DEF FromLeft
<1>3. FromRight(a, b, c, d, e) = a \o (b \o cde)
  BY DEF FromRight
<1>4. (abc \o d) \o e = abc \o de
  <2>1. abc \in Seq(Int) /\ d \in Seq(Int) /\ e \in Seq(Int)
    BY <1>1
  <2> HIDE DEF abc
  <2> QED  BY ONLY <2>1, Associative
<1>5. abc \o de = ab \o cde
  <2>1. ab \in Seq(Int) /\ c \in Seq(Int) /\ de \in Seq(Int)
    BY <1>1
  <2> HIDE DEF ab, de
  <2> QED  BY ONLY <2>1, Associative
<1>6. ab \o cde = a \o (b \o cde)
  <2>1. a \in Seq(Int) /\ b \in Seq(Int) /\ cde \in Seq(Int)
    BY <1>1
  <2> HIDE DEF cde
  <2> QED  BY ONLY <2>1, Associative
<1> HIDE DEF ab, abc, de, cde
<1> QED
  BY <1>2, <1>3, <1>4, <1>5, <1>6

\* The elements of a data unit in one sequence.
LEMMA Elements ==
    \A s, t \in Seq(Element) :
        /\ s \o t \in Seq(Element)
        /\ Len(s \o t) = Len(s) + Len(t)
        /\ \A i \in 1..Len(s) + Len(t) :
               (s \o t)[i] = IF i <= Len(s) THEN s[i] ELSE t[i - Len(s)]
  BY ConcatProperties

\* LLDPDataUnit::ToFrameBuffer with one optional element.
LEMMA UnitOfOne ==
    ASSUME NEW unit, NEW m, unit.optional_tlv = <<m>>,
           unit.chassis_id \in Element, unit.port_id \in Element,
           unit.time_to_live \in Element, m \in Element
    PROVE  DataUnitToFrameBuffer(unit) =
              ToFrameBuffer(unit.chassis_id) \o
                (ToFrameBuffer(unit.port_id) \o
                  (ToFrameBuffer(unit.time_to_live) \o (ToFrameBuffer(m) \o <<0, 0>>)))
<1> DEFINE chassis == unit.chassis_id
           port == unit.port_id
           ttl == unit.time_to_live
           tlvs == <<chassis, port, ttl>> \o <<m>>
           A == ToFrameBuffer(chassis)
           B == ToFrameBuffer(port)
           C == ToFrameBuffer(ttl)
           D == ToFrameBuffer(m)
           E == <<0, 0>>
<1>1. /\ A \in Seq(Int) /\ B \in Seq(Int) /\ C \in Seq(Int) /\ D \in Seq(Int)
      /\ E \in Seq(Int)
  BY ElementOctets
<1>2. DataUnitToFrameBuffer(unit) =
         FlattenSeq([k \in DOMAIN tlvs |-> ToFrameBuffer(tlvs[k])]) \o E
  BY DEF DataUnitToFrameBuffer
<1>3. DOMAIN tlvs = 1..4 /\ tlvs[1] = chassis /\ tlvs[2] = port /\ tlvs[3] = ttl /\ tlvs[4] = m
  <2> DEFINE u == <<chassis, port, ttl>>
             v == <<m>>
  <2>1. u \in Seq(Element) /\ Len(u) = 3 /\ u[1] = chassis /\ u[2] = port /\ u[3] = ttl
        /\ v \in Seq(Element) /\ Len(v) = 1 /\ v[1] = m
    OBVIOUS
  <2>2. tlvs = u \o v
    OBVIOUS
  <2> HIDE DEF u, v, chassis, port, ttl
  <2>3. tlvs \in Seq(Element) /\ Len(tlvs) = 4
        /\ \A i \in 1..4 : tlvs[i] = IF i <= 3 THEN u[i] ELSE v[i - 3]
    <3> HIDE DEF tlvs
    <3> QED  BY <2>1, <2>2, Elements
  <2> HIDE DEF tlvs
  <2> QED
    BY <2>1, <2>3
<1> DEFINE parts == [k \in DOMAIN tlvs |-> ToFrameBuffer(tlvs[k])]
<1>4. Len(parts) = 4 /\ parts[1] = A /\ parts[2] = B /\ parts[3] = C /\ parts[4] = D
  <2> HIDE DEF chassis, port, ttl, tlvs
  <2>1. DOMAIN parts = 1..4
    BY <1>3
  <2> QED
    BY <1>3, <2>1
<1> HIDE DEF A, B, C, D, E, tlvs, parts
<1>5. DataUnitToFrameBuffer(unit) = (((A \o B) \o C) \o D) \o E
  <2>1. FlattenSeq(parts) = ((A \o B) \o C) \o D
    BY <1>4, FlattenFour
  <2> QED
    BY <1>2, <2>1 DEF parts
<1>6. FromLeft(A, B, C, D, E) = FromRight(A, B, C, D, E)
  BY <1>1, Regroup
<1> QED
  BY <1>5, <1>6 DEF FromLeft, FromRight, A, B, C, D, E

\* With two, one for each kind of address.
LEMMA UnitOfTwo ==
    ASSUME NEW unit, NEW m, NEW n, unit.optional_tlv = <<m>> \o <<n>>,
           unit.chassis_id \in Element, unit.port_id \in Element,
           unit.time_to_live \in Element, m \in Element, n \in Element
    PROVE  DataUnitToFrameBuffer(unit) =
              ToFrameBuffer(unit.chassis_id) \o
                (ToFrameBuffer(unit.port_id) \o
                  (ToFrameBuffer(unit.time_to_live) \o
                      (ToFrameBuffer(m) \o (ToFrameBuffer(n) \o <<0, 0>>))))
<1> DEFINE chassis == unit.chassis_id
           port == unit.port_id
           ttl == unit.time_to_live
           tlvs == <<chassis, port, ttl>> \o (<<m>> \o <<n>>)
           A == ToFrameBuffer(chassis)
           B == ToFrameBuffer(port)
           C == ToFrameBuffer(ttl)
           D == ToFrameBuffer(m)
           D2 == ToFrameBuffer(n)
           E == <<0, 0>>
<1>1. /\ A \in Seq(Int) /\ B \in Seq(Int) /\ C \in Seq(Int) /\ D \in Seq(Int)
      /\ D2 \in Seq(Int) /\ E \in Seq(Int)
  BY ElementOctets
<1>2. DataUnitToFrameBuffer(unit) =
         FlattenSeq([k \in DOMAIN tlvs |-> ToFrameBuffer(tlvs[k])]) \o E
  BY DEF DataUnitToFrameBuffer
<1>3. DOMAIN tlvs = 1..5 /\ tlvs[1] = chassis /\ tlvs[2] = port /\ tlvs[3] = ttl /\ tlvs[4] = m /\ tlvs[5] = n
  <2> DEFINE u == <<chassis, port, ttl>>
             x == <<m>>
             y == <<n>>
             v == x \o y
  <2>a. x \in Seq(Element) /\ Len(x) = 1 /\ x[1] = m
        /\ y \in Seq(Element) /\ Len(y) = 1 /\ y[1] = n
    OBVIOUS
  <2> HIDE DEF x, y
  <2>b. v \in Seq(Element) /\ Len(v) = 2 /\ v[1] = m /\ v[2] = n
    <3>1. v \in Seq(Element) /\ Len(v) = Len(x) + Len(y)
          /\ \A i \in 1..Len(x) + Len(y) : v[i] = IF i <= Len(x) THEN x[i] ELSE y[i - Len(x)]
      BY <2>a, Elements
    <3> QED
      BY <2>a, <3>1
  <2>1. u \in Seq(Element) /\ Len(u) = 3 /\ u[1] = chassis /\ u[2] = port /\ u[3] = ttl
        /\ v \in Seq(Element) /\ Len(v) = 2 /\ v[1] = m /\ v[2] = n
    BY <2>b
  <2>2. tlvs = u \o v
    BY DEF x, y
  <2> HIDE DEF u, v, chassis, port, ttl
  <2>3. tlvs \in Seq(Element) /\ Len(tlvs) = 5
        /\ \A i \in 1..5 : tlvs[i] = IF i <= 3 THEN u[i] ELSE v[i - 3]
    <3>1. u \in Seq(Element) /\ v \in Seq(Element)
      BY <2>1
    <3>2. u \o v \in Seq(Element) /\ Len(u \o v) = Len(u) + Len(v)
          /\ \A i \in 1..Len(u) + Len(v) : (u \o v)[i] = IF i <= Len(u) THEN u[i] ELSE v[i - Len(u)]
      BY <3>1, Elements
    <3> HIDE DEF tlvs
    <3> QED  BY <2>1, <2>2, <3>2
  <2> HIDE DEF tlvs
  <2>4. DOMAIN tlvs = 1..5
    BY <2>3
  <2> QED
    BY <2>1, <2>3, <2>4
<1> DEFINE parts == [k \in DOMAIN tlvs |-> ToFrameBuffer(tlvs[k])]
<1>4. Len(parts) = 5 /\ parts[1] = A /\ parts[2] = B /\ parts[3] = C /\ parts[4] = D /\ parts[5] = D2
  <2> HIDE DEF chassis, port, ttl, tlvs
  <2>1. DOMAIN parts = 1..5
    BY <1>3
  <2> QED
    BY <1>3, <2>1
<1> HIDE DEF A, B, C, D, D2, E, tlvs, parts
<1>5. DataUnitToFrameBuffer(unit) = ((((A \o B) \o C) \o D) \o D2) \o E
  <2>1. FlattenSeq(parts) = (((A \o B) \o C) \o D) \o D2
    BY <1>4, FlattenFive
  <2> QED
    BY <1>2, <2>1 DEF parts
<1> DEFINE A1 == A \o B
           E1 == D2 \o E
<1>6. A1 \in Seq(Int) /\ E1 \in Seq(Int)
  BY <1>1, TwoParts
<1>7. FromLeft(A1, C, D, D2, E) = FromRight(A1, C, D, D2, E)
  <2> HIDE DEF A1
  <2> QED  BY <1>1, <1>6, Regroup
<1>8. D \o E1 \in Seq(Int)
  <2> HIDE DEF E1
  <2> QED  BY <1>1, <1>6, TwoParts
<1>9. A1 \o (C \o (D \o E1)) = A \o (B \o (C \o (D \o E1)))
  <2> DEFINE F == D \o E1
             G == C \o F
  <2> HIDE DEF F
  <2>1. F \in Seq(Int)
    BY <1>8 DEF F
  <2>2. G \in Seq(Int)
    BY <1>1, <2>1, TwoParts
  <2> HIDE DEF G
  <2>3. (A \o B) \o G = A \o (B \o G)
    <3>1. A \in Seq(Int) /\ B \in Seq(Int) /\ G \in Seq(Int)
      BY <1>1, <2>2
    <3> QED
      BY ONLY <3>1, Associative
  <2> QED
    BY <2>3 DEF F, G
<1> QED
  BY <1>5, <1>7, <1>9 DEF FromLeft, FromRight, A, B, C, D, D2, E

----------------------------------------------------------------------------
(* The optional elements, which LLDPDataUnit::FromSpan reads one behind the *)
(* other.  The recursion along the octets has a value, as every step goes   *)
(* forward and none goes past the end.                                      *)

\* A set of numbers has a least one (FiniteSetsExt!Min).
LEMMA LeastOf ==
    ASSUME NEW S \in SUBSET Nat, S # {}
    PROVE  Min(S) \in S /\ \A y \in S : Min(S) <= y
<1> DEFINE R == OpToRel(<, Nat)
<1>1. IsWellFoundedOn(R, Nat)
  BY NatLessThanWellFounded
<1>2. \A x \in Nat, y \in Nat : x < y => <<x, y>> \in R
  BY DEF OpToRel
<1> HIDE DEF R
<1>3. PICK x \in S : \A y \in S : ~ (<<y, x>> \in R)
  BY <1>1, WFMin
<1>4. ASSUME NEW y \in S PROVE x <= y
  <2>1. x \in Nat /\ y \in Nat
    OBVIOUS
  <2>2. ~ (y < x)
    BY <1>2, <1>3, <2>1
  <2> QED
    BY <2>1, <2>2
<1> QED
  BY <1>4 DEF Min

Rest(bytes, n) == SubSeq(bytes, n + 1, Len(bytes))

\* What is read at n if g is read further on.
ReadAt(bytes, g, n) ==
    LET rest == SubSeq(bytes, n + 1, Len(bytes))
        tlv  == FromSpan(rest)
    IN  IF tlv = None THEN <<>>
        ELSE IF tlv.type = END_OF_LLDPDU THEN <<>>
        ELSE <<tlv>> \o g[n + 2 + Len(tlv.value)]

\* g is what is read from every place from k on.
ReadsFrom(bytes, k, g) ==
    /\ g = [n \in 0..Len(bytes) |-> g[n]]
    /\ \A n \in k..Len(bytes) : g[n] = ReadAt(bytes, g, n)

LEMMA RestFacts ==
    ASSUME NEW bytes, bytes \in Seq(Int), NEW n \in 0..Len(bytes)
    PROVE  /\ Rest(bytes, n) \in Seq(Int)
           /\ Len(Rest(bytes, n)) = Len(bytes) - n
           /\ \A k \in 1..Len(bytes) - n : Rest(bytes, n)[k] = bytes[n + k]
<1> DEFINE L == Len(bytes)
           r == Rest(bytes, n)
<1>1. L \in Nat /\ n \in Nat /\ n <= L
  OBVIOUS
<1>2. \A k \in n + 1 .. L : bytes[k] \in Int
  BY <1>1
<1>3. /\ r \in Seq(Int)
      /\ Len(r) = IF n + 1 <= L THEN L - (n + 1) + 1 ELSE 0
      /\ \A k \in 1 .. L - (n + 1) + 1 : r[k] = bytes[(n + 1) + k - 1]
  <2>1. n + 1 \in Int /\ L \in Int
    BY <1>1
  <2> HIDE DEF L
  <2> QED
    BY <1>2, <2>1, SubSeqProperties DEF Rest, L
<1> HIDE DEF r, L
<1>4. L - (n + 1) + 1 = L - n /\ (IF n + 1 <= L THEN L - (n + 1) + 1 ELSE 0) = L - n
  BY <1>1
<1>5. \A k \in 1..L - n : (n + 1) + k - 1 = n + k
  BY <1>1
<1> QED
  BY <1>3, <1>4, <1>5 DEF r, L

\* The next element begins further on, and not past the end.
LEMMA ForwardStep ==
    ASSUME NEW bytes, bytes \in Seq(Int), NEW n \in 0..Len(bytes),
           FromSpan(Rest(bytes, n)) # None
    PROVE  n + 2 + Len(FromSpan(Rest(bytes, n)).value) \in (n + 2)..Len(bytes)
<1> DEFINE r == Rest(bytes, n)
           l == LengthOf(r)
<1>1. r \in Seq(Int) /\ Len(r) = Len(bytes) - n
  BY RestFacts
<1> HIDE DEF r
<1>2. Fits(r) /\ FromSpan(r) = [type |-> TypeOf(r), value |-> SubSeq(r, 3, 2 + l)]
  BY DEF FromSpan, r
<1>3. Len(r) >= 2 /\ l + 2 <= Len(r)
  BY <1>2 DEF Fits
<1>4. r[1] \in Int /\ r[2] \in Int
  BY <1>1, <1>3
<1>5. l \in Nat
  <2>1. ntohs(r) \in Int
    BY <1>4 DEF ntohs
  <2> QED
    BY <2>1 DEF LengthOf, LENGTH_RANGE
<1> HIDE DEF l
<1>6. Len(SubSeq(r, 3, 2 + l)) = l
  <2>1. \A k \in 3..2 + l : r[k] \in Int
    BY <1>1, <1>3, <1>5
  <2>2. 3 \in Int /\ 2 + l \in Int
    BY <1>5
  <2>3. Len(SubSeq(r, 3, 2 + l)) = IF 3 <= 2 + l THEN (2 + l) - 3 + 1 ELSE 0
    BY <2>1, <2>2, SubSeqProperties
  <2> QED
    BY <1>5, <2>3
<1>7. Len(FromSpan(r).value) = l
  <2>1. FromSpan(r).value = SubSeq(r, 3, 2 + l)
    <3> DEFINE t == TypeOf(r)
               v == SubSeq(r, 3, 2 + l)
    <3>1. FromSpan(r) = [type |-> t, value |-> v]
      BY <1>2
    <3> HIDE DEF t, v
    <3>2. FromSpan(r).value = v
      BY <3>1
    <3> QED
      BY <3>2 DEF v
  <2> QED
    BY <1>6, <2>1
<1> QED
  BY <1>1, <1>3, <1>5, <1>7 DEF r

LEMMA ReadsExists ==
    ASSUME NEW bytes, bytes \in Seq(Int)
    PROVE  \E g : ReadsFrom(bytes, 0, g)
<1> DEFINE L == Len(bytes)
           Bad == {k \in 0..(L + 1) : \A g : ~ReadsFrom(bytes, (L + 1) - k, g)}
<1>1. L \in Nat
  OBVIOUS
<1>2. Bad = {}
  <2>1. SUFFICES ASSUME Bad # {} PROVE FALSE
    OBVIOUS
  <2> DEFINE k == Min(Bad)
  <2>2. k \in Bad /\ \A j \in Bad : k <= j
    <3>1. Bad \in SUBSET Nat
      OBVIOUS
    <3> HIDE DEF Bad
    <3> QED  BY <2>1, <3>1, LeastOf
  <2> HIDE DEF k
  <2>3. k \in 0..(L + 1) /\ \A g : ~ReadsFrom(bytes, (L + 1) - k, g)
    BY <2>2
  <2>4. k # 0
    <3> DEFINE g == [n \in 0..Len(bytes) |-> <<>>]
    <3>1. g = [n \in 0..Len(bytes) |-> g[n]]
      OBVIOUS
    <3>2. \A n \in (L + 1)..Len(bytes) : FALSE
      BY <1>1
    <3> HIDE DEF g
    <3>3. ReadsFrom(bytes, L + 1, g)
      BY <3>1, <3>2 DEF ReadsFrom
    <3>4. k = 0 => (L + 1) - k = L + 1
      BY <1>1
    <3> QED
      BY <2>3, <3>3, <3>4
  <2> DEFINE p == (L + 1) - k
  <2>5. p \in 0..L /\ k - 1 \in 0..(L + 1) /\ (L + 1) - (k - 1) = p + 1 /\ ~(k <= k - 1)
    BY <1>1, <2>3, <2>4
  <2>6. PICK g : ReadsFrom(bytes, p + 1, g)
    <3>1. k - 1 \notin Bad
      <4> HIDE DEF Bad
      <4> QED  BY <2>2, <2>5
    <3> QED
      BY <2>5, <3>1
  <2> HIDE DEF p
  <2> DEFINE h == [n \in 0..Len(bytes) |-> IF n = p THEN ReadAt(bytes, g, p) ELSE g[n]]
  <2>7. h = [n \in 0..Len(bytes) |-> h[n]]
    OBVIOUS
  <2>8. h[p] = ReadAt(bytes, g, p) /\ \A n \in 0..Len(bytes) : n # p => h[n] = g[n]
    BY <2>5
  <2> HIDE DEF h
  <2>9. ASSUME NEW n \in p..Len(bytes) PROVE ReadAt(bytes, h, n) = ReadAt(bytes, g, n)
    <3> DEFINE tlv == FromSpan(Rest(bytes, n))
    <3>1. n \in 0..Len(bytes)
      BY <2>5
    <3>2. CASE tlv = None
      BY <3>2 DEF ReadAt, Rest
    <3>3. CASE tlv # None
      <4>1. n + 2 + Len(tlv.value) \in (n + 2)..Len(bytes)
        BY <3>1, <3>3, ForwardStep
      <4>2. n + 2 + Len(tlv.value) \in 0..Len(bytes) /\ n + 2 + Len(tlv.value) # p
        <5>1. n \in Nat /\ p \in Nat /\ p <= n
          BY <2>5, <3>1
        <5> DEFINE next == n + 2 + Len(tlv.value)
        <5> HIDE DEF next, tlv
        <5>2. next \in (n + 2)..Len(bytes)
          BY <4>1 DEF next
        <5>3. next \in 0..Len(bytes) /\ next # p
          BY <5>1, <5>2
        <5> QED
          BY <5>3 DEF next
      <4>3. h[n + 2 + Len(tlv.value)] = g[n + 2 + Len(tlv.value)]
        BY <2>8, <4>2
      <4> QED
        BY <4>3 DEF ReadAt, Rest
    <3> QED
      BY <3>2, <3>3
  <2>10. ASSUME NEW n \in p..Len(bytes) PROVE h[n] = ReadAt(bytes, h, n)
    <3>1. CASE n = p
      BY <2>8, <2>9, <3>1
    <3>2. CASE n # p
      <4>1. n \in (p + 1)..Len(bytes) /\ n \in 0..Len(bytes)
        BY <1>1, <2>5, <3>2
      <4>2. g[n] = ReadAt(bytes, g, n)
        BY <2>6, <4>1 DEF ReadsFrom
      <4> QED
        BY <2>8, <2>9, <3>2, <4>1, <4>2
    <3> QED
      BY <3>1, <3>2
  <2>11. ReadsFrom(bytes, p, h)
    BY <2>7, <2>10 DEF ReadsFrom
  <2> QED
    BY <2>3, <2>11 DEF p
<1>3. L + 1 \in 0..(L + 1) /\ (L + 1) - (L + 1) = 0
  BY <1>1
<1>4. L + 1 \notin Bad
  <2> HIDE DEF Bad
  <2> QED  BY <1>2
<1> QED
  BY <1>3, <1>4

\* The value of OptionalTlvs, read from the first octet on.
LEMMA OptionalBy ==
    ASSUME NEW bytes, bytes \in Seq(Int)
    PROVE  \E g : ReadsFrom(bytes, 0, g) /\ OptionalTlvs(bytes) = g[0]
<1> DEFINE Body(g) == [n \in 0..Len(bytes) |-> ReadAt(bytes, g, n)]
           from == CHOOSE g : g = Body(g)
<1>1. OptionalTlvs(bytes) = from[0]
  BY DEF OptionalTlvs, ReadAt
<1>2. PICK g : ReadsFrom(bytes, 0, g)
  BY ReadsExists
<1>3. g = Body(g)
  BY <1>2 DEF ReadsFrom
<1>4. from = Body(from)
  BY <1>3
<1> HIDE DEF from
<1>5. ReadsFrom(bytes, 0, from)
  BY <1>4 DEF ReadsFrom
<1> QED
  BY <1>1, <1>5

\* At place at there is the element tlv, and behind it, at next, there is behind.
Holds(bytes, read, at, tlv, behind, next) ==
    /\ bytes \in Seq(Int) /\ ReadsFrom(bytes, 0, read) /\ at \in 0..Len(bytes)
    /\ tlv \in Element /\ tlv # None /\ tlv.type # END_OF_LLDPDU
    /\ behind \in Seq(Int) /\ Rest(bytes, at) = ToFrameBuffer(tlv) \o behind
    /\ next = at + 2 + Len(tlv.value)

\* Which is what is read from it.
Passes(bytes, read, at, tlv, behind, next) ==
    /\ next \in 0..Len(bytes)
    /\ read[at] = <<tlv>> \o read[next]
    /\ Rest(bytes, next) = behind

LEMMA OptionalStep ==
    ASSUME NEW bytes, NEW read, NEW at, NEW tlv, NEW behind, NEW next, Holds(bytes, read, at, tlv, behind, next)
    PROVE  Passes(bytes, read, at, tlv, behind, next)
<1>0. /\ bytes \in Seq(Int) /\ ReadsFrom(bytes, 0, read) /\ at \in 0..Len(bytes)
      /\ tlv \in Element /\ tlv # None /\ tlv.type # END_OF_LLDPDU
      /\ behind \in Seq(Int) /\ Rest(bytes, at) = ToFrameBuffer(tlv) \o behind
      /\ next = at + 2 + Len(tlv.value)
  BY DEF Holds
<1> DEFINE b == Rest(bytes, at)
           w == ToFrameBuffer(tlv)
           l == Len(tlv.value)
           L == Len(bytes)
<1>1. w \in Seq(Int) /\ Len(w) = 2 + l /\ l \in Nat
  <2>1. tlv.type \in Nat /\ tlv.value \in Seq(Int) /\ l \in Nat
    BY <1>0 DEF Element
  <2> DEFINE x == tlv.type * LENGTH_RANGE + Len(tlv.value)
  <2>2. x \in Int
    BY <2>1 DEF LENGTH_RANGE
  <2> HIDE DEF x
  <2>3. htons(x) \in Seq(Int) /\ Len(htons(x)) = 2
    BY <2>2, HeaderOctets
  <2>4. w = htons(x) \o tlv.value
    BY DEF ToFrameBuffer, x
  <2> DEFINE h == htons(x)
             v == tlv.value
  <2>5. h \in Seq(Int) /\ Len(h) = 2 /\ v \in Seq(Int) /\ w = h \o v
    BY <2>1, <2>3, <2>4
  <2> HIDE DEF h, v, w
  <2>6. h \o v \in Seq(Int) /\ Len(h \o v) = Len(h) + Len(v)
    BY <2>5, TwoParts
  <2>7. l = Len(v)
    BY DEF v
  <2> QED
    BY <2>1, <2>5, <2>6, <2>7
<1>2. /\ b \in Seq(Int) /\ Len(b) = L - at /\ L \in Nat /\ at \in Nat /\ at <= L
      /\ \A k \in 1..L - at : b[k] = bytes[at + k]
  <2>1. L \in Nat /\ at \in Nat /\ at <= L
    BY <1>0
  <2> QED
    BY <1>0, <2>1, RestFacts
<1>3. FromSpan(b) = tlv
  BY <1>0, ElementStep
<1>4. read[at] = ReadAt(bytes, read, at)
  BY <1>0 DEF ReadsFrom
<1>5. read[at] = <<tlv>> \o read[at + 2 + l]
  BY <1>0, <1>3, <1>4 DEF ReadAt, Rest
<1>6. Len(b) = 2 + l + Len(behind) /\ \A k \in 1..Len(behind) : b[2 + l + k] = behind[k]
  <2>1. b = w \o behind
    BY <1>0
  <2> HIDE DEF b, w, l
  <2>2. Len(w \o behind) = Len(w) + Len(behind) /\ \A k \in 1..Len(behind) : (w \o behind)[Len(w) + k] = behind[k]
    BY <1>0, <1>1, TwoParts
  <2> QED
    BY <1>1, <2>1, <2>2
<1>7. Len(behind) \in Nat
  BY <1>0
<1> HIDE DEF b, w, l, L
<1>a. next = at + 2 + l
  BY <1>0 DEF l
<1>b. /\ l \in Nat /\ at \in Nat /\ L \in Nat /\ Len(behind) \in Nat
      /\ L - at = 2 + l + Len(behind) /\ next = at + 2 + l
  BY <1>1, <1>2, <1>6, <1>7, <1>a
<1>8. next \in 0..L /\ L = next + Len(behind)
  BY ONLY <1>b
<1>9. ASSUME NEW k \in 1..Len(behind) PROVE bytes[next + k] = behind[k]
  <2>1. 2 + l + k \in 1..L - at /\ at + (2 + l + k) = next + k
    BY ONLY <1>b, k \in 1..Len(behind)
  <2>2. b[2 + l + k] = bytes[at + (2 + l + k)]
    BY <1>2, <2>1
  <2> QED
    BY <1>6, <2>1, <2>2
<1>10. next \in Nat
  BY ONLY <1>b
<1>11. SubSeq(bytes, next + 1, next + Len(behind)) = behind
  <2>1. next + Len(behind) <= Len(bytes)
    BY <1>8, <1>10 DEF L
  <2> QED
    BY <1>0, <1>9, <1>10, <2>1, PartIs
<1>12. Rest(bytes, next) = behind
  BY <1>8, <1>11 DEF Rest, L
<1> QED
  BY <1>5, <1>8, <1>12, <1>a DEF l, L, Passes

LEMMA OptionalEnd ==
    ASSUME NEW bytes, NEW g, ReadsFrom(bytes, 0, g),
           NEW n, n \in 0..Len(bytes), Rest(bytes, n) = <<0, 0>>
    PROVE  g[n] = <<>>
<1> DEFINE e == <<0, 0>>
<1>1. e[1] = 0 /\ e[2] = 0 /\ Len(e) = 2
  OBVIOUS
<1> HIDE DEF e
<1>2. ntohs(e) = 0
  BY <1>1 DEF ntohs
<1>3. LengthOf(e) = 0 /\ TypeOf(e) = 0
  BY <1>2 DEF LengthOf, TypeOf, LENGTH_RANGE
<1>4. Fits(e)
  BY <1>1, <1>3 DEF Fits
<1> DEFINE v == SubSeq(e, 3, 2 + LengthOf(e))
<1>5. FromSpan(e) = [type |-> 0, value |-> v]
  BY <1>3, <1>4 DEF FromSpan
<1> HIDE DEF v
<1>6. FromSpan(e).type = 0
  BY <1>5
<1>7. g[n] = ReadAt(bytes, g, n) /\ Rest(bytes, n) = e
  BY DEF ReadsFrom, e
<1> QED
  BY <1>6, <1>7 DEF ReadAt, Rest, END_OF_LLDPDU

\* One optional element and the end marker.
LEMMA OptionalOne ==
    ASSUME NEW m, m \in Element, m # None, m.type # END_OF_LLDPDU
    PROVE  /\ ToFrameBuffer(m) \o <<0, 0>> \in Seq(Int)
           /\ OptionalTlvs(ToFrameBuffer(m) \o <<0, 0>>) = <<m>>
<1> DEFINE e == <<0, 0>>
           bytes == ToFrameBuffer(m) \o e
<1>1. e \in Seq(Int) /\ ToFrameBuffer(m) \in Seq(Int)
  BY ElementOctets
<1>2. bytes \in Seq(Int)
  <2> HIDE DEF e
  <2> QED  BY <1>1, TwoParts
<1> HIDE DEF bytes
<1>3. PICK g : ReadsFrom(bytes, 0, g) /\ OptionalTlvs(bytes) = g[0]
  BY <1>2, OptionalBy
<1>4. Rest(bytes, 0) = bytes /\ 0 \in 0..Len(bytes)
  BY <1>2, SubSeqFull DEF Rest
<1> DEFINE j == 0 + 2 + Len(m.value)
<1>a. j = 0 + 2 + Len(m.value)
  OBVIOUS
<1> HIDE DEF j
<1>5. j \in 0..Len(bytes) /\ g[0] = <<m>> \o g[j] /\ Rest(bytes, j) = e
  <2>1. Rest(bytes, 0) = ToFrameBuffer(m) \o e
    BY <1>4 DEF bytes
  <2> HIDE DEF e
  <2>2. Holds(bytes, g, 0, m, e, j)
    BY <1>1, <1>2, <1>3, <1>4, <1>a, <2>1 DEF Holds
  <2>3. Passes(bytes, g, 0, m, e, j)
    BY ONLY <2>2, OptionalStep
  <2> QED
    BY <2>3 DEF Passes
<1>6. g[j] = <<>>
  BY <1>3, <1>5, OptionalEnd
<1>7. <<m>> \o <<>> = <<m>>
  <2>1. <<m>> \in Seq(Element)
    OBVIOUS
  <2> QED
    BY <2>1, ConcatEmptySeq
<1> QED
  BY <1>2, <1>3, <1>5, <1>6, <1>7 DEF bytes

LEMMA OptionalTwo ==
    ASSUME NEW m, m \in Element, m # None, m.type # END_OF_LLDPDU,
           NEW n, n \in Element, n # None, n.type # END_OF_LLDPDU
    PROVE  /\ ToFrameBuffer(m) \o (ToFrameBuffer(n) \o <<0, 0>>) \in Seq(Int)
           /\ OptionalTlvs(ToFrameBuffer(m) \o (ToFrameBuffer(n) \o <<0, 0>>)) = <<m>> \o <<n>>
<1> DEFINE e == <<0, 0>>
           rest == ToFrameBuffer(n) \o e
           bytes == ToFrameBuffer(m) \o rest
<1>1. e \in Seq(Int) /\ ToFrameBuffer(m) \in Seq(Int) /\ ToFrameBuffer(n) \in Seq(Int)
  BY ElementOctets
<1>2. rest \in Seq(Int)
  <2> HIDE DEF e
  <2> QED  BY <1>1, TwoParts
<1> HIDE DEF rest
<1>3. bytes \in Seq(Int)
  BY <1>1, <1>2, TwoParts
<1> HIDE DEF bytes
<1>4. PICK g : ReadsFrom(bytes, 0, g) /\ OptionalTlvs(bytes) = g[0]
  BY <1>3, OptionalBy
<1>5. Rest(bytes, 0) = bytes /\ 0 \in 0..Len(bytes)
  BY <1>3, SubSeqFull DEF Rest
<1> DEFINE j == 0 + 2 + Len(m.value)
           k == j + 2 + Len(n.value)
<1>a. j = 0 + 2 + Len(m.value) /\ k = j + 2 + Len(n.value)
  OBVIOUS
<1> HIDE DEF j, k
<1>6. j \in 0..Len(bytes) /\ g[0] = <<m>> \o g[j] /\ Rest(bytes, j) = rest
  <2>1. Rest(bytes, 0) = ToFrameBuffer(m) \o rest
    BY <1>5 DEF bytes
  <2>2. Holds(bytes, g, 0, m, rest, j)
    BY <1>2, <1>3, <1>4, <1>5, <1>a, <2>1 DEF Holds
  <2>3. Passes(bytes, g, 0, m, rest, j)
    BY ONLY <2>2, OptionalStep
  <2> QED
    BY <2>3 DEF Passes
<1>7. k \in 0..Len(bytes) /\ g[j] = <<n>> \o g[k] /\ Rest(bytes, k) = e
  <2>1. Rest(bytes, j) = ToFrameBuffer(n) \o e
    BY <1>6 DEF rest
  <2> HIDE DEF e
  <2>2. Holds(bytes, g, j, n, e, k)
    BY <1>1, <1>3, <1>4, <1>6, <1>a, <2>1 DEF Holds
  <2>3. Passes(bytes, g, j, n, e, k)
    BY ONLY <2>2, OptionalStep
  <2> QED
    BY <2>3 DEF Passes
<1>8. g[k] = <<>>
  BY <1>4, <1>7, OptionalEnd
<1>9. <<n>> \o <<>> = <<n>>
  <2>1. <<n>> \in Seq(Element)
    OBVIOUS
  <2> QED
    BY <2>1, ConcatEmptySeq
<1> QED
  BY <1>3, <1>4, <1>6, <1>7, <1>8, <1>9 DEF bytes, rest

----------------------------------------------------------------------------
(* The addresses.                                                           *)

\* The octets an address of a kind has.
SizeOf(subtype) == IF subtype = SUBTYPE_IPV4 THEN IN_ADDR_SIZE
                   ELSE IF subtype = SUBTYPE_IPV6 THEN IN6_ADDR_SIZE
                   ELSE ETH_ALEN

Kinds == {SUBTYPE_IPV4, SUBTYPE_IPV6, SUBTYPE_MAC}

LEMMA OneMore ==
    ASSUME NEW s, s \in Seq(Int), NEW t, t \in Seq(Int), NEW n \in Nat, n <= Len(s)
    PROVE  /\ s \o t \in Seq(Int) /\ Len(s \o t) = Len(s) + Len(t)
           /\ \A k \in 1..n : (s \o t)[k] = s[k]
<1>1. /\ s \o t \in Seq(Int) /\ Len(s \o t) = Len(s) + Len(t)
      /\ \A k \in 1..Len(s) : (s \o t)[k] = s[k]
  BY TwoParts
<1>2. 1..n \subseteq 1..Len(s)
  OBVIOUS
<1> QED
  BY <1>1, <1>2

\* The element a sender makes of an address says what the address is.
LEMMA ManagementElement ==
    ASSUME NEW subtype, subtype \in Kinds, NEW a, a \in Seq(Int), Len(a) = SizeOf(subtype),
           NEW i, i \in Nat
    PROVE  LET m == managementTlv(subtype, a, i)
           IN  /\ m \in Element /\ m.type = MANAGEMENT_ADDRESS
               /\ AddressFits(m.value)
               /\ managementTlvGetManagementString(m.value) = [subtype |-> subtype, address |-> a]
<1> DEFINE l == Len(a)
           h == <<1 + l, subtype>>
           p == h \o a
           q == p \o <<IF_SUBTYPE_IFINDEX>>
           r == q \o htonl(i)
           v == r \o <<0>>
           m == managementTlv(subtype, a, i)
<1>1. l \in Nat /\ l \in 1..254 /\ subtype \in Int
  BY CodecConstants DEF SizeOf, Kinds, SUBTYPE_IPV4, SUBTYPE_IPV6, SUBTYPE_MAC
<1>2. h \in Seq(Int) /\ Len(h) = 2 /\ h[1] = 1 + l /\ h[2] = subtype
  <2> HIDE DEF l
  <2> QED  BY <1>1
<1>3. <<IF_SUBTYPE_IFINDEX>> \in Seq(Int) /\ Len(<<IF_SUBTYPE_IFINDEX>>) = 1
      /\ <<0>> \in Seq(Int) /\ Len(<<0>>) = 1
  BY DEF IF_SUBTYPE_IFINDEX
<1>4. htonl(i) \in Seq(Int) /\ Len(htonl(i)) = 4
  <2> DEFINE x == htons(i \div 65536)
             y == htons(i % 65536)
  <2>1. i \div 65536 \in Int /\ i % 65536 \in Int
    OBVIOUS
  <2>2. x \in Seq(Int) /\ Len(x) = 2 /\ y \in Seq(Int) /\ Len(y) = 2
    BY <2>1, HeaderOctets
  <2>3. htonl(i) = x \o y
    BY DEF htonl
  <2> HIDE DEF x, y
  <2>4. x \o y \in Seq(Int) /\ Len(x \o y) = Len(x) + Len(y)
    BY <2>2, TwoParts
  <2> QED
    BY <2>2, <2>3, <2>4
<1>5. m = [type |-> MANAGEMENT_ADDRESS, value |-> v]
  BY DEF managementTlv
<1> HIDE DEF l, h
<1>6. /\ p \in Seq(Int) /\ Len(p) = 2 + l
      /\ p[1] = 1 + l /\ p[2] = subtype /\ \A k \in 1..l : p[2 + k] = a[k]
  <2>1. /\ p \in Seq(Int) /\ Len(p) = Len(h) + Len(a)
        /\ \A k \in 1..Len(h) : p[k] = h[k]
        /\ \A k \in 1..Len(a) : p[Len(h) + k] = a[k]
    BY <1>2, TwoParts
  <2> HIDE DEF p
  <2> QED
    BY <1>1, <1>2, <2>1 DEF l
<1>a. 2 + l \in Nat
  BY <1>1
<1> HIDE DEF p
<1>7. /\ q \in Seq(Int) /\ Len(q) = 2 + l + 1 /\ \A k \in 1..2 + l : q[k] = p[k]
  <2> DEFINE t == <<IF_SUBTYPE_IFINDEX>>
  <2>1. t \in Seq(Int) /\ Len(t) = 1 /\ q = p \o t
    BY <1>3
  <2> HIDE DEF t, q
  <2>2. /\ p \o t \in Seq(Int) /\ Len(p \o t) = Len(p) + Len(t)
        /\ \A k \in 1..2 + l : (p \o t)[k] = p[k]
    <3>1. p \in Seq(Int) /\ t \in Seq(Int) /\ 2 + l \in Nat /\ 2 + l <= Len(p)
      BY <1>6, <1>a, <2>1
    <3> QED
      BY ONLY <3>1, OneMore
  <2>3. Len(p \o t) = 2 + l + 1
    BY ONLY <1>a, <1>6, <2>1, <2>2
  <2> QED
    BY ONLY <2>1, <2>2, <2>3
<1> HIDE DEF q
<1>8. /\ r \in Seq(Int) /\ Len(r) = 2 + l + 5 /\ \A k \in 1..2 + l : r[k] = q[k]
  <2> DEFINE t == htonl(i)
  <2>1. t \in Seq(Int) /\ Len(t) = 4 /\ r = q \o t
    BY <1>4
  <2> HIDE DEF t, r
  <2>a. 2 + l <= Len(q)
    BY <1>1, <1>7
  <2>2. /\ q \o t \in Seq(Int) /\ Len(q \o t) = Len(q) + Len(t)
        /\ \A k \in 1..2 + l : (q \o t)[k] = q[k]
    <3>1. q \in Seq(Int) /\ t \in Seq(Int) /\ 2 + l \in Nat /\ 2 + l <= Len(q)
      BY <1>7, <1>a, <2>a, <2>1
    <3> QED
      BY ONLY <3>1, OneMore
  <2>3. Len(q \o t) = 2 + l + 5
    BY ONLY <1>1, <1>7, <2>1, <2>2
  <2> QED
    BY ONLY <2>1, <2>2, <2>3
<1> HIDE DEF r
<1>9. /\ v \in Seq(Int) /\ Len(v) = 2 + l + 6 /\ \A k \in 1..2 + l : v[k] = r[k]
  <2> DEFINE t == <<0>>
  <2>1. t \in Seq(Int) /\ Len(t) = 1 /\ v = r \o t
    BY <1>3
  <2> HIDE DEF t, v
  <2>a. 2 + l <= Len(r)
    BY <1>1, <1>8
  <2>2. /\ r \o t \in Seq(Int) /\ Len(r \o t) = Len(r) + Len(t)
        /\ \A k \in 1..2 + l : (r \o t)[k] = r[k]
    <3>1. r \in Seq(Int) /\ t \in Seq(Int) /\ 2 + l \in Nat /\ 2 + l <= Len(r)
      BY <1>8, <1>a, <2>a, <2>1
    <3> QED
      BY ONLY <3>1, OneMore
  <2>3. Len(r \o t) = 2 + l + 6
    BY ONLY <1>1, <1>8, <2>1, <2>2
  <2> QED
    BY ONLY <2>1, <2>2, <2>3
<1> HIDE DEF v
<1>10. v[1] = 1 + l /\ v[2] = subtype /\ \A k \in 1..l : v[2 + k] = a[k]
  <2>1. \A k \in 1..2 + l : v[k] = p[k]
    BY <1>7, <1>8, <1>9
  <2>2. 1 \in 1..2 + l /\ 2 \in 1..2 + l /\ \A k \in 1..l : 2 + k \in 1..2 + l
    BY <1>1
  <2> QED
    BY <1>6, <2>1, <2>2
<1>11. m.value = v /\ m.type = MANAGEMENT_ADDRESS
  <2> HIDE DEF m
  <2> QED  BY <1>5
<1>12. m \in Element
  <2>1. Len(v) < LENGTH_RANGE /\ MANAGEMENT_ADDRESS \in Nat
    BY <1>1, <1>9 DEF LENGTH_RANGE, MANAGEMENT_ADDRESS
  <2> HIDE DEF m
  <2> QED
    BY <1>5, <1>9, <2>1, IsElement
<1>13. AddressFits(v)
  <2>1. Len(v) > 0 /\ v[1] # 0 /\ Len(v) >= 1 + v[1]
    <3>1. l \in Nat /\ Len(v) = 2 + l + 6 /\ v[1] = 1 + l
      BY <1>1, <1>9, <1>10
    <3> QED
      BY ONLY <3>1
  <2>2. \/ v[2] = SUBTYPE_IPV4 /\ v[1] = 1 + IN_ADDR_SIZE
        \/ v[2] = SUBTYPE_IPV6 /\ v[1] = 1 + IN6_ADDR_SIZE
        \/ v[2] = SUBTYPE_MAC /\ v[1] = 1 + ETH_ALEN
    <3>1. v[2] = subtype /\ v[1] = 1 + SizeOf(subtype)
      BY <1>10 DEF l
    <3>2. \/ subtype = SUBTYPE_IPV4 /\ SizeOf(subtype) = IN_ADDR_SIZE
          \/ subtype = SUBTYPE_IPV6 /\ SizeOf(subtype) = IN6_ADDR_SIZE
          \/ subtype = SUBTYPE_MAC /\ SizeOf(subtype) = ETH_ALEN
      BY DEF SizeOf, Kinds, SUBTYPE_IPV4, SUBTYPE_IPV6, SUBTYPE_MAC
    <3> QED
      BY ONLY <3>1, <3>2
  <2> QED
    BY <2>1, <2>2 DEF AddressFits
<1>14. SubSeq(v, 3, 1 + v[1]) = a
  <2>1. 2 + Len(a) <= Len(v) /\ \A k \in 1..Len(a) : v[2 + k] = a[k]
    BY <1>1, <1>9, <1>10 DEF l
  <2>2. SubSeq(v, 2 + 1, 2 + Len(a)) = a
    BY <1>9, <2>1, PartIs
  <2>3. 1 + v[1] = 2 + Len(a) /\ 2 + 1 = 3
    BY <1>1, <1>10 DEF l
  <2> QED
    BY <2>2, <2>3
<1>15. managementTlvGetManagementString(v) = [subtype |-> subtype, address |-> a]
  BY <1>10, <1>13, <1>14 DEF managementTlvGetManagementString
<1> QED
  BY <1>11, <1>12, <1>13, <1>15

LEMMA HoldsItsKind ==
    ASSUME NEW kind, kind \in Kinds, NEW a, a \in Seq(Int), Len(a) = SizeOf(kind),
           NEW i, i \in Nat, NEW k
    PROVE  /\ HoldsAddress(managementTlv(kind, a, i), k) <=> k = kind
           /\ managementTlvGetManagementString(managementTlv(kind, a, i).value).address = a
<1> DEFINE m == managementTlv(kind, a, i)
           s == managementTlvGetManagementString(m.value)
<1>1. m.type = MANAGEMENT_ADDRESS /\ AddressFits(m.value)
      /\ s = [subtype |-> kind, address |-> a]
  BY ManagementElement
<1> HIDE DEF s
<1>2. s.subtype = kind /\ s.address = a
  BY <1>1
<1> QED
  BY <1>1, <1>2 DEF HoldsAddress, s

LEMMA MaxOfOne ==
    ASSUME NEW n \in Nat
    PROVE  Max({n}) = n
  BY DEF Max

\* The address of a kind, from the elements a sender may have put in.
LEMMA AddressOfOne ==
    ASSUME NEW unit, NEW m, unit.optional_tlv = <<m>>, NEW k
    PROVE  ManagementAddress(unit, k) =
              IF HoldsAddress(m, k) THEN managementTlvGetManagementString(m.value).address
              ELSE None
<1> DEFINE all == {j \in DOMAIN unit.optional_tlv : HoldsAddress(unit.optional_tlv[j], k)}
<1>1. DOMAIN unit.optional_tlv = {1} /\ unit.optional_tlv[1] = m
  OBVIOUS
<1>2. all = IF HoldsAddress(m, k) THEN {1} ELSE {}
  BY <1>1
<1>3. ManagementAddress(unit, k) =
        IF all = {} THEN None
        ELSE managementTlvGetManagementString(unit.optional_tlv[Max(all)].value).address
  BY DEF ManagementAddress
<1> HIDE DEF all
<1>4. Max({1}) = 1
  BY MaxOfOne
<1> QED
  BY <1>1, <1>2, <1>3, <1>4

LEMMA AddressOfTwo ==
    ASSUME NEW unit, NEW m, NEW n, m \in Element, n \in Element,
           unit.optional_tlv = <<m>> \o <<n>>,
           NEW k, ~(HoldsAddress(m, k) /\ HoldsAddress(n, k))
    PROVE  ManagementAddress(unit, k) =
              IF HoldsAddress(m, k) THEN managementTlvGetManagementString(m.value).address
              ELSE IF HoldsAddress(n, k) THEN managementTlvGetManagementString(n.value).address
              ELSE None
<1> DEFINE all == {j \in DOMAIN unit.optional_tlv : HoldsAddress(unit.optional_tlv[j], k)}
<1>1. DOMAIN unit.optional_tlv = {1, 2} /\ unit.optional_tlv[1] = m /\ unit.optional_tlv[2] = n
  <2> DEFINE x == <<m>>
             y == <<n>>
             v == x \o y
  <2>1. x \in Seq(Element) /\ Len(x) = 1 /\ x[1] = m
        /\ y \in Seq(Element) /\ Len(y) = 1 /\ y[1] = n
    OBVIOUS
  <2> HIDE DEF x, y
  <2>2. v \in Seq(Element) /\ Len(v) = Len(x) + Len(y)
        /\ \A i \in 1..Len(x) + Len(y) : v[i] = IF i <= Len(x) THEN x[i] ELSE y[i - Len(x)]
    BY <2>1, Elements
  <2> HIDE DEF v
  <2>3. DOMAIN v = 1..2 /\ v[1] = m /\ v[2] = n
    BY <2>1, <2>2
  <2> QED
    BY <2>3 DEF v, x, y
<1>2. all = (IF HoldsAddress(m, k) THEN {1} ELSE {}) \cup (IF HoldsAddress(n, k) THEN {2} ELSE {})
  BY <1>1
<1>3. ManagementAddress(unit, k) =
        IF all = {} THEN None
        ELSE managementTlvGetManagementString(unit.optional_tlv[Max(all)].value).address
  BY DEF ManagementAddress
<1> HIDE DEF all
<1>4. Max({1}) = 1 /\ Max({2}) = 2
  BY MaxOfOne
<1>5. CASE HoldsAddress(m, k)
  <2>1. all = {1}
    BY <1>2, <1>5
  <2> QED
    BY <1>1, <1>3, <1>4, <1>5, <2>1
<1>6. CASE ~HoldsAddress(m, k) /\ HoldsAddress(n, k)
  <2>1. all = {2}
    BY <1>2, <1>6
  <2> QED
    BY <1>1, <1>3, <1>4, <1>6, <2>1
<1>7. CASE ~HoldsAddress(m, k) /\ ~HoldsAddress(n, k)
  <2>1. all = {}
    BY <1>2, <1>7
  <2> QED
    BY <1>3, <1>7, <2>1
<1> QED
  BY <1>5, <1>6, <1>7

\* The addresses of an interface.
AddressPair(ip) ==
    /\ ip = [v4 |-> ip.v4, v6 |-> ip.v6]
    /\ ip.v4 # None \/ ip.v6 # None
    /\ ip.v4 # None => ip.v4 \in Seq(Int) /\ Len(ip.v4) = IN_ADDR_SIZE
    /\ ip.v6 # None => ip.v6 \in Seq(Int) /\ Len(ip.v6) = IN6_ADDR_SIZE

\* createLldpduOptionalTlvs puts in one element or two, and their addresses are
\* the ones that are read from them.
OneKind(mac, ip, kind, a) ==
    /\ kind \in Kinds /\ a \in Seq(Int) /\ Len(a) = SizeOf(kind) /\ a # None
    /\ \/ ip = None /\ kind = SUBTYPE_MAC /\ a = mac
       \/ ip = [v4 |-> a, v6 |-> None] /\ kind = SUBTYPE_IPV4
       \/ ip = [v4 |-> None, v6 |-> a] /\ kind = SUBTYPE_IPV6

PutsOne(mac, ip, i, tlvs) ==
    \E kind, a : OneKind(mac, ip, kind, a) /\ tlvs = <<managementTlv(kind, a, i)>>

PutsTwo(ip, i, tlvs) ==
    \E a, b :
       /\ a \in Seq(Int) /\ Len(a) = IN_ADDR_SIZE /\ a # None
       /\ b \in Seq(Int) /\ Len(b) = IN6_ADDR_SIZE /\ b # None
       /\ ip # None /\ ip = [v4 |-> a, v6 |-> b]
       /\ tlvs = <<managementTlv(SUBTYPE_IPV4, a, i)>> \o <<managementTlv(SUBTYPE_IPV6, b, i)>>

LEMMA PutIn ==
    ASSUME None \notin Seq(Int), NEW mac, mac \in Seq(Int), Len(mac) = ETH_ALEN,
           NEW ip, ip = None \/ AddressPair(ip), NEW i
    PROVE  \/ PutsOne(mac, ip, i, createLldpduOptionalTlvs(mac, ip, i))
           \/ PutsTwo(ip, i, createLldpduOptionalTlvs(mac, ip, i))
<1> DEFINE tlvs == createLldpduOptionalTlvs(mac, ip, i)
<1> HIDE DEF tlvs
<1> SUFFICES \/ \E kind, a : OneKind(mac, ip, kind, a) /\ tlvs = <<managementTlv(kind, a, i)>>
             \/ \E a, b :
                   /\ a \in Seq(Int) /\ Len(a) = IN_ADDR_SIZE /\ a # None
                   /\ b \in Seq(Int) /\ Len(b) = IN6_ADDR_SIZE /\ b # None
                   /\ ip # None /\ ip = [v4 |-> a, v6 |-> b]
                   /\ tlvs = <<managementTlv(SUBTYPE_IPV4, a, i)>>
                                 \o <<managementTlv(SUBTYPE_IPV6, b, i)>>
  BY DEF PutsOne, PutsTwo, tlvs
<1> USE DEF tlvs
<1> DEFINE one(subtype, address) == IF address = None THEN <<>>
                                    ELSE <<managementTlv(subtype, address, i)>>
<1>1. createLldpduOptionalTlvs(mac, ip, i) =
         IF ip = None THEN one(SUBTYPE_MAC, mac)
         ELSE one(SUBTYPE_IPV4, ip.v4) \o one(SUBTYPE_IPV6, ip.v6)
  BY DEF createLldpduOptionalTlvs
<1>2. /\ SizeOf(SUBTYPE_IPV4) = IN_ADDR_SIZE /\ SizeOf(SUBTYPE_IPV6) = IN6_ADDR_SIZE
      /\ SizeOf(SUBTYPE_MAC) = ETH_ALEN
  BY DEF SizeOf, SUBTYPE_IPV4, SUBTYPE_IPV6, SUBTYPE_MAC
<1>3. CASE ip = None
  <2>1. OneKind(mac, ip, SUBTYPE_MAC, mac)
    BY <1>2, <1>3 DEF OneKind, Kinds
  <2>2. createLldpduOptionalTlvs(mac, ip, i) = <<managementTlv(SUBTYPE_MAC, mac, i)>>
    BY <1>1, <1>3
  <2> QED
    BY <2>1, <2>2
<1>4. CASE ip # None
  <2> DEFINE a == ip.v4
             b == ip.v6
  <2>1. /\ ip = [v4 |-> a, v6 |-> b]
        /\ a # None \/ b # None
        /\ a # None => a \in Seq(Int) /\ Len(a) = IN_ADDR_SIZE
        /\ b # None => b \in Seq(Int) /\ Len(b) = IN6_ADDR_SIZE
    BY <1>4 DEF AddressPair
  <2>2. createLldpduOptionalTlvs(mac, ip, i) = one(SUBTYPE_IPV4, a) \o one(SUBTYPE_IPV6, b)
    BY <1>1, <1>4
  <2> HIDE DEF a, b
  <2>3. \A x : <<x>> \o <<>> = <<x>> /\ <<>> \o <<x>> = <<x>>
    <3> SUFFICES ASSUME NEW x PROVE <<x>> \o <<>> = <<x>> /\ <<>> \o <<x>> = <<x>>
      OBVIOUS
    <3>1. <<x>> \in Seq({x})
      OBVIOUS
    <3> QED
      BY <3>1, ConcatEmptySeq
  <2>4. CASE b = None
    <3>1. a # None /\ OneKind(mac, ip, SUBTYPE_IPV4, a)
      BY <1>2, <2>1, <2>4 DEF OneKind, Kinds
    <3>2. createLldpduOptionalTlvs(mac, ip, i) = <<managementTlv(SUBTYPE_IPV4, a, i)>>
      BY <2>2, <2>3, <2>4, <3>1
    <3> QED
      BY <3>1, <3>2
  <2>5. CASE a = None
    <3>1. b # None /\ OneKind(mac, ip, SUBTYPE_IPV6, b)
      BY <1>2, <2>1, <2>5 DEF OneKind, Kinds
    <3>2. createLldpduOptionalTlvs(mac, ip, i) = <<managementTlv(SUBTYPE_IPV6, b, i)>>
      BY <2>2, <2>3, <2>5, <3>1
    <3> QED
      BY <3>1, <3>2
  <2>6. CASE a # None /\ b # None
    <3>1. createLldpduOptionalTlvs(mac, ip, i) =
             <<managementTlv(SUBTYPE_IPV4, a, i)>> \o <<managementTlv(SUBTYPE_IPV6, b, i)>>
      BY <2>2, <2>6
    <3> QED
      BY <1>4, <2>1, <2>6, <3>1
  <2> QED
    BY <2>4, <2>5, <2>6
<1> QED
  BY <1>3, <1>4

LEMMA AddressesOfOne ==
    ASSUME None \notin Seq(Int), NEW mac, NEW ip, NEW kind, NEW a, OneKind(mac, ip, kind, a),
           NEW i, i \in Nat, NEW unit, unit.optional_tlv = <<managementTlv(kind, a, i)>>
    PROVE  ManagementAddresses(unit) = ip
<1> DEFINE m == managementTlv(kind, a, i)
<1>1. \A k : ManagementAddress(unit, k) = IF k = kind THEN a ELSE None
  <2> SUFFICES ASSUME NEW k PROVE ManagementAddress(unit, k) = IF k = kind THEN a ELSE None
    OBVIOUS
  <2>1. /\ HoldsAddress(m, k) <=> k = kind
        /\ managementTlvGetManagementString(m.value).address = a
    BY HoldsItsKind DEF OneKind
  <2> HIDE DEF m
  <2>2. ManagementAddress(unit, k) =
           IF HoldsAddress(m, k) THEN managementTlvGetManagementString(m.value).address
           ELSE None
    <3>1. unit.optional_tlv = <<m>>
      BY DEF m
    <3> QED
      BY <3>1, AddressOfOne
  <2> QED
    BY <2>1, <2>2
<1>2. CASE ip = None /\ kind = SUBTYPE_MAC
  BY <1>1, <1>2 DEF ManagementAddresses, SUBTYPE_MAC, SUBTYPE_IPV4, SUBTYPE_IPV6
<1>3. CASE ip = [v4 |-> a, v6 |-> None] /\ kind = SUBTYPE_IPV4
  <2>1. ManagementAddress(unit, SUBTYPE_IPV4) = a /\ ManagementAddress(unit, SUBTYPE_IPV6) = None
        /\ a # None
    BY <1>1, <1>3 DEF SUBTYPE_IPV4, SUBTYPE_IPV6, OneKind
  <2> QED
    BY <1>3, <2>1 DEF ManagementAddresses
<1>4. CASE ip = [v4 |-> None, v6 |-> a] /\ kind = SUBTYPE_IPV6
  <2>1. ManagementAddress(unit, SUBTYPE_IPV4) = None /\ ManagementAddress(unit, SUBTYPE_IPV6) = a
        /\ a # None
    BY <1>1, <1>4 DEF SUBTYPE_IPV4, SUBTYPE_IPV6, OneKind
  <2> QED
    BY <1>4, <2>1 DEF ManagementAddresses
<1> QED
  BY <1>2, <1>3, <1>4 DEF OneKind

LEMMA AddressesOfTwo ==
    ASSUME NEW a, a \in Seq(Int), Len(a) = IN_ADDR_SIZE, a # None,
           NEW b, b \in Seq(Int), Len(b) = IN6_ADDR_SIZE,
           NEW i, i \in Nat, NEW unit,
           unit.optional_tlv =
              <<managementTlv(SUBTYPE_IPV4, a, i)>> \o <<managementTlv(SUBTYPE_IPV6, b, i)>>
    PROVE  ManagementAddresses(unit) = [v4 |-> a, v6 |-> b]
<1> DEFINE m == managementTlv(SUBTYPE_IPV4, a, i)
           n == managementTlv(SUBTYPE_IPV6, b, i)
<1>0. /\ SUBTYPE_IPV4 \in Kinds /\ SUBTYPE_IPV6 \in Kinds /\ SUBTYPE_IPV4 # SUBTYPE_IPV6
      /\ Len(a) = SizeOf(SUBTYPE_IPV4) /\ Len(b) = SizeOf(SUBTYPE_IPV6)
  BY DEF Kinds, SizeOf, SUBTYPE_IPV4, SUBTYPE_IPV6, SUBTYPE_MAC
<1>1. m \in Element /\ n \in Element
  BY <1>0, ManagementElement
<1>2. /\ \A k : HoldsAddress(m, k) <=> k = SUBTYPE_IPV4
      /\ managementTlvGetManagementString(m.value).address = a
  BY <1>0, HoldsItsKind
<1>3. /\ \A k : HoldsAddress(n, k) <=> k = SUBTYPE_IPV6
      /\ managementTlvGetManagementString(n.value).address = b
  BY <1>0, HoldsItsKind
<1>4. unit.optional_tlv = <<m>> \o <<n>>
  OBVIOUS
<1> HIDE DEF m, n
<1>5. ManagementAddress(unit, SUBTYPE_IPV4) = a
  <2>1. ManagementAddress(unit, SUBTYPE_IPV4) =
           IF HoldsAddress(m, SUBTYPE_IPV4) THEN managementTlvGetManagementString(m.value).address
           ELSE IF HoldsAddress(n, SUBTYPE_IPV4) THEN managementTlvGetManagementString(n.value).address
           ELSE None
    BY <1>0, <1>1, <1>2, <1>3, <1>4, AddressOfTwo
  <2> QED
    BY <1>2, <2>1
<1>6. ManagementAddress(unit, SUBTYPE_IPV6) = b
  <2>1. ManagementAddress(unit, SUBTYPE_IPV6) =
           IF HoldsAddress(m, SUBTYPE_IPV6) THEN managementTlvGetManagementString(m.value).address
           ELSE IF HoldsAddress(n, SUBTYPE_IPV6) THEN managementTlvGetManagementString(n.value).address
           ELSE None
    BY <1>0, <1>1, <1>2, <1>3, <1>4, AddressOfTwo
  <2> QED
    BY <1>0, <1>2, <1>3, <2>1
<1> QED
  BY <1>5, <1>6 DEF ManagementAddresses

\* What a sender is given to announce can be written.
Announceable(machine_id, f, i) ==
    /\ machine_id \in Seq(Int) /\ Len(machine_id) + 1 < LENGTH_RANGE
    /\ f.mac \in Seq(Int) /\ Len(f.mac) = ETH_ALEN /\ f.ttl \in Nat
    /\ f.ip = None \/ AddressPair(f.ip)
    /\ i \in Nat

\* None is nothing that is read.
NoneApart == None \notin Seq(Int) \cup LLDPDUTypeLengthValue \cup LLDPDataUnit

\* The octets of a data unit, of which the ones behind the mandatory elements
\* say that the addresses are ip.
MadeOf(frame, rest, ip) ==
    /\ rest \in Seq(Int)
    /\ DataUnitToFrameBuffer(frame) =
          ToFrameBuffer(frame.chassis_id) \o
            (ToFrameBuffer(frame.port_id) \o
                (ToFrameBuffer(frame.time_to_live) \o rest))
    /\ OptionalTlvs(rest) \in Seq(Element)
    /\ \A unit : unit.optional_tlv = OptionalTlvs(rest) => ManagementAddresses(unit) = ip

MacFits(f) == f.mac \in Seq(Int) /\ Len(f.mac) + 1 < LENGTH_RANGE

LEMMA ShortMac ==
    ASSUME NEW machine_id, NEW f, NEW i, Announceable(machine_id, f, i)
    PROVE  /\ MacFits(f) /\ f.ttl \in Nat
           /\ machine_id \in Seq(Int) /\ Len(machine_id) + 1 < LENGTH_RANGE
<1> DEFINE mac == f.mac
<1>1. mac \in Seq(Int) /\ Len(mac) = ETH_ALEN
  BY DEF Announceable
<1>2. ETH_ALEN \in 1..254
  BY CodecConstants
<1> HIDE DEF mac
<1>3. Len(mac) + 1 < LENGTH_RANGE
  BY ONLY <1>1, <1>2 DEF LENGTH_RANGE
<1>4. MacFits(f)
  BY <1>1, <1>3 DEF MacFits, mac
<1> QED
  BY <1>4 DEF Announceable

\* An element with an address is one that can be written and is no end marker.
LEMMA AddressElement ==
    ASSUME NoneApart, NEW kind, kind \in Kinds, NEW a, a \in Seq(Int), Len(a) = SizeOf(kind),
           NEW i, i \in Nat
    PROVE  /\ managementTlv(kind, a, i) \in Element
           /\ managementTlv(kind, a, i).type # END_OF_LLDPDU
           /\ managementTlv(kind, a, i) # None
<1> DEFINE m == managementTlv(kind, a, i)
<1>1. m \in Element /\ m.type = MANAGEMENT_ADDRESS
  BY ManagementElement
<1> HIDE DEF m
<1>2. m \in LLDPDUTypeLengthValue
  BY <1>1 DEF Element, LLDPDUTypeLengthValue
<1>3. m # None
  BY <1>2 DEF NoneApart
<1>4. m.type # END_OF_LLDPDU
  BY <1>1 DEF MANAGEMENT_ADDRESS, END_OF_LLDPDU
<1> QED
  BY <1>1, <1>3, <1>4 DEF m

LEMMA MadeOfOne ==
    ASSUME NEW frame, NEW m, NEW ip,
           frame.chassis_id \in Element, frame.port_id \in Element,
           frame.time_to_live \in Element,
           m \in Element, m.type # END_OF_LLDPDU, m # None, frame.optional_tlv = <<m>>,
           \A unit : unit.optional_tlv = <<m>> => ManagementAddresses(unit) = ip
    PROVE  \E rest : MadeOf(frame, rest, ip)
<1> DEFINE rest == ToFrameBuffer(m) \o <<0, 0>>
<1>1. rest \in Seq(Int) /\ OptionalTlvs(rest) = <<m>>
  BY OptionalOne
<1>2. DataUnitToFrameBuffer(frame) =
        ToFrameBuffer(frame.chassis_id) \o
          (ToFrameBuffer(frame.port_id) \o (ToFrameBuffer(frame.time_to_live) \o rest))
  BY UnitOfOne
<1> HIDE DEF rest
<1>3. OptionalTlvs(rest) \in Seq(Element)
  BY <1>1
<1>4. MadeOf(frame, rest, ip)
  BY <1>1, <1>2, <1>3 DEF MadeOf
<1> QED
  BY <1>4

LEMMA MadeOfTwo ==
    ASSUME NEW frame, NEW m, NEW n, NEW ip,
           frame.chassis_id \in Element, frame.port_id \in Element,
           frame.time_to_live \in Element,
           m \in Element, m.type # END_OF_LLDPDU, m # None,
           n \in Element, n.type # END_OF_LLDPDU, n # None,
           frame.optional_tlv = <<m>> \o <<n>>,
           \A unit : unit.optional_tlv = <<m>> \o <<n>> => ManagementAddresses(unit) = ip
    PROVE  \E rest : MadeOf(frame, rest, ip)
<1> DEFINE rest == ToFrameBuffer(m) \o (ToFrameBuffer(n) \o <<0, 0>>)
<1>1. rest \in Seq(Int) /\ OptionalTlvs(rest) = <<m>> \o <<n>>
  BY OptionalTwo
<1>2. DataUnitToFrameBuffer(frame) =
        ToFrameBuffer(frame.chassis_id) \o
          (ToFrameBuffer(frame.port_id) \o (ToFrameBuffer(frame.time_to_live) \o rest))
  BY UnitOfTwo
<1> HIDE DEF rest
<1>3. OptionalTlvs(rest) \in Seq(Element)
  <2> DEFINE x == <<m>>
             y == <<n>>
  <2>1. x \in Seq(Element) /\ y \in Seq(Element)
    OBVIOUS
  <2> HIDE DEF x, y
  <2>2. x \o y \in Seq(Element)
    BY <2>1, Elements
  <2> QED
    BY <1>1, <2>2 DEF x, y
<1>4. MadeOf(frame, rest, ip)
  BY <1>1, <1>2, <1>3 DEF MadeOf
<1> QED
  BY <1>4

\* The octets of an announcement.
LEMMA UnitOctets ==
    ASSUME NoneApart, NEW machine_id, NEW f, NEW i, Announceable(machine_id, f, i)
    PROVE  \E rest : MadeOf(constructFrame(machine_id, f, i), rest, f.ip)
<1> DEFINE frame == constructFrame(machine_id, f, i)
           mac == f.mac
           ip == f.ip
<1>1. MacFits(f) /\ f.ttl \in Nat /\ machine_id \in Seq(Int)
      /\ Len(machine_id) + 1 < LENGTH_RANGE
  BY ShortMac
<1>2. frame.chassis_id \in Element /\ frame.port_id \in Element /\ frame.time_to_live \in Element
  <2>1. f.mac \in Seq(Int) /\ Len(f.mac) + 1 < LENGTH_RANGE
    BY <1>1 DEF MacFits
  <2> QED
    BY <1>1, <2>1, MandatoryElements
<1>3. frame.optional_tlv = createLldpduOptionalTlvs(mac, ip, i)
  BY DEF constructFrame
<1>4. mac \in Seq(Int) /\ Len(mac) = ETH_ALEN /\ (ip = None \/ AddressPair(ip)) /\ i \in Nat
  BY DEF Announceable
<1> HIDE DEF frame, mac, ip
<1>5. None \notin Seq(Int)
  BY DEF NoneApart
<1>6. ASSUME NEW kind, NEW a, OneKind(mac, ip, kind, a),
             frame.optional_tlv = <<managementTlv(kind, a, i)>>
      PROVE  \E rest : MadeOf(frame, rest, ip)
  <2> DEFINE m == managementTlv(kind, a, i)
  <2>1. kind \in Kinds /\ a \in Seq(Int) /\ Len(a) = SizeOf(kind)
    BY <1>6 DEF OneKind
  <2>2. m \in Element /\ m.type # END_OF_LLDPDU /\ m # None
    BY <1>4, <2>1, AddressElement
  <2>3. \A unit : unit.optional_tlv = <<m>> => ManagementAddresses(unit) = ip
    BY <1>4, <1>5, <1>6, AddressesOfOne
  <2>4. frame.optional_tlv = <<m>>
    BY <1>6
  <2> HIDE DEF m
  <2> QED
    BY <1>2, <2>2, <2>3, <2>4, MadeOfOne
<1>7. ASSUME NEW a, a \in Seq(Int), Len(a) = IN_ADDR_SIZE, a # None,
             NEW b, b \in Seq(Int), Len(b) = IN6_ADDR_SIZE, ip = [v4 |-> a, v6 |-> b],
             frame.optional_tlv =
               <<managementTlv(SUBTYPE_IPV4, a, i)>> \o <<managementTlv(SUBTYPE_IPV6, b, i)>>
      PROVE  \E rest : MadeOf(frame, rest, ip)
  <2> DEFINE m == managementTlv(SUBTYPE_IPV4, a, i)
             n == managementTlv(SUBTYPE_IPV6, b, i)
  <2>1. /\ SUBTYPE_IPV4 \in Kinds /\ SUBTYPE_IPV6 \in Kinds
        /\ Len(a) = SizeOf(SUBTYPE_IPV4) /\ Len(b) = SizeOf(SUBTYPE_IPV6)
    BY <1>7 DEF Kinds, SizeOf, SUBTYPE_IPV4, SUBTYPE_IPV6, SUBTYPE_MAC
  <2>2. m \in Element /\ m.type # END_OF_LLDPDU /\ m # None
    BY <1>4, <1>7, <2>1, AddressElement
  <2>3. n \in Element /\ n.type # END_OF_LLDPDU /\ n # None
    BY <1>4, <1>7, <2>1, AddressElement
  <2>4. \A unit : unit.optional_tlv = <<m>> \o <<n>> => ManagementAddresses(unit) = ip
    BY <1>4, <1>7, AddressesOfTwo
  <2>5. frame.optional_tlv = <<m>> \o <<n>>
    BY <1>7
  <2> HIDE DEF m, n
  <2> QED
    BY <1>2, <2>2, <2>3, <2>4, <2>5, MadeOfTwo
<1>8. \/ \E kind, a : OneKind(mac, ip, kind, a) /\ frame.optional_tlv = <<managementTlv(kind, a, i)>>
      \/ \E a, b : /\ a \in Seq(Int) /\ Len(a) = IN_ADDR_SIZE /\ a # None
                   /\ b \in Seq(Int) /\ Len(b) = IN6_ADDR_SIZE /\ b # None
                   /\ ip # None /\ ip = [v4 |-> a, v6 |-> b]
                   /\ frame.optional_tlv = <<managementTlv(SUBTYPE_IPV4, a, i)>>
                                              \o <<managementTlv(SUBTYPE_IPV6, b, i)>>
  <2>1. PutsOne(mac, ip, i, frame.optional_tlv) \/ PutsTwo(ip, i, frame.optional_tlv)
    BY <1>3, <1>4, <1>5, PutIn
  <2> DEFINE tlvs == frame.optional_tlv
  <2> HIDE DEF tlvs
  <2>2. PutsOne(mac, ip, i, tlvs) \/ PutsTwo(ip, i, tlvs)
    BY <2>1 DEF tlvs
  <2>3. \/ \E kind, a : OneKind(mac, ip, kind, a) /\ tlvs = <<managementTlv(kind, a, i)>>
        \/ \E a, b : /\ a \in Seq(Int) /\ Len(a) = IN_ADDR_SIZE /\ a # None
                     /\ b \in Seq(Int) /\ Len(b) = IN6_ADDR_SIZE /\ b # None
                     /\ ip # None /\ ip = [v4 |-> a, v6 |-> b]
                     /\ tlvs = <<managementTlv(SUBTYPE_IPV4, a, i)>>
                                   \o <<managementTlv(SUBTYPE_IPV6, b, i)>>
    BY ONLY <2>2 DEF PutsOne, PutsTwo
  <2> QED
    BY <2>3 DEF tlvs
<1>9. \E rest : MadeOf(frame, rest, ip)
  BY ONLY <1>6, <1>7, <1>8
<1> QED
  BY <1>9 DEF frame, ip

\* A monitor reads from the octets of an announcement exactly what its sender
\* meant: the chassis, the port, the time to live and the addresses of the
\* interface, which of them it has and whatever they are (constructFrame and
\* createLldpduOptionalTlvs at one end, lldpduToNeighbourEntry at the other).
THEOREM AnnouncementUnderstood ==
    ASSUME NoneApart, NEW machine_id, NEW f, NEW i, Announceable(machine_id, f, i),
           Len(DataUnitToFrameBuffer(constructFrame(machine_id, f, i))) <= MAX_FRAME_BUFFER_SIZE,
           NEW if_index
    PROVE  ReadFrame(DataUnitToFrameBuffer(constructFrame(machine_id, f, i)), TRUE, if_index) =
              [accepted |-> TRUE,
               chassis  |-> ChassisValue(machine_id),
               port     |-> PortValue(f.mac),
               ttl      |-> f.ttl,
               ip       |-> f.ip,
               if_index |-> if_index]
<1> DEFINE frame == constructFrame(machine_id, f, i)
           octets == DataUnitToFrameBuffer(frame)
           unit == DataUnitFromSpan(octets)
<1>1. /\ machine_id \in Seq(Int) /\ Len(machine_id) + 1 < LENGTH_RANGE
      /\ f.mac \in Seq(Int) /\ Len(f.mac) + 1 < LENGTH_RANGE /\ f.ttl \in Nat
      /\ None \notin [type : Nat, value : Seq(Int)]
  BY ShortMac DEF MacFits, NoneApart, LLDPDUTypeLengthValue
<1>2. /\ frame.chassis_id.value = ChassisValue(machine_id)
      /\ frame.port_id.value = PortValue(f.mac)
      /\ frame.chassis_id \in Element /\ frame.port_id \in Element
      /\ frame.time_to_live \in Element
  BY <1>1, MandatoryElements
<1>3. PICK rest : MadeOf(frame, rest, f.ip)
  BY UnitOctets
<1>4. /\ rest \in Seq(Int)
      /\ octets = ToFrameBuffer(frame.chassis_id) \o
                    (ToFrameBuffer(frame.port_id) \o
                        (ToFrameBuffer(frame.time_to_live) \o rest))
      /\ OptionalTlvs(rest) \in Seq(Element)
      /\ \A u : u.optional_tlv = OptionalTlvs(rest) => ManagementAddresses(u) = f.ip
  BY <1>3 DEF MadeOf
<1>5. /\ unit = [chassis_id   |-> frame.chassis_id,
                 port_id      |-> frame.port_id,
                 time_to_live |-> frame.time_to_live,
                 optional_tlv |-> OptionalTlvs(rest)]
      /\ ntohs(unit.time_to_live.value) = f.ttl
  BY <1>1, <1>4, AnnouncementReadBack
<1>6. Len(octets) <= MAX_FRAME_BUFFER_SIZE /\ Len(octets) \in Nat
  <2>1. Len(octets) <= MAX_FRAME_BUFFER_SIZE
    OBVIOUS
  <2>2. octets \in Seq(Int)
    BY <1>2, <1>4, ElementStep
  <2> HIDE DEF octets
  <2> QED
    BY <2>1, <2>2
<1> DEFINE chassis == frame.chassis_id
           port == frame.port_id
           ttl == frame.time_to_live
           optional == OptionalTlvs(rest)
<1> HIDE DEF frame, octets, unit, chassis, port, ttl, optional
<1>7. unit = [chassis_id |-> chassis, port_id |-> port, time_to_live |-> ttl,
              optional_tlv |-> optional]
  BY <1>5 DEF chassis, port, ttl, optional
<1>8. /\ unit.chassis_id = chassis /\ unit.port_id = port /\ unit.optional_tlv = optional
  BY <1>7
<1>9. unit # None
  <2>1. /\ chassis \in LLDPDUTypeLengthValue /\ port \in LLDPDUTypeLengthValue
        /\ ttl \in LLDPDUTypeLengthValue /\ optional \in Seq(LLDPDUTypeLengthValue)
    <3>1. Element \subseteq LLDPDUTypeLengthValue
      BY DEF Element, LLDPDUTypeLengthValue
    <3>2. chassis \in Element /\ port \in Element /\ ttl \in Element /\ optional \in Seq(Element)
      BY <1>2, <1>4 DEF chassis, port, ttl, optional
    <3> QED
      BY <3>1, <3>2
  <2>2. unit \in LLDPDataUnit
    BY <1>7, <2>1 DEF LLDPDataUnit
  <2> QED
    BY <2>2 DEF NoneApart
<1>10. ManagementAddresses(unit) = f.ip
  BY <1>4, <1>8 DEF optional
<1>11. ~(Len(octets) > MAX_FRAME_BUFFER_SIZE)
  BY <1>6, CodecConstants
<1>12. ReadFrame(octets, TRUE, if_index) =
          [accepted |-> TRUE, chassis |-> unit.chassis_id.value, port |-> unit.port_id.value,
           ttl |-> ntohs(unit.time_to_live.value), ip |-> ManagementAddresses(unit),
           if_index |-> if_index]
  BY <1>9, <1>11 DEF ReadFrame, unit
<1>13. unit.chassis_id.value = ChassisValue(machine_id) /\ unit.port_id.value = PortValue(f.mac)
  BY <1>2, <1>8 DEF chassis, port
<1> QED
  BY <1>5, <1>10, <1>12, <1>13 DEF octets, frame

----------------------------------------------------------------------------
(* The link.                                                                *)

\* The frames that wait, on the wire and in the socket.
Waiting(s) == s \in Seq(Announcements)

SenderInv ==
    sender # None => /\ InRange(sender) /\ Settled(sender)
                     /\ sender.out = <<>> /\ sender.mac \in Macs

LinkInv ==
    /\ Waiting(wire) /\ Waiting(inbox) /\ Len(inbox) <= InboxLimit
    /\ ticks \in [Hosts -> 0..MaxLag]
    /\ lost \in 0..LossBudget
    /\ gone \in 0..Forever
    /\ turn \in BOOLEAN /\ steady \in BOOLEAN
    /\ turn => inbox # <<>>

\* What is left of the time to live of the announcer's entry.
TimeToLive == chassis_map[Host][Port].time_to_live

\* An entry of the table, as far as time and addresses go.
IsEntry(e) == /\ {"time_to_live", "ip"} \subseteq DOMAIN e
              /\ e = [k \in DOMAIN e |-> e[k]]

TableInv ==
    /\ \A c \in DOMAIN chassis_map : \A p \in DOMAIN chassis_map[c] : IsEntry(chassis_map[c][p])
    /\ Known => TimeToLive \in 0..TARGET_TTL

TypeInv == SenderInv /\ LinkInv /\ TableInv

\* Seconds a timer of the sender runs at most when the clock is late.
Period == MESSAGE_TRANSMIT_INTERVAL + MaxLag - 1

\* Seconds until a sender s sends, when a seconds are waiting to be reported.
Due(s, a) == (MaxLag - a) + (IF s.ready \/ s.timer = 0 THEN 0 ELSE s.timer - 1)

\* Seconds until a frame reaches the socket of the listener, n being on the wire
\* and k lost: no time passes if they cannot all be lost.
Gap(s, a, n, k) == IF n + k > LossBudget THEN 0
                   ELSE Due(s, a) + (LossBudget - n - k) * Period

\* The entry of a steady neighbour outlasts the next frame and, unless that one is
\* to be received before the clock is read, a lag of the clock.
SteadyInv ==
    steady => /\ sender # None /\ sender.up /\ Known
              /\ (inbox = <<>>) =>
                    TimeToLive - ticks["listener"]
                        > MaxLag + Gap(sender, ticks["announcer"], Len(wire), lost)
              /\ (inbox # <<>> /\ ~turn) => TimeToLive > MaxLag

\* Seconds until the entry times out at the latest, l being unreported.
Left(ttl, l) == (MaxLag - l) + (IF ttl = 0 THEN 0 ELSE ttl - 1)

\* Seconds until n > 0 waiting frames are received and time out.
Drain(n, l, first) == n * MaxLag - l + (IF first THEN 0 ELSE MaxLag) + TARGET_TTL - 1

FadeInv ==
    /\ wire # <<>> => gone = 0
    /\ (Known /\ inbox = <<>>) => gone + Left(TimeToLive, ticks["listener"]) < Forever
    /\ inbox # <<>> => gone + Drain(Len(inbox), ticks["listener"], turn) < Forever

Inv == TypeInv /\ SteadyInv /\ FadeInv

----------------------------------------------------------------------------
(* Constants.                                                               *)

Mac == CHOOSE mac \in Macs : TRUE

LEMMA ConstantFacts ==
    /\ MaxLag \in Nat /\ MaxLag > 0 /\ MaxLag <= MAX_TRANSMIT_CREDITS
    /\ LossBudget \in Nat /\ InboxLimit \in Nat /\ InboxLimit > 0
    /\ TARGET_TTL \in Nat /\ TARGET_TTL > 0
    /\ MESSAGE_TRANSMIT_INTERVAL \in Nat /\ MESSAGE_TRANSMIT_INTERVAL > 0
    /\ Period \in Nat
    /\ Macs = {Mac} /\ Mac # None
<1>1. MaxLag \in 1..MAX_TRANSMIT_CREDITS /\ LossBudget \in Nat /\ InboxLimit \in Nat \ {0}
      /\ MESSAGE_TRANSMIT_INTERVAL > 0
  BY LinkConstants
<1>2. MAX_TRANSMIT_CREDITS \in Nat /\ TARGET_TTL \in Nat /\ MESSAGE_TRANSMIT_INTERVAL \in Nat
  BY SenderConstants
<1>3. MaxLag \in Nat /\ MaxLag > 0 /\ Period \in Nat
  BY <1>1, <1>2 DEF Period
<1>4. TARGET_TTL > 0
  <2> DEFINE most == (LossBudget + 1) * Period
  <2>1. most \in Nat
    BY <1>1, <1>3
  <2>2. most + 2 * MaxLag < TARGET_TTL
    BY LinkMargin DEF Period
  <2> HIDE DEF most
  <2> QED
    BY <1>2, <1>3, <2>1, <2>2
<1>5. Macs = {Mac}
  <2>1. PICK mac \in Macs : Macs = {mac}
    BY LinkConstants
  <2> QED
    BY <2>1 DEF Mac
<1>6. Mac # None
  BY <1>5, LinkConstants
<1> QED
  BY <1>1, <1>2, <1>3, <1>4, <1>5, <1>6

----------------------------------------------------------------------------
(* What the listener makes of a frame of the announcer.                     *)

LEMMA OctetsAreInts == Seq(Octet) \subseteq Seq(Int)
<1>1. Octet \subseteq Int
  BY DEF Octet
<1> QED
  BY <1>1, SeqMonotonic

LEMMA ReadBack ==
    ASSUME NEW f \in Announcements
    PROVE  ReadFrame(Octets(f), TRUE, 1) =
              [accepted |-> TRUE, chassis |-> Host, port |-> Port, ttl |-> f.ttl,
               ip |-> f.ip, if_index |-> 1]
<1>1. f.mac = Mac /\ f.ttl \in Nat /\ f.ip \in Addrs \cup {None}
  BY ConstantFacts DEF Announcements
<1>2. Mac \in Seq(Int) /\ Len(Mac) = ETH_ALEN
  BY ConstantFacts, LinkOctets, OctetsAreInts
<1>3. MachineId \in Seq(Int) /\ Len(MachineId) + 1 < LENGTH_RANGE /\ OwnIndex \in Nat
  BY LinkOctets, OctetsAreInts DEF LENGTH_RANGE
<1>4. f.ip = None \/ AddressPair(f.ip)
  <2> SUFFICES ASSUME f.ip \in Addrs PROVE AddressPair(f.ip)
    BY <1>1
  <2> DEFINE ip == f.ip
  <2>1. /\ ip = [v4 |-> ip.v4, v6 |-> ip.v6] /\ (ip.v4 # None \/ ip.v6 # None)
        /\ ip.v4 # None => ip.v4 \in Seq(Octet) /\ Len(ip.v4) = IN_ADDR_SIZE
        /\ ip.v6 # None => ip.v6 \in Seq(Octet) /\ Len(ip.v6) = IN6_ADDR_SIZE
    BY LinkOctets
  <2> HIDE DEF ip
  <2>2. AddressPair(ip)
    BY <2>1, OctetsAreInts DEF AddressPair
  <2> QED
    BY <2>2 DEF ip
<1>5. Announceable(MachineId, f, OwnIndex)
  BY <1>1, <1>2, <1>3, <1>4 DEF Announceable
<1>6. NoneApart
  BY LinkConstants DEF NoneApart
<1>7. Len(DataUnitToFrameBuffer(constructFrame(MachineId, f, OwnIndex)))
         <= MAX_FRAME_BUFFER_SIZE
  BY AnnouncementsFit DEF Octets
<1> QED
  BY <1>1, <1>5, <1>6, <1>7, AnnouncementUnderstood DEF Octets, Host, Port, Mac

----------------------------------------------------------------------------
(* The two operations on the table.                                         *)

Lists(m, c, p) == c \in DOMAIN m /\ p \in DOMAIN m[c]

LEMMA ParserEffect ==
    ASSUME NEW m, NEW r, r.accepted, NEW c, NEW p
    PROVE  LET n == lldpFrameParser(m, r)
               here == c = r.chassis /\ p = r.port
           IN  /\ Lists(n, c, p) <=> Lists(m, c, p) \/ here
               /\ Lists(n, c, p) => n[c][p] = IF here THEN lldpduToNeighbourEntry(r) ELSE m[c][p]
<1> DEFINE ports == PortMap(m, r.chassis)
           e == lldpduToNeighbourEntry(r)
           own == Assigned(ports, r.port, e)
           n == lldpFrameParser(m, r)
<1>1. n = Assigned(m, r.chassis, own)
  BY DEF lldpFrameParser
<1>2. /\ DOMAIN n = DOMAIN m \cup {r.chassis}
      /\ c \in DOMAIN n => n[c] = IF c = r.chassis THEN own ELSE m[c]
  BY <1>1 DEF Assigned
<1>3. /\ DOMAIN own = DOMAIN ports \cup {r.port}
      /\ p \in DOMAIN own => own[p] = IF p = r.port THEN e ELSE ports[p]
  BY DEF Assigned
<1>4. ports = IF r.chassis \in DOMAIN m THEN m[r.chassis] ELSE EmptyMap
  BY DEF PortMap
<1>5. DOMAIN EmptyMap = {}
  BY DEF EmptyMap
<1> HIDE DEF n, own, ports, e
<1> DEFINE here == c = r.chassis /\ p = r.port
<1>6. /\ Lists(n, c, p) <=> Lists(m, c, p) \/ here
      /\ Lists(n, c, p) => n[c][p] = IF here THEN e ELSE m[c][p]
  <2>1. CASE c = r.chassis
    BY <1>2, <1>3, <1>4, <1>5, <2>1 DEF Lists
  <2>2. CASE c # r.chassis
    BY <1>2, <2>2 DEF Lists
  <2> QED
    BY <2>1, <2>2
<1> QED
  BY <1>6 DEF n, e

LEMMA TickEffect ==
    ASSUME NEW m, NEW delta, NEW c, NEW p
    PROVE  LET n == ListTick(m, delta)
           IN  /\ Lists(n, c, p) <=> Lists(m, c, p) /\ m[c][p].time_to_live > delta
               /\ Lists(n, c, p) => n[c][p] = Aged(m[c][p], delta)
<1> DEFINE n == ListTick(m, delta)
<1>1. /\ DOMAIN n = Remaining(m, delta)
      /\ c \in DOMAIN n => /\ DOMAIN n[c] = Alive(m[c], delta)
                           /\ p \in DOMAIN n[c] => n[c][p] = Aged(m[c][p], delta)
  BY DEF ListTick
<1> HIDE DEF n
<1>2. p \in Alive(m[c], delta) <=> p \in DOMAIN m[c] /\ m[c][p].time_to_live > delta
  BY DEF Alive
<1>3. c \in Remaining(m, delta) <=>
         c \in DOMAIN m /\ (Alive(m[c], delta) # {} \/ Alive(m[c], delta) = DOMAIN m[c])
  BY DEF Remaining
<1> QED
  BY <1>1, <1>2, <1>3 DEF Lists, n

\* The announcement f has made the table m the table n.
Announced(m, n, f) ==
    /\ Lists(n, Host, Port)
    /\ n[Host][Port].time_to_live = f.ttl
    /\ n[Host][Port].ip = f.ip
    /\ IsEntry(n[Host][Port])
    /\ \A c, p : <<c, p>> # <<Host, Port>> =>
          /\ Lists(n, c, p) <=> Lists(m, c, p)
          /\ Lists(n, c, p) => n[c][p] = m[c][p]

LEMMA OwnFrame ==
    ASSUME NEW m, NEW f \in Announcements
    PROVE  Announced(m, lldpFrameParser(m, ReadFrame(Octets(f), TRUE, 1)), f)
<1> DEFINE r == ReadFrame(Octets(f), TRUE, 1)
           n == lldpFrameParser(m, r)
           ttl == f.ttl
           ip == f.ip
<1>1. r = [accepted |-> TRUE, chassis |-> Host, port |-> Port, ttl |-> ttl,
           ip |-> ip, if_index |-> 1]
  BY ReadBack
<1> HIDE DEF r, ttl, ip
<1>2. r.accepted /\ r.chassis = Host /\ r.port = Port /\ r.ttl = ttl /\ r.ip = ip
  BY <1>1
<1>3. \A c, p : /\ Lists(n, c, p) <=> Lists(m, c, p) \/ (c = r.chassis /\ p = r.port)
                /\ Lists(n, c, p) => n[c][p] = IF c = r.chassis /\ p = r.port
                                               THEN lldpduToNeighbourEntry(r) ELSE m[c][p]
  BY <1>2, ParserEffect
<1> HIDE DEF n
<1>4. Lists(n, Host, Port) /\ n[Host][Port] = lldpduToNeighbourEntry(r)
  BY <1>2, <1>3
<1> DEFINE e == lldpduToNeighbourEntry(r)
<1>5. e.time_to_live = ttl /\ e.ip = ip /\ IsEntry(e)
  BY <1>2 DEF lldpduToNeighbourEntry, IsEntry
<1> HIDE DEF e
<1>6. \A c, p : <<c, p>> # <<Host, Port>> =>
         /\ Lists(n, c, p) <=> Lists(m, c, p)
         /\ Lists(n, c, p) => n[c][p] = m[c][p]
  BY <1>2, <1>3
<1> QED
  BY <1>4, <1>5, <1>6 DEF Announced, e, n, r, ttl, ip

----------------------------------------------------------------------------
(* What gets onto the wire.                                                 *)

LEMMA FlattenNone ==
    ASSUME NEW s, Len(s) = 0
    PROVE  FlattenSeq(s) = <<>>
  BY DEF FlattenSeq

LEMMA FlattenOne ==
    ASSUME NEW s, Len(s) = 1
    PROVE  FlattenSeq(s) = s[1]
<1> DEFINE h == [i \in 1..1 |-> s[1]]
<1>1. Flattens(1, s, h)
  <2>1. [i \in 1..1 |-> s[1]] = [i \in 1..1 |-> IF i = 1 THEN s[i] ELSE h[i - 1] \o s[i]]
    OBVIOUS
  <2> QED
    BY <2>1 DEF Flattens
<1> HIDE DEF h
<1>2. PICK g : Flattens(1, s, g) /\ FlattenSeq(s) = g[1]
  <2>1. 1 \in Nat \ {0} /\ Len(s) = 1
    OBVIOUS
  <2> QED
    BY <1>1, <2>1, FlattenBy
<1>3. g[1] = s[1]
  BY <1>2 DEF Flattens
<1> QED
  BY <1>2, <1>3

LEMMA FlattenTwo ==
    ASSUME NEW s, Len(s) = 2
    PROVE  FlattenSeq(s) = s[1] \o s[2]
<1> DEFINE h == [i \in 1..2 |-> IF i = 1 THEN s[1] ELSE s[1] \o s[2]]
<1>1. h = [i \in 1..2 |-> h[i]] /\ h[1] = s[1] /\ h[2] = s[1] \o s[2]
  OBVIOUS
<1> HIDE DEF h
<1>2. Flattens(2, s, h)
  <2>1. ASSUME NEW i \in 1..2 PROVE h[i] = IF i = 1 THEN s[i] ELSE h[i - 1] \o s[i]
    <3>1. CASE i = 1
      BY <1>1, <3>1
    <3>2. CASE i = 2
      <4>1. i # 1 /\ i - 1 = 1
        BY <3>2
      <4> QED
        BY <1>1, <3>2, <4>1
    <3> QED
      BY <3>1, <3>2
  <2>2. [i \in 1..2 |-> h[i]] = [i \in 1..2 |-> IF i = 1 THEN s[i] ELSE h[i - 1] \o s[i]]
    BY <2>1
  <2> QED
    BY <1>1, <2>2 DEF Flattens
<1>3. PICK g : Flattens(2, s, g) /\ FlattenSeq(s) = g[2]
  <2>1. 2 \in Nat \ {0} /\ Len(s) = 2
    OBVIOUS
  <2> QED
    BY <1>2, <2>1, FlattenBy
<1>4. \A i \in 1..2 : g[i] = IF i = 1 THEN s[i] ELSE g[i - 1] \o s[i]
  BY <1>3 DEF Flattens
<1>5. g[1] = s[1] /\ g[2] = g[1] \o s[2]
  <2>1. 1 \in 1..2 /\ 2 \in 1..2 /\ 2 # 1 /\ 2 - 1 = 1
    OBVIOUS
  <2> QED
    BY <1>4, <2>1
<1> QED
  BY <1>3, <1>5

\* The frames a handler has given to sendto() are announcements of the port.
Announces(out) ==
    /\ out \in Seq(Frame) /\ Len(out) <= 2
    /\ \A k \in 1..Len(out) : out[k].ttl \in {0, TARGET_TTL} /\ out[k].mac \in Macs

\* One frame, or nothing if it is lost.
Either(f) == IF f.lost THEN <<>> ELSE <<f>>

LEMMA EitherFacts ==
    ASSUME NEW f \in Frame, f.ttl \in {0, TARGET_TTL}, f.mac \in Macs
    PROVE  /\ Either(f) \in Seq(Announcements)
           /\ ~f.lost => Len(Either(f)) = 1
<1>1. CASE f.lost
  BY <1>1 DEF Either
<1>2. CASE ~f.lost
  <2>1. f \in Announcements
    BY <1>2 DEF Frame, Announcements
  <2> QED
    BY <1>2, <2>1 DEF Either
<1> QED
  BY <1>1, <1>2

LEMMA PassedFacts ==
    ASSUME NEW out, Announces(out)
    PROVE  /\ Passed(out) \in Seq(Announcements)
           /\ (out # <<>> /\ \A k \in 1..Len(out) : ~out[k].lost) => Passed(out) # <<>>
<1> DEFINE s == [k \in DOMAIN out |-> Either(out[k])]
<1>1. Passed(out) = FlattenSeq(s)
  BY DEF Passed, Either
<1>2. out \in Seq(Frame) /\ DOMAIN out = 1..Len(out) /\ Len(out) \in {0, 1, 2}
  <2>1. out \in Seq(Frame) /\ Len(out) <= 2
    BY DEF Announces
  <2>2. Len(out) \in Nat /\ DOMAIN out = 1..Len(out)
    BY <2>1
  <2>3. Len(out) \in {0, 1, 2}
    BY ONLY <2>1, <2>2
  <2> QED
    BY <2>1, <2>2, <2>3
<1>3. Len(s) = Len(out) /\ \A k \in 1..Len(out) : s[k] = Either(out[k])
  BY <1>2
<1>4. \A k \in 1..Len(out) : /\ s[k] \in Seq(Announcements)
                             /\ ~out[k].lost => Len(s[k]) = 1
  <2> SUFFICES ASSUME NEW k \in 1..Len(out)
               PROVE  s[k] \in Seq(Announcements) /\ (~out[k].lost => Len(s[k]) = 1)
    OBVIOUS
  <2> DEFINE f == out[k]
  <2>1. f \in Frame /\ f.ttl \in {0, TARGET_TTL} /\ f.mac \in Macs
    BY <1>2, ElementOfSeq DEF Announces
  <2>2. s[k] = Either(f)
    BY <1>3
  <2> HIDE DEF s, f
  <2>3. s[k] \in Seq(Announcements) /\ (~f.lost => Len(s[k]) = 1)
    BY <2>1, <2>2, EitherFacts
  <2> QED
    BY <2>3 DEF f
<1> HIDE DEF s
<1>5. CASE Len(out) = 0
  <2>1. Passed(out) = <<>> /\ out = <<>>
    BY <1>1, <1>2, <1>3, <1>5, FlattenNone
  <2> QED
    BY <2>1
<1>6. CASE Len(out) = 1
  <2>1. Passed(out) = s[1] /\ 1 \in 1..Len(out)
    BY <1>1, <1>3, <1>6, FlattenOne
  <2> QED
    BY <1>4, <2>1
<1>7. CASE Len(out) = 2
  <2>1. Passed(out) = s[1] \o s[2] /\ 1 \in 1..Len(out) /\ 2 \in 1..Len(out)
    <3>1. Len(s) = 2
      BY <1>3, <1>7
    <3>2. FlattenSeq(s) = s[1] \o s[2]
      BY ONLY <3>1, FlattenTwo
    <3>3. 1 \in 1..Len(out) /\ 2 \in 1..Len(out)
      BY ONLY <1>7
    <3> QED
      BY <1>1, <3>2, <3>3
  <2> DEFINE x == s[1]
             y == s[2]
  <2>2. x \in Seq(Announcements) /\ y \in Seq(Announcements)
        /\ (~out[1].lost => Len(x) = 1)
    BY <1>4, <2>1
  <2> HIDE DEF x, y
  <2>3. x \o y \in Seq(Announcements) /\ Len(x \o y) = Len(x) + Len(y)
    BY <2>2, ConcatProperties
  <2>4. ~out[1].lost => x \o y # <<>>
    <3>1. Len(x \o y) = Len(x) + Len(y) /\ Len(x) \in Nat /\ Len(y) \in Nat
      BY <2>2, <2>3
    <3>2. Len(x) = 1 => Len(x \o y) # 0
      BY <3>1
    <3> QED
      BY <2>2, <3>2
  <2> QED
    BY <2>1, <2>3, <2>4 DEF x, y
<1> QED
  BY <1>2, <1>5, <1>6, <1>7

\* A handler of an operational sender that leaves it operational has lost nothing.
LEMMA HonestPasses ==
    ASSUME NEW s, InRange(s), s.mac \in Macs, Honest(s), Len(s.out) <= 2
    PROVE  /\ Passed(s.out) \in Seq(Announcements)
           /\ (s.up /\ s.out # <<>>) => Passed(s.out) # <<>>
<1>1. s.out \in Seq(Frame)
  BY DEF InRange, Sender
<1>2. \A k \in 1..Len(s.out) : s.out[k].ttl = TARGET_TTL /\ s.out[k].mac = s.mac
                               /\ (s.up => ~s.out[k].lost)
  BY DEF Honest
<1>3. Announces(s.out)
  BY <1>1, <1>2 DEF Announces
<1> QED
  BY <1>2, <1>3, PassedFacts

\* The one frame of a sender that is erased.
LEMMA ShutdownPasses ==
    ASSUME NEW s, InRange(s), s.mac \in Macs, s.out = <<>>, NEW net
    PROVE  Passed(DeleteLldpStateMachine(s, net)) \in Seq(Announcements)
<1>1. s # None /\ s.mac # None /\ s \in Sender
  BY LinkConstants DEF InRange
<1> DEFINE f == [ttl |-> 0, mac |-> s.mac, ip |-> s.ip, lost |-> net[Len(s.out) + 1] = "ENETDOWN"]
           none == <<>>
           r == SendLldp(s, 0, net)
<1>2. f \in Frame /\ f.ttl = 0 /\ f.mac = s.mac
  BY <1>1 DEF Frame, Sender
<1> HIDE DEF f
<1>3. r = [s EXCEPT !.out = Append(s.out, f),
                    !.up = s.up /\ net[Len(s.out) + 1] # "ENETDOWN"]
  BY <1>1 DEF SendLldp, f
<1>4. r.out = Append(none, f)
  BY <1>1, <1>3 DEF Sender
<1> DEFINE out == r.out
<1>5. DeleteLldpStateMachine(s, net) = out
  BY <1>1 DEF DeleteLldpStateMachine, EndTransmission
<1>6. Announces(out)
  <2>1. Append(none, f) \in Seq(Frame) /\ Len(Append(none, f)) = 1 /\ Append(none, f)[1] = f
    BY <1>2
  <2> HIDE DEF none, r
  <2> QED
    BY <1>2, <1>4, <2>1 DEF Announces
<1> HIDE DEF out
<1> QED
  BY <1>5, <1>6, PassedFacts

----------------------------------------------------------------------------
(* The countdown to the next frame.                                         *)

LEMMA Multiples ==
    ASSUME NEW x \in Nat, NEW y \in Nat, NEW p \in Nat, x < y
    PROVE  x * p \in Nat /\ y * p \in Nat /\ x * p + p <= y * p
<1> DEFINE d == y - x - 1
<1>1. d \in Nat /\ y = x + 1 + d
  OBVIOUS
<1> HIDE DEF d
<1>2. y * p = x * p + p + d * p
  BY <1>1
<1>3. x * p \in Nat /\ y * p \in Nat /\ d * p \in Nat
  BY <1>1
<1> QED
  BY <1>2, <1>3

LEMMA DueRange ==
    ASSUME NEW s, InRange(s), NEW a \in 0..MaxLag
    PROVE  Due(s, a) \in 0..Period
<1>1. s.timer \in Nat /\ s.timer <= MESSAGE_TRANSMIT_INTERVAL
  BY DEF InRange, Sender
<1>2. CASE s.ready \/ s.timer = 0
  <2>1. Due(s, a) = MaxLag - a
    BY <1>2, ConstantFacts DEF Due
  <2> QED
    BY <2>1, ConstantFacts DEF Period
<1>3. CASE ~(s.ready \/ s.timer = 0)
  <2>1. Due(s, a) = MaxLag - a + (s.timer - 1)
    BY <1>3 DEF Due
  <2> QED
    BY <1>1, <1>3, <2>1, ConstantFacts DEF Period
<1> QED
  BY <1>2, <1>3

LEMMA GapRange ==
    ASSUME NEW s, InRange(s), NEW a \in 0..MaxLag, NEW n \in Nat, NEW k \in 0..LossBudget
    PROVE  /\ Gap(s, a, n, k) \in Nat
           /\ Gap(s, a, n, k) + 2 * MaxLag < TARGET_TTL
<1> DEFINE most == (LossBudget + 1) * Period
           due == Due(s, a)
<1>1. most \in Nat /\ most + 2 * MaxLag < TARGET_TTL
  BY ConstantFacts, LinkMargin DEF Period
<1>2. due \in Nat /\ due <= Period /\ Period \in Nat
  BY DueRange, ConstantFacts
<1> HIDE DEF due
<1>3. CASE n + k > LossBudget
  <2>1. Gap(s, a, n, k) = 0
    BY <1>3 DEF Gap
  <2> HIDE DEF most
  <2> QED
    BY <1>1, <2>1, ConstantFacts
<1>4. CASE ~(n + k > LossBudget)
  <2> DEFINE x == LossBudget - n - k
             more == x * Period
  <2>1. x \in Nat /\ LossBudget + 1 \in Nat /\ x < LossBudget + 1
    BY <1>4, ConstantFacts
  <2>2. Gap(s, a, n, k) = due + more
    BY <1>4 DEF Gap, due
  <2> HIDE DEF x
  <2>3. more \in Nat /\ more + Period <= most
    BY <1>2, <2>1, Multiples
  <2> HIDE DEF more, most
  <2> QED
    BY <1>1, <1>2, <2>2, <2>3, ConstantFacts
<1> QED
  BY <1>3, <1>4

\* A frame on the wire brings the next one at least as near as it was.
LEMMA GapAfterSend ==
    ASSUME NEW s, InRange(s), NEW a \in 0..MaxLag, NEW r, InRange(r), NEW b \in 0..MaxLag,
           NEW n \in Nat \ {0}, NEW k \in 0..LossBudget
    PROVE  Gap(r, b, n, k) <= Gap(s, a, 0, k)
<1> DEFINE due == Due(r, b)
           old == Due(s, a)
           y == LossBudget - k
           most == y * Period
<1>1. /\ due \in Nat /\ due <= Period /\ old \in Nat /\ Period \in Nat
      /\ y \in Nat
  BY DueRange, ConstantFacts
<1>2. Gap(s, a, 0, k) = old + most
  <2>1. ~(0 + k > LossBudget) /\ LossBudget - 0 - k = y
    BY ConstantFacts
  <2> QED
    BY <2>1 DEF Gap
<1>3. most \in Nat
  BY <1>1
<1> HIDE DEF due, old
<1>4. CASE n + k > LossBudget
  <2>1. Gap(r, b, n, k) = 0
    BY <1>4 DEF Gap
  <2> HIDE DEF most
  <2> QED
    BY <1>1, <1>2, <1>3, <2>1
<1>5. CASE ~(n + k > LossBudget)
  <2> DEFINE x == LossBudget - n - k
             more == x * Period
  <2>1. x \in Nat /\ x < y
    BY <1>5, ConstantFacts
  <2>2. Gap(r, b, n, k) = due + more
    BY <1>5 DEF Gap, due
  <2> HIDE DEF x, y
  <2>3. more \in Nat /\ more + Period <= most
    BY <1>1, <2>1, Multiples
  <2> HIDE DEF more, most
  <2> QED
    BY <1>1, <1>2, <1>3, <2>2, <2>3
<1> QED
  BY <1>4, <1>5

\* Without one it stays as near if the sender is no later.
LEMMA GapKept ==
    ASSUME NEW s, InRange(s), NEW a \in 0..MaxLag, NEW r, InRange(r), NEW b \in 0..MaxLag,
           NEW k \in 0..LossBudget, NEW d \in Nat, Due(r, b) + d <= Due(s, a)
    PROVE  Gap(r, b, 0, k) + d <= Gap(s, a, 0, k)
<1> DEFINE due == Due(r, b)
           old == Due(s, a)
           most == (LossBudget - k) * Period
<1>1. due \in Nat /\ old \in Nat /\ Period \in Nat /\ LossBudget - k \in Nat /\ due + d <= old
  BY DueRange, ConstantFacts
<1>2. most \in Nat
  BY <1>1
<1>3. ~(0 + k > LossBudget) /\ LossBudget - 0 - k = LossBudget - k
  BY ConstantFacts
<1>4. Gap(s, a, 0, k) = old + most /\ Gap(r, b, 0, k) = due + most
  BY <1>3 DEF Gap
<1> HIDE DEF due, old, most
<1> QED
  BY <1>1, <1>2, <1>4

\* A second brings it nearer.
LEMMA GapSecond ==
    ASSUME NEW s, InRange(s), NEW a \in 0..MaxLag, a + 1 \in 0..MaxLag, NEW k \in 0..LossBudget
    PROVE  Gap(s, a + 1, 0, k) + 1 <= Gap(s, a, 0, k)
<1> DEFINE wait == IF s.ready \/ s.timer = 0 THEN 0 ELSE s.timer - 1
<1>1. wait \in Int
  BY DEF InRange, Sender
<1>2. Due(s, a) = MaxLag - a + wait /\ Due(s, a + 1) = MaxLag - (a + 1) + wait
  BY DEF Due
<1> HIDE DEF wait
<1>3. Due(s, a + 1) + 1 <= Due(s, a)
  BY <1>1, <1>2, ConstantFacts
<1> QED
  BY <1>3, GapKept

\* A frame that is lost was counted as lost before.
LEMMA GapLose ==
    ASSUME NEW s, NEW a, NEW n \in Nat \ {0}, NEW k \in Nat
    PROVE  Gap(s, a, n - 1, k + 1) = Gap(s, a, n, k)
<1>1. /\ (n - 1) + (k + 1) = n + k
      /\ LossBudget - (n - 1) - (k + 1) = LossBudget - n - k
  BY ConstantFacts
<1> QED
  BY <1>1 DEF Gap

LEMMA DueQuiet ==
    ASSUME NEW s, InRange(s), Settled(s), NEW a
    PROVE  Due(Quiet(s), a) = Due(s, a)
<1>1. Quiet(s).ready = s.ready /\ Quiet(s).timer = s.timer
  BY QuietFacts
<1> QED
  BY <1>1 DEF Due

----------------------------------------------------------------------------
(* The handlers of the announcing host.                                     *)

\* What they have in common.
Handled(s, out) ==
    /\ Leave(s, out)
    /\ s # None => InRange(s) /\ Settled(s) /\ s.mac \in Macs
    /\ Passed(out) \in Seq(Announcements)
    /\ ticks' \in [Hosts -> 0..MaxLag]
    /\ ticks'["listener"] = ticks["listener"]
    /\ (steady /\ s # None /\ s.up)
          => Gap(s, ticks'["announcer"], Len(Passed(out)), lost)
                <= Gap(sender, ticks["announcer"], 0, lost)

LEMMA PassedNothing ==
    ASSUME NEW out, out \in Seq(Frame), Len(out) = 0
    PROVE  Passed(out) = <<>>
<1> DEFINE s == [k \in DOMAIN out |-> Either(out[k])]
<1>1. Passed(out) = FlattenSeq(s)
  BY DEF Passed, Either
<1>2. Len(s) = 0
  OBVIOUS
<1> HIDE DEF s
<1> QED
  BY <1>1, <1>2, FlattenNone

LEMMA InRangeNotNone ==
    ASSUME NEW s, InRange(s)
    PROVE  s # None /\ s.out \in Seq(Frame) /\ s.up \in BOOLEAN
  BY LinkConstants DEF InRange, Sender

LEMMA TicksFacts ==
    ASSUME TypeInv
    PROVE  /\ ticks["announcer"] \in 0..MaxLag /\ ticks["listener"] \in 0..MaxLag
           /\ [ticks EXCEPT !["announcer"] = 0] \in [Hosts -> 0..MaxLag]
           /\ [ticks EXCEPT !["announcer"] = 0]["listener"] = ticks["listener"]
           /\ [ticks EXCEPT !["announcer"] = 0]["announcer"] = 0
  BY ConstantFacts DEF TypeInv, LinkInv, Hosts

LEMMA DiscoverHandled ==
    ASSUME TypeInv, SteadyInv, NEW net, NEW d \in DeviceData, d.mac # None, Discover(d, net)
    PROVE  \E s, out : Handled(s, out)
<1> DEFINE s == CreateLldpStateMachine(d, net)
<1>1. sender = None /\ Leave(s, s.out) /\ ticks' = ticks
  BY DEF Discover
<1>2. InRange(s) /\ Settled(s) /\ s.mac = d.mac /\ Len(s.out) = 0
  BY CreateFacts
<1> HIDE DEF s
<1>3. d.mac \in Macs
  BY DEF DeviceData
<1>4. s.out \in Seq(Frame)
  BY <1>2 DEF InRange, Sender
<1>5. Passed(s.out) = <<>>
  BY <1>2, <1>4, PassedNothing
<1>6. ~steady
  BY <1>1 DEF SteadyInv
<1>7. Handled(s, s.out)
  BY <1>1, <1>2, <1>3, <1>5, <1>6 DEF Handled, TypeInv, LinkInv
<1> QED
  BY <1>7

LEMMA ChangeHandled ==
    ASSUME TypeInv, SteadyInv, NEW net, NEW d \in DeviceData, Change(d, net)
    PROVE  \E s, out : Handled(s, out)
<1> DEFINE s == Update(sender, d, net)
           a == ticks["announcer"]
<1>1. sender # None /\ Leave(s, s.out) /\ ticks' = ticks
  BY DEF Change
<1>2. InRange(sender) /\ Settled(sender) /\ sender.out = <<>> /\ sender.mac \in Macs
      /\ a \in 0..MaxLag /\ lost \in 0..LossBudget /\ ticks \in [Hosts -> 0..MaxLag]
  BY <1>1, TicksFacts DEF TypeInv, SenderInv, LinkInv
<1>3. /\ InRange(s) /\ Settled(s) /\ s.mac = sender.mac /\ Len(s.out) <= 2 /\ Honest(s)
      /\ (sender.up /\ s.up /\ s.out = <<>>)
            => s.ready \/ (s.timer = sender.timer /\ s.ready = sender.ready)
  BY <1>2, UpdateFacts, UpdateHonest
<1> HIDE DEF s, a
<1>4. /\ Passed(s.out) \in Seq(Announcements)
      /\ (s.up /\ s.out # <<>>) => Passed(s.out) # <<>>
  BY <1>2, <1>3, HonestPasses
<1>5. ASSUME steady, s.up
      PROVE  Gap(s, a, Len(Passed(s.out)), lost) <= Gap(sender, a, 0, lost)
  <2>1. sender.up
    BY <1>5 DEF SteadyInv
  <2>2. CASE s.out # <<>>
    <3> DEFINE n == Len(Passed(s.out))
    <3>1. n \in Nat \ {0}
      BY <1>4, <1>5, <2>2, EmptySeq
    <3> HIDE DEF n
    <3>2. Gap(s, a, n, lost) <= Gap(sender, a, 0, lost)
      BY <1>2, <1>3, <3>1, GapAfterSend
    <3> QED
      BY <3>2 DEF n
  <2>3. CASE s.out = <<>>
    <3>1. Passed(s.out) = <<>> /\ Len(Passed(s.out)) = 0
      <4>1. s.out \in Seq(Frame) /\ Len(s.out) = 0
        BY <1>3, <2>3 DEF InRange, Sender
      <4> QED
        BY <4>1, PassedNothing
    <3>2. Due(s, a) + 0 <= Due(sender, a)
      <4>1. s.ready \/ (s.timer = sender.timer /\ s.ready = sender.ready)
        BY <1>3, <1>5, <2>1, <2>3
      <4>2. sender.timer \in Nat /\ MaxLag - a \in Int
        BY <1>2, ConstantFacts DEF InRange, Sender
      <4>3. CASE s.ready
        <5>1. Due(s, a) = (MaxLag - a) + 0
          BY <4>3 DEF Due
        <5>2. Due(sender, a) = MaxLag - a
                + (IF sender.ready \/ sender.timer = 0 THEN 0 ELSE sender.timer - 1)
          BY DEF Due
        <5> QED
          BY <4>2, <5>1, <5>2
      <4>4. CASE s.timer = sender.timer /\ s.ready = sender.ready
        <5>1. Due(s, a) = Due(sender, a)
          BY <4>4 DEF Due
        <5>2. Due(sender, a) \in Int
          BY <1>2, DueRange
        <5> QED
          BY <5>1, <5>2
      <4> QED
        BY <4>1, <4>3, <4>4
    <3>3. Gap(s, a, 0, lost) + 0 <= Gap(sender, a, 0, lost)
      BY <1>2, <1>3, <3>2, GapKept
    <3>4. Gap(s, a, 0, lost) \in Nat
      BY <1>2, <1>3, GapRange
    <3> QED
      BY <3>1, <3>3, <3>4
  <2> QED
    BY <2>2, <2>3
<1>6. Handled(s, s.out)
  <2>1. s.mac \in Macs
    BY <1>2, <1>3
  <2>2. (steady /\ s # None /\ s.up)
          => Gap(s, ticks'["announcer"], Len(Passed(s.out)), lost)
                <= Gap(sender, ticks["announcer"], 0, lost)
    BY <1>1, <1>5 DEF a
  <2> QED
    BY <1>1, <1>2, <1>3, <1>4, <2>1, <2>2 DEF Handled
<1> QED
  BY <1>6

LEMMA ClockHandled ==
    ASSUME TypeInv, SteadyInv, NEW net, AnnouncerClock(net)
    PROVE  \E s, out : Handled(s, out)
<1> DEFINE a == ticks["announcer"]
           s == SenderTick(sender, a, net)
<1>1. /\ sender # None /\ a > 0 /\ Leave(s, s.out)
      /\ ticks' = [ticks EXCEPT !["announcer"] = 0]
  BY DEF AnnouncerClock
<1>2. /\ InRange(sender) /\ Settled(sender) /\ sender.out = <<>> /\ sender.mac \in Macs
      /\ a \in 0..MaxLag /\ lost \in 0..LossBudget
      /\ ticks' \in [Hosts -> 0..MaxLag] /\ ticks'["listener"] = ticks["listener"]
      /\ ticks'["announcer"] = 0
  BY <1>1, TicksFacts DEF TypeInv, SenderInv, LinkInv
<1>3. a \in 1..MAX_TRANSMIT_CREDITS /\ a \in Nat \ {0}
  BY <1>1, <1>2, ConstantFacts, SenderConstants
<1>4. sender.mac # None
  BY <1>2, ConstantFacts
<1> HIDE DEF a
<1>5. /\ InRange(s) /\ Settled(s) /\ s.mac = sender.mac /\ Len(s.out) <= 2
      /\ (sender.up /\ s.out = <<>>)
            => ~sender.ready /\ ~s.ready /\ s.timer > 0 /\ s.timer + a = sender.timer
  <2>1. CASE sender.up
    BY <1>2, <1>3, <1>4, <2>1, TickFacts
  <2>2. CASE ~sender.up
    <3>1. s = sender
      BY <2>2 DEF SenderTick
    <3> QED
      BY <1>2, <2>2, <3>1
  <2> QED
    BY <2>1, <2>2
<1>6. Honest(s)
  BY <1>2, <1>3, TickHonest
<1> HIDE DEF s
<1>7. /\ Passed(s.out) \in Seq(Announcements)
      /\ (s.up /\ s.out # <<>>) => Passed(s.out) # <<>>
  BY <1>2, <1>5, <1>6, HonestPasses
<1>8. 0 \in 0..MaxLag
  BY ConstantFacts
<1>9. ASSUME steady, s.up
      PROVE  Gap(s, 0, Len(Passed(s.out)), lost) <= Gap(sender, a, 0, lost)
  <2>1. sender.up
    BY <1>9 DEF SteadyInv
  <2>2. CASE s.out # <<>>
    <3> DEFINE n == Len(Passed(s.out))
    <3>1. n \in Nat \ {0}
      BY <1>7, <1>9, <2>2, EmptySeq
    <3> HIDE DEF n
    <3>2. Gap(s, 0, n, lost) <= Gap(sender, a, 0, lost)
      BY <1>2, <1>5, <1>8, <3>1, GapAfterSend
    <3> QED
      BY <3>2 DEF n
  <2>3. CASE s.out = <<>>
    <3>1. Passed(s.out) = <<>> /\ Len(Passed(s.out)) = 0
      <4>1. s.out \in Seq(Frame) /\ Len(s.out) = 0
        BY <1>5, <2>3 DEF InRange, Sender
      <4> QED
        BY <4>1, PassedNothing
    <3>2. Due(s, 0) + 0 <= Due(sender, a)
      <4>1. ~sender.ready /\ ~s.ready /\ s.timer > 0 /\ s.timer + a = sender.timer
            /\ s.timer \in Nat /\ sender.timer \in Nat
        BY <1>2, <1>5, <2>1, <2>3 DEF InRange, Sender
      <4>2. s.timer # 0 /\ sender.timer # 0
        BY <1>3, <4>1
      <4>3. /\ Due(s, 0) = (MaxLag - 0) + (s.timer - 1)
            /\ Due(sender, a) = (MaxLag - a) + (sender.timer - 1)
        BY <4>1, <4>2 DEF Due
      <4> QED
        BY <1>3, <4>1, <4>3, ConstantFacts
    <3>3. Gap(s, 0, 0, lost) + 0 <= Gap(sender, a, 0, lost)
      BY <1>2, <1>5, <1>8, <3>2, GapKept
    <3>4. Gap(s, 0, 0, lost) \in Nat
      BY <1>2, <1>5, <1>8, GapRange
    <3> QED
      BY <3>1, <3>3, <3>4
  <2> QED
    BY <2>2, <2>3
<1>10. Handled(s, s.out)
  <2>1. s.mac \in Macs
    BY <1>2, <1>5
  <2>2. (steady /\ s # None /\ s.up)
          => Gap(s, ticks'["announcer"], Len(Passed(s.out)), lost)
                <= Gap(sender, ticks["announcer"], 0, lost)
    BY <1>2, <1>9 DEF a
  <2> QED
    BY <1>1, <1>2, <1>5, <1>7, <2>1, <2>2 DEF Handled
<1> QED
  BY <1>10

LEMMA VanishHandled ==
    ASSUME TypeInv, NEW net, Vanish(net)
    PROVE  \E s, out : Handled(s, out)
<1> DEFINE out == DeleteLldpStateMachine(sender, net)
<1>1. sender # None /\ Leave(None, out) /\ ticks' = [ticks EXCEPT !["announcer"] = 0]
  BY DEF Vanish
<1>2. InRange(sender) /\ sender.mac \in Macs /\ sender.out = <<>>
  BY <1>1 DEF TypeInv, SenderInv
<1>3. Passed(out) \in Seq(Announcements)
  BY <1>2, ShutdownPasses
<1> HIDE DEF out
<1>4. Handled(None, out)
  BY <1>1, <1>3, TicksFacts DEF Handled
<1> QED
  BY <1>4

LEMMA StopHandled ==
    ASSUME TypeInv, Stop
    PROVE  \E s, out : Handled(s, out)
<1> DEFINE out == <<>>
<1>1. Leave(None, out) /\ ticks' = [ticks EXCEPT !["announcer"] = 0]
  BY DEF Stop
<1>2. Passed(out) = <<>>
  <2>1. out \in Seq(Frame) /\ Len(out) = 0
    OBVIOUS
  <2> HIDE DEF out
  <2> QED
    BY <2>1, PassedNothing
<1> HIDE DEF out
<1>3. Handled(None, out)
  BY <1>1, <1>2, TicksFacts DEF Handled
<1> QED
  BY <1>3

----------------------------------------------------------------------------
(* The countdown to the last of a neighbour.                                *)

LEMMA LeftRange ==
    ASSUME NEW ttl \in 0..TARGET_TTL, NEW l \in 0..MaxLag
    PROVE  Left(ttl, l) \in Int /\ Left(ttl, l) < Forever
<1> DEFINE most == (InboxLimit + 1) * MaxLag
           rest == IF ttl = 0 THEN 0 ELSE ttl - 1
<1>1. most \in Nat /\ MaxLag <= most
  <2>1. 0 * MaxLag + MaxLag <= most /\ most \in Nat
    BY Multiples, ConstantFacts
  <2> QED
    BY <2>1, ConstantFacts
<1>2. rest \in Nat /\ rest <= TARGET_TTL
  BY ConstantFacts
<1>3. Left(ttl, l) = MaxLag - l + rest /\ Forever = TARGET_TTL + most + 1
  BY DEF Left, Forever
<1> HIDE DEF most, rest
<1> QED
  BY <1>1, <1>2, <1>3, ConstantFacts

LEMMA ForeverNat == Forever \in Nat
<1>1. (InboxLimit + 1) * MaxLag \in Nat
  BY ConstantFacts
<1> QED
  BY <1>1, ConstantFacts DEF Forever

LEMMA DrainRange ==
    ASSUME NEW n \in 0..InboxLimit, NEW l \in 0..MaxLag, NEW first \in BOOLEAN
    PROVE  Drain(n, l, first) \in Int /\ Drain(n, l, first) < Forever
<1> DEFINE most == (InboxLimit + 1) * MaxLag
           some == n * MaxLag
           rest == IF first THEN 0 ELSE MaxLag
<1>1. some \in Nat /\ most \in Nat /\ some + MaxLag <= most
  BY Multiples, ConstantFacts
<1>2. rest \in Nat /\ rest <= MaxLag
  BY ConstantFacts
<1>3. /\ Drain(n, l, first) = some - l + rest + TARGET_TTL - 1
      /\ Forever = TARGET_TTL + most + 1
  BY DEF Drain, Forever
<1> HIDE DEF most, some, rest
<1> QED
  BY <1>1, <1>2, <1>3, ConstantFacts

\* A second, a frame received, the clock read: nothing lasts longer for it.
LEMMA DrainSecond ==
    ASSUME NEW n \in Nat, NEW l \in Nat, NEW first \in BOOLEAN
    PROVE  Drain(n, l + 1, first) + 1 = Drain(n, l, first)
<1> DEFINE some == n * MaxLag
           rest == IF first THEN 0 ELSE MaxLag
<1>1. some \in Nat /\ rest \in Nat
  BY ConstantFacts
<1>2. /\ Drain(n, l + 1, first) = some - (l + 1) + rest + TARGET_TTL - 1
      /\ Drain(n, l, first) = some - l + rest + TARGET_TTL - 1
  BY DEF Drain
<1> HIDE DEF some, rest
<1> QED
  BY <1>1, <1>2, ConstantFacts

LEMMA DrainReceive ==
    ASSUME NEW n \in Nat \ {0}, NEW l \in 0..MaxLag, NEW first \in BOOLEAN
    PROVE  Drain(n - 1, l, FALSE) <= Drain(n, l, first)
<1> DEFINE some == n * MaxLag
           fewer == (n - 1) * MaxLag
           rest == IF first THEN 0 ELSE MaxLag
<1>1. some \in Nat /\ fewer \in Nat /\ fewer + MaxLag <= some
  <2>1. n - 1 \in Nat /\ n \in Nat /\ n - 1 < n
    OBVIOUS
  <2> QED
    BY <2>1, Multiples, ConstantFacts
<1>2. rest \in Nat
  BY ConstantFacts
<1>3. /\ Drain(n, l, first) = some - l + rest + TARGET_TTL - 1
      /\ Drain(n - 1, l, FALSE) = fewer - l + MaxLag + TARGET_TTL - 1
  BY DEF Drain
<1> HIDE DEF some, fewer, rest
<1>4. fewer - l + MaxLag + TARGET_TTL - 1 <= some - l + rest + TARGET_TTL - 1
  BY <1>1, <1>2, ConstantFacts
<1> QED
  BY ONLY <1>3, <1>4

LEMMA DrainLast ==
    ASSUME NEW l \in 0..MaxLag, NEW first \in BOOLEAN, NEW ttl \in 0..TARGET_TTL
    PROVE  Left(ttl, l) <= Drain(1, l, first)
<1> DEFINE rest == IF first THEN 0 ELSE MaxLag
           time == IF ttl = 0 THEN 0 ELSE ttl - 1
<1>1. rest \in Nat /\ time \in Nat /\ time <= TARGET_TTL - 1
  BY ConstantFacts
<1>2. /\ Drain(1, l, first) = MaxLag - l + rest + TARGET_TTL - 1
      /\ Left(ttl, l) = MaxLag - l + time
  <2>1. 1 * MaxLag = MaxLag
    BY ConstantFacts
  <2> QED
    BY <2>1 DEF Drain, Left
<1> HIDE DEF rest, time
<1> QED
  BY <1>1, <1>2, ConstantFacts

LEMMA DrainClock ==
    ASSUME NEW n \in Nat, NEW l \in 0..MaxLag
    PROVE  Drain(n, 0, TRUE) <= Drain(n, l, FALSE)
<1> DEFINE some == n * MaxLag
<1>1. some \in Nat
  BY ConstantFacts
<1>2. /\ Drain(n, 0, TRUE) = some - 0 + 0 + TARGET_TTL - 1
      /\ Drain(n, l, FALSE) = some - l + MaxLag + TARGET_TTL - 1
  BY DEF Drain
<1> HIDE DEF some
<1>3. some - 0 + 0 + TARGET_TTL - 1 <= some - l + MaxLag + TARGET_TTL - 1
  BY <1>1, ConstantFacts
<1> QED
  BY ONLY <1>2, <1>3

----------------------------------------------------------------------------
(* The invariant.                                                           *)

LEMMA InitInv == Init => Inv
<1> SUFFICES ASSUME Init PROVE Inv
  OBVIOUS
<1>1. DOMAIN EmptyMap = {}
  BY DEF EmptyMap
<1>2. ~Known
  BY <1>1 DEF Init, Known
<1>3. TypeInv
  <2>1. SenderInv
    BY DEF Init, SenderInv
  <2>2. LinkInv
    <3> DEFINE none == <<>>
    <3>1. none \in Seq(Announcements) /\ Len(none) = 0
      OBVIOUS
    <3>2. wire = none /\ inbox = none /\ turn = FALSE /\ steady = FALSE
      BY DEF Init
    <3> HIDE DEF none
    <3>3. Waiting(wire) /\ Waiting(inbox) /\ Len(inbox) <= InboxLimit
      BY <3>1, <3>2, ConstantFacts DEF Waiting
    <3>4. ticks \in [Hosts -> 0..MaxLag] /\ lost \in 0..LossBudget /\ gone \in 0..Forever
      BY ConstantFacts, ForeverNat DEF Init
    <3> QED
      BY <3>2, <3>3, <3>4 DEF LinkInv
  <2>3. TableInv
    BY <1>1, <1>2 DEF Init, TableInv
  <2> QED
    BY <2>1, <2>2, <2>3 DEF TypeInv
<1>4. SteadyInv
  BY DEF Init, SteadyInv
<1>5. FadeInv
  BY <1>2 DEF Init, FadeInv
<1> QED
  BY <1>3, <1>4, <1>5 DEF Inv

LEMMA HandledInv ==
    ASSUME Inv, NEW s, NEW out, Handled(s, out)
    PROVE  Inv'
<1>1. /\ wire = <<>> /\ wire' = Passed(out) /\ gone' = 0
      /\ sender' = IF s = None THEN None ELSE Quiet(s)
      /\ steady' = (steady /\ s # None /\ s.up)
      /\ UNCHANGED <<chassis_map, inbox, turn, told, lost>>
  BY DEF Handled, Leave
<1>2. /\ s # None => InRange(s) /\ Settled(s) /\ s.mac \in Macs
      /\ Passed(out) \in Seq(Announcements)
      /\ ticks' \in [Hosts -> 0..MaxLag]
      /\ ticks'["listener"] = ticks["listener"]
      /\ (steady /\ s # None /\ s.up)
           => Gap(s, ticks'["announcer"], Len(Passed(out)), lost)
                 <= Gap(sender, ticks["announcer"], 0, lost)
  BY DEF Handled
<1>3. TypeInv /\ SteadyInv /\ FadeInv
  BY DEF Inv
<1>4. s # None => /\ InRange(Quiet(s)) /\ Settled(Quiet(s)) /\ Quiet(s).out = <<>>
                  /\ Quiet(s).mac = s.mac /\ Quiet(s).up = s.up
                  /\ s.up \in BOOLEAN /\ Quiet(s) # None
  BY <1>2, QuietFacts, InRangeNotNone
<1>5. Known' = Known /\ TimeToLive' = TimeToLive
  BY <1>1 DEF Known, TimeToLive
<1>6. TypeInv'
  <2>1. SenderInv'
    BY <1>1, <1>2, <1>4 DEF SenderInv
  <2>2. LinkInv'
    <3>1. steady' \in BOOLEAN
      BY <1>1
    <3>2. gone' \in 0..Forever
      BY <1>1, ForeverNat
    <3> QED
      BY <1>1, <1>2, <1>3, <3>1, <3>2 DEF TypeInv, LinkInv, Waiting
  <2>3. TableInv'
    BY <1>1, <1>3, <1>5 DEF TypeInv, TableInv
  <2> QED
    BY <2>1, <2>2, <2>3 DEF TypeInv
<1>7. SteadyInv'
  <2> SUFFICES ASSUME steady' PROVE
         /\ sender' # None /\ sender'.up /\ Known'
         /\ (inbox' = <<>>) =>
               TimeToLive' - ticks'["listener"]
                   > MaxLag + Gap(sender', ticks'["announcer"], Len(wire'), lost')
         /\ (inbox' # <<>> /\ ~turn') => TimeToLive' > MaxLag
    BY DEF SteadyInv
  <2>1. steady /\ s # None /\ s.up /\ sender' = Quiet(s)
    BY <1>1
  <2>2. sender' # None /\ sender'.up /\ Known'
    BY <1>3, <1>4, <1>5, <2>1 DEF SteadyInv
  <2>3. ASSUME inbox = <<>>
        PROVE  TimeToLive - ticks["listener"]
                   > MaxLag + Gap(sender', ticks'["announcer"], Len(wire'), lost')
    <3> DEFINE a == ticks["announcer"]
               b == ticks'["announcer"]
               n == Len(Passed(out))
               ttl == TimeToLive
               l == ticks["listener"]
    <3>1. Due(Quiet(s), b) = Due(s, b)
      BY <1>2, <2>1, DueQuiet
    <3>2. Gap(sender', b, n, lost) = Gap(s, b, n, lost)
      BY <2>1, <3>1 DEF Gap
    <3>3. /\ b \in 0..MaxLag /\ a \in 0..MaxLag /\ l \in 0..MaxLag /\ n \in Nat
          /\ lost \in 0..LossBudget
      BY <1>2, <1>3, TicksFacts DEF TypeInv, LinkInv, Hosts
    <3>4. Gap(s, b, n, lost) \in Nat
      BY <1>2, <2>1, <3>3, GapRange
    <3>5. sender # None /\ InRange(sender)
      BY <1>3, <2>1 DEF SteadyInv, TypeInv, SenderInv
    <3>6. Gap(sender, a, 0, lost) \in Nat
      BY <3>3, <3>5, GapRange
    <3>7. Len(wire) = 0
      BY <1>1
    <3>8. ttl - l > MaxLag + Gap(sender, a, 0, lost)
      BY <1>3, <2>1, <2>3, <3>7 DEF SteadyInv
    <3>9. ttl \in Int
      BY <1>3, <2>1 DEF SteadyInv, TypeInv, TableInv
    <3>10. Gap(s, b, n, lost) <= Gap(sender, a, 0, lost)
      BY <1>2, <2>1
    <3>11. Gap(sender', ticks'["announcer"], Len(wire'), lost') = Gap(s, b, n, lost)
      BY <1>1, <3>2
    <3> HIDE DEF a, b, n, l, ttl
    <3>12. ttl - l > MaxLag + Gap(s, b, n, lost)
      BY <3>3, <3>4, <3>6, <3>8, <3>9, <3>10, ConstantFacts
    <3> QED
      BY <3>11, <3>12 DEF ttl, l
  <2>4. ASSUME inbox # <<>>, ~turn PROVE TimeToLive > MaxLag
    BY <1>3, <2>1, <2>4 DEF SteadyInv
  <2> QED
    BY <1>1, <1>2, <1>5, <2>2, <2>3, <2>4
<1>8. FadeInv'
  <2>1. /\ ticks["listener"] \in 0..MaxLag /\ turn \in BOOLEAN
        /\ inbox \in Seq(Announcements) /\ Len(inbox) <= InboxLimit
    BY <1>3, TicksFacts DEF TypeInv, LinkInv, Waiting
  <2>2. ASSUME Known PROVE 0 + Left(TimeToLive, ticks["listener"]) < Forever
    <3> DEFINE x == Left(TimeToLive, ticks["listener"])
    <3>1. x \in Int /\ x < Forever
      BY <1>3, <2>1, <2>2, LeftRange DEF TypeInv, TableInv
    <3> HIDE DEF x
    <3>2. 0 + x < Forever
      BY <3>1
    <3> QED
      BY <3>2 DEF x
  <2>3. 0 + Drain(Len(inbox), ticks["listener"], turn) < Forever
    <3> DEFINE x == Drain(Len(inbox), ticks["listener"], turn)
    <3>1. Len(inbox) \in 0..InboxLimit
      BY <2>1, ConstantFacts
    <3>2. x \in Int /\ x < Forever
      BY <2>1, <3>1, DrainRange
    <3> HIDE DEF x
    <3>3. 0 + x < Forever
      BY <3>2
    <3> QED
      BY <3>3 DEF x
  <2> QED
    BY <1>1, <1>2, <1>5, <2>2, <2>3 DEF FadeInv
<1> QED
  BY <1>6, <1>7, <1>8 DEF Inv

\* What the invariant says of the numbers.
LEMMA Numbers ==
    ASSUME Inv
    PROVE  /\ ticks["announcer"] \in 0..MaxLag /\ ticks["listener"] \in 0..MaxLag
           /\ ticks \in [Hosts -> 0..MaxLag]
           /\ lost \in 0..LossBudget /\ gone \in 0..Forever
           /\ wire \in Seq(Announcements) /\ inbox \in Seq(Announcements)
           /\ Len(inbox) \in 0..InboxLimit
           /\ turn \in BOOLEAN /\ steady \in BOOLEAN
           /\ Known => TimeToLive \in 0..TARGET_TTL
           /\ sender # None => InRange(sender)
<1>1. TypeInv
  BY DEF Inv
<1>2. ticks["announcer"] \in 0..MaxLag /\ ticks["listener"] \in 0..MaxLag
  BY <1>1, TicksFacts
<1>3. Len(inbox) \in 0..InboxLimit
  BY <1>1, ConstantFacts DEF TypeInv, LinkInv, Waiting
<1> QED
  BY <1>1, <1>2, <1>3 DEF TypeInv, LinkInv, Waiting, SenderInv, TableInv

\* While the neighbour is steady and nothing waits for the listener, its entry
\* outlasts the next frame.
LEMMA Outlasts ==
    ASSUME Inv, steady, inbox = <<>>
    PROVE  /\ TimeToLive \in Int
           /\ Gap(sender, ticks["announcer"], Len(wire), lost) \in Nat
           /\ TimeToLive - ticks["listener"]
                 > MaxLag + Gap(sender, ticks["announcer"], Len(wire), lost)
<1>1. SteadyInv
  BY DEF Inv
<1>2. sender # None /\ Known
  BY <1>1 DEF SteadyInv
<1>3. Len(wire) \in Nat
  BY Numbers
<1>4. Gap(sender, ticks["announcer"], Len(wire), lost) \in Nat
  BY <1>2, <1>3, Numbers, GapRange
<1> QED
  BY <1>1, <1>2, <1>4, Numbers DEF SteadyInv

LEMMA Later ==
    ASSUME NEW x \in Nat, NEW y \in Nat, y <= x + 1, NEW m \in Int, NEW n \in Int, n + 1 = m,
           NEW end \in Nat, x + m < end
    PROVE  y + n < end
  OBVIOUS

LEMMA SecondInv ==
    ASSUME Inv, Second
    PROVE  Inv'
<1>1. /\ wire = <<>> /\ \A h \in Hosts : ticks[h] < MaxLag
      /\ ticks' = [h \in Hosts |-> IF h = "announcer" /\ sender = None THEN 0 ELSE ticks[h] + 1]
      /\ gone' = IF sender = None /\ gone < Forever THEN gone + 1 ELSE gone
      /\ UNCHANGED <<sender, chassis_map, wire, inbox, turn, told, lost, steady>>
  BY DEF Second
<1> DEFINE a == ticks["announcer"]
           l == ticks["listener"]
<1>2. TypeInv /\ SteadyInv /\ FadeInv
  BY DEF Inv
<1>3. Known' = Known /\ TimeToLive' = TimeToLive
  BY <1>1 DEF Known, TimeToLive
<1>4. /\ a \in Nat /\ a < MaxLag /\ l \in Nat /\ l < MaxLag
      /\ ticks' \in [Hosts -> 0..MaxLag]
      /\ ticks'["listener"] = l + 1
      /\ sender # None => ticks'["announcer"] = a + 1
  <2>1. a \in 0..MaxLag /\ l \in 0..MaxLag /\ a < MaxLag /\ l < MaxLag
    BY <1>1, Numbers DEF Hosts
  <2>2. \A h \in Hosts : ticks[h] + 1 \in 0..MaxLag /\ 0 \in 0..MaxLag
    BY <1>1, Numbers, ConstantFacts DEF Hosts
  <2> QED
    BY <1>1, <2>1, <2>2, ConstantFacts DEF Hosts
<1>5. gone' \in 0..Forever /\ gone' <= gone + 1 /\ gone \in Nat /\ gone' \in Nat
  BY <1>1, Numbers, ForeverNat
<1>6. TypeInv'
  <2>1. SenderInv'
    BY <1>1, <1>2 DEF TypeInv, SenderInv
  <2>2. LinkInv'
    BY <1>1, <1>2, <1>4, <1>5 DEF TypeInv, LinkInv, Waiting
  <2>3. TableInv'
    BY <1>1, <1>2, <1>3 DEF TypeInv, TableInv
  <2> QED
    BY <2>1, <2>2, <2>3 DEF TypeInv
<1>7. SteadyInv'
  <2> SUFFICES ASSUME steady PROVE
         /\ sender # None /\ sender.up /\ Known
         /\ (inbox = <<>>) =>
               TimeToLive - (l + 1) > MaxLag + Gap(sender, a + 1, Len(wire), lost)
         /\ (inbox # <<>> /\ ~turn) => TimeToLive > MaxLag
    BY <1>1, <1>3, <1>4 DEF SteadyInv
  <2>1. sender # None /\ sender.up /\ Known
    BY <1>2 DEF SteadyInv
  <2>2. ASSUME inbox = <<>>
        PROVE  TimeToLive - (l + 1) > MaxLag + Gap(sender, a + 1, Len(wire), lost)
    <3> DEFINE old == Gap(sender, a, 0, lost)
               new == Gap(sender, a + 1, 0, lost)
               ttl == TimeToLive
    <3>1. Len(wire) = 0
      BY <1>1
    <3>2. ttl \in Int /\ old \in Nat /\ ttl - l > MaxLag + old
      BY <2>2, <3>1, Outlasts
    <3>3. a \in 0..MaxLag /\ a + 1 \in 0..MaxLag /\ InRange(sender) /\ lost \in 0..LossBudget
      BY <1>4, <2>1, Numbers, ConstantFacts
    <3>4. new \in Nat /\ new + 1 <= old
      BY <3>3, GapSecond, GapRange
    <3> HIDE DEF old, new, ttl, l, a
    <3>5. ttl - (l + 1) > MaxLag + new
      BY <1>4, <3>2, <3>4, ConstantFacts
    <3> QED
      BY <3>1, <3>5 DEF ttl, new
  <2>3. ASSUME inbox # <<>>, ~turn PROVE TimeToLive > MaxLag
    BY <1>2, <2>3 DEF SteadyInv
  <2> QED
    BY <2>1, <2>2, <2>3
<1>8. FadeInv'
  <2> SUFFICES /\ (Known /\ inbox = <<>>) => gone' + Left(TimeToLive, l + 1) < Forever
               /\ inbox # <<>> => gone' + Drain(Len(inbox), l + 1, turn) < Forever
    BY <1>1, <1>3, <1>4 DEF FadeInv
  <2>1. ASSUME Known, inbox = <<>> PROVE gone' + Left(TimeToLive, l + 1) < Forever
    <3> DEFINE old == Left(TimeToLive, l)
               new == Left(TimeToLive, l + 1)
               rest == IF TimeToLive = 0 THEN 0 ELSE TimeToLive - 1
    <3>1. gone + old < Forever
      BY <1>2, <2>1 DEF FadeInv
    <3>2. rest \in Int
      BY <2>1, Numbers
    <3>3. old = (MaxLag - l) + rest /\ new = (MaxLag - (l + 1)) + rest
      BY DEF Left
    <3> HIDE DEF rest, l
    <3>4. new + 1 = old /\ old \in Int /\ new \in Int
      BY <1>4, <3>2, <3>3, ConstantFacts
    <3> HIDE DEF old, new
    <3>5. gone' + new < Forever
      BY <1>5, <3>1, <3>4, ForeverNat, Later
    <3> QED
      BY <3>5 DEF new
  <2>2. ASSUME inbox # <<>> PROVE gone' + Drain(Len(inbox), l + 1, turn) < Forever
    <3> DEFINE n == Len(inbox)
               old == Drain(n, l, turn)
               new == Drain(n, l + 1, turn)
    <3>1. gone + old < Forever
      BY <1>2, <2>2 DEF FadeInv
    <3>2. n \in Nat /\ n \in 0..InboxLimit /\ turn \in BOOLEAN /\ l \in 0..MaxLag
          /\ l + 1 \in 0..MaxLag
      BY <1>4, Numbers, ConstantFacts
    <3> HIDE DEF n, l
    <3>3. new + 1 = old /\ old \in Int /\ new \in Int
      BY <1>4, <3>2, DrainSecond, DrainRange
    <3> HIDE DEF old, new
    <3>4. gone' + new < Forever
      BY <1>5, <3>1, <3>3, ForeverNat, Later
    <3> QED
      BY <3>4 DEF new, n
  <2> QED
    BY <2>1, <2>2
<1> QED
  BY <1>6, <1>7, <1>8 DEF Inv

LEMMA DeliverInv ==
    ASSUME Inv, Deliver
    PROVE  Inv'
<1>1. /\ wire # <<>> /\ Len(inbox) < InboxLimit
      /\ inbox' = Append(inbox, Head(wire)) /\ wire' = Tail(wire) /\ lost' = 0
      /\ UNCHANGED <<sender, chassis_map, turn, ticks, told, steady, gone>>
  BY DEF Deliver
<1>2. TypeInv /\ SteadyInv /\ FadeInv
  BY DEF Inv
<1>3. Known' = Known /\ TimeToLive' = TimeToLive
  BY <1>1 DEF Known, TimeToLive
<1>4. /\ wire' \in Seq(Announcements) /\ inbox' \in Seq(Announcements)
      /\ Len(inbox') = Len(inbox) + 1 /\ Len(inbox') \in 0..InboxLimit /\ inbox' # <<>>
  <2>1. Head(wire) \in Announcements /\ Tail(wire) \in Seq(Announcements)
    BY <1>1, Numbers
  <2> DEFINE f == Head(wire)
  <2>2. f \in Announcements /\ inbox' = Append(inbox, f)
    BY <1>1, <2>1
  <2> HIDE DEF f
  <2>3. inbox' \in Seq(Announcements) /\ Len(inbox') = Len(inbox) + 1 /\ inbox' # <<>>
    <3>1. inbox \in Seq(Announcements)
      BY Numbers
    <3>2. Append(inbox, f) \in Seq(Announcements) /\ Len(Append(inbox, f)) = Len(inbox) + 1
          /\ Append(inbox, f) # <<>>
      BY <2>2, <3>1, AppendProperties
    <3> QED
      BY <2>2, <3>2
  <2>4. Len(inbox') \in 0..InboxLimit
    BY <1>1, <2>3, Numbers, ConstantFacts
  <2> QED
    BY <1>1, <2>1, <2>3, <2>4
<1>5. gone = 0
  BY <1>1, <1>2 DEF FadeInv
<1>6. TypeInv'
  <2>1. SenderInv'
    BY <1>1, <1>2 DEF TypeInv, SenderInv
  <2>2. LinkInv'
    BY <1>1, <1>2, <1>4, ConstantFacts DEF TypeInv, LinkInv, Waiting
  <2>3. TableInv'
    BY <1>1, <1>2, <1>3 DEF TypeInv, TableInv
  <2> QED
    BY <2>1, <2>2, <2>3 DEF TypeInv
<1>7. SteadyInv'
  <2> SUFFICES ASSUME steady PROVE
         /\ sender # None /\ sender.up /\ Known
         /\ ~turn => TimeToLive > MaxLag
    BY <1>1, <1>3, <1>4 DEF SteadyInv
  <2>1. sender # None /\ sender.up /\ Known
    BY <1>2 DEF SteadyInv
  <2>2. ASSUME ~turn PROVE TimeToLive > MaxLag
    <3>1. CASE inbox # <<>>
      BY <1>2, <2>2, <3>1 DEF SteadyInv
    <3>2. CASE inbox = <<>>
      <4> DEFINE ttl == TimeToLive
                 l == ticks["listener"]
                 gap == Gap(sender, ticks["announcer"], Len(wire), lost)
      <4>1. ttl \in Int /\ gap \in Nat /\ ttl - l > MaxLag + gap
        BY <3>2, Outlasts
      <4>2. l \in Nat
        BY Numbers
      <4> HIDE DEF ttl, l, gap
      <4>3. ttl > MaxLag
        BY <4>1, <4>2, ConstantFacts
      <4> QED
        BY <4>3 DEF ttl
    <3> QED
      BY <3>1, <3>2
  <2> QED
    BY <2>1, <2>2
<1>8. FadeInv'
  <2>1. gone' + Drain(Len(inbox'), ticks["listener"], turn) < Forever
    <3> DEFINE x == Drain(Len(inbox'), ticks["listener"], turn)
    <3>1. x \in Int /\ x < Forever
      BY <1>4, Numbers, DrainRange
    <3> HIDE DEF x
    <3>2. 0 + x < Forever
      BY <3>1
    <3> QED
      BY <1>1, <1>5, <3>2 DEF x
  <2>2. gone' = 0
    BY <1>1, <1>5
  <2> QED
    BY <1>1, <1>4, <2>1, <2>2 DEF FadeInv
<1> QED
  BY <1>6, <1>7, <1>8 DEF Inv

LEMMA LoseInv ==
    ASSUME Inv, Lose
    PROVE  Inv'
<1>1. /\ wire # <<>> /\ lost < LossBudget /\ lost' = lost + 1 /\ wire' = Tail(wire)
      /\ UNCHANGED <<sender, chassis_map, inbox, turn, ticks, told, steady, gone>>
  BY DEF Lose
<1>2. TypeInv /\ SteadyInv /\ FadeInv
  BY DEF Inv
<1>3. Known' = Known /\ TimeToLive' = TimeToLive
  BY <1>1 DEF Known, TimeToLive
<1>4. /\ wire' \in Seq(Announcements) /\ Len(wire) \in Nat \ {0} /\ Len(wire') = Len(wire) - 1
      /\ lost \in Nat /\ lost' \in 0..LossBudget
  BY <1>1, Numbers, ConstantFacts
<1>5. gone = 0
  BY <1>1, <1>2 DEF FadeInv
<1>6. TypeInv'
  <2>1. SenderInv'
    BY <1>1, <1>2 DEF TypeInv, SenderInv
  <2>2. LinkInv'
    BY <1>1, <1>2, <1>4 DEF TypeInv, LinkInv, Waiting
  <2>3. TableInv'
    BY <1>1, <1>2, <1>3 DEF TypeInv, TableInv
  <2> QED
    BY <2>1, <2>2, <2>3 DEF TypeInv
<1>7. Gap(sender, ticks["announcer"], Len(wire'), lost') =
        Gap(sender, ticks["announcer"], Len(wire), lost)
  BY <1>1, <1>4, GapLose
<1>8. SteadyInv'
  BY <1>1, <1>2, <1>3, <1>7 DEF SteadyInv
<1>9. FadeInv'
  BY <1>1, <1>2, <1>3, <1>5 DEF FadeInv
<1> QED
  BY <1>6, <1>8, <1>9 DEF Inv

LEMMA ReceiveInv ==
    ASSUME Inv, ListenerReceive
    PROVE  Inv'
<1> DEFINE f == Head(inbox)
           l == ticks["listener"]
           ttl == f.ttl
<1>1. /\ inbox # <<>> /\ inbox' = Tail(inbox) /\ turn' = FALSE
      /\ chassis_map' = lldpFrameParser(chassis_map, ReadFrame(Octets(f), TRUE, 1))
      /\ steady' = (ttl > 0 /\ sender # None /\ sender.up)
      /\ UNCHANGED <<sender, wire, ticks, lost, gone>>
  BY DEF ListenerReceive
<1>2. TypeInv /\ FadeInv
  BY DEF Inv
<1>3. f \in Announcements
  BY <1>1, Numbers
<1>4. ttl \in {0, TARGET_TTL} /\ ttl \in 0..TARGET_TTL
  BY <1>3, ConstantFacts DEF Announcements
<1> HIDE DEF f
<1>5. /\ Lists(chassis_map', Host, Port)
      /\ chassis_map'[Host][Port].time_to_live = ttl
      /\ IsEntry(chassis_map'[Host][Port])
      /\ \A c, p : <<c, p>> # <<Host, Port>> =>
            /\ Lists(chassis_map', c, p) <=> Lists(chassis_map, c, p)
            /\ Lists(chassis_map', c, p) => chassis_map'[c][p] = chassis_map[c][p]
  <2>1. Announced(chassis_map, chassis_map', f)
    BY <1>1, <1>3, OwnFrame
  <2> QED
    BY <2>1 DEF Announced, ttl
<1>6. Known' /\ TimeToLive' = ttl
  BY <1>5 DEF Known, TimeToLive, Lists
<1>7. /\ inbox' \in Seq(Announcements) /\ Len(inbox) \in Nat \ {0}
      /\ Len(inbox') = Len(inbox) - 1 /\ Len(inbox') \in 0..InboxLimit
  BY <1>1, Numbers, ConstantFacts
<1>8. l \in 0..MaxLag /\ turn \in BOOLEAN
  BY Numbers
<1> HIDE DEF l, ttl
<1>9. TypeInv'
  <2>1. SenderInv'
    BY <1>1, <1>2 DEF TypeInv, SenderInv
  <2>2. LinkInv'
    <3>1. steady' \in BOOLEAN
      <4>1. sender # None => sender.up \in BOOLEAN
        BY Numbers, InRangeNotNone
      <4> QED
        BY <1>1, <4>1
    <3> QED
      <4>1. Waiting(inbox') /\ Len(inbox') <= InboxLimit
        BY <1>7, ConstantFacts DEF Waiting
      <4>2. turn' = FALSE /\ wire' = wire /\ ticks' = ticks /\ lost' = lost /\ gone' = gone
        BY <1>1
      <4>3. Waiting(wire) /\ ticks \in [Hosts -> 0..MaxLag] /\ lost \in 0..LossBudget
            /\ gone \in 0..Forever
        BY <1>2 DEF TypeInv, LinkInv
      <4> QED
        BY ONLY <3>1, <4>1, <4>2, <4>3 DEF LinkInv
  <2>3. TableInv'
    <3>1. \A c, p : Lists(chassis_map', c, p) => IsEntry(chassis_map'[c][p])
      <4> SUFFICES ASSUME NEW c, NEW p, Lists(chassis_map', c, p)
                   PROVE  IsEntry(chassis_map'[c][p])
        OBVIOUS
      <4>1. CASE <<c, p>> = <<Host, Port>>
        BY <1>5, <4>1
      <4>2. CASE <<c, p>> # <<Host, Port>>
        <5>1. Lists(chassis_map, c, p) /\ chassis_map'[c][p] = chassis_map[c][p]
          BY <1>5, <4>2
        <5> QED
          BY <1>2, <5>1 DEF TypeInv, TableInv, Lists
      <4> QED
        BY <4>1, <4>2
    <3> QED
      BY <1>4, <1>6, <3>1 DEF TableInv, Lists
  <2> QED
    BY <2>1, <2>2, <2>3 DEF TypeInv
<1>10. SteadyInv'
  <2> SUFFICES ASSUME ttl > 0, sender # None, sender.up
               PROVE  /\ (inbox' = <<>>) =>
                            ttl - l > MaxLag + Gap(sender, ticks["announcer"], Len(wire), lost)
                      /\ ttl > MaxLag
    BY <1>1, <1>6 DEF SteadyInv, l
  <2> DEFINE gap == Gap(sender, ticks["announcer"], Len(wire), lost)
  <2>1. gap \in Nat /\ gap + 2 * MaxLag < TARGET_TTL
    <3>1. Len(wire) \in Nat
      BY Numbers
    <3> QED
      BY <3>1, Numbers, GapRange
  <2>2. ttl = TARGET_TTL
    BY <1>4
  <2> HIDE DEF gap
  <2>3. ttl - l > MaxLag + gap /\ ttl > MaxLag
    BY <1>8, <2>1, <2>2, ConstantFacts
  <2> QED
    BY <2>3 DEF gap
<1>11. FadeInv'
  <2> DEFINE n == Len(inbox)
             old == Drain(n, l, turn)
  <2>1. gone + old < Forever
    BY <1>1, <1>2 DEF FadeInv, l
  <2>2. gone \in Nat /\ n \in 0..InboxLimit /\ n \in Nat \ {0} /\ Len(inbox') = n - 1
        /\ n - 1 \in 0..InboxLimit
    BY <1>7, Numbers, ConstantFacts
  <2> HIDE DEF n
  <2>3. old \in Int
    BY <1>8, <2>2, DrainRange
  <2>4. ASSUME inbox' = <<>> PROVE gone + Left(ttl, l) < Forever
    <3> DEFINE x == Left(ttl, l)
    <3>1. n = 1
      BY <2>2, <2>4
    <3>2. x <= old /\ x \in Int
      BY <1>4, <1>8, <3>1, DrainLast, LeftRange
    <3> HIDE DEF x, old
    <3>3. gone + x < Forever
      BY <2>1, <2>2, <2>3, <3>2, ForeverNat
    <3> QED
      BY <3>3 DEF x
  <2>5. ASSUME inbox' # <<>> PROVE gone + Drain(n - 1, l, FALSE) < Forever
    <3> DEFINE x == Drain(n - 1, l, FALSE)
    <3>1. x <= old /\ x \in Int
      BY <1>8, <2>2, DrainReceive, DrainRange
    <3> HIDE DEF x, old
    <3>2. gone + x < Forever
      BY <2>1, <2>2, <2>3, <3>1, ForeverNat
    <3> QED
      BY <3>2 DEF x
  <2>6. wire # <<>> => gone = 0
    BY <1>2 DEF FadeInv
  <2> QED
    BY <1>1, <1>6, <2>2, <2>4, <2>5, <2>6 DEF FadeInv, l
<1> QED
  BY <1>9, <1>10, <1>11 DEF Inv

\* An entry that ages.
LEMMA AgedEntry ==
    ASSUME NEW e, IsEntry(e), NEW delta
    PROVE  /\ IsEntry(Aged(e, delta))
           /\ Aged(e, delta).time_to_live = e.time_to_live - delta
           /\ Aged(e, delta).ip = e.ip
<1> DEFINE a == Aged(e, delta)
<1>1. e = [k \in DOMAIN e |-> e[k]] /\ "time_to_live" \in DOMAIN e /\ "ip" \in DOMAIN e
  BY DEF IsEntry
<1>2. a = [e EXCEPT !.time_to_live = @ - delta]
  BY DEF Aged
<1> HIDE DEF a
<1>3. /\ DOMAIN a = DOMAIN e /\ a = [k \in DOMAIN a |-> a[k]]
      /\ a["time_to_live"] = e["time_to_live"] - delta
      /\ a["ip"] = e["ip"]
  BY <1>1, <1>2
<1>4. IsEntry(a)
  BY <1>1, <1>3 DEF IsEntry
<1> QED
  BY <1>3, <1>4 DEF a

\* The table after a frame of another station.
LEMMA OtherFrame ==
    ASSUME NEW m, NEW n \in Overheard
    PROVE  LET new == lldpFrameParser(m, n.read)
           IN  /\ Lists(new, Host, Port) <=> Lists(m, Host, Port)
               /\ Lists(new, Host, Port) => new[Host][Port] = m[Host][Port]
               /\ \A c, p : Lists(new, c, p) =>
                     \/ IsEntry(new[c][p])
                     \/ Lists(m, c, p) /\ new[c][p] = m[c][p]
<1> DEFINE r == n.read
           new == lldpFrameParser(m, r)
<1>1. CASE ~r.accepted
  <2>1. new = m
    BY <1>1 DEF lldpFrameParser
  <2> HIDE DEF new
  <2> QED
    BY <2>1 DEF new
<1>2. CASE r.accepted
  <2>1. <<r.chassis, r.port>> # <<Host, Port>>
    BY <1>2, OthersDiffer
  <2> DEFINE e == lldpduToNeighbourEntry(r)
             here(c, p) == c = r.chassis /\ p = r.port
  <2>2. IsEntry(e)
    BY DEF lldpduToNeighbourEntry, IsEntry
  <2> HIDE DEF r, e
  <2>3. \A c, p : /\ Lists(new, c, p) <=> Lists(m, c, p) \/ here(c, p)
                  /\ Lists(new, c, p) => new[c][p] = IF here(c, p) THEN e ELSE m[c][p]
    BY <1>2, ParserEffect DEF e
  <2>4. ~here(Host, Port)
    BY <2>1
  <2> HIDE DEF new, here
  <2>5. \A c, p : Lists(new, c, p) => \/ IsEntry(new[c][p])
                                      \/ Lists(m, c, p) /\ new[c][p] = m[c][p]
    BY <2>2, <2>3
  <2> QED
    BY <2>3, <2>4, <2>5 DEF new, r
<1> QED
  BY <1>1, <1>2

LEMMA OverhearInv ==
    ASSUME Inv, NEW n \in Overheard, ListenerOverhear(n)
    PROVE  Inv'
<1>1. /\ chassis_map' = lldpFrameParser(chassis_map, n.read)
      /\ UNCHANGED <<sender, wire, inbox, turn, ticks, lost, steady, gone>>
  BY DEF ListenerOverhear
<1>2. TypeInv /\ SteadyInv /\ FadeInv
  BY DEF Inv
<1>3. /\ Lists(chassis_map', Host, Port) <=> Lists(chassis_map, Host, Port)
      /\ Lists(chassis_map', Host, Port) => chassis_map'[Host][Port] = chassis_map[Host][Port]
      /\ \A c, p : Lists(chassis_map', c, p) =>
            \/ IsEntry(chassis_map'[c][p])
            \/ Lists(chassis_map, c, p) /\ chassis_map'[c][p] = chassis_map[c][p]
  BY <1>1, OtherFrame
<1>4. (Known' <=> Known) /\ (Known => TimeToLive' = TimeToLive)
  BY <1>3 DEF Known, TimeToLive, Lists
<1>5. TypeInv'
  <2>1. SenderInv' /\ LinkInv'
    BY <1>1, <1>2 DEF TypeInv, SenderInv, LinkInv, Waiting
  <2>2. TableInv'
    BY <1>2, <1>3, <1>4 DEF TypeInv, TableInv, Lists
  <2> QED
    BY <2>1, <2>2 DEF TypeInv
<1>6. SteadyInv'
  BY <1>1, <1>2, <1>4 DEF SteadyInv
<1>7. FadeInv'
  BY <1>1, <1>2, <1>4 DEF FadeInv
<1> QED
  BY <1>5, <1>6, <1>7 DEF Inv

LEMMA ClockInv ==
    ASSUME Inv, ListenerClock
    PROVE  Inv'
<1> DEFINE l == ticks["listener"]
           ttl == TimeToLive
<1>1. /\ l > 0 /\ ~turn
      /\ chassis_map' = ListTick(chassis_map, l)
      /\ ticks' = [ticks EXCEPT !["listener"] = 0]
      /\ turn' = (inbox # <<>>)
      /\ UNCHANGED <<sender, wire, inbox, lost, steady, gone>>
  BY DEF ListenerClock
<1>2. TypeInv /\ SteadyInv /\ FadeInv
  BY DEF Inv
<1>3. /\ l \in 0..MaxLag /\ l \in Nat
      /\ ticks' \in [Hosts -> 0..MaxLag] /\ ticks'["listener"] = 0
      /\ ticks'["announcer"] = ticks["announcer"]
  BY <1>1, Numbers, ConstantFacts DEF Hosts
<1>4. /\ \A c, p : Lists(chassis_map', c, p) <=>
                      Lists(chassis_map, c, p) /\ chassis_map[c][p].time_to_live > l
      /\ \A c, p : Lists(chassis_map', c, p) =>
                      chassis_map'[c][p] = Aged(chassis_map[c][p], l)
  BY <1>1, TickEffect
<1>5. \A c, p : Lists(chassis_map, c, p) => IsEntry(chassis_map[c][p])
  BY <1>2 DEF TypeInv, TableInv, Lists
<1>6. (Known' <=> Known /\ ttl > l) /\ (Known' => TimeToLive' = ttl - l)
  <2>1. Known' <=> Known /\ ttl > l
    BY <1>4 DEF Known, Lists, TimeToLive
  <2>2. ASSUME Known' PROVE TimeToLive' = ttl - l
    <3> DEFINE e == chassis_map[Host][Port]
    <3>1. Lists(chassis_map', Host, Port)
      BY <2>2 DEF Known, Lists
    <3>2. chassis_map'[Host][Port] = Aged(e, l) /\ IsEntry(e)
      BY <1>4, <1>5, <3>1
    <3> HIDE DEF e, l
    <3>3. Aged(e, l).time_to_live = e.time_to_live - l
      BY <3>2, AgedEntry
    <3> QED
      BY <3>2, <3>3 DEF TimeToLive, e
  <2> QED
    BY <2>1, <2>2
<1>7. Known => ttl \in 0..TARGET_TTL
  BY Numbers
<1> HIDE DEF l, ttl
<1>8. TypeInv'
  <2>1. SenderInv'
    BY <1>1, <1>2 DEF TypeInv, SenderInv
  <2>2. LinkInv'
    BY <1>1, <1>2, <1>3 DEF TypeInv, LinkInv, Waiting
  <2>3. TableInv'
    <3>1. ASSUME NEW c, NEW p, Lists(chassis_map', c, p)
          PROVE  IsEntry(chassis_map'[c][p])
      <4> DEFINE e == chassis_map[c][p]
      <4>1. chassis_map'[c][p] = Aged(e, l) /\ IsEntry(e)
        BY <1>4, <1>5, <3>1
      <4> HIDE DEF e
      <4>2. IsEntry(Aged(e, l))
        BY <4>1, AgedEntry
      <4> QED
        BY <4>1, <4>2
    <3>2. Known' => TimeToLive' \in 0..TARGET_TTL
      BY <1>3, <1>6, <1>7, ConstantFacts
    <3> QED
      BY <3>1, <3>2 DEF TableInv, Lists
  <2> QED
    BY <2>1, <2>2, <2>3 DEF TypeInv
<1>9. SteadyInv'
  <2> DEFINE gap == Gap(sender, ticks["announcer"], Len(wire), lost)
  <2> SUFFICES ASSUME steady
               PROVE  /\ sender # None /\ sender.up /\ Known'
                      /\ (inbox = <<>>) => TimeToLive' - 0 > MaxLag + gap
                      /\ (inbox # <<>> /\ ~turn') => TimeToLive' > MaxLag
    BY <1>1, <1>3 DEF SteadyInv
  <2>1. sender # None /\ sender.up /\ Known
    BY <1>2 DEF SteadyInv
  <2>2. CASE inbox = <<>>
    <3>1. ttl \in Int /\ gap \in Nat /\ ttl - l > MaxLag + gap
      BY <2>2, Outlasts DEF ttl, l
    <3> HIDE DEF gap
    <3>2. ttl > l /\ ttl - l - 0 > MaxLag + gap
      BY <1>3, <3>1, ConstantFacts
    <3>3. Known' /\ TimeToLive' = ttl - l
      BY <1>6, <2>1, <3>2
    <3> QED
      BY <2>1, <2>2, <3>2, <3>3
  <2>3. CASE inbox # <<>>
    <3>1. ttl > MaxLag
      BY <1>1, <1>2, <2>3 DEF SteadyInv, ttl
    <3>2. ttl > l
      BY <1>3, <1>7, <2>1, <3>1, ConstantFacts
    <3> QED
      BY <1>1, <1>6, <2>1, <2>3, <3>2
  <2> QED
    BY <2>2, <2>3
<1>10. FadeInv'
  <2> DEFINE n == Len(inbox)
  <2>0. wire # <<>> => gone = 0
    BY <1>2 DEF FadeInv
  <2>1. ASSUME Known', inbox = <<>> PROVE gone + Left(TimeToLive', 0) < Forever
    <3>1. Known /\ ttl > l /\ TimeToLive' = ttl - l /\ ttl \in Nat
      BY <1>6, <1>7, <2>1
    <3>2. gone + Left(ttl, l) < Forever
      BY <1>2, <2>1, <3>1 DEF FadeInv, ttl, l
    <3>3. Left(ttl - l, 0) = Left(ttl, l)
      <4>1. ttl # 0 /\ ttl - l # 0
        BY <1>3, <3>1
      <4>2. Left(ttl - l, 0) = (MaxLag - 0) + (ttl - l - 1) /\ Left(ttl, l) = (MaxLag - l) + (ttl - 1)
        BY <4>1 DEF Left
      <4>3. (MaxLag - 0) + (ttl - l - 1) = (MaxLag - l) + (ttl - 1)
        BY <1>3, <3>1, ConstantFacts
      <4> QED
        BY <4>2, <4>3
    <3> QED
      BY <3>1, <3>2, <3>3
  <2>2. ASSUME inbox # <<>> PROVE gone + Drain(n, 0, TRUE) < Forever
    <3> DEFINE new == Drain(n, 0, TRUE)
               old == Drain(n, l, FALSE)
    <3>1. turn = FALSE
      BY <1>1, Numbers
    <3>2. gone + old < Forever
      BY <1>2, <2>2, <3>1 DEF FadeInv, l
    <3>3. n \in Nat /\ n \in 0..InboxLimit /\ gone \in Nat /\ 0 \in 0..MaxLag
      BY Numbers, ConstantFacts
    <3> HIDE DEF n
    <3>4. new <= old /\ new \in Int /\ old \in Int
      BY <1>3, <3>3, DrainClock, DrainRange
    <3> HIDE DEF new, old
    <3>5. gone + new < Forever
      BY <3>2, <3>3, <3>4, ForeverNat
    <3> QED
      BY <3>5 DEF new
  <2>3. inbox # <<>> => turn' = TRUE
    BY <1>1
  <2> QED
    BY <1>1, <1>3, <2>0, <2>1, <2>2, <2>3 DEF FadeInv
<1> QED
  BY <1>8, <1>9, <1>10 DEF Inv

LEMMA Stutter ==
    ASSUME Inv, UNCHANGED vars
    PROVE  Inv'
<1>1. TypeInv'
  BY DEF Inv, TypeInv, vars, SenderInv, LinkInv, TableInv, Waiting, Known, TimeToLive
<1>2. SteadyInv'
  BY DEF Inv, vars, SteadyInv, Known, TimeToLive
<1>3. FadeInv'
  BY DEF Inv, vars, FadeInv, Known, TimeToLive
<1> QED
  BY <1>1, <1>2, <1>3 DEF Inv

LEMMA NextInv ==
    ASSUME Inv, Next
    PROVE  Inv'
<1>1. TypeInv /\ SteadyInv
  BY DEF Inv
<1>2. CASE Second
  BY <1>2, SecondInv
<1>3. CASE Deliver
  BY <1>3, DeliverInv
<1>4. CASE Lose
  BY <1>4, LoseInv
<1>5. CASE Stop
  BY <1>1, <1>5, StopHandled, HandledInv
<1>6. CASE ListenerReceive
  BY <1>6, ReceiveInv
<1>7. CASE ListenerClock
  BY <1>7, ClockInv
<1>8. CASE \E n \in Overheard : ListenerOverhear(n)
  BY <1>8, OverhearInv
<1>9. ASSUME NEW net \in NetResult,
             \/ \E d \in {x \in DeviceData : x.mac # None} : Discover(d, net) \/ Change(d, net)
             \/ Vanish(net)
             \/ AnnouncerClock(net)
      PROVE  Inv'
  <2>1. ASSUME NEW d \in DeviceData, d.mac # None, Discover(d, net) PROVE Inv'
    BY <1>1, <2>1, DiscoverHandled, HandledInv
  <2>2. ASSUME NEW d \in DeviceData, Change(d, net) PROVE Inv'
    BY <1>1, <2>2, ChangeHandled, HandledInv
  <2>3. CASE Vanish(net)
    BY <1>1, <2>3, VanishHandled, HandledInv
  <2>4. CASE AnnouncerClock(net)
    BY <1>1, <2>4, ClockHandled, HandledInv
  <2> QED
    BY <1>9, <2>1, <2>2, <2>3, <2>4
<1> QED
  BY <1>2, <1>3, <1>4, <1>5, <1>6, <1>7, <1>8, <1>9 DEF Next

\* The two countdowns hold in every state of the link, whatever the lag, the losses
\* and the buffers that LinkConstants and LinkMargin allow.
THEOREM LinkInvariance == Spec => []Inv
<1>1. Init => Inv
  BY InitInv
<1>2. Inv /\ [Next]_vars => Inv'
  BY NextInv, Stutter
<1> QED
  BY <1>1, <1>2, PTL DEF Spec

\* Members are in range: no 16 bit counter of the sender wraps (LldpSender::Tick)
\* and the socket holds what it has room for, however handlers, frames and the two
\* clocks interleave.
THEOREM LinkTypeCorrect == Spec => []TypeOK
<1>1. Inv => TypeOK
  <2> SUFFICES ASSUME Inv PROVE TypeOK
    OBVIOUS
  <2>1. TypeInv
    BY DEF Inv
  <2>2. sender \in Sender \cup {None}
    BY <2>1 DEF TypeInv, SenderInv, InRange
  <2>3. Announcements \subseteq Frame
    <3>1. {0, TARGET_TTL} \subseteq Nat
      BY ConstantFacts
    <3>2. {FALSE} \subseteq BOOLEAN
      OBVIOUS
    <3> SUFFICES ASSUME NEW f \in Announcements PROVE f \in Frame
      OBVIOUS
    <3>3. f \in [ttl : {0, TARGET_TTL}, mac : Macs, ip : Addrs \cup {None}, lost : {FALSE}]
      BY DEF Announcements
    <3> QED
      BY <3>1, <3>2, <3>3, Zenon DEF Frame
  <2>4. wire \in Seq(Frame) /\ inbox \in Seq(Frame)
    BY <2>1, <2>3, SeqMonotonic DEF TypeInv, LinkInv, Waiting
  <2> QED
    BY <2>1, <2>2, <2>4 DEF TypeOK, TypeInv, LinkInv
<1> QED
  BY <1>1, LinkInvariance, PTL

\* A neighbour that has been heard stays in the table as long as its interface is
\* operational: the seconds of its time to live that are left always outlast the
\* seconds until a frame must get through (LldpSender::Tick and TryTransmit at one
\* end, NeighbourList::Tick at the other).
THEOREM Kept == Spec => []NeighbourKept
<1>1. Inv => NeighbourKept
  BY DEF Inv, SteadyInv, NeighbourKept
<1> QED
  BY <1>1, LinkInvariance, PTL

\* A neighbour that stops without a word is forgotten once its time to live and
\* the lag of the listener have passed, whatever frames of it were still waiting
\* (LldpSender is destroyed in silence; NeighbourList::Tick).
THEOREM Forgotten == Spec => []StoppedForgotten
<1>1. Inv => StoppedForgotten
  <2> SUFFICES ASSUME Inv, Known PROVE gone # Forever
    BY DEF StoppedForgotten
  <2> DEFINE l == ticks["listener"]
             ttl == TimeToLive
  <2>1. FadeInv
    BY DEF Inv
  <2>2. /\ l \in 0..MaxLag /\ gone \in Nat /\ ttl \in 0..TARGET_TTL
        /\ Len(inbox) \in 0..InboxLimit /\ inbox \in Seq(Announcements) /\ turn \in BOOLEAN
    BY Numbers, ForeverNat DEF Known
  <2>3. CASE inbox = <<>>
    <3> DEFINE rest == IF ttl = 0 THEN 0 ELSE ttl - 1
    <3>1. gone + Left(ttl, l) < Forever
      BY <2>1, <2>3 DEF FadeInv
    <3>2. rest \in Nat
      BY <2>2, ConstantFacts
    <3>3. Left(ttl, l) = (MaxLag - l) + rest
      BY DEF Left
    <3> HIDE DEF rest, l, ttl
    <3>4. gone + ((MaxLag - l) + rest) < Forever
      BY <3>1, <3>3
    <3> QED
      BY <2>2, <3>2, <3>4, ConstantFacts, ForeverNat
  <2>4. CASE inbox # <<>>
    <3> DEFINE n == Len(inbox)
               some == n * MaxLag
               rest == IF turn THEN 0 ELSE MaxLag
    <3>1. gone + Drain(n, l, turn) < Forever
      BY <2>1, <2>4 DEF FadeInv
    <3>2. n \in Nat /\ 0 < n
      BY <2>2, <2>4
    <3> HIDE DEF n
    <3>3. some \in Nat /\ 0 * MaxLag + MaxLag <= some
      BY <3>2, Multiples, ConstantFacts
    <3>4. 0 * MaxLag = 0 /\ rest \in Nat
      BY ConstantFacts
    <3>5. Drain(n, l, turn) = some - l + rest + TARGET_TTL - 1
      BY DEF Drain
    <3> HIDE DEF some, rest, l
    <3>6. gone + (some - l + rest + TARGET_TTL - 1) < Forever
      BY <3>1, <3>5
    <3> QED
      BY <2>2, <3>3, <3>4, <3>6, ConstantFacts, ForeverNat
  <2> QED
    BY <2>3, <2>4
<1> QED
  BY <1>1, LinkInvariance, PTL

----------------------------------------------------------------------------
(* What the table says.                                                     *)

LEMMA ListedIs ==
    ASSUME NEW m, NEW t
    PROVE  t \in Listed(m) <=> \E c, p : Lists(m, c, p) /\ t = << <<c, p>>, m[c][p].ip >>
<1> DEFINE keys == UNION {{c} \X DOMAIN m[c] : c \in DOMAIN m}
           pair(cp) == <<cp, m[cp[1]][cp[2]].ip>>
<1>1. \A cp : cp \in keys <=> \E c, p : Lists(m, c, p) /\ cp = <<c, p>>
  BY DEF Lists
<1>2. Listed(m) = {pair(cp) : cp \in keys}
  BY DEF Listed
<1>3. t \in Listed(m) <=> \E cp \in keys : t = pair(cp)
  BY <1>2
<1>4. \A c, p : pair(<<c, p>>) = << <<c, p>>, m[c][p].ip >>
  OBVIOUS
<1> HIDE DEF keys
<1>5. ASSUME t \in Listed(m) PROVE \E c, p : Lists(m, c, p) /\ t = << <<c, p>>, m[c][p].ip >>
  <2>1. PICK cp \in keys : t = pair(cp)
    BY <1>3, <1>5
  <2>2. PICK c, p : Lists(m, c, p) /\ cp = <<c, p>>
    BY <1>1, <2>1
  <2>3. t = pair(<<c, p>>)
    BY <2>1, <2>2
  <2> QED
    BY <1>4, <2>2, <2>3
<1>6. ASSUME NEW c, NEW p, Lists(m, c, p), t = << <<c, p>>, m[c][p].ip >>
      PROVE  t \in Listed(m)
  <2>1. <<c, p>> \in keys
    BY <1>1, <1>6
  <2>2. t = pair(<<c, p>>)
    BY <1>4, <1>6
  <2> QED
    BY <1>3, <2>1, <2>2
<1> QED
  BY <1>5, <1>6

\* The table n says what m says, and that the port p of c has the address ip.
Says(m, n, c, p, ip) ==
    /\ Lists(n, c, p) /\ n[c][p].ip = ip
    /\ \A d, q : <<d, q>> # <<c, p>> =>
          /\ Lists(n, d, q) <=> Lists(m, d, q)
          /\ Lists(n, d, q) => n[d][q] = m[d][q]

LEMMA SaysListed ==
    ASSUME NEW m, NEW n, NEW c, NEW p, NEW ip, Says(m, n, c, p, ip)
    PROVE  Listed(n) = {t \in Listed(m) : t[1] # <<c, p>>} \cup {<< <<c, p>>, ip >>}
<1> DEFINE own == << <<c, p>>, ip >>
           others == {t \in Listed(m) : t[1] # <<c, p>>}
<1>1. /\ Lists(n, c, p) /\ n[c][p].ip = ip
      /\ \A d, q : <<d, q>> # <<c, p>> =>
            /\ Lists(n, d, q) <=> Lists(m, d, q)
            /\ Lists(n, d, q) => n[d][q] = m[d][q]
  BY DEF Says
<1>2. ASSUME NEW t, t \in Listed(n) PROVE t \in others \cup {own}
  <2>1. PICK d, q : Lists(n, d, q) /\ t = << <<d, q>>, n[d][q].ip >>
    BY <1>2, ListedIs
  <2>2. CASE <<d, q>> = <<c, p>>
    BY <1>1, <2>1, <2>2
  <2>3. CASE <<d, q>> # <<c, p>>
    <3>1. Lists(m, d, q) /\ t = << <<d, q>>, m[d][q].ip >> /\ t[1] # <<c, p>>
      BY <1>1, <2>1, <2>3
    <3>2. t \in Listed(m)
      BY <3>1, ListedIs
    <3> QED
      BY <3>1, <3>2
  <2> QED
    BY <2>2, <2>3
<1>3. ASSUME NEW t, t \in others PROVE t \in Listed(n)
  <2>1. PICK d, q : Lists(m, d, q) /\ t = << <<d, q>>, m[d][q].ip >>
    BY <1>3, ListedIs
  <2>2. <<d, q>> # <<c, p>>
    BY <1>3, <2>1
  <2>3. Lists(n, d, q) /\ t = << <<d, q>>, n[d][q].ip >>
    BY <1>1, <2>1, <2>2
  <2> QED
    BY <2>3, ListedIs
<1>4. own \in Listed(n)
  <2>1. Lists(n, c, p) /\ own = << <<c, p>>, n[c][p].ip >>
    BY <1>1
  <2> HIDE DEF own
  <2> QED
    BY <2>1, ListedIs
<1> HIDE DEF own, others
<1>5. Listed(n) = others \cup {own}
  BY <1>2, <1>3, <1>4
<1> QED
  BY <1>5 DEF own, others

\* The table n lists some of what m lists, with the same addresses.
Forgets(m, n) ==
    \A c, p : Lists(n, c, p) => Lists(m, c, p) /\ n[c][p].ip = m[c][p].ip

LEMMA ForgetsListed ==
    ASSUME NEW m, NEW n, Forgets(m, n)
    PROVE  Listed(n) = {t \in Listed(m) : \E s \in Listed(n) : s[1] = t[1]}
<1> DEFINE left == {t \in Listed(m) : \E s \in Listed(n) : s[1] = t[1]}
<1>1. \A c, p : Lists(n, c, p) => Lists(m, c, p) /\ n[c][p].ip = m[c][p].ip
  BY DEF Forgets
<1>2. ASSUME NEW t, t \in Listed(n) PROVE t \in left
  <2>1. PICK c, p : Lists(n, c, p) /\ t = << <<c, p>>, n[c][p].ip >>
    BY <1>2, ListedIs
  <2>2. Lists(m, c, p) /\ t = << <<c, p>>, m[c][p].ip >>
    BY <1>1, <2>1
  <2>3. t \in Listed(m)
    BY <2>2, ListedIs
  <2> QED
    BY <1>2, <2>3
<1>3. ASSUME NEW t, t \in left PROVE t \in Listed(n)
  <2>1. PICK c, p : Lists(m, c, p) /\ t = << <<c, p>>, m[c][p].ip >>
    BY <1>3, ListedIs
  <2>2. PICK s \in Listed(n) : s[1] = t[1]
    BY <1>3
  <2>3. PICK d, q : Lists(n, d, q) /\ s = << <<d, q>>, n[d][q].ip >>
    BY <2>2, ListedIs
  <2>4. d = c /\ q = p
    <3>1. s[1] = <<d, q>> /\ t[1] = <<c, p>>
      BY <2>1, <2>3
    <3>2. <<d, q>> = <<c, p>>
      BY <2>2, <3>1
    <3> QED
      BY <3>2
  <2>5. Lists(n, c, p) /\ t = << <<c, p>>, n[c][p].ip >>
    BY <1>1, <2>1, <2>3, <2>4
  <2> QED
    BY <2>5, ListedIs
<1> HIDE DEF left
<1>4. Listed(n) = left
  BY <1>2, <1>3
<1> QED
  BY <1>4 DEF left

\* The frame n of another station is read as what it says, or ignored if it says
\* nothing.
ReadsAs(n) ==
    LET r == ReadFrame(n.octets, n.ethernet, 1)
    IN  IF n.says = None THEN ~r.accepted
        ELSE r.accepted /\ n.says.id = <<r.chassis, r.port>> /\ n.says.ip = r.ip

\* It is the announcement of another LldpSender.
FromSender(n) ==
    \E machine_id, f, i :
       /\ Announceable(machine_id, f, i)
       /\ n.octets = DataUnitToFrameBuffer(constructFrame(machine_id, f, i))
       /\ Len(n.octets) <= MAX_FRAME_BUFFER_SIZE
       /\ n.ethernet = TRUE
       /\ n.says # None
       /\ n.says.id = <<ChassisValue(machine_id), PortValue(f.mac)>>
       /\ n.says.ip = f.ip

LEMMA SendersUnderstood ==
    ASSUME NEW n, FromSender(n)
    PROVE  ReadsAs(n)
<1>1. PICK machine_id, f, i :
         /\ Announceable(machine_id, f, i)
         /\ n.octets = DataUnitToFrameBuffer(constructFrame(machine_id, f, i))
         /\ Len(n.octets) <= MAX_FRAME_BUFFER_SIZE
         /\ n.ethernet = TRUE
         /\ n.says # None
         /\ n.says.id = <<ChassisValue(machine_id), PortValue(f.mac)>>
         /\ n.says.ip = f.ip
  BY DEF FromSender
<1>2. NoneApart
  BY LinkConstants DEF NoneApart
<1> DEFINE octets == DataUnitToFrameBuffer(constructFrame(machine_id, f, i))
           r == ReadFrame(octets, TRUE, 1)
           chassis == ChassisValue(machine_id)
           port == PortValue(f.mac)
           ttl == f.ttl
           ip == f.ip
<1>3. r = [accepted |-> TRUE, chassis |-> chassis, port |-> port, ttl |-> ttl,
           ip |-> ip, if_index |-> 1]
  <2>1. Announceable(machine_id, f, i)
    BY <1>1
  <2>2. Len(DataUnitToFrameBuffer(constructFrame(machine_id, f, i))) <= MAX_FRAME_BUFFER_SIZE
    BY <1>1
  <2>3. ReadFrame(DataUnitToFrameBuffer(constructFrame(machine_id, f, i)), TRUE, 1) =
          [accepted |-> TRUE, chassis |-> ChassisValue(machine_id), port |-> PortValue(f.mac),
           ttl |-> f.ttl, ip |-> f.ip, if_index |-> 1]
    BY ONLY <1>2, <2>1, <2>2, AnnouncementUnderstood
  <2> QED
    BY <2>3
<1>4. ReadFrame(n.octets, n.ethernet, 1) = r
  BY <1>1
<1>5. n.says # None /\ n.says.id = <<chassis, port>> /\ n.says.ip = ip
  BY <1>1
<1> HIDE DEF r, chassis, port, ttl, ip
<1>6. r.accepted /\ r.chassis = chassis /\ r.port = port /\ r.ip = ip
  BY <1>3
<1> QED
  BY <1>4, <1>5, <1>6 DEF ReadsAs

\* Every frame of another station is the announcement of a sender, or is read as
\* what it says.
NoiseUnderstood == \A n \in Noise : FromSender(n) \/ ReadsAs(n)

LEMMA OverheardUnderstood ==
    ASSUME NoiseUnderstood, NEW o \in Overheard
    PROVE  LET r == o.read
           IN  IF o.says = None THEN ~r.accepted
               ELSE r.accepted /\ o.says.id = <<r.chassis, r.port>> /\ o.says.ip = r.ip
<1>1. PICK n \in Noise : o = [read |-> ReadFrame(n.octets, n.ethernet, 1), says |-> n.says]
  BY DEF Overheard
<1>2. ReadsAs(n)
  BY SendersUnderstood DEF NoiseUnderstood
<1> DEFINE r == ReadFrame(n.octets, n.ethernet, 1)
<1>3. IF n.says = None THEN ~r.accepted
      ELSE r.accepted /\ n.says.id = <<r.chassis, r.port>> /\ n.says.ip = r.ip
  BY <1>2 DEF ReadsAs
<1> HIDE DEF r
<1>4. o.read = r /\ o.says = n.says
  BY <1>1 DEF r
<1> QED
  BY <1>3, <1>4

\* A station has said ip, and the table has taken it down.
LEMMA SaysHeard ==
    ASSUME HeardAsSaid, NEW c, NEW p, NEW ip,
           Says(chassis_map, chassis_map', c, p, ip),
           told' = Said(<<c, p>>, ip)
    PROVE  HeardAsSaid'
<1>1. Listed(chassis_map') = {t \in Listed(chassis_map) : t[1] # <<c, p>>}
                                \cup {<< <<c, p>>, ip >>}
  BY SaysListed
<1>2. told' = {t \in told : t[1] # <<c, p>>} \cup {<< <<c, p>>, ip >>}
  BY DEF Said
<1> QED
  BY <1>1, <1>2 DEF HeardAsSaid

LEMMA ReceiveHeard ==
    ASSUME Inv, HeardAsSaid, ListenerReceive
    PROVE  HeardAsSaid'
<1> DEFINE f == Head(inbox)
           ip == f.ip
<1>1. f \in Announcements
  <2>1. inbox \in Seq(Announcements) /\ inbox # <<>>
    BY DEF Inv, TypeInv, LinkInv, Waiting, ListenerReceive
  <2> QED
    BY <2>1
<1>2. chassis_map' = lldpFrameParser(chassis_map, ReadFrame(Octets(f), TRUE, 1))
      /\ told' = Said(<<Host, Port>>, ip)
  BY DEF ListenerReceive
<1> HIDE DEF f
<1>3. Announced(chassis_map, chassis_map', f)
  BY <1>1, <1>2, OwnFrame
<1>4. Says(chassis_map, chassis_map', Host, Port, ip)
  BY <1>3 DEF Announced, Says
<1> HIDE DEF ip
<1> QED
  BY <1>2, <1>4, SaysHeard

LEMMA OverhearHeard ==
    ASSUME NoiseUnderstood, HeardAsSaid, NEW n \in Overheard, ListenerOverhear(n)
    PROVE  HeardAsSaid'
<1> DEFINE r == n.read
           e == lldpduToNeighbourEntry(r)
           c == r.chassis
           p == r.port
           ip == r.ip
<1>1. /\ chassis_map' = lldpFrameParser(chassis_map, r)
      /\ told' = IF n.says = None THEN told ELSE Said(n.says.id, n.says.ip)
  BY DEF ListenerOverhear
<1>2. IF n.says = None THEN ~r.accepted
      ELSE r.accepted /\ n.says.id = <<c, p>> /\ n.says.ip = ip
  BY OverheardUnderstood
<1>3. CASE n.says = None
  BY <1>1, <1>2, <1>3 DEF HeardAsSaid, lldpFrameParser
<1>4. CASE n.says # None
  <2>1. e.ip = ip
    BY DEF lldpduToNeighbourEntry
  <2>2. \A d, q :
           /\ Lists(chassis_map', d, q) <=> Lists(chassis_map, d, q) \/ (d = c /\ q = p)
           /\ Lists(chassis_map', d, q) =>
                 chassis_map'[d][q] = IF d = c /\ q = p THEN e ELSE chassis_map[d][q]
    BY <1>1, <1>2, <1>4, ParserEffect
  <2>3. told' = Said(<<c, p>>, ip)
    BY <1>1, <1>2, <1>4
  <2> HIDE DEF e, c, p, ip
  <2>4. Says(chassis_map, chassis_map', c, p, ip)
    BY <2>1, <2>2 DEF Says
  <2> QED
    BY <2>3, <2>4, SaysHeard
<1> QED
  BY <1>3, <1>4

LEMMA ClockHeard ==
    ASSUME Inv, HeardAsSaid, ListenerClock
    PROVE  HeardAsSaid'
<1> DEFINE l == ticks["listener"]
<1>1. /\ chassis_map' = ListTick(chassis_map, l)
      /\ told' = {t \in told : \E s \in Listed(chassis_map') : s[1] = t[1]}
  BY DEF ListenerClock
<1>2. \A c, p : Lists(chassis_map, c, p) => IsEntry(chassis_map[c][p])
  BY DEF Inv, TypeInv, TableInv, Lists
<1> HIDE DEF l
<1>3. \A c, p : /\ Lists(chassis_map', c, p) => Lists(chassis_map, c, p)
                /\ Lists(chassis_map', c, p) =>
                      chassis_map'[c][p] = Aged(chassis_map[c][p], l)
  BY <1>1, TickEffect
<1>4. ASSUME NEW c, NEW p, Lists(chassis_map', c, p)
      PROVE  chassis_map'[c][p].ip = chassis_map[c][p].ip
  BY <1>2, <1>3, <1>4, AgedEntry
<1>5. Forgets(chassis_map, chassis_map')
  BY <1>3, <1>4 DEF Forgets
<1>6. Listed(chassis_map') =
         {t \in Listed(chassis_map) : \E s \in Listed(chassis_map') : s[1] = t[1]}
  BY <1>5, ForgetsListed
<1> QED
  BY <1>1, <1>6 DEF HeardAsSaid

LEMMA NextHeard ==
    ASSUME NoiseUnderstood, Inv, HeardAsSaid, Next
    PROVE  HeardAsSaid'
<1>1. CASE UNCHANGED <<chassis_map, told>>
  BY <1>1 DEF HeardAsSaid
<1>2. CASE ListenerReceive
  BY <1>2, ReceiveHeard
<1>3. CASE ListenerClock
  BY <1>3, ClockHeard
<1>4. CASE \E n \in Overheard : ListenerOverhear(n)
  BY <1>4, OverhearHeard
<1>5. CASE Second \/ Deliver \/ Lose \/ Stop
  BY <1>1, <1>5 DEF Second, Deliver, Lose, Stop, Leave
<1>6. ASSUME NEW net \in NetResult,
             \/ \E d \in {x \in DeviceData : x.mac # None} : Discover(d, net) \/ Change(d, net)
             \/ Vanish(net)
             \/ AnnouncerClock(net)
      PROVE  HeardAsSaid'
  BY <1>1, <1>6 DEF Discover, Change, Vanish, AnnouncerClock, Leave
<1> QED
  BY <1>2, <1>3, <1>4, <1>5, <1>6 DEF Next

\* The table says of every station what that station has said last: of the sender
\* of this link, of every other LldpSender, and of whom else is read as he means it
\* (constructFrame and ToFrameBuffer at one end, FromSpan, lldpduToNeighbourEntry
\* and NeighbourList::Tick at the other).
THEOREM HeardRight ==
    ASSUME NoiseUnderstood
    PROVE  Spec => []HeardAsSaid
<1>1. Init => HeardAsSaid
  <2> SUFFICES ASSUME Init PROVE HeardAsSaid
    OBVIOUS
  <2>1. chassis_map = EmptyMap /\ told = {}
    BY DEF Init
  <2>2. DOMAIN EmptyMap = {}
    BY DEF EmptyMap
  <2>3. \A t : t \notin Listed(chassis_map)
    BY <2>1, <2>2, ListedIs DEF Lists
  <2> QED
    BY <2>1, <2>3 DEF HeardAsSaid
<1>2. Inv /\ HeardAsSaid /\ [Next]_vars => HeardAsSaid'
  <2>1. ASSUME HeardAsSaid, UNCHANGED vars PROVE HeardAsSaid'
    BY <2>1 DEF HeardAsSaid, vars
  <2> QED
    BY <2>1, NextHeard
<1> QED
  BY <1>1, <1>2, LinkInvariance, PTL DEF Spec
=============================================================================

----------------------------- MODULE LldpCodec -----------------------------
(***************************************************************************)
(* The octets of an LLDP data unit: how a sender writes them (lldp_packet,  *)
(* constructFrame) and what the monitor of a neighbour reads from them.     *)
(*                                                                          *)
(* LldpSender's frames say what an announcement means; here each becomes    *)
(* the sequence of octets it travels as (the packet socket adds and removes *)
(* the ethernet header).  The sizes of the addresses are parameters.        *)
(***************************************************************************)
EXTENDS LldpSender, SequencesExt

CONSTANTS
    ETH_ALEN, IN_ADDR_SIZE, IN6_ADDR_SIZE,  \* octets of the three addresses
    MAX_FRAME_BUFFER_SIZE                   \* the longest frame read

ASSUME CodecConstants ==
    /\ {ETH_ALEN, IN_ADDR_SIZE, IN6_ADDR_SIZE} \subseteq 1..254
    /\ MAX_FRAME_BUFFER_SIZE \in Nat

\* The largest length a header can hold, plus one: 2^TYPE_BIT_OFFSET.
LENGTH_RANGE == 512

END_OF_LLDPDU == 0
CHASSIS_ID == 1
PORT_ID == 2
TIME_TO_LIVE == 3
MANAGEMENT_ADDRESS == 8

SUBTYPE_IPV4 == 1
SUBTYPE_IPV6 == 2
SUBTYPE_MAC == 6
IF_SUBTYPE_IFINDEX == 2

PORT_TLV_SUBTYPE_MAC == 3
PORT_TLV_SUBTYPE_LOCAL == 7

htons(n) == <<n \div 256, n % 256>>
ntohs(b) == b[1] * 256 + b[2]
htonl(n) == htons(n \div 65536) \o htons(n % 65536)

LLDPDUTypeLengthValue == [type : Nat, value : Seq(Int)]

LLDPDataUnit == [chassis_id   : LLDPDUTypeLengthValue,
                 port_id      : LLDPDUTypeLengthValue,
                 time_to_live : LLDPDUTypeLengthValue,
                 optional_tlv : Seq(LLDPDUTypeLengthValue)]

----------------------------------------------------------------------------
(* LLDPDUTypeLengthValue                                                    *)

ToFrameBuffer(tlv) == htons(tlv.type * LENGTH_RANGE + Len(tlv.value)) \o tlv.value

\* The two halves of a header: 9 bits of length, 7 of type.
LengthOf(bytes) == ntohs(bytes) % LENGTH_RANGE
TypeOf(bytes) == ntohs(bytes) \div LENGTH_RANGE

\* There is a header, and all that it announces.
Fits(bytes) == Len(bytes) >= 2 /\ LengthOf(bytes) + 2 <= Len(bytes)

\* The first element, and what is behind it.
FromSpan(bytes) ==
    IF Fits(bytes)
    THEN [type |-> TypeOf(bytes), value |-> SubSeq(bytes, 3, 2 + LengthOf(bytes))]
    ELSE None

Behind(bytes) == SubSeq(bytes, 3 + LengthOf(bytes), Len(bytes))

----------------------------------------------------------------------------
(* LLDPDataUnit                                                             *)

DataUnitToFrameBuffer(unit) ==
    LET tlvs == <<unit.chassis_id, unit.port_id, unit.time_to_live>> \o unit.optional_tlv
    IN  FlattenSeq([k \in DOMAIN tlvs |-> ToFrameBuffer(tlvs[k])]) \o <<0, 0>>

\* The loop of LLDPDataUnit::FromSpan: up to the end marker, or to the first
\* element that does not fit.
OptionalTlvs(bytes) ==
    LET from[n \in 0..Len(bytes)] ==
            LET rest == SubSeq(bytes, n + 1, Len(bytes))
                tlv  == FromSpan(rest)
            IN  IF tlv = None THEN <<>>
                ELSE IF tlv.type = END_OF_LLDPDU THEN <<>>
                ELSE <<tlv>> \o from[n + 2 + Len(tlv.value)]
    IN  from[0]

IsTlv(tlv, type) == IF tlv = None THEN FALSE ELSE tlv.type = type

\* LLDPDataUnit::FromSpan: the three mandatory elements, in their order.
DataUnitFromSpan(bytes) ==
    LET chassis == FromSpan(bytes)
        port    == FromSpan(Behind(bytes))
        ttl     == FromSpan(Behind(Behind(bytes)))
    IN  IF /\ IsTlv(chassis, CHASSIS_ID)
           /\ IsTlv(port, PORT_ID)
           /\ IsTlv(ttl, TIME_TO_LIVE)
        THEN [chassis_id |-> chassis, port_id |-> port, time_to_live |-> ttl,
              optional_tlv |-> OptionalTlvs(Behind(Behind(Behind(bytes))))]
        ELSE None

----------------------------------------------------------------------------
(* What a sender puts in.  The addresses of an interface that has any are a *)
(* record of an IPv4 and an IPv6 address, one of them possibly None.        *)

managementTlv(subtype, address, if_index) ==
    [type  |-> MANAGEMENT_ADDRESS,
     value |-> <<1 + Len(address), subtype>> \o address
                   \o <<IF_SUBTYPE_IFINDEX>> \o htonl(if_index) \o <<0>>]

\* The addresses the interface has, or else its MAC.
createLldpduOptionalTlvs(mac, ip, if_index) ==
    LET one(subtype, address) ==
            IF address = None THEN <<>>
            ELSE <<managementTlv(subtype, address, if_index)>>
    IN  IF ip = None THEN one(SUBTYPE_MAC, mac)
        ELSE one(SUBTYPE_IPV4, ip.v4) \o one(SUBTYPE_IPV6, ip.v6)

ChassisValue(machine_id) == <<PORT_TLV_SUBTYPE_LOCAL>> \o machine_id
PortValue(mac) == <<PORT_TLV_SUBTYPE_MAC>> \o mac

constructFrame(machine_id, f, if_index) ==
    [chassis_id   |-> [type |-> CHASSIS_ID, value |-> ChassisValue(machine_id)],
     port_id      |-> [type |-> PORT_ID, value |-> PortValue(f.mac)],
     time_to_live |-> [type |-> TIME_TO_LIVE, value |-> htons(f.ttl)],
     optional_tlv |-> createLldpduOptionalTlvs(f.mac, f.ip, if_index)]

----------------------------------------------------------------------------
(* What a monitor gets out.                                                 *)

\* Mutant of AddressFits: an address of any length goes with any subtype.
AddressFits_any(value) ==
    Len(value) > 0 /\ value[1] # 0 /\ Len(value) >= 1 + value[1]

\* The address string has a length that is there, and the one its subtype calls
\* for.
AddressFits(value) ==
    /\ Len(value) > 0
    /\ value[1] # 0
    /\ Len(value) >= 1 + value[1]
    /\ \/ value[2] = SUBTYPE_IPV4 /\ value[1] = 1 + IN_ADDR_SIZE
       \/ value[2] = SUBTYPE_IPV6 /\ value[1] = 1 + IN6_ADDR_SIZE
       \/ value[2] = SUBTYPE_MAC /\ value[1] = 1 + ETH_ALEN

managementTlvGetManagementString(value) ==
    IF AddressFits(value)
    THEN [subtype |-> value[2], address |-> SubSeq(value, 3, 1 + value[1])]
    ELSE None

\* The element holds an address of this subtype.
HoldsAddress(tlv, subtype) ==
    /\ tlv.type = MANAGEMENT_ADDRESS
    /\ AddressFits(tlv.value)
    /\ managementTlvGetManagementString(tlv.value).subtype = subtype

\* The address of this subtype; of several the last one counts.
ManagementAddress(unit, subtype) ==
    LET all == {k \in DOMAIN unit.optional_tlv : HoldsAddress(unit.optional_tlv[k], subtype)}
    IN  IF all = {} THEN None
        ELSE managementTlvGetManagementString(unit.optional_tlv[Max(all)].value).address

ManagementAddresses(unit) ==
    LET v4 == ManagementAddress(unit, SUBTYPE_IPV4)
        v6 == ManagementAddress(unit, SUBTYPE_IPV6)
    IN  IF v4 = None /\ v6 = None THEN None ELSE [v4 |-> v4, v6 |-> v6]

Ignored == [accepted |-> FALSE]

\* EthernetLldpMonitor::Call and the first half of lldpFrameParser: what they
\* make of the octets that came in on interface if_index, of which `ethernet`
\* says whether the link layer address is that of an LLDP frame on an ethernet.
\* The time to live has the two octets every LLDP agent writes.
ReadFrame(bytes, ethernet, if_index) ==
    LET unit == DataUnitFromSpan(bytes)
    IN  IF Len(bytes) > MAX_FRAME_BUFFER_SIZE \/ ~ethernet THEN Ignored
        ELSE IF unit = None THEN Ignored
        ELSE [accepted |-> TRUE,
              chassis  |-> unit.chassis_id.value,
              port     |-> unit.port_id.value,
              ttl      |-> ntohs(unit.time_to_live.value),
              ip       |-> ManagementAddresses(unit),
              if_index |-> if_index]
=============================================================================

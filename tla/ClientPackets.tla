---------------------------- MODULE ClientPackets ----------------------------
(***************************************************************************)
(* The response of the daemon to a client: how ClientSenderSocket::DumpData *)
(* takes the neighbour table apart into packets, and how processDataPacket  *)
(* puts it together again at the other end.                                 *)
(*                                                                          *)
(* A table is a function from chassis to functions from ports to entries.   *)
(* Chassis and ports are numbers, which gives them the order of std::map.   *)
(* An entry has the name of the interface, NoValue if the daemon does not   *)
(* know it, and an address: IPv4 and IPv6 are treated alike.  The request   *)
(* id of a packet is left out, since the client never looks at it.          *)
(***************************************************************************)
EXTENDS Naturals, SequencesExt

CONSTANTS
    NoValue,
    Oversized,      \* chassis ids that do not fit into a ChassisEntry
    Overlong,       \* port ids that do not fit into a NeighbourEntry
    Garbled         \* what comes out when one is put there all the same

End == [type |-> "END_OF_DATA"]

\* uint16_t
Id(n) == n % 65536

\* The elements of a set of numbers in ascending order.
Sorted(S) == [k \in 1..Cardinality(S) |-> CHOOSE n \in S : Cardinality({m \in S : m < n}) = k - 1]

\* The neighbours, by chassis and port.
Neighbours(table) == UNION {{c} \X DOMAIN table[c] : c \in DOMAIN table}

\* A table is finite.
IsTable(table) ==
    /\ IsFiniteSet(DOMAIN table) /\ DOMAIN table \subseteq Nat
    /\ \A c \in DOMAIN table : IsFiniteSet(DOMAIN table[c]) /\ DOMAIN table[c] \subseteq Nat

\* All ports fit.  Writing a longer one past the end of the packet is undefined, so
\* the daemon has no table with such a port that anything could be said of.
Fits(table) == \A c \in DOMAIN table : DOMAIN table[c] \cap Overlong = {}

\* neighbour_id_counter at a neighbour: how many come before it.
Number(table, c, p) ==
    Cardinality({n \in Neighbours(table) : n[1] < c \/ (n[1] = c /\ n[2] < p)})

\* sendChassisEntryPacket
ChassisPackets(chassis_id, name) ==
    IF name \in Oversized THEN <<>>
    ELSE <<[type |-> "CHASSIS_ENTRY", chassis_id |-> chassis_id, name |-> name]>>

\* sendNeighbourEntry, sendLocalInterfaceEntry and the addresses of a neighbour.  The
\* guard warns of an over-long port and lets it through: the client reads as many
\* octets as it is long, some of them not from the packet.
NeighbourPackets(chassis_id, neighbour_id, port, neighbour) ==
    <<[type |-> "NEIGHBOUR_ENTRY", chassis_id |-> chassis_id,
       neighbour_id |-> neighbour_id, port |-> IF port \in Overlong THEN Garbled ELSE port]>>
    \o (IF neighbour.interface = NoValue THEN <<>>
        ELSE <<[type |-> "LOCAL_INTERFACE_ENTRY", neighbour_id |-> neighbour_id,
                name |-> neighbour.interface]>>)
    \o (IF neighbour.ip = NoValue THEN <<>>
        ELSE <<[type |-> "IP_ENTRY", neighbour_id |-> neighbour_id, address |-> neighbour.ip]>>)

\* Mutant of DumpData: the neighbours of each chassis are counted from zero.
DumpData_recount(table) ==
    LET chassis == Sorted(DOMAIN table)
        OfChassis(k) ==
            LET ports == Sorted(DOMAIN table[chassis[k]])
            IN  ChassisPackets(Id(k - 1), chassis[k])
                \o FlattenSeq([l \in DOMAIN ports |->
                       NeighbourPackets(Id(k - 1), Id(l - 1), ports[l],
                                        table[chassis[k]][ports[l]])])
    IN  FlattenSeq([k \in DOMAIN chassis |-> OfChassis(k)]) \o <<End>>

\* Mutant of DumpData: the end is not marked.
DumpData_endless(table) ==
    LET chassis == Sorted(DOMAIN table)
    IN  FlattenSeq([k \in DOMAIN chassis |-> ChassisPackets(Id(k - 1), chassis[k])])

\* ClientSenderSocket::DumpData
DumpData(table) ==
    LET chassis == Sorted(DOMAIN table)
        OfPort(k, p) == NeighbourPackets(Id(k - 1), Id(Number(table, chassis[k], p)), p,
                                         table[chassis[k]][p])
        OfChassis(k) ==
            LET ports == Sorted(DOMAIN table[chassis[k]])
            IN  ChassisPackets(Id(k - 1), chassis[k])
                \o FlattenSeq([l \in DOMAIN ports |-> OfPort(k, ports[l])])
    IN  FlattenSeq([k \in DOMAIN chassis |-> OfChassis(k)]) \o <<End>>

----------------------------------------------------------------------------
(* The client's two maps while it reads. *)

Nothing == [chassis_map |-> <<>>, neighbour_device_map |-> <<>>]

\* std::map::operator[], read and assigned to
At(map, key, default) == IF key \in DOMAIN map THEN map[key] ELSE default
Put(map, key, value) == [k \in DOMAIN map \cup {key} |-> IF k = key THEN value ELSE map[k]]

NoNeighbour == [chassis |-> NoValue, port |-> NoValue, interface |-> NoValue, ip |-> NoValue]

\* processDataPacket, for a packet that is not the last
processDataPacket(maps, packet) ==
    LET devices == maps.neighbour_device_map
        Device == At(devices, packet.neighbour_id, NoNeighbour)
        SetDevice(device) ==
            [maps EXCEPT !.neighbour_device_map = Put(@, packet.neighbour_id, device)]
    IN  CASE packet.type = "CHASSIS_ENTRY" ->
                [maps EXCEPT !.chassis_map = Put(@, packet.chassis_id, packet.name)]
          [] packet.type = "NEIGHBOUR_ENTRY" ->
                SetDevice([NoNeighbour EXCEPT
                    !.chassis = At(maps.chassis_map, packet.chassis_id, NoValue),
                    !.port = packet.port])
          [] packet.type = "LOCAL_INTERFACE_ENTRY" ->
                SetDevice([Device EXCEPT !.interface = packet.name])
          [] packet.type = "IP_ENTRY" ->
                SetDevice([Device EXCEPT !.ip = packet.address])
          [] packet.type = "END_OF_DATA" -> maps

\* What GetData returns after these packets.
Fetched(packets) ==
    LET maps[n \in 0..Len(packets)] ==
            IF n = 0 THEN Nothing ELSE processDataPacket(maps[n - 1], packets[n])
    IN  maps[Len(packets)].neighbour_device_map

----------------------------------------------------------------------------
\* What there is to see of a neighbour: all that is known of it, but for a chassis
\* that does not fit.
Seen(table, c, p) ==
    [chassis |-> IF c \in Oversized THEN NoValue ELSE c, port |-> p,
     interface |-> table[c][p].interface, ip |-> table[c][p].ip]

\* The packets show this table: its neighbours, each once.
Shows(packets, table) ==
    LET devices == Fetched(packets)
    IN  /\ {devices[n] : n \in DOMAIN devices} = {Seen(table, x[1], x[2]) : x \in Neighbours(table)}
        /\ Cardinality(DOMAIN devices) = Cardinality(Neighbours(table))
=============================================================================

--------------------------- MODULE NeighbourTable ---------------------------
(***************************************************************************)
(* The neighbour table at work: any frame may come in, and the clock        *)
(* handler ages the entries.                                                *)
(***************************************************************************)
EXTENDS NeighbourList

CONSTANTS
    Chassis, Ports, Addrs, TTLs,
    Stations,       \* <<chassis, port>> that send on the link
    Ifs,            \* indices of the receiving interfaces
    MaxDelta,       \* seconds one clock event may report
    MaxTime,        \* bound: seconds of one behaviour
    None

ASSUME TableConstants ==
    /\ TTLs \subseteq Nat
    /\ Ifs \subseteq Nat
    /\ IF_INDEX_RANGE \in Nat \ {0}
    /\ MaxDelta \in Nat
    /\ MaxTime \in Nat

VARIABLES
    chassis_map,    \* chassis -> port -> entry
    clock           \* history: seconds Tick has been told of

vars == <<chassis_map, clock>>

Frames ==
    {f \in [accepted : BOOLEAN, chassis : Chassis, port : Ports, ttl : TTLs,
            ip : Addrs \cup {None}, if_index : Ifs] : <<f.chassis, f.port>> \in Stations}

\* A NeighbourEntry.
Entry == [time_to_live : Nat, ip : Addrs \cup {None},
          interface_index : 0..(IF_INDEX_RANGE - 1), heard_on : Ifs]

----------------------------------------------------------------------------
Init ==
    /\ chassis_map = EmptyMap
    /\ clock = 0

ReceiveFrame(f) ==
    /\ chassis_map' = lldpFrameParser(chassis_map, f)
    /\ UNCHANGED clock

Tick(delta) ==
    /\ clock + delta <= MaxTime
    /\ clock' = clock + delta
    /\ chassis_map' = ListTick(chassis_map, delta)

Next ==
    \/ \E f \in Frames : ReceiveFrame(f)
    \/ \E delta \in 1..MaxDelta : Tick(delta)

Spec == Init /\ [][Next]_vars

----------------------------------------------------------------------------
\* Entries are well formed; no time to live runs below zero, where the 16 bit
\* member would wrap (NeighbourList::Tick).
TypeOK ==
    /\ DOMAIN chassis_map \subseteq Chassis
    /\ \A c \in DOMAIN chassis_map :
          /\ DOMAIN chassis_map[c] \subseteq Ports
          /\ \A p \in DOMAIN chassis_map[c] : chassis_map[c][p] \in Entry
    /\ clock \in Nat

\* The size of the outer map is the number of neighbouring chassis DumpInfo
\* prints and DumpData numbers: no chassis is left behind without a port,
\* whichever of its ports time out in the same clock event.
NoEmptyChassis ==
    \A c \in DOMAIN chassis_map : DOMAIN chassis_map[c] # {}

\* An entry names the interface from which the neighbour was reachable: the
\* client looks the device name up by the index lldpFrameParser has stored.
ReachableInterface ==
    \A c \in DOMAIN chassis_map : \A p \in DOMAIN chassis_map[c] :
        chassis_map[c][p].interface_index = chassis_map[c][p].heard_on

\* The abstract table: a countdown of ttl seconds is a deadline ttl seconds
\* from now.
Known(c, p) == c \in DOMAIN chassis_map /\ p \in DOMAIN chassis_map[c]

Info(e) == [ip |-> e.ip, interface_index |-> e.interface_index]

AbsNeighbours ==
    [cp \in Chassis \X Ports |->
        IF Known(cp[1], cp[2])
        THEN [info  |-> Info(chassis_map[cp[1]][cp[2]]),
              until |-> clock + chassis_map[cp[1]][cp[2]].time_to_live]
        ELSE None]

Infos == [ip : Addrs \cup {None},
          interface_index : {i % IF_INDEX_RANGE : i \in Ifs}]

\* An unknown port is not confused with a known one.
ASSUME NoneIsNoNeighbour == None \notin [info : Infos, until : Nat]

Abstract == INSTANCE NeighbourSet WITH
    Unknown <- None,
    neighbours <- AbsNeighbours,
    now <- clock

\* The nested countdown map implements the set of deadlines: every neighbour is
\* kept until its last announcement runs out and not a clock event longer, and
\* refreshing or expiring one port never touches another.
ImplementsNeighbourSet == Abstract!Spec
=============================================================================

---------------------------- MODULE NeighbourList ----------------------------
(***************************************************************************)
(* ndisc::NeighbourList, the table of the neighbours heard: a map from      *)
(* chassis to a map from port to entry, and the two operations on it, as    *)
(* operators from a map to the map they leave.  EthernetLldpMonitor hands   *)
(* every frame to lldpFrameParser; the clock handler calls Tick with the    *)
(* seconds its timerfd has counted.                                         *)
(*                                                                          *)
(* A frame is a record of what the parser reads from it: whether the checks *)
(* of address and data unit accept it, its chassis, port, time to live and  *)
(* addresses, and the index of the interface it came in on.                 *)
(***************************************************************************)
EXTENDS Integers

CONSTANT IF_INDEX_RANGE     \* values of NeighbourEntry::interface_index

\* The interface index is narrowed to the width of the parameter.  `heard_on`
\* is history: the whole index.
lldpduToNeighbourEntry(f) ==
    [time_to_live |-> f.ttl, ip |-> f.ip,
     interface_index |-> f.if_index % IF_INDEX_RANGE, heard_on |-> f.if_index]

EmptyMap == [k \in {} |-> 0]

\* std::map::operator[]: the map with key k bound to v.
Assigned(m, k, v) ==
    [x \in DOMAIN m \cup {k} |-> IF x = k THEN v ELSE m[x]]

\* The ports known under c; operator[] starts an absent chassis empty.
PortMap(m, c) == IF c \in DOMAIN m THEN m[c] ELSE EmptyMap

lldpFrameParser(m, f) ==
    IF f.accepted
    THEN Assigned(m, f.chassis, Assigned(PortMap(m, f.chassis), f.port,
                                         lldpduToNeighbourEntry(f)))
    ELSE m

\* Mutant of Alive: an entry whose time is up stays for one more event.
Alive_late(ports, delta) ==
    {p \in DOMAIN ports : ports[p].time_to_live >= delta}

\* Mutant of Alive: nothing ever times out.
Alive_all(ports, delta) == DOMAIN ports

\* Mutant of Alive: the comparison is the wrong way round.
Alive_expired(ports, delta) == {p \in DOMAIN ports : ports[p].time_to_live <= delta}

\* The ports of one chassis that a clock event of delta seconds leaves.
Alive(ports, delta) == {p \in DOMAIN ports : ports[p].time_to_live > delta}

\* Mutant of Aged: entries do not age.
Aged_never(e, delta) == e

Aged(e, delta) == [e EXCEPT !.time_to_live = @ - delta]

\* Mutant of Remaining: a chassis outlives its ports.
Remaining_all(m, delta) == DOMAIN m

\* The chassis that remain: one is erased with the last port that timed out.
Remaining(m, delta) ==
    {c \in DOMAIN m : Alive(m[c], delta) # {} \/ Alive(m[c], delta) = DOMAIN m[c]}

\* NeighbourList::Tick
ListTick(m, delta) ==
    [c \in Remaining(m, delta) |->
        [p \in Alive(m[c], delta) |-> Aged(m[c][p], delta)]]
=============================================================================

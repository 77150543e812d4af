--------------------------- MODULE NeighbourDump ---------------------------
(* The neighbour table and what a client is told of it.  Chassis and ports   *)
(* are numbers here.                                                         *)
EXTENDS NeighbourTable, ClientPackets

\* The table with the interfaces that are still there when a client asks
\* (sendLocalInterfaceEntry), as DumpData finds it.
Named(devices) ==
    [c \in DOMAIN chassis_map |->
        [p \in DOMAIN chassis_map[c] |->
            LET e == chassis_map[c][p]
            IN  [interface |-> IF e.interface_index \in devices THEN e.interface_index ELSE NoValue,
                 ip        |-> IF e.ip = None THEN NoValue ELSE e.ip]]]

\* Whatever table frames and clock have left, unless it has a port of more than 506
\* octets, and whichever interfaces have gone since, the client puts together what
\* DumpData has taken apart: every neighbour once, with its own chassis, interface
\* and address, although chassis and neighbours are numbered by two counters and
\* travel in packets of their own.
RoundTrip ==
    Fits(chassis_map) =>
        \A devices \in SUBSET Ifs : Shows(DumpData(Named(devices)), Named(devices))
=============================================================================

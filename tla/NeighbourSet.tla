---------------------------- MODULE NeighbourSet ----------------------------
(***************************************************************************)
(* What the neighbour table promises: every port that has announced itself  *)
(* is known, with what it last announced, exactly until the time to live of *)
(* that announcement has passed on the receiver's clock.                    *)
(***************************************************************************)
EXTENDS Integers

CONSTANTS
    Chassis,    \* chassis identifiers
    Ports,      \* port identifiers
    Infos,      \* what an announcement tells about its port
    TTLs,       \* times to live an announcement may carry
    MaxDelta,   \* seconds the clock may advance at once
    MaxTime,    \* bound: seconds of one behaviour
    Unknown     \* the port is not known

VARIABLES
    neighbours, \* <<chassis, port>> -> [info, until], or Unknown
    now         \* seconds since the start

svars == <<neighbours, now>>

Init ==
    /\ neighbours = [cp \in Chassis \X Ports |-> Unknown]
    /\ now = 0

\* A port announces itself.
Announce(c, p, info, ttl) ==
    /\ neighbours' = [neighbours EXCEPT
                        ![<<c, p>>] = [info |-> info, until |-> now + ttl]]
    /\ UNCHANGED now

\* The clock advances, and every announcement that has run out is forgotten.
Elapse(delta) ==
    /\ now + delta <= MaxTime
    /\ now' = now + delta
    /\ neighbours' =
           [cp \in Chassis \X Ports |->
               IF neighbours[cp] = Unknown \/ neighbours[cp].until <= now + delta
               THEN Unknown
               ELSE neighbours[cp]]

Next ==
    \/ \E c \in Chassis, p \in Ports, info \in Infos, ttl \in TTLs :
          Announce(c, p, info, ttl)
    \/ \E delta \in 1..MaxDelta : Elapse(delta)

Spec == Init /\ [][Next]_svars
=============================================================================

---------------------------- MODULE MCNeighbours ----------------------------
(* Stations for the model checker. *)
EXTENDS NeighbourDump

\* One chassis with two ports, one of which another chassis has too, and a third
\* port that is over-long.
SomeStations == {<<1, 1>>, <<1, 2>>, <<2, 1>>, <<2, 3>>}

AllStations == Chassis \X Ports
=============================================================================

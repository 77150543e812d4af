-------------------------- MODULE MCClientSessions --------------------------
(* Neighbour tables for the model checker. *)
EXTENDS ClientSessions

Plain == [interface |-> NoValue, ip |-> NoValue]
Known == [interface |-> "eth0", ip |-> "addr"]

\* A response of three packets.
OneTable == {2 :> (1 :> Plain)}

\* Responses of one, six and seven packets.
SomeTables == {<<>>,
               1 :> (1 :> Plain) @@ 2 :> (1 :> Known),
               2 :> (1 :> Known @@ 2 :> Known)}

ClientSymmetry == Permutations(Clients)
=============================================================================

----------------------------- MODULE MCLldpLink -----------------------------
(* Octets for the model checker: one MAC, machine id and pair of addresses,  *)
(* and the frames of other stations.                                         *)
EXTENDS LldpLink

OneMac == {<<17>>}
OneId == <<33>>
OnePair == {[v4 |-> <<10, 1>>, v6 |-> <<254, 128, 1>>]}

----------------------------------------------------------------------------
\* Another station, of which a valid data unit says ip.
Tlv(type, value) == ToFrameBuffer([type |-> type, value |-> value])

Address(subtype, a) == Tlv(8, <<1 + Len(a), subtype>> \o a \o <<2, 0, 0, 0, 9, 0>>)

Mandatory == Tlv(1, <<7, 44>>) \o Tlv(2, <<3, 55>>) \o Tlv(3, <<0, 0>>)

Stranger(rest, v4, v6) ==
    [octets   |-> Mandatory \o rest,
     ethernet |-> TRUE,
     says     |-> [id |-> << <<7, 44>>, <<3, 55>> >>,
                   ip |-> IF v4 = None /\ v6 = None THEN None
                          ELSE [v4 |-> v4, v6 |-> v6]]]

Junk(octets) == [octets |-> octets, ethernet |-> TRUE, says |-> None]

\* The octets of the neighbour's own announcement with another address.
Announcement == Octets([ttl |-> 3, mac |-> <<17>>, ip |-> None])

Frames ==
    \* A data unit of another implementation: other elements before the address,
    \* the address twice, one of a length its subtype does not have, one longer
    \* than its element, and more behind the end marker.
    { Stranger(Tlv(5, <<8, 8>>) \o Address(1, <<10, 2>>) \o Tlv(127, <<>>)
                   \o Address(1, <<10, 3>>) \o Address(1, <<10, 2, 3>>)
                   \o Address(6, <<10>>) \o Tlv(8, <<3, 1, 9>>) \o Tlv(8, <<0>>)
                   \o Tlv(8, <<>>) \o Tlv(0, <<>>) \o Address(1, <<9, 9>>),
               <<10, 3>>, None) }
    \* The neighbour's announcement cut short, its elements out of order, on a
    \* link that is no ethernet, and with more behind it than the buffer holds.
    \cup { Junk(SubSeq(Announcement, 1, n)) : n \in 0..11 }
    \cup { Junk(SubSeq(Announcement, 5, Len(Announcement))),
           [Junk(Announcement) EXCEPT !.ethernet = FALSE],
           Junk(SubSeq(Announcement, 1, Len(Announcement) - 2)
                    \o Tlv(127, [k \in 1..MAX_FRAME_BUFFER_SIZE |-> 0])) }
=============================================================================

--------------------------- MODULE NetlinkReader ---------------------------
(***************************************************************************)
(* netlink::DeviceReader and netlink::IpReader, which differ only in what   *)
(* they ask for, each with the netlink socket it owns.                      *)
(*                                                                          *)
(* A reader is a record of the members of its class.  A socket is a record  *)
(* of the sequence number of its last request and of the kernel's side:     *)
(*   queue    messages waiting to be read, one per datagram;                *)
(*   dump     the dump in progress and the next index it will report, or    *)
(*            None.  The kernel runs one dump per socket: it produces the   *)
(*            first part at the request and another one at every read, and  *)
(*            refuses a second request with an error until it is through.   *)
(***************************************************************************)
EXTENDS Integers, Sequences, FiniteSetsExt

CONSTANTS
    Ifs,                \* interface indices
    DUMP_READ_TIMEOUT,  \* seconds a dump may take
    SEQ_RANGE,          \* values of the sequence number
    None

ASSUME ReaderConstants ==
    /\ Ifs \subseteq Nat
    /\ None \notin Ifs
    /\ None \notin [sequence : Nat, next : Nat]
    /\ DUMP_READ_TIMEOUT \in Nat \ {0}
    /\ SEQ_RANGE \in Nat \ {0, 1}

----------------------------------------------------------------------------
\* ResetDumpAttempt
ResetDumpAttempt == [sequence |-> None, timeout |-> -1]

\* Mutant of TimedOut: a dump with no second left is waited for.
TimedOut_late(reader, delta) == reader.sequence # None /\ reader.timeout < delta

\* The else branch of Tick.
TimedOut(reader, delta) == reader.sequence # None /\ reader.timeout <= delta

\* DeviceReader::Tick and IpReader::Tick.  When TimedOut, the errored callback
\* is called as well.
ReaderTick(reader, delta) ==
    IF reader.sequence = None THEN reader
    ELSE IF TimedOut(reader, delta) THEN ResetDumpAttempt
    ELSE [reader EXCEPT !.timeout = @ - delta]

\* Mutant of TriggerDump: the number is taken before it is advanced.
TriggerDump_behind(reader, number, sendable) ==
    [sequence |-> IF sendable THEN number - 1 ELSE reader.sequence,
     timeout  |-> DUMP_READ_TIMEOUT]

\* TriggerDump: a request that cannot be sent restarts the timeout and leaves
\* the reader waiting for whatever it was waiting for.
TriggerDump(reader, number, sendable) ==
    [sequence |-> IF sendable THEN number ELSE reader.sequence,
     timeout  |-> DUMP_READ_TIMEOUT]

\* Mutant of Expected: whatever comes while a dump is awaited belongs to it.
Expected_any(reader, msg) == reader.sequence # None

\* HandleNetlinkPacket takes only messages of the dump it has asked for.
Expected(reader, msg) == reader.sequence # None /\ msg.sequence = reader.sequence

HandleNetlinkPacket(reader, msg) ==
    IF Expected(reader, msg) /\ msg.kind \in {"done", "error"}
    THEN ResetDumpAttempt
    ELSE reader

----------------------------------------------------------------------------
(* The netlink socket.                                                      *)

FreshSocket == [number |-> 0, queue |-> <<>>, dump |-> None]

\* Mutant of NextNumber: the number of the last request is used again.
NextNumber_stuck(socket) == socket.number

NextNumber(socket) == (socket.number + 1) % SEQ_RANGE

\* The kernel adds the next part of the dump in progress to the queue.
Produce(socket, table) ==
    IF socket.dump = None THEN socket
    ELSE LET rest == {i \in Ifs : i >= socket.dump.next /\ table[i] # None}
             msg(k, i) == [kind |-> k, sequence |-> socket.dump.sequence,
                           index |-> i,
                           content |-> IF i = None THEN None ELSE table[i]]
         IN  IF rest = {}
             THEN [socket EXCEPT !.queue = Append(@, msg("done", None)),
                                 !.dump  = None]
             ELSE [socket EXCEPT !.queue = Append(@, msg("data", Min(rest))),
                                 !.dump.next = Min(rest) + 1]

\* The kernel gets a dump request.
Request(socket, table) ==
    IF socket.dump = None
    THEN Produce([socket EXCEPT !.dump = [sequence |-> socket.number, next |-> 0]],
                 table)
    ELSE [socket EXCEPT !.queue = Append(@, [kind |-> "error", index |-> None,
                                             sequence |-> socket.number,
                                             content |-> None])]

\* SendGetLinkDumpMessage and SendGetAddrMessage: the number is used up even
\* if the request cannot be sent.
SendDumpMessage(socket, table, sendable) ==
    LET numbered == [socket EXCEPT !.number = NextNumber(socket)]
    IN  IF sendable THEN Request(numbered, table) ELSE numbered

\* recvNetlinkMessageBatch: one datagram, and the kernel goes on.
Receive(socket, table) ==
    Produce([socket EXCEPT !.queue = Tail(@)], table)
=============================================================================

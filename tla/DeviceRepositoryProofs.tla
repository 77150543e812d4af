----------------------- MODULE DeviceRepositoryProofs -----------------------
(***************************************************************************)
(* Safety of the device repository, for any interfaces, timeouts, range of  *)
(* the sequence number and bounds: types, that what is published is what    *)
(* one round of dumps has read, and that no request gets the number of an   *)
(* answer on the way before the sequence number wraps.  Beyond the members  *)
(* themselves the invariants say what is in the queues of the netlink       *)
(* sockets.  The last part is about the senders that the repository drives  *)
(* (Announcer): they say what is published, and so what the kernel has.     *)
(***************************************************************************)
EXTENDS Announcer, WellFoundedInduction, TLAPS

Number == 0..(SEQ_RANGE - 1)

\* The messages of dumps of a table with entries in T.
Message(T) ==
    {m \in [kind : {"data", "done", "error"}, sequence : Number,
            index : Ifs \cup {None}, content : T \cup {None}] :
        m.kind = "data" => m.index \in Ifs /\ m.content \in T}

Dump == [sequence : Number, next : Nat]

\* The socket of a reader of such a table.
SocketOf(T) ==
    [number : Number, queue : Seq(Message(T)), dump : Dump \cup {None}]

\* A reader that awaits a dump has seconds left.
Reader ==
    {r \in [sequence : Number \cup {None}, timeout : -1..DUMP_READ_TIMEOUT] :
        r.sequence # None => r.timeout > 0}

Timer == {-1} \cup 1..(IF SYNC_TIMEOUT > EXPEDITE_TIMEOUT THEN SYNC_TIMEOUT
                       ELSE EXPEDITE_TIMEOUT)

Sources == {"link", "addr"}

Tables ==
    /\ links \in [Ifs -> Link \cup {None}]
    /\ addrs \in [Ifs -> Addrs \cup {None}]
    /\ devices \in [Ifs -> DeviceData \cup {None}]
    /\ published \in [Ifs -> DeviceData \cup {None}]

Netlink ==
    /\ monitor \in [held : 0..MonitorLimit, overrun : BOOLEAN]
    /\ DOMAIN socket = Sources
    /\ socket["link"] \in SocketOf(Link)
    /\ socket["addr"] \in SocketOf(Addrs)
    /\ reader \in [Sources -> Reader]

Inv == Tables /\ Netlink /\ sync_timeout \in Timer

----------------------------------------------------------------------------
(* The operators of NetlinkReader.                                          *)

\* A set of numbers has a least one (FiniteSetsExt!Min).
LEMMA Least ==
    ASSUME NEW X \in SUBSET Nat, X # {}
    PROVE  Min(X) \in X /\ \A y \in X : Min(X) <= y
<1> DEFINE R == OpToRel(<, Nat)
<1>1. IsWellFoundedOn(R, Nat)
  BY NatLessThanWellFounded
<1>2. \A x \in Nat, y \in Nat : x < y => <<x, y>> \in R
  BY DEF OpToRel
<1> HIDE DEF R
<1>3. PICK x \in X : \A y \in X : ~ (<<y, x>> \in R)
  BY <1>1, WFMin
<1>4. ASSUME NEW y \in X PROVE x <= y
  <2>1. x \in Nat /\ y \in Nat
    OBVIOUS
  <2>2. ~ (y < x)
    BY <1>2, <1>3, <2>1
  <2> QED
    BY <2>1, <2>2
<1> QED
  BY <1>4 DEF Min

LEMMA ProduceType ==
    ASSUME NEW T, NEW s \in SocketOf(T), NEW table \in [Ifs -> T \cup {None}]
    PROVE  Produce(s, table) \in SocketOf(T)
<1>1. CASE s.dump = None
  BY <1>1 DEF Produce
<1>2. CASE s.dump # None
  <2> DEFINE rest      == {i \in Ifs : i >= s.dump.next /\ table[i] # None}
             msg(k, i) == [kind |-> k, sequence |-> s.dump.sequence, index |-> i,
                           content |-> IF i = None THEN None ELSE table[i]]
  <2>1. s.dump \in Dump
    BY <1>2 DEF SocketOf
  <2>2. CASE rest = {}
    <3>1. msg("done", None) \in Message(T)
      BY <2>1 DEF Message, Dump
    <3>2. Produce(s, table) = [s EXCEPT !.queue = Append(@, msg("done", None)),
                                        !.dump  = None]
      BY <1>2, <2>2 DEF Produce
    <3> HIDE DEF msg
    <3>3. Append(s.queue, msg("done", None)) \in Seq(Message(T))
      BY <3>1 DEF SocketOf
    <3> QED
      BY <3>2, <3>3 DEF SocketOf
  <2>3. CASE rest # {}
    <3>1. rest \in SUBSET Nat
      BY ReaderConstants
    <3>2. Min(rest) \in rest
      BY <2>3, <3>1, Least
    <3>3. Min(rest) \in Ifs /\ Min(rest) + 1 \in Nat /\ table[Min(rest)] \in T
      <4>1. PICK least \in rest : least = Min(rest)
        BY <3>2
      <4>2. least \in Ifs /\ least \in Nat /\ table[least] \in T
        BY <3>1
      <4> QED
        BY <4>1, <4>2
    <3>4. Produce(s, table) = [s EXCEPT !.queue = Append(@, msg("data", Min(rest))),
                                        !.dump.next = Min(rest) + 1]
      BY <1>2, <2>3 DEF Produce
    <3> HIDE DEF rest
    <3>5. msg("data", Min(rest)) \in Message(T)
      BY <2>1, <3>3, ReaderConstants DEF Message, Dump
    <3> HIDE DEF msg
    <3>6. Append(s.queue, msg("data", Min(rest))) \in Seq(Message(T))
      BY <3>5 DEF SocketOf
    <3> QED
      BY <2>1, <3>3, <3>4, <3>6 DEF SocketOf, Dump
  <2> QED
    BY <2>2, <2>3
<1> QED
  BY <1>1, <1>2

LEMMA NextNumberType ==
    ASSUME NEW T, NEW s \in SocketOf(T)
    PROVE  NextNumber(s) \in Number
<1>1. SEQ_RANGE \in Nat /\ SEQ_RANGE > 0 /\ s.number + 1 \in Nat
  BY ReaderConstants DEF SocketOf, Number
<1> QED
  BY <1>1 DEF NextNumber, Number

LEMMA SendDumpMessageType ==
    ASSUME NEW T, NEW s \in SocketOf(T), NEW table \in [Ifs -> T \cup {None}],
           NEW sendable \in BOOLEAN
    PROVE  SendDumpMessage(s, table, sendable) \in SocketOf(T)
<1> DEFINE numbered == [s EXCEPT !.number = NextNumber(s)]
           started  == [numbered EXCEPT !.dump = [sequence |-> numbered.number,
                                                  next |-> 0]]
           refusal  == [kind |-> "error", index |-> None,
                        sequence |-> numbered.number, content |-> None]
           refused  == [numbered EXCEPT !.queue = Append(@, refusal)]
<1>1. numbered \in SocketOf(T)
  BY NextNumberType DEF SocketOf
<1>2. SendDumpMessage(s, table, sendable) =
          IF sendable THEN Request(numbered, table) ELSE numbered
  BY DEF SendDumpMessage
<1>3. Request(numbered, table) =
          IF numbered.dump = None THEN Produce(started, table) ELSE refused
  BY DEF Request
<1> HIDE DEF numbered
<1>4. numbered.number \in Number
  BY <1>1 DEF SocketOf
<1>5. started \in SocketOf(T)
  BY <1>1, <1>4 DEF SocketOf, Dump
<1>6. refused \in SocketOf(T)
  <2>1. refusal \in Message(T)
    BY <1>4 DEF Message
  <2> HIDE DEF refusal
  <2>2. Append(numbered.queue, refusal) \in Seq(Message(T))
    BY <1>1, <2>1 DEF SocketOf
  <2> QED
    BY <1>1, <2>2 DEF SocketOf
<1> HIDE DEF started, refused
<1>7. Produce(started, table) \in SocketOf(T)
  BY <1>5, ProduceType
<1> QED
  BY <1>1, <1>2, <1>3, <1>6, <1>7

LEMMA ReceiveType ==
    ASSUME NEW T, NEW s \in SocketOf(T), NEW table \in [Ifs -> T \cup {None}],
           s.queue # <<>>
    PROVE  /\ Head(s.queue) \in Message(T)
           /\ Receive(s, table) \in SocketOf(T)
<1> DEFINE left == [s EXCEPT !.queue = Tail(@)]
<1>1. s.queue \in Seq(Message(T))
  BY DEF SocketOf
<1>2. Head(s.queue) \in Message(T) /\ Tail(s.queue) \in Seq(Message(T))
  BY <1>1
<1>3. left \in SocketOf(T)
  BY <1>2 DEF SocketOf
<1>4. Receive(s, table) = Produce(left, table)
  BY DEF Receive
<1> HIDE DEF left
<1> QED
  BY <1>2, <1>3, <1>4, ProduceType

\* What becomes of a reader (Tick, TriggerDump, HandleNetlinkPacket).
LEMMA ReaderType ==
    ASSUME NEW r \in Reader
    PROVE  /\ \A delta \in 1..MaxDelta : ReaderTick(r, delta) \in Reader
           /\ \A n \in Number, sendable \in BOOLEAN :
                  TriggerDump(r, n, sendable) \in Reader
           /\ \A msg : HandleNetlinkPacket(r, msg) \in Reader
<1> USE ReaderConstants, RepositoryConstants
<1>1. ResetDumpAttempt \in Reader
  BY DEF ResetDumpAttempt, Reader
<1>2. ASSUME NEW delta \in 1..MaxDelta PROVE ReaderTick(r, delta) \in Reader
  <2>1. CASE r.sequence = None \/ TimedOut(r, delta)
    BY <1>1, <2>1 DEF ReaderTick
  <2>2. CASE r.sequence # None /\ ~TimedOut(r, delta)
    <3>1. /\ r \in [sequence : Number \cup {None}, timeout : -1..DUMP_READ_TIMEOUT]
          /\ r.timeout > delta
      BY <2>2 DEF Reader, TimedOut
    <3>2. r.timeout - delta \in -1..DUMP_READ_TIMEOUT /\ r.timeout - delta > 0
      BY <3>1
    <3>3. ReaderTick(r, delta) = [r EXCEPT !.timeout = @ - delta]
      BY <2>2 DEF ReaderTick
    <3> QED
      BY <3>1, <3>2, <3>3 DEF Reader
  <2> QED
    BY <2>1, <2>2
<1>3. ASSUME NEW n \in Number, NEW sendable \in BOOLEAN
      PROVE  TriggerDump(r, n, sendable) \in Reader
  BY DEF TriggerDump, Reader
<1>4. ASSUME NEW msg PROVE HandleNetlinkPacket(r, msg) \in Reader
  BY <1>1 DEF HandleNetlinkPacket
<1> QED
  BY <1>2, <1>3, <1>4

----------------------------------------------------------------------------
(* The actions.                                                             *)

LEMMA InitInv == Init => Inv
<1> SUFFICES ASSUME Init PROVE Inv
  OBVIOUS
<1> USE ReaderConstants, RepositoryConstants DEF Init
<1>1. Tables
  <2>1. (CHOOSE m \in Macs : TRUE) \in Macs
    OBVIOUS
  <2> DEFINE up == [mac |-> CHOOSE m \in Macs : TRUE, up |-> TRUE]
  <2>2. up \in Link
    BY <2>1 DEF Link
  <2>3. links \in [Ifs -> {None, up}]
    OBVIOUS
  <2> HIDE DEF up
  <2> QED
    BY <2>2, <2>3 DEF Tables
<1>2. Netlink
  <2>1. FreshSocket \in SocketOf(Link) /\ FreshSocket \in SocketOf(Addrs)
    BY DEF FreshSocket, SocketOf, Number
  <2>2. ResetDumpAttempt \in Reader
    BY DEF ResetDumpAttempt, Reader
  <2> QED
    BY <2>1, <2>2 DEF Netlink, Sources
<1> QED
  BY <1>1, <1>2 DEF Inv, Timer

LEMMA ExpediteType ==
    ASSUME sync_timeout \in Timer, NEW condition, Expedite(condition)
    PROVE  sync_timeout' \in Timer
  BY RepositoryConstants DEF Expedite, Timer

LEMMA KernelChangeInv ==
    ASSUME Inv, NEW i \in Ifs, NEW link \in Link \cup {None},
           NEW addr \in Addrs \cup {None}, KernelChange(i, link, addr)
    PROVE  Inv'
<1>1. Tables'
  BY DEF Inv, Tables, KernelChange
<1>2. monitor' \in [held : 0..MonitorLimit, overrun : BOOLEAN]
  <2>1. monitor \in [held : 0..MonitorLimit, overrun : BOOLEAN]
    BY DEF Inv, Netlink
  <2>2. CASE monitor.held < MonitorLimit
    <3>1. monitor.held + 1 \in 0..MonitorLimit
      BY <2>1, <2>2, RepositoryConstants
    <3>2. monitor' = [monitor EXCEPT !.held = @ + 1]
      BY <2>2 DEF KernelChange
    <3> QED
      BY <2>1, <3>1, <3>2
  <2>3. CASE ~(monitor.held < MonitorLimit)
    BY <2>1, <2>3 DEF KernelChange
  <2> QED
    BY <2>2, <2>3
<1> QED
  BY <1>1, <1>2 DEF Inv, Netlink, KernelChange

LEMMA MonitorCallInv ==
    ASSUME Inv, MonitorCall
    PROVE  Inv'
<1>1. monitor' \in [held : 0..MonitorLimit, overrun : BOOLEAN]
  <2>1. monitor \in [held : 0..MonitorLimit, overrun : BOOLEAN]
    BY DEF Inv, Netlink
  <2>2. CASE monitor.overrun
    BY <2>1, <2>2 DEF MonitorCall
  <2>3. CASE ~monitor.overrun
    <3>1. monitor.held - 1 \in 0..MonitorLimit
      BY <2>1, <2>3, RepositoryConstants DEF MonitorCall
    <3>2. monitor' = [monitor EXCEPT !.held = @ - 1]
      BY <2>3 DEF MonitorCall
    <3> QED
      BY <2>1, <3>1, <3>2
  <2> QED
    BY <2>2, <2>3
<1>2. sync_timeout' \in Timer
  BY ExpediteType DEF Inv, MonitorCall
<1> QED
  BY <1>1, <1>2 DEF Inv, Netlink, Tables, MonitorCall, kernel

\* The table takes in a part of a dump.
LEMMA HandlersType ==
    ASSUME devices \in [Ifs -> DeviceData \cup {None}], NEW i \in Ifs
    PROVE  /\ \A link \in Link :
                  HandleLinkPacket(i, link) \in [Ifs -> DeviceData \cup {None}]
           /\ \A addr \in Addrs :
                  HandleAddressPacket(i, addr) \in [Ifs -> DeviceData \cup {None}]
<1> DEFINE entry == IF devices[i] = None THEN NewDevice ELSE devices[i]
<1>1. entry \in DeviceData
  BY DEF NewDevice, DeviceData
<1>2. /\ \A link \in Link :
             HandleLinkPacket(i, link) =
                 IF i \notin EtherIfs THEN devices
                 ELSE [devices EXCEPT ![i] = [entry EXCEPT !.mac = link.mac, !.up = link.up]]
      /\ \A addr \in Addrs :
             HandleAddressPacket(i, addr) =
                 [devices EXCEPT ![i] = [entry EXCEPT !.ip = addr]]
  BY DEF HandleLinkPacket, HandleAddressPacket
<1> HIDE DEF entry
<1>3. \A link \in Link : [entry EXCEPT !.mac = link.mac, !.up = link.up] \in DeviceData
  BY <1>1 DEF DeviceData, Link
<1>4. \A addr \in Addrs : [entry EXCEPT !.ip = addr] \in DeviceData
  BY <1>1 DEF DeviceData
<1>5. \A d \in DeviceData : [devices EXCEPT ![i] = d] \in [Ifs -> DeviceData \cup {None}]
  OBVIOUS
<1>6. ASSUME NEW link \in Link
      PROVE  HandleLinkPacket(i, link) \in [Ifs -> DeviceData \cup {None}]
  BY <1>2, <1>3, <1>5
<1>7. ASSUME NEW addr \in Addrs
      PROVE  HandleAddressPacket(i, addr) \in [Ifs -> DeviceData \cup {None}]
  BY <1>2, <1>4, <1>5
<1> QED
  BY <1>6, <1>7

LEMMA LinkCallInv ==
    ASSUME Inv, NEW sendable \in BOOLEAN, LinkCall(sendable)
    PROVE  Inv'
<1> DEFINE msg  == Head(socket["link"].queue)
           mine == Expected(reader["link"], msg)
           done == mine /\ msg.kind = "done"
<1>1. /\ msg \in Message(Link)
      /\ Receive(socket["link"], links) \in SocketOf(Link)
  BY ReceiveType DEF Inv, Tables, Netlink, LinkCall
<1>2. /\ DeviceReaderFinished(sendable).socket \in SocketOf(Addrs)
      /\ DeviceReaderFinished(sendable).reader \in Reader
  <2>1. NextNumber(socket["addr"]) \in Number /\ reader["addr"] \in Reader
    BY NextNumberType DEF Inv, Netlink, Sources
  <2>2. SendDumpMessage(socket["addr"], addrs, sendable) \in SocketOf(Addrs)
    BY SendDumpMessageType DEF Inv, Netlink, Tables
  <2> QED
    BY <2>1, <2>2, ReaderType DEF DeviceReaderFinished
<1>3. Tables'
  <2>1. CASE mine /\ msg.kind = "data"
    <3>1. msg.index \in Ifs /\ msg.content \in Link
      BY <1>1, <2>1 DEF Message
    <3>2. devices' = HandleLinkPacket(msg.index, msg.content)
      BY <2>1 DEF LinkCall
    <3> HIDE DEF msg, mine
    <3>3. devices' \in [Ifs -> DeviceData \cup {None}]
      BY <3>1, <3>2, HandlersType DEF Inv, Tables
    <3> QED
      BY <3>3 DEF Inv, Tables, LinkCall, kernel
  <2>2. CASE ~(mine /\ msg.kind = "data")
    BY <2>2 DEF Inv, Tables, LinkCall, kernel
  <2> QED
    BY <2>1, <2>2
<1>4. Netlink'
  <2>1. HandleNetlinkPacket(reader["link"], msg) \in Reader
    BY ReaderType DEF Inv, Netlink, Sources
  <2>2. /\ socket' = [link |-> Receive(socket["link"], links),
                      addr |-> IF done THEN DeviceReaderFinished(sendable).socket
                               ELSE socket["addr"]]
        /\ reader' = [link |-> HandleNetlinkPacket(reader["link"], msg),
                      addr |-> IF done THEN DeviceReaderFinished(sendable).reader
                               ELSE reader["addr"]]
        /\ monitor' = monitor
    BY DEF LinkCall
  <2> HIDE DEF msg, done
  <2>3. /\ DOMAIN socket' = Sources
        /\ socket'["link"] \in SocketOf(Link)
        /\ socket'["addr"] \in SocketOf(Addrs)
    BY <1>1, <1>2, <2>2 DEF Inv, Netlink, Sources
  <2>4. reader' \in [Sources -> Reader]
    BY <1>2, <2>1, <2>2 DEF Inv, Netlink, Sources
  <2> QED
    BY <2>2, <2>3, <2>4 DEF Inv, Netlink
<1>5. sync_timeout' \in Timer
  BY ExpediteType DEF Inv, LinkCall
<1> QED
  BY <1>3, <1>4, <1>5 DEF Inv

LEMMA AddrCallInv ==
    ASSUME Inv, AddrCall
    PROVE  Inv'
<1> DEFINE msg  == Head(socket["addr"].queue)
           mine == Expected(reader["addr"], msg)
<1>1. /\ msg \in Message(Addrs)
      /\ Receive(socket["addr"], addrs) \in SocketOf(Addrs)
  BY ReceiveType DEF Inv, Tables, Netlink, AddrCall
<1>2. devices' \in [Ifs -> DeviceData \cup {None}]
  <2>1. CASE mine /\ msg.kind = "data"
    <3>1. msg.index \in Ifs /\ msg.content \in Addrs
      BY <1>1, <2>1 DEF Message
    <3>2. devices' = HandleAddressPacket(msg.index, msg.content)
      BY <2>1 DEF AddrCall
    <3> HIDE DEF msg, mine
    <3> QED
      BY <3>1, <3>2, HandlersType DEF Inv, Tables
  <2>2. CASE ~(mine /\ msg.kind = "data")
    BY <2>2 DEF Inv, Tables, AddrCall
  <2> QED
    BY <2>1, <2>2
<1>3. published' \in [Ifs -> DeviceData \cup {None}]
  BY <1>2 DEF Inv, Tables, AddrCall, IpReaderFinished
<1>4. Tables'
  BY <1>2, <1>3 DEF Inv, Tables, AddrCall, kernel
<1>5. Netlink'
  <2>1. HandleNetlinkPacket(reader["addr"], msg) \in Reader
    BY ReaderType DEF Inv, Netlink, Sources
  <2>2. /\ socket' = [socket EXCEPT !["addr"] = Receive(socket["addr"], addrs)]
        /\ reader' = [reader EXCEPT !["addr"] = HandleNetlinkPacket(reader["addr"], msg)]
        /\ monitor' = monitor
    BY DEF AddrCall
  <2> HIDE DEF msg
  <2> QED
    BY <1>1, <2>1, <2>2 DEF Inv, Netlink, Sources
<1>6. sync_timeout' \in Timer
  BY ExpediteType DEF Inv, AddrCall
<1> QED
  BY <1>4, <1>5, <1>6 DEF Inv

LEMMA TickInv ==
    ASSUME Inv, NEW delta \in 1..MaxDelta, NEW sendable \in BOOLEAN,
           Tick(delta, sendable)
    PROVE  Inv'
<1> DEFINE failed  == \E r \in DOMAIN reader : TimedOut(reader[r], delta)
           timer   == IF failed THEN EXPEDITE_TIMEOUT ELSE sync_timeout
           expired == timer <= delta
           ticked  == [r \in DOMAIN reader |-> ReaderTick(reader[r], delta)]
           asked   == RequestDeviceDump(ticked["link"], sendable)
<1>1. /\ sync_timeout' = IF expired THEN SYNC_TIMEOUT ELSE timer - delta
      /\ reader' = IF expired THEN [ticked EXCEPT !["link"] = asked.reader] ELSE ticked
      /\ socket' = IF expired THEN [socket EXCEPT !["link"] = asked.socket] ELSE socket
      /\ UNCHANGED <<links, addrs, monitor, devices, published>>
  <2>1. [ticked EXCEPT !["link"] = RequestDeviceDump(@, sendable).reader]
            = [ticked EXCEPT !["link"] = asked.reader]
    OBVIOUS
  <2> QED
    BY <2>1 DEF Tick, kernel
<1>2. sync_timeout' \in Timer
  <2>1. timer \in Timer
    BY RepositoryConstants DEF Inv, Timer
  <2> HIDE DEF timer
  <2> QED
    BY <1>1, <2>1, RepositoryConstants DEF Timer
<1>3. ticked \in [Sources -> Reader]
  BY ReaderType DEF Inv, Netlink
<1> HIDE DEF ticked, expired
<1>4. asked.socket \in SocketOf(Link) /\ asked.reader \in Reader
  <2>1. NextNumber(socket["link"]) \in Number
    BY NextNumberType DEF Inv, Netlink
  <2>2. SendDumpMessage(socket["link"], links, sendable) \in SocketOf(Link)
    BY SendDumpMessageType DEF Inv, Netlink, Tables
  <2>3. ticked["link"] \in Reader
    BY <1>3 DEF Sources
  <2> QED
    BY <2>1, <2>2, <2>3, ReaderType DEF RequestDeviceDump
<1> HIDE DEF asked
<1>5. Netlink'
  BY <1>1, <1>3, <1>4 DEF Inv, Netlink, Sources
<1>6. Tables'
  BY <1>1 DEF Inv, Tables
<1> QED
  BY <1>2, <1>5, <1>6 DEF Inv

LEMMA InvKept == Inv /\ [Next]_vars => Inv'
<1> SUFFICES ASSUME Inv, [Next]_vars PROVE Inv'
  OBVIOUS
<1>1. CASE UNCHANGED vars
  BY <1>1 DEF Inv, Tables, Netlink, vars
<1>2. CASE Environment
  BY <1>2, KernelChangeInv DEF Environment
<1>3. CASE MonitorCall
  BY <1>3, MonitorCallInv
<1>4. CASE LinkHandler
  BY <1>4, LinkCallInv DEF LinkHandler
<1>5. CASE AddrCall
  BY <1>5, AddrCallInv
<1>6. CASE ClockHandler
  BY <1>6, TickInv DEF ClockHandler
<1> QED
  BY <1>1, <1>2, <1>3, <1>4, <1>5, <1>6 DEF Next

\* The members of the device repository and its readers are in range, and a
\* reader that awaits a dump has seconds left to wait, so that no dump is awaited
\* for ever (IpReader::Tick, DeviceReader::Tick, DeviceRepository::Tick).
THEOREM RepositoryTypeCorrect == Spec => []TypeOK
<1>1. Inv /\ [Next]_vars => Inv'
  BY InvKept
<1>2. Inv => TypeOK
  <2> SUFFICES ASSUME Inv PROVE TypeOK
    OBVIOUS
  <2>1. \A r \in {"link", "addr"} : reader[r] \in Reader
    BY DEF Inv, Netlink, Sources
  <2>2. \A r \in {"link", "addr"} :
            /\ reader[r].sequence \in (0..(SEQ_RANGE - 1)) \cup {None}
            /\ reader[r].timeout \in -1..DUMP_READ_TIMEOUT
            /\ reader[r].sequence # None => reader[r].timeout > 0
    BY <2>1 DEF Reader, Number
  <2> QED
    BY <2>2 DEF TypeOK, Inv, Tables, Netlink, Timer
<1> QED
  BY <1>1, <1>2, InitInv, PTL DEF Spec

----------------------------------------------------------------------------
(* What is published.                                                       *)

\* Interfaces of which the table has what the kernel has.
TakenLinks ==
    {i \in Ifs : links[i] # None /\ i \in EtherIfs =>
                    /\ devices[i] # None
                    /\ devices[i].mac = links[i].mac
                    /\ devices[i].up = links[i].up}

TakenAddrs == {i \in Ifs : devices[i] # None /\ devices[i].ip = addrs[i]}

\* The answer to request n, as far as it has not been read: it is of this table,
\* nothing follows its end or the refusal, and each entry that is not taken is
\* still to come, unless the request was refused.
Round(s, n, table, taken) ==
    /\ \A k \in DOMAIN s.queue :
          s.queue[k].sequence = n /\ s.queue[k].kind = "data" =>
              s.queue[k].content = table[s.queue[k].index]
    /\ \A k \in DOMAIN s.queue :
          s.queue[k].sequence = n /\ s.queue[k].kind # "data" =>
              /\ \A l \in DOMAIN s.queue : l > k => s.queue[l].sequence # n
              /\ s.dump # None => s.dump.sequence # n
    /\ \A i \in Ifs : table[i] # None =>
          \/ i \in taken
          \/ s.dump # None /\ s.dump.sequence = n /\ s.dump.next <= i
          \/ \E k \in DOMAIN s.queue :
                /\ s.queue[k].sequence = n
                /\ \/ s.queue[k].kind = "error"
                   \/ s.queue[k].kind = "data" /\ s.queue[k].index = i

\* The rounds whose answers are still of the kernel's tables.
RoundInv ==
    /\ fresh \in [{"link", "addr", "published"} -> BOOLEAN]
    /\ fresh.published => fresh.addr
    /\ fresh.addr => fresh.link
    /\ fresh.link /\ reader["link"].sequence # None =>
          Round(socket["link"], reader["link"].sequence, links, TakenLinks)
    /\ fresh.addr => TakenLinks = Ifs
    /\ fresh.addr /\ reader["addr"].sequence # None =>
          Round(socket["addr"], reader["addr"].sequence, addrs, TakenAddrs)
    /\ PublishedCovers

\* The kernel gives the next part of a dump, of this round or another one.
LEMMA RoundProduced ==
    ASSUME NEW T, NEW s \in SocketOf(T), NEW table \in [Ifs -> T \cup {None}],
           NEW n \in Number, NEW taken, Round(s, n, table, taken)
    PROVE  Round(Produce(s, table), n, table, taken)
<1>1. CASE s.dump = None
  BY <1>1 DEF Produce
<1>2. CASE s.dump # None
  <2> DEFINE rest      == {i \in Ifs : i >= s.dump.next /\ table[i] # None}
             msg(k, i) == [kind |-> k, sequence |-> s.dump.sequence, index |-> i,
                           content |-> IF i = None THEN None ELSE table[i]]
  <2>1. s.dump \in Dump /\ s.queue \in Seq(Message(T))
    BY <1>2 DEF SocketOf
  <2>2. CASE rest = {}
    <3> DEFINE last == msg("done", None)
    <3>1. Produce(s, table) = [s EXCEPT !.queue = Append(@, last), !.dump = None]
      BY <1>2, <2>2 DEF Produce
    <3>2. last.kind = "done" /\ last.sequence = s.dump.sequence
      OBVIOUS
    <3>3. \A i \in Ifs : table[i] # None => ~(s.dump.next <= i)
      <4>1. Ifs \subseteq Int /\ s.dump.next \in Int
        BY <2>1, ReaderConstants DEF Dump
      <4> QED
        BY <2>2, <4>1
    <3> HIDE DEF last
    <3> DEFINE after == [s EXCEPT !.queue = Append(@, last), !.dump = None]
    <3>4. /\ after.queue = Append(s.queue, last)
          /\ after.dump = None
      BY DEF SocketOf
    <3>5. /\ DOMAIN s.queue = 1..Len(s.queue) /\ Len(s.queue) \in Nat
          /\ DOMAIN after.queue = 1..(Len(s.queue) + 1)
          /\ \A k \in 1..Len(s.queue) : after.queue[k] = s.queue[k]
          /\ after.queue[Len(s.queue) + 1] = last
      BY <2>1, <3>4
    <3> HIDE DEF after
    <3> QED
      BY <3>1, <3>2, <3>3, <3>4, <3>5, <1>2 DEF Round, after
  <2>3. CASE rest # {}
    <3> DEFINE least == Min(rest)
               part  == msg("data", least)
    <3>1. least \in Ifs /\ least \in Nat /\ table[least] # None
      BY <2>3, Least, ReaderConstants
    <3>2. \A i \in rest : least <= i
      BY <2>3, Least, ReaderConstants
    <3>3. Produce(s, table) = [s EXCEPT !.queue = Append(@, part),
                                        !.dump.next = least + 1]
      BY <1>2, <2>3 DEF Produce
    <3>4. /\ part.kind = "data" /\ part.sequence = s.dump.sequence
          /\ part.index = least /\ part.content = table[least]
      BY <3>1, ReaderConstants
    <3>5. \A i \in Ifs : table[i] # None /\ s.dump.next <= i => i = least \/ least + 1 <= i
      <4>1. Ifs \subseteq Int /\ s.dump.next \in Int /\ least \in Int
        BY <2>1, <3>1, ReaderConstants DEF Dump
      <4>2. \A i \in Ifs : table[i] # None /\ s.dump.next <= i => i \in rest
        BY <4>1
      <4> HIDE DEF least, rest
      <4>3. ASSUME NEW i \in Ifs, table[i] # None, s.dump.next <= i
            PROVE  i = least \/ least + 1 <= i
        <5>1. least <= i /\ i \in Int
          BY <3>2, <4>1, <4>2, <4>3
        <5> HIDE DEF least
        <5> QED
          BY ONLY <4>1, <5>1
      <4> QED
        BY <4>3
    <3> HIDE DEF least, part
    <3> DEFINE after == [s EXCEPT !.queue = Append(@, part), !.dump.next = least + 1]
    <3>6. /\ after.queue = Append(s.queue, part)
          /\ after.dump.sequence = s.dump.sequence
          /\ after.dump.next = least + 1
          /\ after.dump # None
      <4>1. after.dump = [s.dump EXCEPT !.next = least + 1]
        BY DEF SocketOf
      <4>2. after.dump \in [sequence : Nat, next : Nat]
        BY <2>1, <3>1, <4>1 DEF Dump, Number
      <4> QED
        BY <2>1, <4>1, <4>2, ReaderConstants DEF SocketOf, Dump
    <3>7. /\ DOMAIN s.queue = 1..Len(s.queue) /\ Len(s.queue) \in Nat
          /\ DOMAIN after.queue = 1..(Len(s.queue) + 1)
          /\ \A k \in 1..Len(s.queue) : after.queue[k] = s.queue[k]
          /\ after.queue[Len(s.queue) + 1] = part
      BY <2>1, <3>6
    <3>8. Produce(s, table) = after
      BY <3>3
    <3> HIDE DEF after
    <3>9. s.dump.sequence = n =>
              \A k \in DOMAIN s.queue :
                  s.queue[k].sequence = n => s.queue[k].kind = "data"
      BY <1>2 DEF Round
    <3>10. \A k \in DOMAIN after.queue :
              after.queue[k].sequence = n /\ after.queue[k].kind = "data" =>
                  after.queue[k].content = table[after.queue[k].index]
      <4> SUFFICES ASSUME NEW k \in DOMAIN after.queue, after.queue[k].kind = "data",
                          after.queue[k].sequence = n
                   PROVE  after.queue[k].content = table[after.queue[k].index]
        OBVIOUS
      <4>1. CASE k \in DOMAIN s.queue
        BY <3>7, <4>1 DEF Round
      <4>2. CASE k \notin DOMAIN s.queue
        <5>1. k = Len(s.queue) + 1
          BY <3>7, <4>2
        <5> QED
          BY <3>4, <3>7, <5>1
      <4> QED
        BY <4>1, <4>2
    <3>11. \A k \in DOMAIN after.queue :
              after.queue[k].sequence = n /\ after.queue[k].kind # "data" =>
                  /\ \A l \in DOMAIN after.queue : l > k => after.queue[l].sequence # n
                  /\ after.dump # None => after.dump.sequence # n
      BY <1>2, <3>4, <3>6, <3>7, <3>9 DEF Round
    <3>12. \A i \in Ifs : table[i] # None =>
              \/ i \in taken
              \/ after.dump # None /\ after.dump.sequence = n /\ after.dump.next <= i
              \/ \E k \in DOMAIN after.queue :
                    /\ after.queue[k].sequence = n
                    /\ \/ after.queue[k].kind = "error"
                       \/ after.queue[k].kind = "data" /\ after.queue[k].index = i
      <4> SUFFICES ASSUME NEW i \in Ifs, table[i] # None, i \notin taken
                   PROVE  \/ after.dump # None /\ after.dump.sequence = n /\ after.dump.next <= i
                          \/ \E k \in DOMAIN after.queue :
                                /\ after.queue[k].sequence = n
                                /\ \/ after.queue[k].kind = "error"
                                   \/ after.queue[k].kind = "data" /\ after.queue[k].index = i
        OBVIOUS
      <4>1. CASE s.dump.sequence = n /\ s.dump.next <= i
        BY <3>4, <3>5, <3>6, <3>7, <4>1
      <4>2. CASE ~(s.dump.sequence = n /\ s.dump.next <= i)
        BY <3>7, <4>2 DEF Round
      <4> QED
        BY <4>1, <4>2
    <3> QED
      BY <3>8, <3>10, <3>11, <3>12 DEF Round
  <2> QED
    BY <2>2, <2>3
<1> QED
  BY <1>1, <1>2

\* A message is read: of another round, or an entry that is then taken.
LEMMA RoundRead ==
    ASSUME NEW T, NEW s \in SocketOf(T), s.queue # <<>>,
           NEW table \in [Ifs -> T \cup {None}], NEW n \in Number,
           NEW taken, NEW after, Round(s, n, table, taken),
           taken \subseteq after,
           Head(s.queue).sequence = n =>
               Head(s.queue).kind = "data" /\ Head(s.queue).index \in after
    PROVE  Round(Receive(s, table), n, table, after)
<1> DEFINE left == [s EXCEPT !.queue = Tail(@)]
<1>1. s.queue \in Seq(Message(T)) /\ Tail(s.queue) \in Seq(Message(T))
  BY DEF SocketOf
<1>2. left \in SocketOf(T) /\ left.queue = Tail(s.queue) /\ left.dump = s.dump
  BY <1>1 DEF SocketOf
<1>3. Receive(s, table) = Produce(left, table)
  BY DEF Receive
<1> HIDE DEF left
<1>4. /\ DOMAIN s.queue = 1..Len(s.queue) /\ Len(s.queue) \in Nat \ {0}
      /\ DOMAIN left.queue = 1..(Len(s.queue) - 1)
      /\ \A k \in DOMAIN left.queue : k + 1 \in DOMAIN s.queue /\ left.queue[k] = s.queue[k + 1]
      /\ s.queue[1] = Head(s.queue)
  BY <1>1, <1>2
<1>5. \A k \in DOMAIN left.queue :
          left.queue[k].sequence = n /\ left.queue[k].kind = "data" =>
              left.queue[k].content = table[left.queue[k].index]
  BY <1>4 DEF Round
<1>6. \A k \in DOMAIN left.queue :
          left.queue[k].sequence = n /\ left.queue[k].kind # "data" =>
              /\ \A l \in DOMAIN left.queue : l > k => left.queue[l].sequence # n
              /\ left.dump # None => left.dump.sequence # n
  <2> SUFFICES ASSUME NEW k \in DOMAIN left.queue,
                      left.queue[k].sequence = n, left.queue[k].kind # "data"
               PROVE  /\ \A l \in DOMAIN left.queue : l > k => left.queue[l].sequence # n
                      /\ left.dump # None => left.dump.sequence # n
    OBVIOUS
  <2>1. /\ \A l \in DOMAIN s.queue : l > k + 1 => s.queue[l].sequence # n
        /\ s.dump # None => s.dump.sequence # n
    BY <1>4 DEF Round
  <2>2. ASSUME NEW l \in DOMAIN left.queue, l > k PROVE left.queue[l].sequence # n
    <3>1. l + 1 > k + 1 /\ l + 1 \in DOMAIN s.queue /\ left.queue[l] = s.queue[l + 1]
      BY <1>4, <2>2
    <3> QED
      BY <2>1, <3>1
  <2> QED
    BY <1>2, <2>1, <2>2
<1>7. \A i \in Ifs : table[i] # None =>
          \/ i \in after
          \/ left.dump # None /\ left.dump.sequence = n /\ left.dump.next <= i
          \/ \E k \in DOMAIN left.queue :
                /\ left.queue[k].sequence = n
                /\ \/ left.queue[k].kind = "error"
                   \/ left.queue[k].kind = "data" /\ left.queue[k].index = i
  <2> SUFFICES ASSUME NEW i \in Ifs, table[i] # None, i \notin after,
                      ~(s.dump # None /\ s.dump.sequence = n /\ s.dump.next <= i)
               PROVE  \E k \in DOMAIN left.queue :
                          /\ left.queue[k].sequence = n
                          /\ \/ left.queue[k].kind = "error"
                             \/ left.queue[k].kind = "data" /\ left.queue[k].index = i
    BY <1>2
  <2>1. PICK k \in DOMAIN s.queue :
            /\ s.queue[k].sequence = n
            /\ \/ s.queue[k].kind = "error"
               \/ s.queue[k].kind = "data" /\ s.queue[k].index = i
    BY DEF Round
  <2>2. k # 1
    BY <1>4, <2>1
  <2>3. k - 1 \in DOMAIN left.queue /\ left.queue[k - 1] = s.queue[k]
    BY <1>4, <2>2
  <2> QED
    BY <2>1, <2>3
<1>8. Round(left, n, table, after)
  BY <1>5, <1>6, <1>7 DEF Round
<1> QED
  BY <1>2, <1>3, <1>8, RoundProduced

\* The end of the answer is read: nothing is missing.
LEMMA RoundComplete ==
    ASSUME NEW T, NEW s \in SocketOf(T), s.queue # <<>>, NEW n \in Number,
           NEW table \in [Ifs -> T \cup {None}], NEW taken, Round(s, n, table, taken),
           Head(s.queue).sequence = n, Head(s.queue).kind = "done"
    PROVE  \A i \in Ifs : table[i] # None => i \in taken
<1>1. s.queue \in Seq(Message(T))
  BY DEF SocketOf
<1>2. /\ DOMAIN s.queue = 1..Len(s.queue) /\ Len(s.queue) \in Nat \ {0}
      /\ s.queue[1] = Head(s.queue)
  BY <1>1
<1>3. /\ \A l \in DOMAIN s.queue : l > 1 => s.queue[l].sequence # n
      /\ s.dump # None => s.dump.sequence # n
  BY <1>2 DEF Round
<1>4. \A k \in DOMAIN s.queue : s.queue[k].sequence = n => s.queue[k].kind = "done"
  <2> SUFFICES ASSUME NEW k \in DOMAIN s.queue, s.queue[k].sequence = n
               PROVE  s.queue[k].kind = "done"
    OBVIOUS
  <2>1. k = 1
    BY <1>2, <1>3
  <2> QED
    BY <1>2, <2>1
<1> QED
  BY <1>3, <1>4 DEF Round

\* A request whose number is not in use begins a round; one that cannot be sent
\* changes none.
LEMMA RoundRequested ==
    ASSUME NEW T, NEW s \in SocketOf(T), NEW table \in [Ifs -> T \cup {None}],
           NEW taken
    PROVE  /\ /\ \A k \in DOMAIN s.queue : s.queue[k].sequence # NextNumber(s)
              /\ s.dump # None => s.dump.sequence # NextNumber(s)
              => Round(SendDumpMessage(s, table, TRUE), NextNumber(s), table, taken)
           /\ \A n \in Number : Round(s, n, table, taken) =>
                  Round(SendDumpMessage(s, table, FALSE), n, table, taken)
<1> DEFINE n        == NextNumber(s)
           numbered == [s EXCEPT !.number = n]
           started  == [numbered EXCEPT !.dump = [sequence |-> numbered.number,
                                                  next |-> 0]]
           refusal  == [kind |-> "error", index |-> None,
                        sequence |-> numbered.number, content |-> None]
           refused  == [numbered EXCEPT !.queue = Append(@, refusal)]
<1>1. n \in Number
  BY NextNumberType
<1> HIDE DEF n
<1>2. /\ numbered \in SocketOf(T) /\ numbered.queue = s.queue
      /\ numbered.dump = s.dump /\ numbered.number = n
  BY <1>1 DEF SocketOf
<1>3. \A sendable \in BOOLEAN : SendDumpMessage(s, table, sendable) =
          IF sendable THEN Request(numbered, table) ELSE numbered
  BY DEF SendDumpMessage, n
<1>4. Request(numbered, table) =
          IF numbered.dump = None THEN Produce(started, table) ELSE refused
  BY DEF Request
<1> HIDE DEF numbered
<1>5. \A m \in Number : Round(s, m, table, taken) => Round(numbered, m, table, taken)
  BY <1>2 DEF Round
<1>6. ASSUME \A k \in DOMAIN s.queue : s.queue[k].sequence # n,
             s.dump # None => s.dump.sequence # n
      PROVE  Round(Request(numbered, table), n, table, taken)
  <2>1. CASE s.dump = None
    <3>1. started \in SocketOf(T) /\ started.queue = s.queue
      BY <1>1, <1>2 DEF SocketOf, Dump
    <3>2. started.dump = [sequence |-> n, next |-> 0]
      BY <1>2 DEF SocketOf
    <3>3. started.dump # None
      <4>1. started.dump \in [sequence : Nat, next : Nat]
        BY <1>1, <3>2 DEF Number
      <4> QED
        BY <4>1, ReaderConstants
    <3>4. \A i \in Ifs : started.dump.next <= i
      BY <3>2, ReaderConstants
    <3> HIDE DEF started
    <3>5. Round(started, n, table, taken)
      BY <1>6, <3>1, <3>2, <3>3, <3>4 DEF Round
    <3> QED
      BY <1>1, <1>2, <1>4, <2>1, <3>1, <3>5, RoundProduced
  <2>2. CASE s.dump # None
    <3>1. /\ refused.queue = Append(s.queue, refusal) /\ refused.dump = s.dump
          /\ s.queue \in Seq(Message(T))
      BY <1>2 DEF SocketOf
    <3>2. refusal.sequence = n /\ refusal.kind = "error"
      BY <1>2
    <3> HIDE DEF refused, refusal
    <3>3. /\ DOMAIN s.queue = 1..Len(s.queue) /\ Len(s.queue) \in Nat
          /\ DOMAIN refused.queue = 1..(Len(s.queue) + 1)
          /\ \A k \in 1..Len(s.queue) : refused.queue[k] = s.queue[k]
          /\ refused.queue[Len(s.queue) + 1] = refusal
      BY <3>1
    <3>4. \A k \in DOMAIN refused.queue :
              refused.queue[k].sequence = n => k = Len(s.queue) + 1
      BY <1>6, <3>3
    <3>5. Round(refused, n, table, taken)
      BY <1>6, <3>1, <3>2, <3>3, <3>4 DEF Round
    <3> QED
      BY <1>2, <1>4, <2>2, <3>5
  <2> QED
    BY <2>1, <2>2
<1> QED
  BY <1>3, <1>5, <1>6 DEF n

LEMMA RoundsKept ==
    ASSUME RoundInv,
           UNCHANGED <<links, addrs, socket, devices, published, fresh>>,
           \A r \in Sources : reader'[r].sequence \in {reader[r].sequence, None}
    PROVE  RoundInv'
  BY DEF RoundInv, PublishedCovers, Covers, TakenLinks, TakenAddrs, Round, Sources

LEMMA KernelChangeRounds ==
    ASSUME RoundInv, NEW i \in Ifs, NEW link, NEW addr, KernelChange(i, link, addr)
    PROVE  RoundInv'
  BY DEF RoundInv, PublishedCovers, KernelChange

LEMMA LinkCallRounds ==
    ASSUME Inv, RoundInv, NumberUnused, NEW sendable \in BOOLEAN, LinkCall(sendable)
    PROVE  RoundInv'
<1> DEFINE s    == socket["link"]
           r    == reader["link"]
           msg  == Head(s.queue)
           mine == Expected(r, msg)
           done == mine /\ msg.kind = "done"
<1>1. /\ s \in SocketOf(Link) /\ s.queue # <<>> /\ r \in Reader
      /\ links \in [Ifs -> Link \cup {None}] /\ addrs \in [Ifs -> Addrs \cup {None}]
      /\ socket["addr"] \in SocketOf(Addrs) /\ reader["addr"] \in Reader
      /\ devices \in [Ifs -> DeviceData \cup {None}]
      /\ msg \in Message(Link)
  BY ReceiveType DEF Inv, Tables, Netlink, LinkCall, Sources
<1>2. /\ links' = links /\ addrs' = addrs /\ published' = published
      /\ socket'["link"] = Receive(s, links)
      /\ reader'["link"] = HandleNetlinkPacket(r, msg)
      /\ fresh' = IF done /\ sendable THEN [fresh EXCEPT !.addr = fresh.link] ELSE fresh
      /\ devices' = IF mine /\ msg.kind = "data"
                    THEN HandleLinkPacket(msg.index, msg.content) ELSE devices
  BY DEF LinkCall, kernel
<1>3. /\ done => /\ socket'["addr"] = SendDumpMessage(socket["addr"], addrs, sendable)
                 /\ reader'["addr"] = TriggerDump(reader["addr"], NextNumber(socket["addr"]), sendable)
      /\ ~done => socket'["addr"] = socket["addr"] /\ reader'["addr"] = reader["addr"]
  BY DEF LinkCall, DeviceReaderFinished
<1>4. mine => r.sequence # None /\ msg.sequence = r.sequence
  BY DEF Expected
<1> HIDE DEF mine
\* An entry that is read is that of the kernel.
<1>5. ASSUME fresh.link, mine, msg.kind = "data"
      PROVE  /\ msg.index \in Ifs
             /\ links[msg.index] # None => msg.content = links[msg.index]
             /\ msg.content \in Link
             /\ msg.content = links[msg.index]
  <2>1. s.queue[1] = msg /\ 1 \in DOMAIN s.queue
    BY <1>1 DEF SocketOf
  <2>2. Round(s, r.sequence, links, TakenLinks)
    BY <1>4, <1>5 DEF RoundInv
  <2>3. msg.content = links[msg.index]
    BY <1>4, <1>5, <2>1, <2>2 DEF Round
  <2> QED
    BY <1>1, <1>5, <2>3 DEF Message
<1>6. fresh.link => /\ TakenLinks \subseteq TakenLinks'
                    /\ mine /\ msg.kind = "data" => msg.index \in TakenLinks'
  <2> SUFFICES ASSUME fresh.link
               PROVE  /\ TakenLinks \subseteq TakenLinks'
                      /\ mine /\ msg.kind = "data" => msg.index \in TakenLinks'
    OBVIOUS
  <2>1. CASE mine /\ msg.kind = "data"
    <3> DEFINE i     == msg.index
               entry == [(IF devices[i] = None THEN NewDevice ELSE devices[i])
                            EXCEPT !.mac = links[i].mac, !.up = links[i].up]
    <3>1. i \in Ifs /\ links[i] \in Link /\ msg.content = links[i]
      BY <1>5, <2>1
    <3>2. devices' = IF i \notin EtherIfs THEN devices ELSE [devices EXCEPT ![i] = entry]
      BY <1>2, <2>1, <3>1 DEF HandleLinkPacket
    <3>3. entry \in DeviceData /\ entry.mac = links[i].mac /\ entry.up = links[i].up
      BY <1>1, <3>1 DEF DeviceData, NewDevice, Link
    <3>4. entry # None
      BY <3>3, NoneIsNoDevice
    <3> HIDE DEF i, entry
    <3>5. i \in TakenLinks'
      BY <1>1, <1>2, <3>1, <3>2, <3>3, <3>4 DEF TakenLinks
    <3>6. \A j \in Ifs : j # i => devices'[j] = devices[j]
      BY <1>1, <3>2
    <3>7. TakenLinks \subseteq TakenLinks'
      BY <1>2, <3>5, <3>6 DEF TakenLinks
    <3> QED
      BY <3>5, <3>7 DEF i
  <2>2. CASE ~(mine /\ msg.kind = "data")
    BY <1>2, <2>2 DEF TakenLinks
  <2> QED
    BY <2>1, <2>2
<1>7. fresh.link => TakenAddrs \subseteq TakenAddrs'
  <2> SUFFICES ASSUME fresh.link PROVE TakenAddrs \subseteq TakenAddrs'
    OBVIOUS
  <2>1. CASE mine /\ msg.kind = "data"
    <3> DEFINE i     == msg.index
               entry == [(IF devices[i] = None THEN NewDevice ELSE devices[i])
                            EXCEPT !.mac = links[i].mac, !.up = links[i].up]
    <3>1. i \in Ifs /\ links[i] \in Link /\ msg.content = links[i]
      BY <1>5, <2>1
    <3>2. devices' = IF i \notin EtherIfs THEN devices ELSE [devices EXCEPT ![i] = entry]
      BY <1>2, <2>1, <3>1 DEF HandleLinkPacket
    <3>3. entry \in DeviceData /\ (devices[i] # None => entry.ip = devices[i].ip)
      BY <1>1, <3>1 DEF DeviceData, NewDevice, Link
    <3>4. entry # None
      BY <3>3, NoneIsNoDevice
    <3> HIDE DEF i, entry
    <3> QED
      BY <1>1, <1>2, <3>1, <3>2, <3>3, <3>4 DEF TakenAddrs
  <2>2. CASE ~(mine /\ msg.kind = "data")
    BY <1>2, <2>2 DEF TakenAddrs
  <2> QED
    BY <2>1, <2>2
\* The end of the dump: every link is taken.
<1>8. fresh.link /\ done => TakenLinks = Ifs
  <2> SUFFICES ASSUME fresh.link, done PROVE TakenLinks = Ifs
    OBVIOUS
  <2>1. Round(s, r.sequence, links, TakenLinks)
    BY <1>4 DEF RoundInv
  <2>2. r.sequence \in Number
    BY <1>1, <1>4 DEF Reader
  <2>3. \A i \in Ifs : links[i] # None => i \in TakenLinks
    BY <1>1, <1>4, <2>1, <2>2, RoundComplete
  <2> QED
    BY <2>3 DEF TakenLinks
<1>9. fresh' \in [{"link", "addr", "published"} -> BOOLEAN] /\ fresh'.link = fresh.link
      /\ fresh'.published = fresh.published
      /\ fresh'.addr = IF done /\ sendable THEN fresh.link ELSE fresh.addr
  BY <1>2 DEF RoundInv
<1>10. /\ fresh'.published => fresh'.addr
       /\ fresh'.addr => fresh'.link
  BY <1>9 DEF RoundInv
<1>11. fresh'.link /\ reader'["link"].sequence # None =>
           Round(socket'["link"], reader'["link"].sequence, links', TakenLinks')
  <2> SUFFICES ASSUME fresh.link, reader'["link"].sequence # None
               PROVE  Round(Receive(s, links), r.sequence, links, TakenLinks')
    BY <1>2, <1>9 DEF HandleNetlinkPacket, ResetDumpAttempt
  <2>1. r.sequence # None /\ (mine => msg.kind = "data")
    BY <1>1, <1>2 DEF HandleNetlinkPacket, ResetDumpAttempt, mine, Message
  <2>2. r.sequence \in Number /\ Round(s, r.sequence, links, TakenLinks)
    BY <1>1, <2>1 DEF Reader, RoundInv
  <2>3. msg.sequence = r.sequence => msg.kind = "data" /\ msg.index \in TakenLinks'
    BY <1>6, <2>1 DEF Expected, mine
  <2> HIDE DEF s, r
  <2> QED
    BY <1>1, <1>6, <2>2, <2>3, RoundRead
<1>12. fresh'.addr => TakenLinks' = Ifs
  <2> SUFFICES ASSUME fresh'.addr PROVE Ifs \subseteq TakenLinks'
    BY DEF TakenLinks
  <2> QED
    BY <1>6, <1>8, <1>9 DEF RoundInv
<1>13. fresh'.addr /\ reader'["addr"].sequence # None =>
           Round(socket'["addr"], reader'["addr"].sequence, addrs', TakenAddrs')
  <2> SUFFICES ASSUME fresh'.addr, reader'["addr"].sequence # None
               PROVE  Round(socket'["addr"], reader'["addr"].sequence, addrs, TakenAddrs')
    BY <1>2
  <2>1. fresh.link
    BY <1>9, <1>10
  <2> DEFINE a == socket["addr"]
  <2>2. CASE done /\ sendable
    <3>1. /\ \A k \in DOMAIN a.queue : a.queue[k].sequence # NextNumber(a)
          /\ a.dump # None => a.dump.sequence # NextNumber(a)
      BY DEF NumberUnused, Inv, Netlink, Sources
    <3>2. socket'["addr"] = SendDumpMessage(a, addrs, TRUE)
      <4>1. sendable = TRUE /\ socket'["addr"] = SendDumpMessage(a, addrs, sendable)
        BY <1>3, <2>2
      <4> QED
        BY <4>1, Zenon
    <3>3. reader'["addr"].sequence = NextNumber(a)
      <4>1. reader'["addr"] = TriggerDump(reader["addr"], NextNumber(a), sendable)
        BY <1>3, <2>2
      <4> QED
        BY <2>2, <4>1 DEF TriggerDump
    <3> QED
      BY <1>1, <3>1, <3>2, <3>3, RoundRequested
  <2>3. CASE ~(done /\ sendable)
    <3>1. fresh.addr /\ reader'["addr"].sequence = reader["addr"].sequence
          /\ socket'["addr"] \in {a, SendDumpMessage(a, addrs, FALSE)}
      <4>1. fresh.addr
        BY <1>9, <2>3
      <4>2. CASE done
        <5>1. sendable = FALSE
          BY <2>3, <4>2
        <5>2. /\ socket'["addr"] = SendDumpMessage(a, addrs, sendable)
              /\ reader'["addr"] = TriggerDump(reader["addr"], NextNumber(a), sendable)
          BY <1>3, <4>2
        <5>3. socket'["addr"] = SendDumpMessage(a, addrs, FALSE)
          BY <5>1, <5>2, Zenon
        <5>4. reader'["addr"].sequence = reader["addr"].sequence
          BY <5>1, <5>2 DEF TriggerDump
        <5> QED
          BY <4>1, <5>3, <5>4
      <4>3. CASE ~done
        BY <1>3, <4>1, <4>3
      <4> QED
        BY <4>2, <4>3
    <3>2. reader["addr"].sequence \in Number /\ Round(a, reader["addr"].sequence, addrs, TakenAddrs)
      BY <1>1, <3>1 DEF Reader, RoundInv
    <3>3. Round(a, reader["addr"].sequence, addrs, TakenAddrs')
      BY <1>7, <2>1, <3>2 DEF Round
    <3> QED
      BY <1>1, <3>1, <3>2, <3>3, RoundRequested
  <2> QED
    BY <2>2, <2>3
<1>14. PublishedCovers'
  BY <1>2, <1>9 DEF RoundInv, PublishedCovers, Covers
<1> QED
  BY <1>9, <1>10, <1>11, <1>12, <1>13, <1>14 DEF RoundInv

LEMMA AddrCallRounds ==
    ASSUME Inv, RoundInv, AddrCall
    PROVE  RoundInv'
<1> DEFINE s    == socket["addr"]
           r    == reader["addr"]
           msg  == Head(s.queue)
           mine == Expected(r, msg)
<1>1. /\ s \in SocketOf(Addrs) /\ s.queue # <<>> /\ r \in Reader
      /\ links \in [Ifs -> Link \cup {None}] /\ addrs \in [Ifs -> Addrs \cup {None}]
      /\ devices \in [Ifs -> DeviceData \cup {None}]
      /\ msg \in Message(Addrs)
  BY ReceiveType DEF Inv, Tables, Netlink, AddrCall, Sources
<1>2. /\ links' = links /\ addrs' = addrs
      /\ socket'["link"] = socket["link"] /\ socket'["addr"] = Receive(s, addrs)
      /\ reader'["link"] = reader["link"] /\ reader'["addr"] = HandleNetlinkPacket(r, msg)
      /\ devices' = IF mine /\ msg.kind = "data"
                    THEN HandleAddressPacket(msg.index, msg.content) ELSE devices
      /\ IF AddrDone THEN IpReaderFinished ELSE UNCHANGED <<published, fresh>>
  BY DEF AddrCall, kernel, Inv, Netlink, Sources
<1>3. mine => r.sequence # None /\ msg.sequence = r.sequence
  BY DEF Expected
<1>4. AddrDone <=> mine /\ msg.kind = "done"
  BY DEF AddrDone
<1> HIDE DEF mine
<1>5. ASSUME mine, msg.kind = "data"
      PROVE  msg.index \in Ifs /\ msg.content \in Addrs
  BY <1>1, <1>5 DEF Message
<1>6. TakenLinks \subseteq TakenLinks'
  <2>1. CASE mine /\ msg.kind = "data"
    <3> DEFINE i     == msg.index
               entry == [(IF devices[i] = None THEN NewDevice ELSE devices[i])
                            EXCEPT !.ip = msg.content]
    <3>1. i \in Ifs /\ devices' = [devices EXCEPT ![i] = entry]
      BY <1>2, <1>5, <2>1 DEF HandleAddressPacket
    <3>2. entry \in DeviceData
          /\ (devices[i] # None => entry.mac = devices[i].mac /\ entry.up = devices[i].up)
      BY <1>1, <1>5, <2>1 DEF DeviceData, NewDevice
    <3>3. entry # None
      BY <3>2, NoneIsNoDevice
    <3> HIDE DEF i, entry
    <3> QED
      BY <1>1, <1>2, <3>1, <3>2, <3>3 DEF TakenLinks
  <2>2. CASE ~(mine /\ msg.kind = "data")
    BY <1>2, <2>2 DEF TakenLinks
  <2> QED
    BY <2>1, <2>2
<1>7. fresh.addr => /\ TakenAddrs \subseteq TakenAddrs'
                    /\ mine /\ msg.kind = "data" => msg.index \in TakenAddrs'
  <2> SUFFICES ASSUME fresh.addr
               PROVE  /\ TakenAddrs \subseteq TakenAddrs'
                      /\ mine /\ msg.kind = "data" => msg.index \in TakenAddrs'
    OBVIOUS
  <2>1. CASE mine /\ msg.kind = "data"
    <3> DEFINE i     == msg.index
               entry == [(IF devices[i] = None THEN NewDevice ELSE devices[i])
                            EXCEPT !.ip = msg.content]
    <3>1. i \in Ifs /\ devices' = [devices EXCEPT ![i] = entry]
      BY <1>2, <1>5, <2>1 DEF HandleAddressPacket
    <3>2. entry \in DeviceData /\ entry.ip = msg.content
      BY <1>1, <1>5, <2>1 DEF DeviceData, NewDevice
    <3>3. entry # None
      BY <3>2, NoneIsNoDevice
    <3>4. s.queue[1] = msg /\ 1 \in DOMAIN s.queue
      BY <1>1 DEF SocketOf
    <3>5. Round(s, r.sequence, addrs, TakenAddrs)
      BY <1>3, <2>1 DEF RoundInv
    <3>6. msg.content = addrs[i]
      BY <1>3, <2>1, <3>4, <3>5 DEF Round
    <3> HIDE DEF entry
    <3>7. i \in TakenAddrs'
      BY <1>1, <1>2, <3>1, <3>2, <3>3, <3>6 DEF TakenAddrs
    <3> HIDE DEF i
    <3>8. \A j \in Ifs : j # i => devices'[j] = devices[j]
      BY <1>1, <3>1
    <3>9. TakenAddrs \subseteq TakenAddrs'
      BY <1>2, <3>7, <3>8 DEF TakenAddrs
    <3> QED
      BY <3>7, <3>9 DEF i
  <2>2. CASE ~(mine /\ msg.kind = "data")
    BY <1>2, <2>2 DEF TakenAddrs
  <2> QED
    BY <2>1, <2>2
<1>8. fresh' \in [{"link", "addr", "published"} -> BOOLEAN] /\ fresh'.link = fresh.link
      /\ fresh'.addr = fresh.addr
      /\ fresh'.published = IF AddrDone THEN fresh.addr ELSE fresh.published
  BY <1>2 DEF RoundInv, IpReaderFinished
<1>9. fresh'.link /\ reader'["link"].sequence # None =>
          Round(socket'["link"], reader'["link"].sequence, links', TakenLinks')
  BY <1>2, <1>6, <1>8 DEF RoundInv, Round
<1>10. fresh'.addr => TakenLinks' = Ifs
  <2> SUFFICES ASSUME fresh'.addr PROVE Ifs \subseteq TakenLinks'
    BY DEF TakenLinks
  <2> QED
    BY <1>6, <1>8 DEF RoundInv
<1>11. fresh'.addr /\ reader'["addr"].sequence # None =>
           Round(socket'["addr"], reader'["addr"].sequence, addrs', TakenAddrs')
  <2> SUFFICES ASSUME fresh.addr, reader'["addr"].sequence # None
               PROVE  Round(Receive(s, addrs), r.sequence, addrs, TakenAddrs')
    BY <1>2, <1>8 DEF HandleNetlinkPacket, ResetDumpAttempt
  <2>1. r.sequence # None /\ (mine => msg.kind = "data")
    BY <1>1, <1>2 DEF HandleNetlinkPacket, ResetDumpAttempt, mine, Message
  <2>2. r.sequence \in Number /\ Round(s, r.sequence, addrs, TakenAddrs)
    BY <1>1, <2>1 DEF Reader, RoundInv
  <2>3. msg.sequence = r.sequence => msg.kind = "data" /\ msg.index \in TakenAddrs'
    BY <1>7, <2>1 DEF Expected, mine
  <2> HIDE DEF s, r
  <2> QED
    BY <1>1, <1>7, <2>2, <2>3, RoundRead
\* The end of the dump: every address is taken, and every link was.
<1>12. PublishedCovers'
  <2>1. CASE AddrDone
    <3> SUFFICES ASSUME fresh.addr PROVE Covers(devices)
      BY <1>2, <1>4, <1>8, <2>1 DEF PublishedCovers, Covers, IpReaderFinished
    <3>1. Round(s, r.sequence, addrs, TakenAddrs) /\ r.sequence \in Number
      BY <1>1, <1>3, <1>4, <2>1 DEF RoundInv, Reader
    <3>2. \A i \in Ifs : addrs[i] # None => i \in TakenAddrs
      BY <1>1, <1>3, <1>4, <2>1, <3>1, RoundComplete
    <3>3. TakenLinks = Ifs
      BY DEF RoundInv
    <3> QED
      BY <3>2, <3>3 DEF Covers, TakenLinks, TakenAddrs
  <2>2. CASE ~AddrDone
    BY <1>2, <2>2 DEF RoundInv, PublishedCovers, Covers
  <2> QED
    BY <2>1, <2>2
<1> QED
  BY <1>8, <1>9, <1>10, <1>11, <1>12 DEF RoundInv

LEMMA TickRounds ==
    ASSUME Inv, RoundInv, NumberUnused, NEW delta \in 1..MaxDelta,
           NEW sendable \in BOOLEAN, Tick(delta, sendable)
    PROVE  RoundInv'
<1> DEFINE failed  == \E r \in DOMAIN reader : TimedOut(reader[r], delta)
           timer   == IF failed THEN EXPEDITE_TIMEOUT ELSE sync_timeout
           expired == timer <= delta
           ticked  == [r \in DOMAIN reader |-> ReaderTick(reader[r], delta)]
           s       == socket["link"]
<1>1. /\ reader' = IF expired
                   THEN [ticked EXCEPT !["link"] = TriggerDump(ticked["link"], NextNumber(s), sendable)]
                   ELSE ticked
      /\ socket' = IF expired
                   THEN [socket EXCEPT !["link"] = SendDumpMessage(s, links, sendable)]
                   ELSE socket
      /\ fresh' = IF expired /\ sendable THEN [fresh EXCEPT !.link = TRUE] ELSE fresh
      /\ UNCHANGED <<links, addrs, devices, published>>
  BY DEF Tick, kernel, RequestDeviceDump
<1>2. /\ DOMAIN reader = Sources /\ DOMAIN socket = Sources
      /\ s \in SocketOf(Link) /\ reader["link"] \in Reader
      /\ links \in [Ifs -> Link \cup {None}]
  BY DEF Inv, Tables, Netlink, Sources
<1>3. /\ DOMAIN ticked = Sources
      /\ \A r \in Sources : ticked[r].sequence \in {reader[r].sequence, None}
  <2> SUFFICES ASSUME NEW r \in Sources
               PROVE  ReaderTick(reader[r], delta).sequence \in {reader[r].sequence, None}
    BY <1>2
  <2>1. reader[r] \in Reader
    BY DEF Inv, Netlink
  <2> QED
    BY <2>1 DEF ReaderTick, ResetDumpAttempt, Reader
<1> HIDE DEF expired, ticked
<1>4. CASE ~expired
  <2>1. UNCHANGED <<links, addrs, socket, devices, published, fresh>> /\ reader' = ticked
    BY <1>1, <1>4
  <2> QED
    BY <1>3, <2>1, RoundsKept
<1>5. CASE expired
  <2>1. /\ socket'["link"] = SendDumpMessage(s, links, sendable)
        /\ socket'["addr"] = socket["addr"]
        /\ reader'["link"].sequence = IF sendable THEN NextNumber(s) ELSE ticked["link"].sequence
        /\ reader'["addr"].sequence \in {reader["addr"].sequence, None}
    BY <1>1, <1>2, <1>3, <1>5 DEF Sources, TriggerDump
  <2>2. /\ fresh' \in [{"link", "addr", "published"} -> BOOLEAN]
        /\ fresh'.link = (fresh.link \/ sendable)
        /\ fresh'.addr = fresh.addr /\ fresh'.published = fresh.published
    BY <1>1, <1>5 DEF RoundInv
  <2>3. TakenLinks' = TakenLinks /\ TakenAddrs' = TakenAddrs /\ PublishedCovers'
    BY <1>1, <2>2 DEF TakenLinks, TakenAddrs, RoundInv, PublishedCovers, Covers
  <2>4. /\ \A k \in DOMAIN s.queue : s.queue[k].sequence # NextNumber(s)
        /\ s.dump # None => s.dump.sequence # NextNumber(s)
    BY <1>2 DEF NumberUnused, Sources
  <2>5. fresh'.link /\ reader'["link"].sequence # None =>
            Round(socket'["link"], reader'["link"].sequence, links, TakenLinks)
    <3>1. CASE sendable
      BY <1>2, <2>1, <2>4, <3>1, RoundRequested
    <3>2. CASE ~sendable
      <4> SUFFICES ASSUME fresh.link, reader'["link"].sequence # None
                   PROVE  Round(SendDumpMessage(s, links, FALSE), reader["link"].sequence,
                                links, TakenLinks)
        BY <1>3, <2>1, <2>2, <3>2 DEF Sources
      <4>1. reader["link"].sequence # None
        BY <1>3, <2>1, <3>2 DEF Sources
      <4>2. reader["link"].sequence \in Number /\ Round(s, reader["link"].sequence, links, TakenLinks)
        BY <1>2, <4>1 DEF Reader, RoundInv
      <4> QED
        BY <1>2, <4>2, RoundRequested
    <3> QED
      BY <3>1, <3>2
  <2>6. links' = links /\ addrs' = addrs
    BY <1>1
  <2> QED
    BY <2>1, <2>2, <2>3, <2>5, <2>6 DEF RoundInv
<1> QED
  BY <1>4, <1>5

LEMMA InitRounds == Init => RoundInv
<1> SUFFICES ASSUME Init PROVE RoundInv
  OBVIOUS
<1>1. /\ fresh \in [{"link", "addr", "published"} -> BOOLEAN]
      /\ fresh.link = FALSE /\ fresh.addr = FALSE /\ fresh.published = FALSE
  <2>1. fresh = [link |-> FALSE, addr |-> FALSE, published |-> FALSE]
    BY DEF Init
  <2>2. DOMAIN fresh = {"link", "addr", "published"} /\ fresh = [k \in DOMAIN fresh |-> fresh[k]]
    BY <2>1
  <2>3. \A k \in {"link", "addr", "published"} : fresh[k] = FALSE
    BY <2>1
  <2> QED
    BY <2>2, <2>3
<1> QED
  BY <1>1 DEF RoundInv, PublishedCovers

LEMMA RoundInvKept == Inv /\ NumberUnused /\ RoundInv /\ [Next]_vars => RoundInv'
<1> SUFFICES ASSUME Inv, NumberUnused, RoundInv, [Next]_vars PROVE RoundInv'
  OBVIOUS
<1>1. CASE UNCHANGED vars
  BY <1>1, RoundsKept DEF vars
<1>2. CASE Environment
  BY <1>2, KernelChangeRounds DEF Environment
<1>3. CASE MonitorCall
  BY <1>3, RoundsKept DEF MonitorCall, kernel
<1>4. CASE LinkHandler
  BY <1>4, LinkCallRounds DEF LinkHandler
<1>5. CASE AddrCall
  BY <1>5, AddrCallRounds
<1>6. CASE ClockHandler
  BY <1>6, TickRounds DEF ClockHandler
<1> QED
  BY <1>1, <1>2, <1>3, <1>4, <1>5, <1>6 DEF Next

\* A table published since the kernel's tables last changed has everything the
\* kernel has, whatever rounds were given up, refused or overtaken before it and
\* whatever late answers they left (DeviceRepository, DeviceReader, IpReader, whose
\* sequence number tells the rounds apart), provided that the number does not come
\* round within the answers a socket holds.
THEOREM PublishedIsOneRound == Spec /\ []NumberUnused => []PublishedCovers
<1>1. Inv /\ [Next]_vars => Inv'
  BY InvKept
<1>2. RoundInv => PublishedCovers
  BY DEF RoundInv
<1> QED
  BY <1>1, <1>2, InitInv, InitRounds, RoundInvKept, PTL DEF Spec

----------------------------------------------------------------------------
(* The sequence number.                                                     *)

\* The answers a socket holds, and those the kernel still has to give, are to
\* requests made since the number was zero.
Numbered(s) ==
    /\ \A k \in DOMAIN s.queue : s.queue[k].sequence \in 1..s.number
    /\ s.dump # None => s.dump.sequence \in 1..s.number

LEMMA NumberedProduced ==
    ASSUME NEW T, NEW s \in SocketOf(T), NEW table, Numbered(s)
    PROVE  Numbered(Produce(s, table)) /\ Produce(s, table).number = s.number
<1>1. CASE s.dump = None
  BY <1>1 DEF Produce
<1>2. CASE s.dump # None
  <2> DEFINE rest      == {i \in Ifs : i >= s.dump.next /\ table[i] # None}
             msg(k, i) == [kind |-> k, sequence |-> s.dump.sequence, index |-> i,
                           content |-> IF i = None THEN None ELSE table[i]]
  <2>1. s.dump \in Dump /\ s.queue \in Seq(Message(T)) /\ s.dump.sequence \in 1..s.number
    BY <1>2 DEF SocketOf, Numbered
  <2>2. PICK m, d : /\ m.sequence = s.dump.sequence
                    /\ d = None \/ d.sequence = s.dump.sequence
                    /\ Produce(s, table) = [s EXCEPT !.queue = Append(@, m), !.dump = d]
    <3>1. CASE rest = {}
      <4>1. Produce(s, table) = [s EXCEPT !.queue = Append(@, msg("done", None)), !.dump = None]
        BY <1>2, <3>1 DEF Produce
      <4>2. msg("done", None).sequence = s.dump.sequence
        OBVIOUS
      <4> HIDE DEF msg
      <4> QED
        BY <4>1, <4>2
    <3>2. CASE rest # {}
      <4> DEFINE d == [s.dump EXCEPT !.next = Min(rest) + 1]
      <4>1. Produce(s, table) = [s EXCEPT !.queue = Append(@, msg("data", Min(rest))), !.dump = d]
        BY <1>2, <2>1, <3>2 DEF Produce, SocketOf
      <4>2. msg("data", Min(rest)).sequence = s.dump.sequence
        OBVIOUS
      <4>3. d.sequence = s.dump.sequence
        BY <2>1 DEF Dump
      <4> HIDE DEF msg, d
      <4> QED
        BY <4>1, <4>2, <4>3
    <3> QED
      BY <3>1, <3>2
  <2> DEFINE after == [s EXCEPT !.queue = Append(@, m), !.dump = d]
  <2>3. after.queue = Append(s.queue, m) /\ after.dump = d /\ after.number = s.number
    BY DEF SocketOf
  <2> HIDE DEF after
  <2>4. /\ DOMAIN s.queue = 1..Len(s.queue) /\ Len(s.queue) \in Nat
        /\ DOMAIN after.queue = 1..(Len(s.queue) + 1)
        /\ \A k \in 1..Len(s.queue) : after.queue[k] = s.queue[k]
        /\ after.queue[Len(s.queue) + 1] = m
    BY <2>1, <2>3
  <2>5. \A k \in DOMAIN after.queue : after.queue[k].sequence \in 1..s.number
    <3> SUFFICES ASSUME NEW k \in DOMAIN after.queue
                 PROVE  after.queue[k].sequence \in 1..s.number
      OBVIOUS
    <3>1. CASE k \in DOMAIN s.queue
      BY <2>4, <3>1 DEF Numbered
    <3>2. CASE k \notin DOMAIN s.queue
      <4>1. k = Len(s.queue) + 1
        BY <2>4, <3>2
      <4> QED
        BY <2>1, <2>2, <2>4, <4>1
    <3> QED
      BY <3>1, <3>2
  <2> QED
    BY <2>1, <2>2, <2>3, <2>5 DEF Numbered, after
<1> QED
  BY <1>1, <1>2

LEMMA NumberedRead ==
    ASSUME NEW T, NEW s \in SocketOf(T), s.queue # <<>>, NEW table, Numbered(s)
    PROVE  Numbered(Receive(s, table))
<1> DEFINE left == [s EXCEPT !.queue = Tail(@)]
<1>1. s.queue \in Seq(Message(T)) /\ Tail(s.queue) \in Seq(Message(T))
  BY DEF SocketOf
<1>2. left \in SocketOf(T) /\ left.queue = Tail(s.queue) /\ left.dump = s.dump
      /\ left.number = s.number
  BY <1>1 DEF SocketOf
<1>3. Receive(s, table) = Produce(left, table)
  BY DEF Receive
<1> HIDE DEF left
<1>4. \A k \in DOMAIN left.queue : k + 1 \in DOMAIN s.queue /\ left.queue[k] = s.queue[k + 1]
  BY <1>1, <1>2
<1>5. Numbered(left)
  BY <1>2, <1>4 DEF Numbered
<1> QED
  BY <1>2, <1>3, <1>5, NumberedProduced

\* A request that does not take the number back to zero.
LEMMA NumberedRequested ==
    ASSUME NEW T, NEW s \in SocketOf(T), NEW table, NEW sendable \in BOOLEAN,
           Numbered(s), SendDumpMessage(s, table, sendable).number >= s.number
    PROVE  Numbered(SendDumpMessage(s, table, sendable))
<1> DEFINE n        == NextNumber(s)
           numbered == [s EXCEPT !.number = n]
           started  == [numbered EXCEPT !.dump = [sequence |-> numbered.number,
                                                  next |-> 0]]
           refusal  == [kind |-> "error", index |-> None,
                        sequence |-> numbered.number, content |-> None]
           refused  == [numbered EXCEPT !.queue = Append(@, refusal)]
           asked    == IF numbered.dump = None THEN Produce(started, table) ELSE refused
<1>1. n \in Number /\ s.number \in Number
  BY NextNumberType DEF SocketOf
<1>2. n = s.number + 1 \/ n = 0
  BY <1>1, ReaderConstants DEF NextNumber, Number
<1>3. n = 0 => s.number # 0
  BY <1>1, ReaderConstants DEF NextNumber, Number
<1>4. SendDumpMessage(s, table, sendable) = IF sendable THEN asked ELSE numbered
  BY DEF SendDumpMessage, Request
<1> HIDE DEF n
<1>5. /\ numbered \in SocketOf(T) /\ numbered.queue = s.queue
      /\ numbered.dump = s.dump /\ numbered.number = n
  BY <1>1 DEF SocketOf
<1> HIDE DEF numbered
<1>6. /\ started \in SocketOf(T) /\ started.queue = s.queue /\ started.number = n
      /\ started.dump.sequence = n
  BY <1>1, <1>5 DEF SocketOf, Dump
<1>7. /\ refused.queue = Append(s.queue, refusal) /\ refused.dump = s.dump
      /\ refused.number = n /\ refusal.sequence = n /\ s.queue \in Seq(Message(T))
  BY <1>5 DEF SocketOf
<1> HIDE DEF started, refused, refusal
<1>8. n = s.number + 1
  <2>1. ASSUME n < s.number, Numbered(s) PROVE FALSE
    <3>1. SendDumpMessage(s, table, sendable).number = n
      <4>1. Produce(started, table).number = n
        <5>1. CASE started.dump = None
          BY <1>6, <5>1 DEF Produce
        <5>2. CASE started.dump # None
          BY <1>6, <5>2 DEF Produce, SocketOf
        <5> QED
          BY <5>1, <5>2
      <4> QED
        BY <1>4, <1>5, <1>7, <4>1
    <3> QED
      BY <1>1, <2>1, <3>1 DEF Number
  <2> QED
    BY <1>1, <1>2, <1>3, <2>1 DEF Number
<1>9. Numbered(numbered)
  BY <1>1, <1>5, <1>8 DEF Numbered, Number
<1>10. Numbered(started)
  BY <1>1, <1>6, <1>8 DEF Numbered, Number
<1>11. Numbered(refused)
  <2>1. /\ DOMAIN s.queue = 1..Len(s.queue) /\ Len(s.queue) \in Nat
        /\ DOMAIN refused.queue = 1..(Len(s.queue) + 1)
        /\ \A k \in 1..Len(s.queue) : refused.queue[k] = s.queue[k]
        /\ refused.queue[Len(s.queue) + 1] = refusal
    BY <1>7
  <2>2. \A k \in DOMAIN refused.queue : k \in DOMAIN s.queue \/ k = Len(s.queue) + 1
    BY <2>1
  <2> QED
    BY <1>1, <1>7, <1>8, <2>1, <2>2 DEF Numbered, Number
<1> QED
  BY <1>4, <1>6, <1>9, <1>10, <1>11, NumberedProduced

SocketsNumbered == \A r \in Sources : Numbered(socket[r])

\* No request takes the number back to zero.
Counts == \A r \in Sources : socket'[r].number >= socket[r].number

LEMMA SocketsNumberedKept == Inv /\ SocketsNumbered /\ [Next]_vars /\ [Counts]_vars
                                 => SocketsNumbered'
<1> SUFFICES ASSUME Inv, SocketsNumbered, [Next]_vars, [Counts]_vars
             PROVE  SocketsNumbered'
  OBVIOUS
<1>1. /\ DOMAIN socket = Sources
      /\ socket["link"] \in SocketOf(Link) /\ socket["addr"] \in SocketOf(Addrs)
      /\ Numbered(socket["link"]) /\ Numbered(socket["addr"])
  BY DEF Inv, Netlink, SocketsNumbered, Sources
<1>2. CASE socket' = socket
  BY <1>2 DEF SocketsNumbered
<1>3. ASSUME socket' # socket
      PROVE  /\ socket'["link"].number >= socket["link"].number
             /\ socket'["addr"].number >= socket["addr"].number
  BY <1>3 DEF Counts, Sources, vars
<1>4. ASSUME socket' # socket, NEW sendable \in BOOLEAN, LinkCall(sendable)
      PROVE  SocketsNumbered'
  <2>1. socket["link"].queue # <<>> /\ socket'["link"] = Receive(socket["link"], links)
        /\ socket'["addr"] \in {socket["addr"], SendDumpMessage(socket["addr"], addrs, sendable)}
    BY <1>4 DEF LinkCall, DeviceReaderFinished
  <2>2. Numbered(socket'["link"])
    BY <1>1, <2>1, NumberedRead
  <2>3. Numbered(socket'["addr"])
    <3>1. CASE socket'["addr"] = socket["addr"]
      BY <1>1, <3>1
    <3>2. CASE socket'["addr"] = SendDumpMessage(socket["addr"], addrs, sendable)
      <4>1. SendDumpMessage(socket["addr"], addrs, sendable).number >= socket["addr"].number
        BY <1>3, <1>4, <3>2
      <4> QED
        BY <1>1, <3>2, <4>1, NumberedRequested
    <3> QED
      BY <2>1, <3>1, <3>2
  <2> QED
    BY <2>2, <2>3 DEF SocketsNumbered, Sources
<1>5. ASSUME AddrCall
      PROVE  SocketsNumbered'
  <2>1. socket["addr"].queue # <<>> /\ socket'["addr"] = Receive(socket["addr"], addrs)
        /\ socket'["link"] = socket["link"]
    BY <1>1, <1>5 DEF AddrCall, Sources
  <2>2. Numbered(socket'["addr"])
    BY <1>1, <2>1, NumberedRead
  <2> QED
    BY <1>1, <2>1, <2>2 DEF SocketsNumbered, Sources
<1>6. ASSUME socket' # socket, NEW delta, NEW sendable \in BOOLEAN, Tick(delta, sendable)
      PROVE  SocketsNumbered'
  <2>1. PICK ticked : socket' = [socket EXCEPT !["link"] = RequestDeviceDump(ticked, sendable).socket]
    BY <1>6 DEF Tick
  <2>2. socket'["link"] = SendDumpMessage(socket["link"], links, sendable)
        /\ socket'["addr"] = socket["addr"]
    BY <1>1, <2>1 DEF RequestDeviceDump, Sources
  <2>3. SendDumpMessage(socket["link"], links, sendable).number >= socket["link"].number
    BY <1>3, <1>6, <2>2
  <2>4. Numbered(socket'["link"])
    BY <1>1, <2>2, <2>3, NumberedRequested
  <2> QED
    BY <1>1, <2>2, <2>4 DEF SocketsNumbered, Sources
<1>7. CASE UNCHANGED vars \/ Environment \/ MonitorCall
  BY <1>2, <1>7 DEF vars, Environment, KernelChange, MonitorCall
<1> QED
  BY <1>2, <1>4, <1>5, <1>6, <1>7 DEF Next, LinkHandler, ClockHandler

LEMMA InitNumbered == Init => SocketsNumbered
  BY DEF Init, SocketsNumbered, Numbered, FreshSocket, Sources

LEMMA NumberedUnused == Inv /\ SocketsNumbered => NumberUnused
<1> SUFFICES ASSUME Inv, SocketsNumbered, NEW r \in Sources
             PROVE  /\ \A k \in DOMAIN socket[r].queue :
                           socket[r].queue[k].sequence # NextNumber(socket[r])
                    /\ socket[r].dump # None =>
                           socket[r].dump.sequence # NextNumber(socket[r])
  BY DEF NumberUnused, Inv, Netlink
<1>1. socket[r].number \in Number
  BY DEF Inv, Netlink, Sources, SocketOf
<1>2. NextNumber(socket[r]) \notin 1..socket[r].number
  BY <1>1, ReaderConstants DEF NextNumber, Number
<1> QED
  BY <1>2 DEF SocketsNumbered, Numbered

\* Until the sequence number goes back to zero (NetlinkSocket increments 32 bits,
\* at most once a second) no request gets a number that an answer still to be read
\* carries.
THEOREM UnusedUntilWrap == Spec /\ [][Counts]_vars => []NumberUnused
  BY InitNumbered, NumberedUnused, InitInv, InvKept, SocketsNumberedKept, PTL DEF Spec

\* The same of what is published, for as long as the number has not come round.
COROLLARY PublishedUntilWrap == Spec /\ [][Counts]_vars => []PublishedCovers
  BY UnusedUntilWrap, PublishedIsOneRound, PTL

----------------------------------------------------------------------------
(* The senders driven by the repository (Announcer).                        *)

\* A sender that announces the address a, and has in this handler.
Says(s, a) ==
    /\ s.ip = a
    /\ \A k \in DOMAIN s.out : s.out[k].ip = a

\* What the methods of a sender keep: the address it announces, and that it does
\* not become operational.
Keeps(s, r) ==
    r \in S!Sender /\ (\A a : Says(s, a) => Says(r, a)) /\ (r.up => s.up)

LEMMA SendKeeps ==
    ASSUME NEW s \in S!Sender, NEW ttl \in Nat, NEW net
    PROVE  Keeps(s, S!SendLldp(s, ttl, net))
<1>1. CASE s.mac = None
  BY <1>1 DEF S!SendLldp, Keeps
<1>2. CASE s.mac # None
  <2> DEFINE f == [ttl |-> ttl, mac |-> s.mac, ip |-> s.ip,
                   lost |-> net[Len(s.out) + 1] = "ENETDOWN"]
             r == S!SendLldp(s, ttl, net)
  <2>1. s.out \in Seq(S!Frame) /\ f \in S!Frame /\ f.ip = s.ip
    BY DEF S!Sender, S!Frame
  <2> HIDE DEF f
  <2>2. r = [s EXCEPT !.out = Append(s.out, f),
                      !.up  = s.up /\ net[Len(s.out) + 1] # "ENETDOWN"]
    BY <1>2 DEF S!SendLldp, f
  <2> HIDE DEF r
  <2>3. Append(s.out, f) \in Seq(S!Frame)
        /\ \A k \in DOMAIN Append(s.out, f) :
               \/ Append(s.out, f)[k] = f
               \/ k \in DOMAIN s.out /\ Append(s.out, f)[k] = s.out[k]
    BY <2>1
  <2>4. (s.up /\ net[Len(s.out) + 1] # "ENETDOWN") \in BOOLEAN
    OBVIOUS
  <2>5. r \in S!Sender /\ r.ip = s.ip /\ r.out = Append(s.out, f) /\ (r.up => s.up)
    BY <2>2, <2>3, <2>4 DEF S!Sender
  <2>6. ASSUME NEW a, Says(s, a) PROVE Says(r, a)
    BY <2>1, <2>3, <2>5, <2>6 DEF Says
  <2> QED
    BY <2>5, <2>6 DEF Keeps, r
<1> QED
  BY <1>1, <1>2

\* Two methods one after the other.
LEMMA KeepsBoth ==
    ASSUME NEW s, NEW p, NEW r, Keeps(s, p), Keeps(p, r)
    PROVE  Keeps(s, r)
  BY DEF Keeps

\* A member that says nothing about what is announced changes.
LEMMA PlainKeeps ==
    ASSUME NEW s, NEW p \in S!Sender, p.ip = s.ip, p.out = s.out, p.up = s.up
    PROVE  Keeps(s, p)
  BY DEF Keeps, Says

LEMMA TryKeeps ==
    ASSUME NEW s \in S!Sender, NEW net
    PROVE  Keeps(s, S!TryTransmit(s, net))
<1>1. CASE s.ready /\ s.credits > 0 /\ s.mac # None
  <2> DEFINE p == [s EXCEPT !.ready = FALSE, !.credits = s.credits - 1]
  <2>1. s.credits \in Nat /\ s.credits - 1 \in Nat
    BY <1>1 DEF S!Sender
  <2>2. p \in S!Sender /\ p.ip = s.ip /\ p.out = s.out /\ p.up = s.up
    BY <2>1 DEF S!Sender
  <2> HIDE DEF p
  <2>3. S!TryTransmit(s, net) = S!SendLldp(p, TARGET_TTL, net)
    BY <1>1 DEF S!TryTransmit, p
  <2>4. TARGET_TTL \in Nat
    BY SenderRanges
  <2>5. Keeps(p, S!SendLldp(p, TARGET_TTL, net))
    BY <2>2, <2>4, SendKeeps
  <2>6. Keeps(s, p)
    BY <2>2, PlainKeeps
  <2> QED
    BY <2>3, <2>5, <2>6, KeepsBoth
<1>2. CASE ~(s.ready /\ s.credits > 0 /\ s.mac # None)
  BY <1>2 DEF S!TryTransmit, Keeps
<1> QED
  BY <1>1, <1>2

LEMMA TriggerKeeps ==
    ASSUME NEW s \in S!Sender, NEW net
    PROVE  Keeps(s, S!TriggerTransmission(s, net))
<1> DEFINE t == IF s.ff > 0 THEN MESSAGE_FAST_INTERVAL
                            ELSE S!MESSAGE_TRANSMIT_INTERVAL
           p == [s EXCEPT !.timer = t, !.ready = TRUE]
<1>1. t \in Nat
  BY SenderRanges
<1>2. p = [s EXCEPT !.timer = t, !.ready = TRUE]
  OBVIOUS
<1>3. S!TriggerTransmission(s, net) = S!TryTransmit(p, net)
  BY DEF S!TriggerTransmission
<1> HIDE DEF t, p
<1>4. p \in S!Sender /\ p.ip = s.ip /\ p.out = s.out /\ p.up = s.up
  BY <1>1, <1>2 DEF S!Sender
<1>5. Keeps(s, p)
  BY <1>4, PlainKeeps
<1> QED
  BY <1>3, <1>4, <1>5, TryKeeps, KeepsBoth

LEMMA TimerExpiredKeeps ==
    ASSUME NEW s \in S!Sender, NEW net
    PROVE  Keeps(s, S!TimerExpired(s, net))
<1> DEFINE n == IF s.ff > 0 THEN s.ff - 1 ELSE s.ff
           p == [s EXCEPT !.ff = n]
<1>1. n \in Nat
  BY DEF S!Sender
<1>2. p = [s EXCEPT !.ff = n]
  OBVIOUS
<1>3. S!TimerExpired(s, net) = S!TriggerTransmission(p, net)
  BY DEF S!TimerExpired
<1> HIDE DEF n, p
<1>4. p \in S!Sender /\ p.ip = s.ip /\ p.out = s.out /\ p.up = s.up
  BY <1>1, <1>2 DEF S!Sender
<1>5. Keeps(s, p)
  BY <1>4, PlainKeeps
<1> QED
  BY <1>3, <1>4, <1>5, TriggerKeeps, KeepsBoth

LEMMA NewNeighbourKeeps ==
    ASSUME NEW s \in S!Sender, NEW net
    PROVE  Keeps(s, S!NewNeighbour(s, net))
<1> DEFINE n == IF s.ff = 0 THEN FAST_TRANSMIT_AMOUNT ELSE s.ff
           p == [s EXCEPT !.ff = n]
<1>1. n \in Nat
  BY SenderRanges DEF S!Sender
<1>2. p = [s EXCEPT !.ff = n]
  OBVIOUS
<1>3. S!NewNeighbour(s, net) = S!TimerExpired(p, net)
  BY DEF S!NewNeighbour
<1> HIDE DEF n, p
<1>4. p \in S!Sender /\ p.ip = s.ip /\ p.out = s.out /\ p.up = s.up
  BY <1>1, <1>2 DEF S!Sender
<1>5. Keeps(s, p)
  BY <1>4, PlainKeeps
<1> QED
  BY <1>3, <1>4, <1>5, TimerExpiredKeeps, KeepsBoth

\* A new sender announces the address of its device, and is operational only if
\* the device is.
LEMMA CreateSays ==
    ASSUME NEW d \in DeviceData, NEW net
    PROVE  LET r == S!CreateLldpStateMachine(d, net)
           IN  r \in S!Sender /\ Says(r, d.ip) /\ (r.up => d.up)
<1> DEFINE b == S!Blank(d)
           c == S!Construct(d, net)
<1>1. b \in S!Sender /\ b.ip = d.ip /\ b.out = <<>> /\ b.up = d.up
  BY DEF S!Blank, S!Sender, DeviceData
<1>2. Says(b, d.ip)
  BY <1>1 DEF Says
<1>3. c = b \/ c = S!NewNeighbour(b, net)
  BY DEF S!Construct, S!EnableSender, S!DisableSender
<1> HIDE DEF b, c
<1>4. Keeps(b, b)
  BY <1>1 DEF Keeps
<1>5. Keeps(b, c)
  BY <1>1, <1>3, <1>4, NewNeighbourKeeps
<1>6. c \in S!Sender
  BY <1>5 DEF Keeps
<1>7. Keeps(b, S!NewNeighbour(c, net))
  BY <1>5, <1>6, NewNeighbourKeeps, KeepsBoth
<1>8. S!CreateLldpStateMachine(d, net) = S!NewNeighbour(c, net)
  BY DEF S!CreateLldpStateMachine, c
<1> QED
  BY <1>1, <1>2, <1>7, <1>8 DEF Keeps

\* A sender given new data announces the new address at once, and is operational
\* only if the device is.
LEMMA UpdateSays ==
    ASSUME NEW s \in S!Sender, s.out = <<>>, NEW d \in DeviceData, NEW net
    PROVE  LET r == S!Update(s, d, net)
           IN  r \in S!Sender /\ Says(r, d.ip) /\ (r.up => d.up)
<1> DEFINE named    == [s EXCEPT !.ip = d.ip]
           switched == IF d.up THEN S!DisableSender(named)
                               ELSE S!EnableSender(named, net)
           flagged  == IF s.up = d.up THEN named
                                      ELSE [switched EXCEPT !.up = d.up]
           r        == S!Update(s, d, net)
<1>1. r = IF s.ip # d.ip \/ s.up # d.up THEN S!TriggerTransmission(flagged, net)
                                        ELSE flagged
  BY DEF S!Update, S!LocalChangeDetected
<1>2. d.ip \in Addrs \cup {None} /\ d.up \in BOOLEAN
  BY DEF DeviceData
<1>3. named \in S!Sender /\ named.ip = d.ip /\ named.out = <<>> /\ named.up = s.up
  BY <1>2 DEF S!Sender
<1>4. Says(named, d.ip)
  BY <1>3 DEF Says
<1>5. switched = named \/ switched = S!NewNeighbour(named, net)
  BY DEF S!EnableSender, S!DisableSender
<1> HIDE DEF named, switched
<1>6. Keeps(named, named) /\ Keeps(named, S!NewNeighbour(named, net))
  BY <1>3, NewNeighbourKeeps DEF Keeps
<1>7. switched \in S!Sender /\ Says(switched, d.ip)
  BY <1>4, <1>5, <1>6 DEF Keeps
<1>8. [switched EXCEPT !.up = d.up] \in S!Sender
      /\ [switched EXCEPT !.up = d.up].ip = switched.ip
      /\ [switched EXCEPT !.up = d.up].out = switched.out
      /\ [switched EXCEPT !.up = d.up].up = d.up
  BY <1>2, <1>7 DEF S!Sender
<1>9. Says([switched EXCEPT !.up = d.up], d.ip)
  BY <1>7, <1>8 DEF Says
<1>10. flagged \in S!Sender /\ Says(flagged, d.ip) /\ flagged.up = d.up
  <2>1. CASE s.up = d.up
    BY <1>3, <1>4, <2>1
  <2>2. CASE s.up # d.up
    BY <1>8, <1>9, <2>2
  <2> QED
    BY <2>1, <2>2
<1> HIDE DEF flagged
<1>11. Keeps(flagged, S!TriggerTransmission(flagged, net))
  BY <1>10, TriggerKeeps
<1> HIDE DEF r
<1>12. r \in S!Sender /\ Says(r, d.ip) /\ (r.up => d.up)
  BY <1>1, <1>10, <1>11 DEF Keeps
<1> QED
  BY <1>12 DEF r

LEMMA TickKeeps ==
    ASSUME NEW s \in S!Sender, NEW delta \in Nat, NEW net
    PROVE  Keeps(s, S!SenderTick(s, delta, net))
<1> DEFINE g == S!GrantCredits(s, delta)
           e == [g EXCEPT !.timer = 0]
           w == [g EXCEPT !.timer = g.timer - delta]
           p == IF g.timer > delta THEN w ELSE S!TimerExpired(e, net)
<1>0. CASE ~s.up
  BY <1>0 DEF S!SenderTick, Keeps
<1>1. CASE s.up
  <2>1. S!SenderTick(s, delta, net) = S!TryTransmit(p, net)
    BY <1>1 DEF S!SenderTick
  <2>2. s.credits + delta \in Nat
    BY DEF S!Sender
  <2>3. g = s \/ g = [s EXCEPT !.credits = s.credits + delta]
    BY DEF S!GrantCredits
  <2> HIDE DEF g
  <2>4. g \in S!Sender /\ g.ip = s.ip /\ g.out = s.out /\ g.up = s.up
    BY <2>2, <2>3 DEF S!Sender
  <2>5. e \in S!Sender /\ e.ip = s.ip /\ e.out = s.out /\ e.up = s.up
    BY <2>4 DEF S!Sender
  <2>6. ASSUME g.timer > delta
        PROVE  w \in S!Sender /\ w.ip = s.ip /\ w.out = s.out /\ w.up = s.up
    <3>1. g.timer - delta \in Nat
      BY <2>4, <2>6 DEF S!Sender
    <3> QED
      BY <2>4, <3>1 DEF S!Sender
  <2> HIDE DEF e, w
  <2>7. Keeps(s, S!TimerExpired(e, net))
    <3>1. Keeps(s, e) /\ Keeps(e, S!TimerExpired(e, net))
      BY <2>5, PlainKeeps, TimerExpiredKeeps
    <3> QED
      BY <3>1, KeepsBoth
  <2>8. Keeps(s, p)
    BY <2>6, <2>7, PlainKeeps
  <2> HIDE DEF p
  <2>9. p \in S!Sender
    BY <2>8 DEF Keeps
  <2>10. Keeps(p, S!TryTransmit(p, net))
    BY <2>9, TryKeeps
  <2> QED
    BY <2>1, <2>8, <2>10, KeepsBoth
<1> QED
  BY <1>0, <1>1

\* One sender for each published device: it announces the device's address, has
\* announced it in its last handler, and is operational only if the device is.
Follows ==
    /\ current_state \in [Ifs -> S!Sender \cup {None}]
    /\ \A i \in Ifs : current_state[i] = None <=> published[i] = None
    /\ \A i \in Ifs : current_state[i] # None =>
          /\ current_state[i].out = <<>>
          /\ current_state[i].ip = published[i].ip
          /\ current_state[i].up => published[i].up
          /\ \A k \in DOMAIN wire[i] : wire[i][k].ip = published[i].ip

\* The next handler starts with no frames sent.
LEMMA QuietSays ==
    ASSUME NEW s \in S!Sender
    PROVE  /\ S!Quiet(s) \in S!Sender /\ S!Quiet(s) # None
           /\ S!Quiet(s).out = <<>> /\ S!Quiet(s).ip = s.ip /\ S!Quiet(s).up = s.up
<1>1. <<>> \in Seq(S!Frame)
  OBVIOUS
<1>2. S!Quiet(s) = [s EXCEPT !.out = <<>>]
  BY DEF S!Quiet
<1>3. S!Quiet(s) \in S!Sender
  BY <1>1, <1>2 DEF S!Sender
<1>4. S!Quiet(s).out = <<>> /\ S!Quiet(s).ip = s.ip /\ S!Quiet(s).up = s.up
  BY <1>2 DEF S!Sender
<1> QED
  BY <1>3, <1>4, SenderRanges

\* What a step does that gives every published device a sender that says its
\* address.
LEMMA SendersFollow ==
    ASSUME NEW new, NEW out, Senders(new, out),
           \A i \in Ifs : new[i] = None <=> published'[i] = None,
           \A i \in Ifs : new[i] # None =>
               /\ new[i] \in S!Sender /\ Says(new[i], published'[i].ip)
               /\ new[i].up => published'[i].up
               /\ out[i] = new[i].out
    PROVE  Follows'
<1>1. current_state' = [i \in Ifs |-> IF new[i] = None THEN None ELSE S!Quiet(new[i])]
      /\ wire' = [i \in Ifs |-> IF LinkUp(i) THEN out[i] ELSE <<>>]
  BY DEF Senders
<1>2. ASSUME NEW i \in Ifs, new[i] # None
      PROVE  /\ current_state'[i] \in S!Sender /\ current_state'[i] # None
             /\ current_state'[i].out = <<>>
             /\ current_state'[i].ip = published'[i].ip
             /\ current_state'[i].up => published'[i].up
             /\ \A k \in DOMAIN wire'[i] : wire'[i][k].ip = published'[i].ip
  <2>1. current_state'[i] = S!Quiet(new[i])
    BY <1>1, <1>2
  <2>2. new[i].ip = published'[i].ip /\ (new[i].up => published'[i].up)
        /\ \A k \in DOMAIN out[i] : out[i][k].ip = published'[i].ip
    BY <1>2 DEF Says
  <2>3. wire'[i] = out[i] \/ wire'[i] = <<>>
    BY <1>1
  <2>4. \A k \in DOMAIN wire'[i] : wire'[i][k].ip = published'[i].ip
    BY <2>2, <2>3
  <2> QED
    BY <1>2, <2>1, <2>2, <2>4, QuietSays
<1>3. ASSUME NEW i \in Ifs, new[i] = None
      PROVE  current_state'[i] = None
  BY <1>1, <1>3
<1>4. current_state' \in [Ifs -> S!Sender \cup {None}]
  <2>1. \A i \in Ifs : current_state'[i] \in S!Sender \cup {None}
    BY <1>2, <1>3
  <2>2. current_state' = [i \in Ifs |-> current_state'[i]]
    BY <1>1
  <2> QED
    BY <2>1, <2>2
<1> QED
  BY <1>2, <1>3, <1>4 DEF Follows

\* LldpRepository::UpdateState.
LEMMA UpdateFollows ==
    ASSUME Inv, Follows, NEW net, UpdateState(net), published' = devices
    PROVE  Follows'
<1> DEFINE new == [i \in Ifs |->
                      IF devices[i] = None THEN None
                      ELSE S!UpdatedSender(current_state[i], devices[i], net[i])]
           out == [i \in Ifs |->
                      IF new[i] # None THEN new[i].out
                      ELSE S!DeleteLldpStateMachine(current_state[i], net[i])]
<1>1. Senders(new, out)
  BY DEF UpdateState
<1>2. ASSUME NEW i \in Ifs, devices[i] # None
      PROVE  /\ new[i] \in S!Sender /\ Says(new[i], devices[i].ip)
             /\ new[i].up => devices[i].up
  <2>1. devices[i] \in DeviceData
    BY <1>2 DEF Inv, Tables
  <2>2. current_state[i] # None => current_state[i] \in S!Sender /\ current_state[i].out = <<>>
    BY DEF Follows
  <2>3. new[i] = S!UpdatedSender(current_state[i], devices[i], net[i])
    BY <1>2
  <2> HIDE DEF new
  <2>4. CASE current_state[i] = None
    <3>1. new[i] = S!CreateLldpStateMachine(devices[i], net[i])
      BY <2>3, <2>4 DEF S!UpdatedSender
    <3> QED
      BY <2>1, <3>1, CreateSays
  <2>5. CASE current_state[i] # None
    <3>1. new[i] = S!Update(current_state[i], devices[i], net[i])
      BY <2>3, <2>5 DEF S!UpdatedSender
    <3> QED
      BY <2>1, <2>2, <2>5, <3>1, UpdateSays
  <2> QED
    BY <2>4, <2>5
<1>3. ASSUME NEW i \in Ifs, devices[i] = None PROVE new[i] = None
  BY <1>3
<1>4. \A i \in Ifs : new[i] # None => out[i] = new[i].out
  OBVIOUS
<1> HIDE DEF new, out
<1>5. \A i \in Ifs : new[i] = None <=> published'[i] = None
  BY <1>2, <1>3, SenderRanges
<1>6. \A i \in Ifs : new[i] # None =>
          /\ new[i] \in S!Sender /\ Says(new[i], published'[i].ip)
          /\ new[i].up => published'[i].up
          /\ out[i] = new[i].out
  BY <1>2, <1>3, <1>4
<1> QED
  BY <1>1, <1>5, <1>6, SendersFollow

\* LldpRepository::Tick.
LEMMA TickFollows ==
    ASSUME Follows, NEW delta \in Nat, NEW net, SendersTick(delta, net),
           published' = published
    PROVE  Follows'
<1> DEFINE new == [i \in Ifs |->
                      IF current_state[i] = None THEN None
                      ELSE S!SenderTick(current_state[i], delta, net[i])]
           out == [i \in Ifs |-> IF new[i] = None THEN <<>> ELSE new[i].out]
<1>1. Senders(new, out)
  BY DEF SendersTick
<1>2. ASSUME NEW i \in Ifs, current_state[i] # None
      PROVE  /\ new[i] \in S!Sender /\ Says(new[i], published[i].ip)
             /\ new[i].up => published[i].up
  <2>1. /\ current_state[i] \in S!Sender /\ current_state[i].out = <<>>
        /\ current_state[i].ip = published[i].ip
        /\ current_state[i].up => published[i].up
    BY <1>2 DEF Follows
  <2>2. Says(current_state[i], published[i].ip)
    BY <2>1 DEF Says
  <2>3. new[i] = S!SenderTick(current_state[i], delta, net[i])
    BY <1>2
  <2> HIDE DEF new
  <2>4. Keeps(current_state[i], new[i])
    BY <2>1, <2>3, TickKeeps
  <2> QED
    BY <2>1, <2>2, <2>4 DEF Keeps
<1>3. ASSUME NEW i \in Ifs, current_state[i] = None PROVE new[i] = None
  BY <1>3
<1>4. \A i \in Ifs : new[i] # None => out[i] = new[i].out
  OBVIOUS
<1> HIDE DEF new, out
<1>5. \A i \in Ifs : new[i] = None <=> published'[i] = None
  BY <1>2, <1>3, SenderRanges DEF Follows
<1>6. \A i \in Ifs : new[i] # None =>
          /\ new[i] \in S!Sender /\ Says(new[i], published'[i].ip)
          /\ new[i].up => published'[i].up
          /\ out[i] = new[i].out
  BY <1>2, <1>3, <1>4
<1> QED
  BY <1>1, <1>5, <1>6, SendersFollow

LEMMA FollowsKept == Inv /\ Follows /\ [AnnouncerNext]_announcer => Follows'
<1> SUFFICES ASSUME Inv, Follows, [AnnouncerNext]_announcer PROVE Follows'
  OBVIOUS
<1>1. ASSUME UNCHANGED <<senders, published>> PROVE Follows'
  BY <1>1 DEF Follows, senders
<1>2. CASE UNCHANGED announcer \/ Notify \/ Kernel \/ Monitor \/ LinkDump
  <2>1. UNCHANGED <<senders, published>>
    BY <1>2 DEF announcer, vars, senders, Notify, Kernel, Environment, KernelChange,
                Monitor, MonitorCall, LinkDump, LinkHandler, LinkCall
  <2> QED
    BY <1>1, <2>1
<1>3. ASSUME NEW net, AddrDump(net) PROVE Follows'
  <2>1. CASE AddrDone
    <3>1. UpdateState(net) /\ published' = devices
      BY <1>3, <2>1 DEF AddrDump, AddrCall, IpReaderFinished
    <3> QED
      BY <3>1, UpdateFollows
  <2>2. CASE ~AddrDone
    <3>1. UNCHANGED <<senders, published>>
      BY <1>3, <2>2 DEF AddrDump, AddrCall
    <3> QED
      BY <1>1, <3>1
  <2> QED
    BY <2>1, <2>2
<1>4. ASSUME NEW delta \in 1..MaxDelta, NEW sendable \in BOOLEAN, NEW net,
             Clock(delta, sendable, net)
      PROVE  Follows'
  <2>1. SendersTick(delta, net) /\ published' = published
    BY <1>4 DEF Clock, Tick
  <2>2. delta \in Nat
    BY RepositoryConstants
  <2> QED
    BY <2>1, <2>2, TickFollows
<1> QED
  BY <1>2, <1>3, <1>4 DEF AnnouncerNext, AddrStep, ClockStep

\* What a step of the announcing half is to the device repository: one of its own
\* steps, or a notification of something the dumps do not show.
LEMMA RepositoryStep == [AnnouncerNext]_announcer => [Next]_vars \/ Notify
<1>1. UNCHANGED announcer => UNCHANGED vars
  BY DEF announcer
<1>2. Kernel \/ Monitor \/ LinkDump => Next
  BY DEF Kernel, Monitor, LinkDump, Next
<1>3. AddrStep => Next
  BY DEF AddrStep, AddrDump, Next
<1>4. ClockStep => Next
  BY DEF ClockStep, Clock, Next, ClockHandler
<1> QED
  BY <1>1, <1>2, <1>3, <1>4 DEF AnnouncerNext

\* Such a notification changes nothing but what the monitor socket holds.
LEMMA NotifyKept ==
    ASSUME Notify
    PROVE  /\ Inv => Inv'
           /\ RoundInv => RoundInv'
           /\ SocketsNumbered => SocketsNumbered'
<1>1. UNCHANGED <<kernel, socket, reader, sync_timeout, devices, published, fresh>>
  BY DEF Notify
<1>2. UNCHANGED <<links, addrs>>
  BY <1>1 DEF kernel
<1>3. RoundInv => RoundInv'
  BY <1>1, <1>2, RoundsKept
<1>4. SocketsNumbered => SocketsNumbered'
  BY <1>1 DEF SocketsNumbered
<1>5. ASSUME Inv PROVE Inv'
  <2>1. monitor \in [held : 0..MonitorLimit, overrun : BOOLEAN]
    BY <1>5 DEF Inv, Netlink
  <2>2. monitor.held < MonitorLimit /\ monitor' = [monitor EXCEPT !.held = monitor.held + 1]
    BY DEF Notify
  <2>3. monitor.held + 1 \in 0..MonitorLimit
    BY <2>1, <2>2, RepositoryConstants
  <2>4. monitor' \in [held : 0..MonitorLimit, overrun : BOOLEAN]
    BY <2>1, <2>2, <2>3
  <2> QED
    BY <1>1, <1>2, <1>5, <2>4 DEF Inv, Tables, Netlink
<1> QED
  BY <1>3, <1>4, <1>5

AnnouncerInv == Inv /\ RoundInv /\ Follows

\* While nothing has changed since the round whose table was published last, each
\* interface has a sender that says the address the interface has, in every frame
\* it gives the link, and that is operational only if the link is: what one end of
\* the chain from the kernel's tables over netlink, DeviceRepository and
\* LldpRepository to the senders has, the other one says, whatever was lost or
\* given up before, provided that no request gets a number still on the way.
THEOREM SendersSayWhatIs == AnnouncerSpec /\ []NumberUnused => []SaysWhatIs
<1>1. AnnouncerInit => AnnouncerInv
  <2>1. ASSUME AnnouncerInit PROVE Follows
    BY <2>1 DEF AnnouncerInit, Init, Follows
  <2> QED
    BY <2>1, InitInv, InitRounds DEF AnnouncerInit, AnnouncerInv
<1>2. AnnouncerInv /\ NumberUnused /\ [AnnouncerNext]_announcer => AnnouncerInv'
  BY FollowsKept, RepositoryStep, InvKept, RoundInvKept, NotifyKept DEF AnnouncerInv
<1>3. AnnouncerInv => SaysWhatIs
  BY DEF AnnouncerInv, RoundInv, PublishedCovers, Covers, Follows, SaysWhatIs
<1> QED
  BY <1>1, <1>2, <1>3, PTL DEF AnnouncerSpec

\* The same for as long as the sequence numbers have not come round.
THEOREM SaysUntilWrap == AnnouncerSpec /\ [][Counts]_vars => []SaysWhatIs
<1>1. AnnouncerInit => Inv /\ SocketsNumbered
  BY InitInv, InitNumbered DEF AnnouncerInit
<1>2. Inv /\ SocketsNumbered /\ [AnnouncerNext]_announcer /\ [Counts]_vars
        => (Inv /\ SocketsNumbered)'
  BY RepositoryStep, InvKept, SocketsNumberedKept, NotifyKept
<1>3. AnnouncerSpec /\ [][Counts]_vars => []NumberUnused
  BY <1>1, <1>2, NumberedUnused, PTL DEF AnnouncerSpec
<1> QED
  BY <1>3, SendersSayWhatIs, PTL
=============================================================================

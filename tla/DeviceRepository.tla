-------------------------- MODULE DeviceRepository --------------------------
(***************************************************************************)
(* ndisc::DeviceRepository: the table of the host's network devices, kept   *)
(* up to date by dumps of links and addresses.  A dump round is started by  *)
(* a timer, which notifications of the kernel and failures shorten; when    *)
(* the link dump is through the address dump is requested, and when that is *)
(* through the table goes to the synchronisation callback (`published`).    *)
(*                                                                          *)
(* The kernel's tables, its notifications and the result of every send()    *)
(* are the environment.  The handlers run in one event loop.                *)
(***************************************************************************)
EXTENDS NetlinkReader

CONSTANTS
    EtherIfs,           \* the interfaces of type ARPHRD_ETHER
    Macs, Addrs,
    SYNC_TIMEOUT,       \* seconds between rounds
    EXPEDITE_TIMEOUT,   \* seconds after a notification or a failure
    MaxDelta,           \* bound: seconds a stalled event loop may lose
    MonitorLimit,       \* notifications the monitor socket holds
    MaxChanges,         \* bound: changes of the kernel's tables
    MaxFaults           \* bound: requests that cannot be sent, and stalls

ASSUME RepositoryConstants ==
    /\ EtherIfs \subseteq Ifs
    /\ Macs # {}
    /\ SYNC_TIMEOUT \in Nat \ {0}
    /\ EXPEDITE_TIMEOUT \in Nat \ {0}
    /\ MaxDelta \in Nat \ {0}
    /\ MonitorLimit \in Nat \ {0}
    /\ MaxChanges \in Nat
    /\ MaxFaults \in Nat

VARIABLES
    links, addrs,       \* the kernel's tables: interface -> entry or None
    changes,            \* how often they have changed
    monitor,            \* the monitor socket: notifications held, and overrun
    socket, reader,     \* "link" and "addr" -> socket, reader
    faults,             \* requests that could not be sent, and stalls
    sync_timeout, devices, published,
    owed,               \* handlers epoll calls before it reports the clock again
    fresh               \* history: whether the kernel's tables are unchanged since
                        \*   link: the last link dump request
                        \*   addr: the link request that led to the last address
                        \*         dump request
                        \*   published: the one that led to what is published

kernel == <<links, addrs, changes>>
vars == <<links, addrs, changes, monitor, socket, reader, faults, sync_timeout,
          devices, published, owed, fresh>>

Link == [mac : Macs, up : BOOLEAN]
DeviceData == [mac : Macs \cup {None}, up : BOOLEAN, ip : Addrs \cup {None}]

ASSUME NoneIsNoDevice == None \notin DeviceData

\* An entry std::map::operator[] has just created.
NewDevice == [mac |-> None, up |-> FALSE, ip |-> None]

----------------------------------------------------------------------------
Init ==
    /\ links \in [Ifs -> {None, [mac |-> CHOOSE m \in Macs : TRUE, up |-> TRUE]}]
    /\ addrs = [i \in Ifs |-> None]
    /\ changes = 0
    /\ monitor = [held |-> 0, overrun |-> FALSE]
    /\ socket = [r \in {"link", "addr"} |-> FreshSocket]
    /\ reader = [r \in {"link", "addr"} |-> ResetDumpAttempt]
    /\ faults = 0
    /\ sync_timeout = -1
    /\ devices = [i \in Ifs |-> None]
    /\ published = [i \in Ifs |-> None]
    /\ owed = {}
    /\ fresh = [link |-> FALSE, addr |-> FALSE, published |-> FALSE]

----------------------------------------------------------------------------
(* The kernel.                                                              *)

\* Interface i appears, changes or goes, or gains, changes or loses its
\* address.  A notification for which there is no room is lost.
KernelChange(i, link, addr) ==
    /\ changes < MaxChanges
    /\ \/ link # links[i] /\ addr = IF link = None THEN None ELSE addrs[i]
       \/ link = links[i] /\ link # None /\ addr # addrs[i]
    /\ changes' = changes + 1
    /\ links' = [links EXCEPT ![i] = link]
    /\ addrs' = [addrs EXCEPT ![i] = addr]
    /\ monitor' = IF monitor.held < MonitorLimit
                  THEN [monitor EXCEPT !.held = @ + 1]
                  ELSE [monitor EXCEPT !.overrun = TRUE]
    /\ fresh' = [k \in DOMAIN fresh |-> FALSE]
    /\ UNCHANGED <<socket, reader, faults, sync_timeout, devices, published, owed>>

\* What goes wrong in one step is counted.
Suffer(n) ==
    /\ faults + n <= MaxFaults
    /\ faults' = faults + n

Failures(sendable) == IF sendable THEN 0 ELSE 1
Stalls(delta) == IF delta > 1 THEN 1 ELSE 0

----------------------------------------------------------------------------
(* The callbacks.                                                           *)

\* HandleLinkPacket: only ethernet devices are taken in.
HandleLinkPacket(i, link) ==
    IF i \notin EtherIfs THEN devices
    ELSE [devices EXCEPT
            ![i] = [(IF @ = None THEN NewDevice ELSE @)
                        EXCEPT !.mac = link.mac, !.up = link.up]]

\* HandleAddressPacket: of a device of any type, known or not.
HandleAddressPacket(i, addr) ==
    [devices EXCEPT ![i] = [(IF @ = None THEN NewDevice ELSE @) EXCEPT !.ip = addr]]

\* ScheduleExpediteResync, where the code calls it.
Expedite(condition) ==
    sync_timeout' = IF condition THEN EXPEDITE_TIMEOUT ELSE sync_timeout

\* RequestDeviceDump: the device reader and its socket after it, from those the
\* clock event has left.
RequestDeviceDump(ticked, sendable) ==
    [socket |-> SendDumpMessage(socket["link"], links, sendable),
     reader |-> TriggerDump(ticked, NextNumber(socket["link"]), sendable)]

\* DeviceReaderFinished, with RequestIpDump.
DeviceReaderFinished(sendable) ==
    [socket |-> SendDumpMessage(socket["addr"], addrs, sendable),
     reader |-> TriggerDump(reader["addr"], NextNumber(socket["addr"]), sendable)]

\* IpReaderFinished: the synchronisation callback gets the table.
IpReaderFinished ==
    /\ published' = devices
    /\ fresh' = [fresh EXCEPT !.published = fresh.addr]

----------------------------------------------------------------------------
(* The handlers.                                                            *)

\* NetlinkSocket::Call of the monitor: an overrun is reported once, in place
\* of a notification, and read as nothing.
MonitorCall ==
    /\ monitor.held > 0 \/ monitor.overrun
    /\ monitor' = IF monitor.overrun THEN [monitor EXCEPT !.overrun = FALSE]
                                     ELSE [monitor EXCEPT !.held = @ - 1]
    /\ Expedite(~monitor.overrun)
    /\ owed' = owed \ {"monitor"}
    /\ UNCHANGED <<kernel, socket, reader, faults, devices, published, fresh>>

\* NetlinkSocket::Call of the device reader.  The end of the link dump requests
\* the address dump.
LinkCall(sendable) ==
    /\ socket["link"].queue # <<>>
    /\ LET msg  == Head(socket["link"].queue)
           mine == Expected(reader["link"], msg)
           done == mine /\ msg.kind = "done"
       IN  /\ devices' = IF mine /\ msg.kind = "data"
                         THEN HandleLinkPacket(msg.index, msg.content)
                         ELSE devices
           /\ Expedite(mine /\ msg.kind = "error")
           /\ socket' =
                [link |-> Receive(socket["link"], links),
                 addr |-> IF done THEN DeviceReaderFinished(sendable).socket
                          ELSE socket["addr"]]
           /\ reader' =
                [link |-> HandleNetlinkPacket(reader["link"], msg),
                 addr |-> IF done THEN DeviceReaderFinished(sendable).reader
                          ELSE reader["addr"]]
           /\ fresh' = IF done /\ sendable THEN [fresh EXCEPT !.addr = fresh.link]
                       ELSE fresh
           /\ done \/ sendable
           /\ Suffer(Failures(sendable))
    /\ owed' = owed \ {"link"}
    /\ UNCHANGED <<kernel, monitor, published>>

\* The address reader is about to read the end of the dump it awaits.
AddrDone ==
    LET msg == Head(socket["addr"].queue)
    IN  Expected(reader["addr"], msg) /\ msg.kind = "done"

\* NetlinkSocket::Call of the address reader.  The end of the address dump
\* publishes the table.
AddrCall ==
    /\ socket["addr"].queue # <<>>
    /\ LET msg  == Head(socket["addr"].queue)
           mine == Expected(reader["addr"], msg)
       IN  /\ devices' = IF mine /\ msg.kind = "data"
                         THEN HandleAddressPacket(msg.index, msg.content)
                         ELSE devices
           /\ Expedite(mine /\ msg.kind = "error")
           /\ socket' = [socket EXCEPT !["addr"] = Receive(@, addrs)]
           /\ reader' = [reader EXCEPT !["addr"] = HandleNetlinkPacket(@, msg)]
           /\ IF AddrDone THEN IpReaderFinished ELSE UNCHANGED <<published, fresh>>
    /\ owed' = owed \ {"addr"}
    /\ UNCHANGED <<kernel, monitor, faults>>

\* DeviceRepository::Tick.  A dump that took too long is given up first, which
\* shortens the timer the same event then counts down.
Tick(delta, sendable) ==
    /\ owed = {}
    /\ LET failed  == \E r \in DOMAIN reader : TimedOut(reader[r], delta)
           timer   == IF failed THEN EXPEDITE_TIMEOUT ELSE sync_timeout
           expired == timer <= delta
           ticked  == [r \in DOMAIN reader |-> ReaderTick(reader[r], delta)]
       IN  /\ sync_timeout' = IF expired THEN SYNC_TIMEOUT ELSE timer - delta
           /\ reader' =
                IF expired
                THEN [ticked EXCEPT !["link"] = RequestDeviceDump(@, sendable).reader]
                ELSE ticked
           /\ socket' =
                IF expired
                THEN [socket EXCEPT !["link"] = RequestDeviceDump(ticked["link"], sendable).socket]
                ELSE socket
           /\ fresh' = IF expired /\ sendable THEN [fresh EXCEPT !.link = TRUE]
                       ELSE fresh
           /\ expired \/ sendable
           /\ Suffer(Failures(sendable) + Stalls(delta))
    /\ owed' = {r \in {"link", "addr"} : socket'[r].queue # <<>>}
                  \cup {m \in {"monitor"} : monitor.held > 0 \/ monitor.overrun}
    /\ UNCHANGED <<kernel, monitor, devices, published>>

----------------------------------------------------------------------------
Environment ==
    \E i \in Ifs, link \in Link \cup {None}, addr \in Addrs \cup {None} :
        KernelChange(i, link, addr)

LinkHandler == \E sendable \in BOOLEAN : LinkCall(sendable)
ClockHandler == \E delta \in 1..MaxDelta, sendable \in BOOLEAN : Tick(delta, sendable)

Next == Environment \/ MonitorCall \/ LinkHandler \/ AddrCall \/ ClockHandler

Spec == Init /\ [][Next]_vars

\* The event loop never stops: a handler with something to read is called, and
\* the timer keeps firing.
Fairness ==
    /\ WF_vars(MonitorCall)
    /\ WF_vars(LinkHandler)
    /\ WF_vars(AddrCall)
    /\ WF_vars(ClockHandler)

FairSpec == Spec /\ Fairness

----------------------------------------------------------------------------
\* Members are in range; in particular a reader that awaits a dump has seconds
\* left to wait (Tick of the readers), so that no dump is awaited for ever.
TypeOK ==
    /\ links \in [Ifs -> Link \cup {None}]
    /\ addrs \in [Ifs -> Addrs \cup {None}]
    /\ monitor.held \in 0..MonitorLimit
    /\ \A r \in {"link", "addr"} :
          /\ reader[r].sequence \in (0..(SEQ_RANGE - 1)) \cup {None}
          /\ reader[r].timeout \in -1..DUMP_READ_TIMEOUT
          /\ reader[r].sequence # None => reader[r].timeout > 0
    /\ sync_timeout \in {-1} \cup 1..(IF SYNC_TIMEOUT > EXPEDITE_TIMEOUT
                                     THEN SYNC_TIMEOUT ELSE EXPEDITE_TIMEOUT)
    /\ devices \in [Ifs -> DeviceData \cup {None}]
    /\ published \in [Ifs -> DeviceData \cup {None}]

\* Everything the kernel has is in the table t: each ethernet device with its
\* MAC and operational state, and each address.
Covers(t) ==
    \A i \in Ifs :
        /\ links[i] # None /\ i \in EtherIfs =>
              t[i] # None /\ t[i].mac = links[i].mac /\ t[i].up = links[i].up
        /\ addrs[i] # None => t[i] # None /\ t[i].ip = addrs[i]

\* A published table is made of the answers to one round and no other: if
\* nothing has changed since the link dump of that round was requested, it has
\* everything the kernel has, however many rounds were given up, refused or
\* overtaken before, and whatever late answers they left in the queues.
PublishedCovers == fresh.published => Covers(published)

\* The number of the next dump is in no answer that is still to be read, nor in
\* one still to be given: the sequence number does not come round within the
\* answers a socket holds, however late they are read.
NumberUnused ==
    \A r \in DOMAIN socket :
        /\ \A k \in DOMAIN socket[r].queue :
               socket[r].queue[k].sequence # NextNumber(socket[r])
        /\ socket[r].dump # None =>
               socket[r].dump.sequence # NextNumber(socket[r])

\* Once the kernel's tables are left alone, what is published comes to cover
\* them and stays so, though notifications and requests were lost.
Converges == <>[]Covers(published)

\* Once the kernel's tables are left alone, no address is published that the
\* kernel does not have.
LossIsPublished ==
    <>[](\A i \in Ifs : addrs[i] = None /\ published[i] # None
                           => published[i].ip = None)
=============================================================================

# A formal model of the neighbour discovery service (ndisc)

TLA+ specifications of `ndisc`, the LLDP neighbour discovery daemon: what its
parts do, what makes them correct, which of it TLC has checked on small
instances and which of it TLAPS has proved for all of them. File names without
a directory are those of `src/source/src` and `src/source/include`.

## The system

`ndisc` is one single-threaded process around an epoll loop (`EventManager`).
Every handler runs to completion before the next one starts, so what
interleaves is not code but handlers, the kernel, the other hosts and time.

| Component | State | Operations | Talks to |
|---|---|---|---|
| `NetlinkSocket` (`netlink_monitor.cc`) | descriptor, sequence number | `Call`, `SendGetLinkDumpMessage`, `SendGetAddrMessage` | kernel; callback of its owner |
| `DeviceReader`, `IpReader` | sequence number of the dump awaited, timeout | `TriggerDump`, `Tick`, `HandleNetlinkPacket` | callbacks of `DeviceRepository` |
| `DeviceRepository` | device table, timer of the next dump round | `Tick`, handlers of notification, link and address | the readers; synchronisation callback |
| `LldpRepository` | interface -> `LldpSender` | `UpdateState`, `Tick` | called by `DeviceRepository` and `ClockHandler` |
| `LldpSender` | device data, transmit timer, credits, burst counter, trigger | `Update`, `Tick`, `NewNeighbour`, `EndTransmission` | `sendto()` on a packet socket |
| `EthernetLldpMonitor`, `NeighbourList` (`lldp_monitor.cc`) | chassis -> port -> entry with its remaining time to live | `lldpFrameParser`, `Tick` | packet socket; read by display and client |
| `ClockHandler` | timerfd | `Call` | ticks `NeighbourList`, then `LldpRepository` |
| `EventManager` | registered handlers | `Add`, `Remove`, `ProcessEvents` | all handlers |
| `ClientListenSocket`, `ClientSenderSocket`, `ClientRepository`, `ClientReceiverSocket` (`client.cc`) | lock file, listening socket, connected clients | accept, request and response, reaping | `ndisc_client` |
| `InterruptHandler` (`server_main.cc`) | signalfd | `Call` | main loop |
| LLDP codec (`lldp_packet.cc`) | none | `ToFrameBuffer`, `FromSpan` | sender, monitor |

What is hard about it, and what would make it right:

* **Sender.** One timer serves periodic announcements, fast bursts and changes,
  and a credit bucket limits them all. It is right if an interface that works
  is never silent for a time to live, never sends more than one frame a second
  and never forgets a trigger, whatever the order of device changes, late clock
  events and `ENETDOWN` errors.
* **Neighbour table.** It is right if a neighbour is known exactly until its
  last announcement runs out, and, together with a sender at the other end, if
  a working neighbour is never dropped although frames are lost and clocks run
  late, while one that has died is.
* **Device repository.** Two chained dumps, each with a timeout, are restarted
  by notifications while old answers are still queued. It is right if what it
  publishes is made of one round's answers, and if it ends up with what the
  kernel has although notifications, requests and answers go missing.
* **Event loop and clients.** Events come in batches, and handlers, descriptors
  and clients come and go while a batch is served. It is right if an event
  reaches the handler it was reported for and no other (the descriptors are
  blocking: one read in vain stops the daemon), if an answer is one table of the
  daemon, and if no client, departed or slow, is waited for for ever.
* **Instances.** It is right if two instances never serve, if nobody takes the
  socket of the one that serves and if a crashed one does not hinder the next.

`PROJECT.json` lists the hazards by source line, with the properties that cover
them.

## The modules

    NetlinkReader -> DeviceRepository
                          \
                           +--> Announcer ----> DeviceRepositoryProofs
                          /     (instantiates LldpSender)
    LldpSender ----> LldpRepository ----> LldpRepositoryProofs
        \            (LldpSenderProofs: used here and by LldpLinkProofs)
         LldpCodec
             \
              +--> LldpLink (MCLldpLink) ----> LldpLinkProofs
             /
    NeighbourList -> NeighbourTable (implements NeighbourSet)
                          \
                           +--> NeighbourDump (MCNeighbours) ----> NeighbourTableProofs
                          /
    ClientPackets ------------> ClientPacketsProofs (used here and below)
          \
           \
    EventManager --\
                    +--> ClientSessions (MCClientSessions) ----> ClientSessionsProofs
    InstanceLock -> InstanceLockProofs

**LldpSender** has an operator per method, from the object to the object it
leaves: `SendLldp`, `TryTransmit`, `TriggerTransmission`, `TimerExpired`,
`NewNeighbour`, `Update`, `SenderTick` (`LldpSender::Tick`) and the
constructor. Name, IPv4 and IPv6 address are treated alike by the class and are
one field `ip`. The frames of the running handler accumulate in `out`, and `net`
answers the handler's `sendto()` calls. Only `ENETDOWN` changes the object, so
the other results are one value. The frame is built from spans over locals of
`constructFrame` that are dead when it is serialised; the `-O2` build of the
Makefile sends the intended bytes (checked with g++ 12; an unoptimised build
damages the port id), and so does the model.

**LldpRepository** holds a sender per interface. `UpdateState` is one action,
with the creation, update and deletion of every sender; `Tick` is the other.
Three history variables (`elapsed`, `sent`, `since`) record operational
seconds, announcements and silence; no action depends on them, except that
`MaxTime` bounds `elapsed`.

**NeighbourList** has the operations on the nested map: `lldpFrameParser` with
the narrowing of the interface index, and `ListTick` (`NeighbourList::Tick`),
which expires ports and erases a chassis with its last port. **NeighbourTable**
makes them actions. **NeighbourSet** is the promise: a flat function from
(chassis, port) to what it last announced and a deadline. The refinement maps a
countdown of *ttl* seconds to the deadline *clock + ttl*.

**LldpCodec** has the octets. Writing: `ToFrameBuffer` and `FromSpan` of an
element, `DataUnitToFrameBuffer`, `constructFrame` with the management addresses
a sender puts in. Reading: `DataUnitFromSpan` (three mandatory elements in their
order, then the others up to the end marker or to one that does not fit),
`managementTlvGetManagementString` (a length within a length), the two addresses
of `lldpduToNeighbourEntry`, and `ReadFrame` with the checks of
`EthernetLldpMonitor::Call` and `lldpFrameParser`. Its loop is a recursive
function. A time to live element of fewer than two octets, past whose end the
code would read (`lldp_monitor.cc:55`), is left out: every LLDP agent writes two.

**LldpLink** composes a sender, the codec and a neighbour table. `Second` is real time,
which both timerfds count; a clock handler takes the count of its timerfd at
once, at most `MaxLag` seconds late. The wire delivers in order and loses at
most `LossBudget` announcements in a row. `Stop` is the daemon leaving without a
shutdown frame, which is what it does on a signal as well as on a crash. A frame
is a record on the wire and becomes octets and is read from them again when the
listener receives it, as neither depends on anything else. `ListenerOverhear` is
a frame of another station: **MCLldpLink** gives a data unit of another
implementation, and announcements cut short, out of order, on another kind of
link or longer than the buffer. The history variable `told` has what each
station listed has said last.

**NetlinkReader** has the two readers, which differ only in the request they
send, and the netlink socket: the kernel runs one dump per socket, adds a part
at every read and refuses a second request with an error meanwhile (external,
from how the code uses it). **DeviceRepository** has one action per handler:
`MonitorCall`, `LinkCall` (whose last message requests the address dump in the
same call), `AddrCall` (whose last message publishes) and `Tick`. `owed`
expresses that epoll serves every ready descriptor before the clock a second
time. An overrun of the monitor socket is an error the code reads as nothing.

**Announcer** is the announcing half of the daemon: `DeviceRepository` with the
senders its synchronisation callback (`UpdateState`, within the call that reads
the end of an address dump) and the clock (`Clock`, one event for both) drive.
What `sendto()` may answer follows from the state of the link. `wire` is what
the last handler put on a link. In half of the behaviours (`storms`) the kernel
goes on for ever to notify of things the dumps do not show, such as a renewed
address lifetime; `quiet` is how long the monitor has been left alone.

**EventManager** has registration and destruction of handlers as operators on
the two maps involved, `registered_events_` and the kernel's interest list.
**ClientPackets** has the two ends of a response as pure operators: `DumpData`
takes the table apart into packets, `processDataPacket` puts it together. A chassis
id of more than 508 octets does not go out (`Oversized`), and its neighbours are shown without
one. A port id of more than 506 octets (`Overlong`; the codec accepts 511) goes out
although the daemon says it does not (`client.cc:286`): it is copied past the end of
the packet, and the client reads past the end of the one it gets. The model has that
packet, with the port `Garbled`; what the octets written past it hit in the daemon is
undefined, so everything that is claimed of answers has the premise that no port is
over-long (`Fits`).
**NeighbourDump** composes the two with the neighbour table.
**ClientSessions** is the event loop with them: `ProcessEvents` gets a batch of
handles, and every call of a handler is an action of its own (`ListenerCall`,
`RepositoryCall`, `SessionCall`, `InterruptCall`, `MonitorCall` for whatever
changes the table, `Skip` for an event whose handler is gone), between which
clients connect, ask, read and leave. `Send` is one `sendmsg()` of a response: it
waits for room in the client's socket, and if the client has gone the packet is lost and
the daemon, which does not look at the result, goes on with the next one: on these
sockets (`SOCK_SEQPACKET`) that is an error without a signal. The same holds for
`SendRequest` at the other end, after which `ReadData` finds the connection closed. Descriptors are numbers, the
lowest free one first, so that a new client gets the one of a departed client.
`passed` expresses the order of epoll's ready list when a batch is full. The
request id is left out: it is sent and never looked at.

**InstanceLock** has one action per system call of `ClientListenSocket::Create`
and of the destructors, for several processes. Lock files are inodes: `flock`
locks the inode, `unlink` takes the path away from whichever inode has it, and an
inode lives as long as a path or a descriptor refers to it. The history variable
`disturbed` records that a lock file was unlinked while another instance was up.

## The runs

| Run | Bounds | Shows |
|---|---|---|
| `lldp_repository` | constants of the source, 1 interface, clock events of 1..5 s, 26 operational s | `TypeOK`, `RateLimit`, `NeverSilentTooLong`, `TriggerNotLost` |
| `neighbour_table` | 2 chassis with 2 ports each, one chassis and one port with an id too long for a packet, addresses known or not, an interface with and without its name, TTL 0 or 2, 4 s | `TypeOK`, `NoEmptyChassis`, `RoundTrip`, refinement of `NeighbourSet` |
| `neighbour_table_wide` | interfaces 1 and 65537 | violation of `ReachableInterface` |
| `lldp_link` | TTL 11, 5 announcements per TTL, lag 2, 1 loss in a row; addresses of 1, 2 and 3 octets, buffer of 100 octets, 16 other frames | `TypeOK`, `NeighbourKept`, `StoppedForgotten`, `HeardAsSaid` |
| `device_repository` | 2 interfaces, one not ethernet; timeouts 2 < 3 < 4; 2 kernel changes, 1 fault; 5 sequence numbers | `TypeOK`, `PublishedCovers`, `NumberUnused` |
| `device_repository_loss` | 1 interface, the same bounds, fairness | violation of `LossIsPublished` |
| `announcer` | 1 interface, 1 MAC, 2 addresses, timeouts 2 < 3 < 4, TTL 2, clock events of 1 or 2 s, 2 kernel changes, 1 fault, fairness | `SaysWhatIs`, `ConvergesInPauses`, `KeepsAnnouncing` |
| `announcer_mac` | the same with 1 address, clock events of 1 s, no fault | violation of `EveryInterfaceAnnounced` |
| `instance_lock` | 3 instances, 4 inodes | `TypeOK`, `Exclusive`, `SocketOwned`, `NoStaleSocket` |
| `instance_lock_broken` | the same | violation of `OneServer` |
| `client_sessions` | 2 clients, 3 tables with answers of 1, 6 and 7 packets, packet limit 6, batches of 3, 2 packets per socket, 1 change, 1 fault | `TypeOK`, `NeverReadsInVain`, `AnswersAreTables` |
| `client_sessions_live` | 2 clients, answers of 3 packets, batches of 2, 1 packet per socket, SIGTERM, fairness | `Answered`, `Reaped`, `StopsOnSignal` |

*Why the bounds are enough.* Senders do not interact, so one is as good as
many. 26 s are the fast burst, more than three regular intervals and any change
in between; the proofs below remove the bound. Four seconds let an entry of the
table expire, be refreshed and expire again at every offset. `lldp_link` keeps
the ratio of time to live and interval, with one second to spare. The codec does not
depend on the sizes of the addresses as long as they differ, so short ones do. With the source's constants (TTL 30,
interval 6) and a lag of one second `NeighbourKept` holds for three losses in a
row and fails for four; `LinkMargin` is the inequality behind it, and TLC
evaluates it on every run. The timeouts of `device_repository` keep the order of
those in the source (2 < 5 < 120), so that rounds overlap and time out; two
changes are one that is lost when the monitor socket is full, and one fault is a
request that cannot be sent or a stall. `SEQ_RANGE` stands for the range of the
32 bit sequence number and must exceed the number of rounds a queue can hold:
with timers so short that rounds pile up faster than they are read, four numbers
are too few for `PublishedCovers`. `NumberUnused` says that they are enough: no request
gets the number of an answer on the way. In the source the range is 2^32 requests,
and what that is enough for is proved below. The runs of `Announcer`, which no late
answer can mislead for ever, have three, and with one interface and so few rounds
these are enough for `SaysWhatIs` as well.
In `announcer` one interface is enough because senders and
table entries do not interact, and two changes are an interface that flaps, appears
and gets its address, or gets an address and then another, before, between or after
the two dumps of a round.
Three instances are what the finding needs: one that serves, one that is refused
and one that comes after it; the proofs remove the bound. In `client_sessions`
a batch of three is the smallest that can hold the repository, the listener and
a departed client, in the order that reuses its descriptor; an answer of exactly
the packet limit and one that exceeds it both occur. The live run stays within
the limit: a client whose answers always exceed it leaves more unread than it
reads, until it and the daemon wait for each other. Only the two runs of
`ClientSessions` turn the deadlock check off: there the daemon exits on a signal
and the clients leave.

*Fairness.* `FairSpec` and `AnnouncerSpec` assume weak fairness of each handler of
the event loop and of the clock: epoll is level triggered, `ProcessEvents` runs until a signal,
and the timerfd fires every second. In `ClientSessions` it assumes that the
daemon's process runs, that a waiting client reads, as the loop of `GetData`
does, and that one with its answer asks again or exits (`client_main.cc`). A
client stopped by its user is therefore not covered: while it leaves its socket
full the daemon waits in `sendmsg()`. No fairness is assumed of the kernel's
tables, of notifications or of requests; faults and changes are bounded.
Notifications without a change are not: `HandleMonitorPackets` restarts the
expedite timer at each, so a kernel that never leaves it alone for
`EXPEDITE_TIMEOUT` postpones the dump for ever. The liveness properties of
`Announcer` therefore assume `Pauses`, that it does so time and again; no fairness
of `Notify` is assumed. In a storm the event loop is taken to be through with its
queues at each clock event; without one it may be slow.

*Findings.*
1. `neighbour_table_wide`: the readme promises the device "from which the
   neighbour was reachable"; the interface index is narrowed to 16 bits
   (`lldp_monitor.cc:53`), so index 65537 is shown as device 1.
2. `device_repository_loss`: the readme says the service responds to "devices
   gaining or losing ip addresses"; the device table is never cleared
   (`device_repository.cc:200`), so a lost address is published for ever.
3. `announcer_mac`: the readme says that neighbours "communicate their mac, ipv4 and
   ipv6 addresses"; an interface that the kernel adds between the two dumps of a round
   enters the table by its address alone, its sender is created without a MAC, and
   `LldpSender::Update` (`lldp_sender.cc:18`) never copies one: it is never announced.
   `KeepsAnnouncing` says that an interface whose sender has its MAC is, for ever.
4. `instance_lock_broken`: an instance that cannot have the exclusive lock reports
   "Failed to obtain file lock" and gives up, but the destructor of its descriptor
   unlinks the lock file of the instance that runs (`client.cc:431`,
   `owned_file_descriptor.hh:62`), so the next one locks a new file and serves too.

Part of the model without a run of its own: the message at `client.cc:288`, "Port size
larger than can deliver, not broadcasted over to client", is not what happens; the
packet is sent (`NeighbourPackets`).

## The proofs

**LldpRepositoryProofs**: `TypeCorrect`, `RateLimited`, `TriggersServed` and
`HeardInTime` prove the four invariants of `lldp_repository` for any set of
interfaces, MACs and addresses and all timing constants with `SenderConstants`
and `RepositoryConstants`: a clock event reports no more seconds than the bucket
holds, and a transmit interval and one clock event fit into the time to live.
None of the properties is inductive. `RateLimit` needs that announcements *and
credits in hand* together do not exceed the operational seconds.
`NeverSilentTooLong` needs the timer: the silence never exceeds one transmit
interval, and silence and timer together do not either unless a trigger already
waits for a credit, which the next clock event grants. That grant is why
`MaxDelta` may not exceed the bucket: `LldpSender::Tick` drops a grant that does
not fit, so an event loop that stalled for longer, time after time, would leave
an empty bucket empty. The conjunction `Inv` is preserved method by method, by the
lemmas of `LldpSenderProofs`, then lifted to the two actions.

**NeighbourTableProofs**: `TableTypeCorrect`, `ChassisHavePorts`,
`TableImplementsSet` and `ClientSeesTable`. That no chassis is empty is needed for itself: the code
erases a chassis only along with a port, so an empty one would stay for ever.
The refinement shows that initial states map to initial states, that
an accepted frame maps to `Announce`, a rejected one to a stuttering step and a
clock event to `Elapse`. `ClientSeesTable` is `RoundTrip`: the tables that frames and
clock lead to are finite, so `PacketsShowTable` (below) applies to each of them as
long as it can be numbered with 16 bits and has no over-long port, which is the premise
of `RoundTrip`.

**InstanceLockProofs**: `LockExcludes`, `ServerReachable` and
`RestartUnhindered` prove the three conditional properties for any number of
instances, from `InodesSuffice` alone (there is always an inode no descriptor
refers to). The inductive invariant says who holds a lock on what: an instance
past `flock` holds the lock on its inode, no inode is locked twice, and, as long
as nothing was disturbed, all instances that are up and have not unlinked the
file have the same inode open, the one at the path. Hence at most one of them is
past `flock`, and only that one touches the socket.

**LldpSenderProofs** has what the methods do to one sender, whatever its
environment: `TryTransmitFacts` to `TickFacts` say of ranges, timer, credits and
number of frames what the proofs of the repository and of the link both use;
`SendHonest` to `TickHonest` say that the frames announce the full time to live and
the MAC and that none is lost while the sender stays operational, which the link needs.

**DeviceRepositoryProofs**: `RepositoryTypeCorrect` proves `TypeOK` of the device
repository for any interfaces, timeouts, range of the sequence number and bounds.
It needs what is in the queues: a part of a dump names an interface and has an
entry of the table dumped, which holds because the kernel goes on with the least
index it has not reported. `ReaderType` is the lemma that no reader awaits a dump
without seconds left, `HandlersType` that what a part does to the table keeps it
well formed. `PublishedIsOneRound` proves `PublishedCovers`, and its invariant
`RoundInv` is the argument why sequence numbers work: of the dump a reader awaits,
every entry has either been taken into the table, or is in the queue under the
number of that dump and ahead of its last message, or is still to be produced by the
kernel (`Round`). Answers of rounds given up before, refusals and overruns have
other numbers. `RoundRequested` is the step where a reader starts afresh,
`RoundRead` the one where it reads, `RoundComplete` the one where the last
message makes the dump complete. It takes that no request gets a number still on
the way (`NumberUnused`); `UnusedUntilWrap` proves that until the counter
wraps (`Counts`), and `PublishedUntilWrap` combines the two. The source increments
32 bits, at most a few times a second.
`SendersSayWhatIs` takes the chain to its end, in the composition `Announcer`: while
nothing has changed since the round published last, every interface the kernel has
is looked after by a sender that says the address it has and is operational only if
its link is. Its inductive invariant is that of the repository with `Follows`: the
senders are those of the published table, one for each device, with the device's
address in the sender and in every frame of its last handler. `Keeps` is what every
method of a sender keeps of that, `CreateSays` and `UpdateSays` what a new table makes
of it. `SaysUntilWrap` rests on `UnusedUntilWrap` in the same way as
`PublishedUntilWrap`. The MAC is left out of the property because it is not so: that
a sender never takes a new one is finding 3.

**ClientSessionsProofs** proves the three invariants of `ClientSessions` for any number
of clients, batch size, packet limit and queues. `TypeCorrect` has the
bijection between descriptors and handles (`Wired`): what is registered are the
sessions and the handlers of `initializeHandlers`, each under a handle of its own,
by which epoll knows it, and a handle given out is greater than all before.
`ReadsSomething` proves `NeverReadsInVain`: by `BatchInv` a batch has every handle
once, all of them given out before the batch, so a session created within it, though it
may have the descriptor of a destroyed one, is never mistaken for that one, and
what makes a descriptor readable is taken away by its own handler only.
`AnswersRight` proves `AnswersAreTables` from `StreamInv`: while a client waits,
what it has read, what is in its socket and what the daemon has still to send are, in
this order, the response for a table the daemon had since the request. That the
client can put together a response is `PacketsShowTable`; so the hypotheses that
are left are that the tables can be numbered with 16 bits (`Countable`) and have no
over-long port (`Fits`, in `SessionConstants`).

**ClientPacketsProofs** proves `PacketsShowTable`: whatever finite table `DumpData` takes
apart, the client puts together that table, every neighbour once and with its own
chassis (none, if that is oversized), port, interface and address, provided that no port
is over-long (`Fits`) and that there are no more than 65536 chassis
and neighbours. The first premise is the guard of `client.cc:286`, which does not
keep such a port back. The second is real: the counters are `uint16_t`
(`client.cc:324`), a client reads 100000 packets, and neighbour 65536 would overwrite
neighbour 0. `SortedType` and `Places` say that the order of the map has every key
once, by the number of those before it; `FlattenSteps` and `PlainParts` what
a concatenation of parts is. The maps of the client are followed by their steps
(`Leads`): the packets of one neighbour lead from a map to that map with this neighbour
added, and by induction over chassis and ports, for which the least counterexample is
taken, the whole response leads from nothing to the table.

**LldpLinkProofs** begins with the codec: `ElementReadBack` proves that an element of any type and
value is read back as it was written and that reading goes on where it ends,
whatever follows; `AnnouncementReadBack` that the mandatory part of every
announcement is, for machine ids, MACs and times to live of any value.
`AnnouncementUnderstood` is the whole: a monitor reads from the octets of an
announcement exactly what its sender meant, the addresses it has and those it
does not have included. The loop over the optional elements is a
recursive function over suffixes; that it exists is derived from the
well-founded order of their lengths, and what it returns is then computed
element by element, of which an announcement has two at most, so that no induction
is needed. The lemmas are about headers (arithmetic) and parts of sequences.
On that rest the proofs of the four invariants of `lldp_link`, for all
constants that `LinkConstants`, `LinkOctets`, `LinkMargin`, `AnnouncementsFit` and `OthersDiffer`
allow: the first two say what a daemon and its addresses are, the third is
the inequality that the constants of the source satisfy up to three losses in a
row, and the last that chassis and port identify a station. `Kept`
compares two countdowns that run at different hosts
(`SteadyInv`). One is what the listener has left of the entry. The other
is `Gap`, the seconds until the next announcement reaches the listener's socket: the
seconds until the sender sends (`Due`, at most one `Period`, an
interval and the lag), and a `Period` for every announcement that may still be
lost, counting those on the wire as lost. The first exceeds the second by more
than the lag of the listener as long as its socket is empty; once a frame waits
there, the entry has to live for one more lag only, because the event loop reads
the frame before the clock a second time (`turn`). `GapKept`, `GapAfterSend`,
`GapSecond` and `GapLose` say what each step does to the countdown. `Forgotten` has the
opposite countdown (`FadeInv`): the seconds since the sender stopped and
those that are left of its entry (`Left`), or of the frames that wait and the entry
the last of them makes (`Drain`), together stay below `Forever`. `LinkTypeCorrect`
follows from the ranges of `LldpSenderProofs`. `HeardRight` proves `HeardAsSaid`: by
`AnnouncementUnderstood` a frame of the sender changes its own row of the table and
nothing else, and the clock only takes rows away (`SaysListed`,
`ForgetsListed`). Of the other stations it assumes that they are senders of the
same program (`FromSender`) or that their frames are read as they are meant
(`ReadsAs`); the frames of `MCLldpLink` are, or the run would fail.

`InstancesTypeCorrect` is the type invariant of `InstanceLock`, a conjunct of its
inductive invariant.

Only model-checked: liveness (`ConvergesInPauses`, `KeepsAnnouncing`, `Answered`, `Reaped`,
`StopsOnSignal`), which is beyond the prover. All invariants that the runs check, and
the refinement of `NeighbourSet`, are theorems.

## Not modelled, and the plan

Not modelled are start-up errors (they end the process) and terminal output. The
byte layout of netlink messages (`packetViewParser`, `parseTlvs`,
`extractMessageFromBuffer`) is left out because the messages come from the kernel,
whose layout the code shares through its headers: a model of both ends would only
repeat the macros. Frames whose time to live is shorter than two octets are left
out as said above, and so is a client that goes on after a failed connection.

What could still be done, in this order:

1. A refinement of `DeviceRepository` by what its readers promise: a round that is
   published is one atomic copy of the kernel's tables if these stand still.
2. `ClientSessions` and `InstanceLock` composed, for clients across a restart.
3. Step properties of the sender and of the sessions, proved from the invariants
   that are there.

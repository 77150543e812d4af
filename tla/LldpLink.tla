------------------------------ MODULE LldpLink ------------------------------
(***************************************************************************)
(* One port of one host, and the host that listens to it: the transmit      *)
(* state machine at one end of a lossy wire and the neighbour table at the  *)
(* other.  Each host has its own timerfd, which counts the seconds of the   *)
(* common real time; its clock handler reads the count when the event loop  *)
(* gets to it, at most MaxLag seconds late.  The daemon may stop and start  *)
(* again; it tells nobody.  Other stations send frames to the listener too. *)
(*                                                                          *)
(* The wire holds frames as their sender means them.  They are encoded when *)
(* they are sent and decoded when they are received (LldpCodec), which is   *)
(* done in one place here because neither depends on anything else.         *)
(***************************************************************************)
EXTENDS LldpCodec, NeighbourList

CONSTANTS
    MaxLag,         \* seconds an event loop may fall behind its timerfd
    LossBudget,     \* announcements the wire may lose in a row
    InboxLimit,     \* bound: frames waiting in the listener's socket
    MachineId,      \* of the announcing host, in octets
    OwnIndex,       \* the index of the port on its host
    Noise           \* frames of other stations, what each is: its octets, whether
                    \* it is LLDP on an ethernet, and what it says: an identifier
                    \* and an address, or None if it is to be ignored

ASSUME LinkConstants ==
    /\ MaxLag \in 1..MAX_TRANSMIT_CREDITS
    /\ LossBudget \in Nat
    /\ InboxLimit \in Nat \ {0}
    /\ \E mac \in Macs : Macs = {mac}
    /\ MESSAGE_TRANSMIT_INTERVAL > 0
    /\ None \notin Sender \cup Macs \cup Addrs \cup Seq(Int)
                    \cup LLDPDUTypeLengthValue \cup LLDPDataUnit

\* The time to live outlasts the announcements that may be lost, each of them
\* up to a lag late, and the lag of the listener before and after a frame.
ASSUME LinkMargin ==
    (LossBudget + 1) * (MESSAGE_TRANSMIT_INTERVAL + MaxLag - 1) + 2 * MaxLag
        < TARGET_TTL

Octet == 0..255

\* Addresses and identifiers have the sizes the elements are made for, and an
\* interface with addresses has one of each kind at most.
ASSUME LinkOctets ==
    /\ \A mac \in Macs : mac \in Seq(Octet) /\ Len(mac) = ETH_ALEN
    /\ MachineId \in Seq(Octet) /\ Len(MachineId) < LENGTH_RANGE - 1
    /\ OwnIndex \in Nat
    /\ \A ip \in Addrs :
          /\ ip = [v4 |-> ip.v4, v6 |-> ip.v6] /\ (ip.v4 # None \/ ip.v6 # None)
          /\ ip.v4 # None => ip.v4 \in Seq(Octet) /\ Len(ip.v4) = IN_ADDR_SIZE
          /\ ip.v6 # None => ip.v6 \in Seq(Octet) /\ Len(ip.v6) = IN6_ADDR_SIZE

VARIABLES
    sender,         \* the LldpSender of the port, or None
    chassis_map,    \* the table of the listener
    wire,           \* frames on their way
    inbox,          \* frames in the listener's packet socket
    turn,           \* the event loop owes that socket a call before the clock
    ticks,          \* host -> seconds its timerfd has counted and not reported
    told,           \* history: what the stations in the table have said last
    lost,           \* announcements lost since the last one that got through
    steady,         \* history: heard, and operational ever since
    gone            \* history: seconds since the sender stopped

vars == <<sender, chassis_map, wire, inbox, turn, ticks, told, lost, steady, gone>>

Hosts == {"announcer", "listener"}

\* Longer than any announcement can live: its time to live, and what the event
\* loop may take to get to it and then to the clock.
Forever == TARGET_TTL + (InboxLimit + 1) * MaxLag + 1

\* The chassis and port identifiers announced.
Host == ChassisValue(MachineId)
Port == PortValue(CHOOSE mac \in Macs : TRUE)

Known == Host \in DOMAIN chassis_map /\ Port \in DOMAIN chassis_map[Host]

----------------------------------------------------------------------------
Init ==
    /\ sender = None
    /\ chassis_map = EmptyMap
    /\ wire = <<>>
    /\ inbox = <<>>
    /\ turn = FALSE
    /\ ticks = [h \in Hosts |-> 0]
    /\ told = {}
    /\ lost = 0
    /\ steady = FALSE
    /\ gone = Forever

\* A second passes.  No frame is on the wire for longer, and neither event
\* loop is more than MaxLag behind.
Second ==
    /\ wire = <<>>
    /\ \A h \in Hosts : ticks[h] < MaxLag
    /\ ticks' = [h \in Hosts |-> IF h = "announcer" /\ sender = None THEN 0
                                 ELSE ticks[h] + 1]
    /\ gone' = IF sender = None /\ gone < Forever THEN gone + 1 ELSE gone
    /\ UNCHANGED <<sender, chassis_map, wire, inbox, turn, told, lost, steady>>

Deliver ==
    /\ wire # <<>>
    /\ Len(inbox) < InboxLimit
    /\ inbox' = Append(inbox, Head(wire))
    /\ wire' = Tail(wire)
    /\ lost' = 0
    /\ UNCHANGED <<sender, chassis_map, turn, ticks, told, steady, gone>>

Lose ==
    /\ wire # <<>>
    /\ lost < LossBudget
    /\ lost' = lost + 1
    /\ wire' = Tail(wire)
    /\ UNCHANGED <<sender, chassis_map, inbox, turn, ticks, told, steady, gone>>

\* What gets onto the wire of the frames given to sendto().
Passed(out) == FlattenSeq([k \in DOMAIN out |-> IF out[k].lost THEN <<>> ELSE <<out[k]>>])

\* A handler leaves the sender s, having given the frames out to sendto().  The
\* wire is faster than the event loop: the frames of one handler have crossed
\* before the next handler runs.
Leave(s, out) ==
    /\ wire = <<>>
    /\ sender' = IF s = None THEN None ELSE Quiet(s)
    /\ wire' = Passed(out)
    /\ gone' = 0
    /\ steady' = (steady /\ s # None /\ s.up)
    /\ UNCHANGED <<chassis_map, inbox, turn, told, lost>>

\* UpdateState finds the interface for the first time.
Discover(d, net) ==
    /\ sender = None
    /\ Leave(CreateLldpStateMachine(d, net), CreateLldpStateMachine(d, net).out)
    /\ UNCHANGED ticks

\* UpdateState with new data for the interface.
Change(d, net) ==
    /\ sender # None
    /\ Leave(Update(sender, d, net), Update(sender, d, net).out)
    /\ UNCHANGED ticks

\* UpdateState without the interface: a shutdown frame, if it gets through.
Vanish(net) ==
    /\ sender # None
    /\ Leave(None, DeleteLldpStateMachine(sender, net))
    /\ ticks' = [ticks EXCEPT !["announcer"] = 0]

\* The daemon exits or is killed: the senders are destroyed in silence.
Stop ==
    /\ sender # None
    /\ Leave(None, <<>>)
    /\ ticks' = [ticks EXCEPT !["announcer"] = 0]

AnnouncerClock(net) ==
    /\ sender # None
    /\ ticks["announcer"] > 0
    /\ LET new == SenderTick(sender, ticks["announcer"], net)
       IN  Leave(new, new.out)
    /\ ticks' = [ticks EXCEPT !["announcer"] = 0]

\* The octets an announcement travels as.
Octets(f) == DataUnitToFrameBuffer(constructFrame(MachineId, f, OwnIndex))

\* The frames a sender makes, those that get through.
Announcements == [ttl : {0, TARGET_TTL}, mac : Macs, ip : Addrs \cup {None}, lost : {FALSE}]

\* They are no longer than the monitor reads.
ASSUME AnnouncementsFit == \A f \in Announcements : Len(Octets(f)) <= MAX_FRAME_BUFFER_SIZE

\* Station cp has said ip.
Said(cp, ip) == {t \in told : t[1] # cp} \cup {<<cp, ip>>}

\* EthernetLldpMonitor::Call
ListenerReceive ==
    /\ inbox # <<>>
    /\ inbox' = Tail(inbox)
    /\ turn' = FALSE
    /\ chassis_map' = lldpFrameParser(chassis_map,
                                      ReadFrame(Octets(Head(inbox)), TRUE, 1))
    /\ told' = Said(<<Host, Port>>, Head(inbox).ip)
    /\ steady' = (Head(inbox).ttl > 0 /\ sender # None /\ sender.up)
    /\ UNCHANGED <<sender, wire, ticks, lost, gone>>

\* What the frames of other stations are read as, and what they say.
Overheard == {[read |-> ReadFrame(n.octets, n.ethernet, 1), says |-> n.says] : n \in Noise}

\* The chassis and port identifiers are the announcer's alone.
ASSUME OthersDiffer ==
    \A n \in Overheard : n.read.accepted => <<n.read.chassis, n.read.port>> # <<Host, Port>>

\* EthernetLldpMonitor::Call, with a frame of another station.
ListenerOverhear(n) ==
    /\ chassis_map' = lldpFrameParser(chassis_map, n.read)
    /\ told' = IF n.says = None THEN told ELSE Said(n.says.id, n.says.ip)
    /\ UNCHANGED <<sender, wire, inbox, turn, ticks, lost, steady, gone>>

\* What the table says of whom.
Listed(m) == {<<cp, m[cp[1]][cp[2]].ip>> :
                 cp \in UNION {{c} \X DOMAIN m[c] : c \in DOMAIN m}}

\* epoll reports every ready descriptor once before it repeats one: a frame
\* that waits when the clock handler returns is received before the next one.
ListenerClock ==
    /\ ticks["listener"] > 0
    /\ ~turn
    /\ chassis_map' = ListTick(chassis_map, ticks["listener"])
    /\ ticks' = [ticks EXCEPT !["listener"] = 0]
    /\ turn' = (inbox # <<>>)
    /\ told' = {t \in told : \E s \in Listed(chassis_map') : s[1] = t[1]}
    /\ UNCHANGED <<sender, wire, inbox, lost, steady, gone>>

Next ==
    \/ Second
    \/ Deliver
    \/ Lose
    \/ Stop
    \/ ListenerReceive
    \/ ListenerClock
    \/ \E n \in Overheard : ListenerOverhear(n)
    \/ \E net \in NetResult :
          \/ \E d \in {x \in DeviceData : x.mac # None} :
                Discover(d, net) \/ Change(d, net)
          \/ Vanish(net)
          \/ AnnouncerClock(net)

Spec == Init /\ [][Next]_vars

----------------------------------------------------------------------------
\* Members are in range, whichever way device changes, frames and the two
\* clocks interleave: no 16 bit counter of the sender wraps (LldpSender::Tick).
TypeOK ==
    /\ sender \in Sender \cup {None}
    /\ wire \in Seq(Frame)
    /\ inbox \in Seq(Frame) /\ Len(inbox) <= InboxLimit
    /\ ticks \in [Hosts -> 0..MaxLag]
    /\ lost \in 0..LossBudget
    /\ gone \in 0..Forever

\* A neighbour that has been heard stays in the table as long as its interface
\* is operational, although the wire loses announcements, both clocks run late
\* and bursts and device changes move the transmissions about.
NeighbourKept == steady => Known

\* The table says of every station what that station has said last, and lists no
\* other: the octets of an announcement decode to what it meant, and a frame
\* that is no LLDP data unit, is cut short or does not fit the buffer changes
\* nothing (LLDPDataUnit::ToFrameBuffer, FromSpan, lldpduToNeighbourEntry).
HeardAsSaid == Listed(chassis_map) = told

\* A neighbour that stops without a word is forgotten: when its time to live
\* and what the listener's event loop may lag have passed, it is not known.
StoppedForgotten == gone = Forever => ~Known
=============================================================================

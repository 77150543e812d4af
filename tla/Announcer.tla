------------------------------ MODULE Announcer ------------------------------
(***************************************************************************)
(* The announcing half of the daemon: the device repository, and the LLDP   *)
(* senders its synchronisation callback and the clock drive, from a change  *)
(* in the kernel's tables to the frame that announces it.                   *)
(*                                                                          *)
(* The end of an address dump runs LldpRepository::UpdateState within the   *)
(* handler that reads it, and one clock event ticks the device repository   *)
(* and then every sender.  Whether sendto() succeeds is up to the link: on  *)
(* one that is down it fails, with ENETDOWN (IFF_UP is off) or with some    *)
(* other error (only the carrier is gone).                                  *)
(***************************************************************************)
EXTENDS DeviceRepository

CONSTANTS
    MAX_TRANSMIT_CREDITS, FAST_TRANSMIT_AMOUNT, TARGET_TTL,
    PACKET_HOLD_AMOUNT, MESSAGE_FAST_INTERVAL

VARIABLES
    current_state,  \* interface -> LldpSender, or None
    wire,           \* interface -> frames its last handler put on a link
    storms,         \* whether the kernel goes on for ever to report things the
                    \* dumps do not show
    quiet           \* history: in a storm, the seconds since the last
                    \* notification was read, up to EXPEDITE_TIMEOUT

S == INSTANCE LldpSender

ASSUME SenderRanges ==
    /\ {MAX_TRANSMIT_CREDITS, FAST_TRANSMIT_AMOUNT, TARGET_TTL,
        MESSAGE_FAST_INTERVAL, S!MESSAGE_TRANSMIT_INTERVAL} \subseteq Nat
    /\ None \notin S!Sender

senders == <<current_state, wire>>
announcer == <<vars, senders, storms, quiet>>

----------------------------------------------------------------------------
AnnouncerInit ==
    /\ Init
    /\ current_state = [i \in Ifs |-> None]
    /\ wire = [i \in Ifs |-> <<>>]
    /\ storms \in BOOLEAN
    /\ quiet = 0

LinkUp(i) == links[i] # None /\ links[i].up

\* What sendto() may answer on interface i.
NetAnswers(i) ==
    {net \in S!NetResult :
        \A k \in DOMAIN net :
            net[k] = "ENETDOWN" => links[i] # None /\ ~links[i].up}

\* The sender of interface i becomes new[i], having given out[i] to sendto().
Senders(new, out) ==
    /\ current_state' = [i \in Ifs |-> IF new[i] = None THEN None
                                       ELSE S!Quiet(new[i])]
    /\ wire' = [i \in Ifs |-> IF LinkUp(i) THEN out[i] ELSE <<>>]

\* LldpRepository::UpdateState, with the table the device repository hands it.
UpdateState(net) ==
    LET new == [i \in Ifs |->
                   IF devices[i] = None THEN None
                   ELSE S!UpdatedSender(current_state[i], devices[i], net[i])]
        out == [i \in Ifs |->
                   IF new[i] # None THEN new[i].out
                   ELSE S!DeleteLldpStateMachine(current_state[i], net[i])]
    IN  Senders(new, out)

\* The second half of LldpRepository::Tick.
SendersTick(delta, net) ==
    LET new == [i \in Ifs |->
                   IF current_state[i] = None THEN None
                   ELSE S!SenderTick(current_state[i], delta, net[i])]
        out == [i \in Ifs |-> IF new[i] = None THEN <<>> ELSE new[i].out]
    IN  Senders(new, out)

----------------------------------------------------------------------------
\* The kernel reports something the dumps do not show, such as an address
\* whose lifetime is renewed.
Notify ==
    /\ storms
    /\ monitor.held < MonitorLimit
    /\ monitor' = [monitor EXCEPT !.held = @ + 1]
    /\ UNCHANGED <<kernel, socket, reader, faults, sync_timeout, devices,
                   published, owed, fresh, senders, storms, quiet>>

Kernel == Environment /\ UNCHANGED <<senders, storms, quiet>>

Monitor == MonitorCall /\ quiet' = 0 /\ UNCHANGED <<senders, storms>>

LinkDump == LinkHandler /\ UNCHANGED <<senders, storms, quiet>>

AddrDump(net) ==
    /\ AddrCall
    /\ IF AddrDone THEN UpdateState(net) ELSE UNCHANGED senders
    /\ UNCHANGED <<storms, quiet>>

\* The event loop has nothing else to do.
Drained == ~monitor.overrun /\ monitor.held = 0
              /\ \A r \in DOMAIN socket : socket[r].queue = <<>>

\* ClockHandler::Call, as far as the announcing half is concerned.  In a storm
\* the loop is taken to be fast: the handlers are through with what there is
\* within each second.
Clock(delta, sendable, net) ==
    /\ storms => Drained
    /\ Tick(delta, sendable)
    /\ SendersTick(delta, net)
    /\ quiet' = IF ~storms THEN quiet
                ELSE IF quiet + delta < EXPEDITE_TIMEOUT THEN quiet + delta
                ELSE EXPEDITE_TIMEOUT
    /\ UNCHANGED storms

Answers == {net \in [Ifs -> S!NetResult] : \A i \in Ifs : net[i] \in NetAnswers(i)}

AddrStep == \E net \in Answers : AddrDump(net)
ClockStep ==
    \E delta \in 1..MaxDelta, sendable \in BOOLEAN, net \in Answers :
        Clock(delta, sendable, net)

AnnouncerNext == Notify \/ Kernel \/ Monitor \/ LinkDump \/ AddrStep \/ ClockStep

\* As in DeviceRepository: the event loop calls every handler that has
\* something to read, and the timer keeps firing.
AnnouncerSpec ==
    /\ AnnouncerInit
    /\ [][AnnouncerNext]_announcer
    /\ WF_announcer(Monitor)
    /\ WF_announcer(LinkDump)
    /\ WF_announcer(AddrStep)
    /\ WF_announcer(ClockStep)

----------------------------------------------------------------------------
\* No news, no lies: while nothing has changed since the round whose table was
\* published last, every interface the kernel has is looked after by a sender that
\* is operational only if its link is, and that says the address it has, also in
\* every frame it gave the link in its last handler, whatever rounds failed or were
\* given up before (IpReaderFinished; LldpRepository::UpdateState,
\* LldpSender::Update).
SaysWhatIs ==
    fresh.published => \A i \in Ifs :
        /\ i \in EtherIfs /\ links[i] # None =>
              current_state[i] # None /\ (current_state[i].up => links[i].up)
        /\ addrs[i] # None =>
              /\ current_state[i] # None /\ current_state[i].ip = addrs[i]
              /\ \A k \in DOMAIN wire[i] : wire[i][k].ip = addrs[i]

\* The kernel leaves the monitor alone long enough for the expedite timer, time
\* and again.
Pauses == []<>(storms => quiet = EXPEDITE_TIMEOUT)

\* Notifications that restart the expedite timer for ever only postpone the
\* dump as long as they last: if they pause time and again, what is published
\* comes to cover what the kernel has, though notifications and requests were
\* lost (DeviceRepository::HandleMonitorPackets, Tick).
ConvergesInPauses == Pauses => Converges

\* Interface i works and should be announced; its sender knows which MAC it has.
Working(i) == i \in EtherIfs /\ LinkUp(i)
Identified(i) == current_state[i] # None /\ current_state[i].mac = links[i].mac

\* A frame says what interface i is now.
Announces(i) ==
    LinkUp(i) /\ \E k \in DOMAIN wire[i] :
        LET f == wire[i][k]
        IN  /\ f.mac = links[i].mac
            /\ addrs[i] # None => f.ip = addrs[i]
            /\ f.ttl = TARGET_TTL

\* An interface that works is announced over and over, with the address it has,
\* whatever it went through before: appearing, flapping between two dumps, a
\* send that failed with ENETDOWN and stopped its sender, a lost notification
\* (LldpSender::SendLldp, Update; LldpRepository::UpdateState).
KeepsAnnouncing ==
    Pauses => \A i \in Ifs : <>[](Working(i) /\ Identified(i)) => []<>Announces(i)

\* The same of every interface that works, whether or not its sender has its MAC.
EveryInterfaceAnnounced ==
    Pauses => \A i \in Ifs : <>[]Working(i) => []<>Announces(i)
=============================================================================

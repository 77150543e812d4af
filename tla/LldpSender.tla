----------------------------- MODULE LldpSender -----------------------------
(***************************************************************************)
(* The transmit state machine one interface runs (class lldp::LldpSender).  *)
(*                                                                          *)
(* Every method is an operator from a sender record to the record the       *)
(* method leaves behind.  A record holds the members of the class, and      *)
(*   out   the frames the running handler has handed to sendto(), in order. *)
(* `ip` stands for the three members interface_name, ipv4_address and       *)
(* ipv6_address, which the class compares and copies in the same way.       *)
(* A method that may transmit takes `net`, which answers each sendto() call *)
(* of the handler in turn.  Only ENETDOWN is told apart: every other result *)
(* leaves the sender as it is.                                              *)
(***************************************************************************)
EXTENDS Integers, Sequences

CONSTANTS
    MAX_TRANSMIT_CREDITS,   \* size of the transmit credit bucket
    FAST_TRANSMIT_AMOUNT,   \* length of the fast burst
    TARGET_TTL,             \* time to live announced in every frame
    PACKET_HOLD_AMOUNT,     \* frames sent within one time to live
    MESSAGE_FAST_INTERVAL,  \* seconds between the frames of a fast burst
    Macs,                   \* hardware addresses
    Addrs,                  \* announced addresses
    None                    \* an empty std::optional, an absent map entry

MESSAGE_TRANSMIT_INTERVAL == TARGET_TTL \div PACKET_HOLD_AMOUNT

ASSUME SenderConstants ==
    /\ MAX_TRANSMIT_CREDITS \in Nat \ {0}
    /\ FAST_TRANSMIT_AMOUNT \in Nat \ {0}
    /\ TARGET_TTL \in Nat
    /\ MESSAGE_FAST_INTERVAL \in Nat
    /\ MESSAGE_TRANSMIT_INTERVAL \in Nat
    /\ MESSAGE_FAST_INTERVAL <= MESSAGE_TRANSMIT_INTERVAL

----------------------------------------------------------------------------
\* netlink::DeviceData, as the senders see it.
DeviceData == [mac : Macs \cup {None}, ip : Addrs \cup {None}, up : BOOLEAN]

\* A frame handed to sendto(); `lost` if the call failed with ENETDOWN.
Frame == [ttl : Nat, mac : Macs \cup {None}, ip : Addrs \cup {None},
          lost : BOOLEAN]

Sender == [mac : Macs \cup {None}, ip : Addrs \cup {None}, up : BOOLEAN,
           timer : Nat, credits : Nat, ff : Nat, ready : BOOLEAN,
           out : Seq(Frame)]

\* No handler of one sender calls sendto() more than twice.
NetResult == [1..2 -> {"done", "ENETDOWN"}]

\* An object the constructor has filled in but not yet started.
Blank(d) == [mac |-> d.mac, ip |-> d.ip, up |-> d.up, timer |-> 0,
             credits |-> 0, ff |-> 0, ready |-> FALSE, out |-> <<>>]

\* The same object at the start of the next handler.
Quiet(s) == [s EXCEPT !.out = <<>>]

----------------------------------------------------------------------------
\* A frame is built and handed to the kernel; ENETDOWN marks the device down.
SendLldp(s, ttl, net) ==
    IF s.mac = None
    THEN s
    ELSE [s EXCEPT
            !.out = Append(@, [ttl |-> ttl, mac |-> s.mac, ip |-> s.ip,
                               lost |-> net[Len(s.out) + 1] = "ENETDOWN"]),
            !.up  = @ /\ net[Len(s.out) + 1] # "ENETDOWN"]

\* The frame that tells the neighbours to forget this port.
EndTransmission(s, net) == SendLldp(s, 0, net)

\* Mutant of TryTransmit: an empty bucket does not stop a frame.
TryTransmit_free(s, net) ==
    IF s.ready /\ s.mac # None
    THEN SendLldp([s EXCEPT !.ready = FALSE,
                            !.credits = IF @ > 0 THEN @ - 1 ELSE @],
                  TARGET_TTL, net)
    ELSE s

TryTransmit(s, net) ==
    IF s.ready /\ s.credits > 0 /\ s.mac # None
    THEN SendLldp([s EXCEPT !.ready = FALSE, !.credits = @ - 1],
                  TARGET_TTL, net)
    ELSE s

\* Mutant of TriggerTransmission: the attempt is left to a later tick.
TriggerTransmission_lazy(s, net) ==
    [s EXCEPT !.timer = IF s.ff > 0 THEN MESSAGE_FAST_INTERVAL
                                    ELSE MESSAGE_TRANSMIT_INTERVAL,
              !.ready = TRUE]

TriggerTransmission(s, net) ==
    TryTransmit([s EXCEPT
                   !.timer = IF s.ff > 0 THEN MESSAGE_FAST_INTERVAL
                                         ELSE MESSAGE_TRANSMIT_INTERVAL,
                   !.ready = TRUE],
                net)

TimerExpired(s, net) ==
    TriggerTransmission([s EXCEPT !.ff = IF @ > 0 THEN @ - 1 ELSE @], net)

NewNeighbour(s, net) ==
    TimerExpired([s EXCEPT !.ff = IF @ = 0 THEN FAST_TRANSMIT_AMOUNT ELSE @],
                 net)

LocalChangeDetected(s, net) == TriggerTransmission(s, net)

EnableSender(s, net) == NewNeighbour(s, net)

DisableSender(s) == s

\* The constructor: a device that is already operational starts its burst.
Construct(d, net) ==
    IF d.up THEN EnableSender(Blank(d), net) ELSE DisableSender(Blank(d))

\* Mutant of Update: the operational state is acted on and not kept.
Update_forgetful(s, d, net) ==
    LET named    == [s EXCEPT !.ip = d.ip]
        switched == IF d.up THEN DisableSender(named)
                            ELSE EnableSender(named, net)
    IN  IF s.ip # d.ip \/ s.up # d.up
        THEN LocalChangeDetected(IF s.up = d.up THEN named ELSE switched, net)
        ELSE named

\* New data from the device repository.  The MAC address is not copied, and a
\* device that comes up is Disabled while one that goes down is Enabled.
Update(s, d, net) ==
    LET named    == [s EXCEPT !.ip = d.ip]
        switched == IF d.up THEN DisableSender(named)
                            ELSE EnableSender(named, net)
        flagged  == IF s.up = d.up THEN named
                                   ELSE [switched EXCEPT !.up = d.up]
    IN  IF s.ip # d.ip \/ s.up # d.up
        THEN LocalChangeDetected(flagged, net)
        ELSE flagged

\* Mutant of GrantCredits: the bucket is checked before the grant, not after.
GrantCredits_late(s, delta) ==
    IF s.credits <= MAX_TRANSMIT_CREDITS
    THEN [s EXCEPT !.credits = @ + delta]
    ELSE s

\* Credits are granted whole or not at all: a grant that would overflow the
\* bucket is dropped.
GrantCredits(s, delta) ==
    IF s.credits + delta <= MAX_TRANSMIT_CREDITS
    THEN [s EXCEPT !.credits = @ + delta]
    ELSE s

\* Mutant of SenderTick: a timer that runs out is never acted on.
SenderTick_deaf(s, delta, net) ==
    IF ~s.up THEN s
    ELSE LET g == GrantCredits(s, delta)
         IN  TryTransmit([g EXCEPT !.timer = IF @ > delta THEN @ - delta ELSE 0],
                         net)

\* Mutant of SenderTick: the timer is counted down past zero.
SenderTick_wrap(s, delta, net) ==
    IF ~s.up THEN s
    ELSE TryTransmit([GrantCredits(s, delta) EXCEPT !.timer = @ - delta], net)

\* LldpSender::Tick
SenderTick(s, delta, net) ==
    IF ~s.up THEN s
    ELSE LET g == GrantCredits(s, delta)
         IN  TryTransmit(IF g.timer > delta
                         THEN [g EXCEPT !.timer = @ - delta]
                         ELSE TimerExpired([g EXCEPT !.timer = 0], net),
                         net)

----------------------------------------------------------------------------
(* How LldpRepository::UpdateState treats the sender of one index.          *)

\* CreateLldpStateMachine: the object just emplaced gets a NewNeighbour.
CreateLldpStateMachine(d, net) == NewNeighbour(Construct(d, net), net)

\* The last the wire hears of a sender that UpdateState erases.
DeleteLldpStateMachine(s, net) ==
    IF s = None THEN <<>> ELSE EndTransmission(s, net).out

\* The sender UpdateState leaves at an index the new state holds.
UpdatedSender(s, d, net) ==
    IF s = None THEN CreateLldpStateMachine(d, net) ELSE Update(s, d, net)
=============================================================================

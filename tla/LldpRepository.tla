--------------------------- MODULE LldpRepository ---------------------------
(***************************************************************************)
(* ndisc::LldpRepository: one LldpSender per interface, driven by the       *)
(* synchronisation callback of the device repository (UpdateState) and by   *)
(* the clock (Tick).  The device table passed to the callback and the       *)
(* result of every sendto() are inputs.                                     *)
(*                                                                          *)
(* Three history variables observe the senders; no action reads them.       *)
(***************************************************************************)
EXTENDS LldpSender, FiniteSets

CONSTANTS
    Ifs,        \* interface indices
    MaxDelta,   \* bound: seconds one clock event may report
    MaxTime     \* bound: operational seconds of one sender's life

\* A clock event reports at most as many seconds as the bucket holds, and one
\* such event more than a transmit interval still ends before the TTL does.
ASSUME RepositoryConstants ==
    /\ MaxTime \in Nat
    /\ MaxDelta \in 1..MAX_TRANSMIT_CREDITS
    /\ MESSAGE_TRANSMIT_INTERVAL + MaxDelta < TARGET_TTL

VARIABLES
    current_state,  \* interface -> Sender, or None
    wire,           \* interface -> frames the last handler gave to sendto()
    elapsed,        \* history: operational seconds ticked since creation
    sent,           \* history: announcements since creation
    since           \* history: operational seconds since the last one

vars == <<current_state, wire, elapsed, sent, since>>

DeviceTable == [Ifs -> DeviceData \cup {None}]

----------------------------------------------------------------------------
Init ==
    /\ current_state = [i \in Ifs |-> None]
    /\ wire = [i \in Ifs |-> <<>>]
    /\ elapsed = [i \in Ifs |-> 0]
    /\ sent = [i \in Ifs |-> 0]
    /\ since = [i \in Ifs |-> 0]

UpdateState(new_state, net) ==
    LET kept(i)    == new_state[i] # None
        created(i) == kept(i) /\ current_state[i] = None
        new(i)     == UpdatedSender(current_state[i], new_state[i], net[i])
        raised(i)  == ~current_state[i].up /\ new(i).up
    IN  /\ current_state' =
               [i \in Ifs |-> IF kept(i) THEN Quiet(new(i)) ELSE None]
        /\ wire' =
               [i \in Ifs |-> IF kept(i) THEN new(i).out
                              ELSE DeleteLldpStateMachine(current_state[i], net[i])]
        /\ elapsed' =
               [i \in Ifs |-> IF kept(i) /\ ~created(i) THEN elapsed[i] ELSE 0]
        /\ sent' =
               [i \in Ifs |-> IF ~kept(i) THEN 0
                              ELSE IF created(i) THEN Len(new(i).out)
                              ELSE sent[i] + Len(new(i).out)]
        /\ since' =
               [i \in Ifs |-> IF ~kept(i) \/ created(i) THEN 0
                              ELSE IF raised(i) \/ new(i).out # <<>> THEN 0
                              ELSE since[i]]

\* LldpRepository::Tick, after it has ticked the device repository.
Tick(delta, net) ==
    LET runs(i) == current_state[i] # None /\ current_state[i].up
        new(i)  == SenderTick(current_state[i], delta, net[i])
    IN  /\ \A i \in Ifs : runs(i) => elapsed[i] + delta <= MaxTime
        /\ current_state' =
               [i \in Ifs |-> IF current_state[i] = None THEN None
                              ELSE Quiet(new(i))]
        /\ wire' =
               [i \in Ifs |-> IF current_state[i] = None THEN <<>>
                              ELSE new(i).out]
        /\ elapsed' =
               [i \in Ifs |-> IF runs(i) THEN elapsed[i] + delta ELSE elapsed[i]]
        /\ sent' =
               [i \in Ifs |-> IF runs(i) THEN sent[i] + Len(new(i).out)
                              ELSE sent[i]]
        /\ since' =
               [i \in Ifs |-> IF ~runs(i) THEN since[i]
                              ELSE IF new(i).out # <<>> THEN 0
                              ELSE since[i] + delta]

Next ==
    \E net \in [Ifs -> NetResult] :
        \/ \E new_state \in DeviceTable : UpdateState(new_state, net)
        \/ \E delta \in 1..MaxDelta : Tick(delta, net)

Spec == Init /\ [][Next]_vars

----------------------------------------------------------------------------
\* Every member stays in its range; in particular the credit bucket never
\* overflows MAX_TRANSMIT_CREDITS (LldpSender::Tick).
TypeOK ==
    /\ current_state \in [Ifs -> Sender \cup {None}]
    /\ wire \in [Ifs -> Seq(Frame)]
    /\ elapsed \in [Ifs -> Nat]
    /\ sent \in [Ifs -> Nat]
    /\ since \in [Ifs -> Nat]
    /\ \A i \in Ifs : current_state[i] # None =>
          /\ current_state[i].credits <= MAX_TRANSMIT_CREDITS
          /\ current_state[i].ff <= FAST_TRANSMIT_AMOUNT
          /\ current_state[i].timer <= MESSAGE_TRANSMIT_INTERVAL

\* The credits limit the rate: however device changes, fast bursts and timer
\* expiries interleave, an interface has sent at most one announcement per
\* second it has been operational.
RateLimit == \A i \in Ifs : sent[i] <= elapsed[i]

\* A neighbour must not forget a healthy interface: on an operational interface
\* whose MAC is known the silence stays short of the announced time to live,
\* even if the next clock event is the latest one allowed.
NeverSilentTooLong ==
    \A i \in Ifs :
        (current_state[i] # None /\ current_state[i].up
                                 /\ current_state[i].mac # None)
            => since[i] + MaxDelta < TARGET_TTL

\* A pending trigger is only ever held back by an empty bucket or an unknown
\* MAC: no path through Update, NewNeighbour or Tick leaves a transmission
\* waiting although it could be made.
TriggerNotLost ==
    \A i \in Ifs :
        (current_state[i] # None /\ current_state[i].ready)
            => current_state[i].credits = 0 \/ current_state[i].mac = None
=============================================================================

-------------------------- MODULE LldpSenderProofs --------------------------
(***************************************************************************)
(* What the methods of LldpSender do, for every value of the protocol       *)
(* constants that SenderConstants allow.  Each method that may transmit is  *)
(* shown to relate the sender it gets to the one it returns by Method and   *)
(* Triggered; the proofs about repository and link build on that.           *)
(***************************************************************************)
EXTENDS LldpSender, TLAPS

\* The members of one sender are in range.
InRange(s) ==
    /\ s \in Sender
    /\ s.credits <= MAX_TRANSMIT_CREDITS
    /\ s.ff <= FAST_TRANSMIT_AMOUNT
    /\ s.timer <= MESSAGE_TRANSMIT_INTERVAL

\* What every method that may transmit does to its sender: it keeps the MAC,
\* pays a credit for each frame, sends one at most, never takes a frame back
\* and never raises the operational flag.
Method(s, r) ==
    /\ InRange(r)
    /\ r.mac = s.mac
    /\ r.credits + Len(r.out) = s.credits + Len(s.out)
    /\ Len(r.out) >= Len(s.out)
    /\ Len(r.out) <= Len(s.out) + 1
    /\ r.up => s.up

\* A trigger that is still pending could not have been served.
Settled(s) == s.ready => s.credits = 0 \/ s.mac = None

\* A method that sets the trigger has either served it or kept it pending.
Triggered(s, r) ==
    /\ Method(s, r)
    /\ Settled(r)
    /\ (s.credits > 0 /\ s.mac # None) => ~r.ready /\ r.out # <<>>
    /\ s.credits = 0 \/ s.mac = None => r.ready /\ r.out = s.out

----------------------------------------------------------------------------
\* constructFrame and sendFrame: one frame, or none if the MAC is unknown.
LEMMA SendLldpFacts ==
    ASSUME NEW s, InRange(s), NEW ttl \in Nat, NEW net
    PROVE  /\ InRange(SendLldp(s, ttl, net))
           /\ SendLldp(s, ttl, net).mac = s.mac
           /\ SendLldp(s, ttl, net).credits = s.credits
           /\ SendLldp(s, ttl, net).ready = s.ready
           /\ SendLldp(s, ttl, net).timer = s.timer
           /\ SendLldp(s, ttl, net).ff = s.ff
           /\ SendLldp(s, ttl, net).up => s.up
           /\ s.mac # None => Len(SendLldp(s, ttl, net).out) = Len(s.out) + 1
           /\ s.mac = None => SendLldp(s, ttl, net) = s
<1>1. CASE s.mac = None
  BY <1>1 DEF SendLldp
<1>2. CASE s.mac # None
  <2> DEFINE f == [ttl |-> ttl, mac |-> s.mac, ip |-> s.ip,
                   lost |-> net[Len(s.out) + 1] = "ENETDOWN"]
  <2>1. f \in Frame
    BY DEF Frame, InRange, Sender
  <2>2. s.out \in Seq(Frame)
    BY DEF InRange, Sender
  <2>3. Append(s.out, f) \in Seq(Frame) /\ Len(Append(s.out, f)) = Len(s.out) + 1
    BY <2>1, <2>2
  <2>4. (s.up /\ net[Len(s.out) + 1] # "ENETDOWN") \in BOOLEAN
    OBVIOUS
  <2> HIDE DEF f
  <2>5. SendLldp(s, ttl, net) =
          [s EXCEPT !.out = Append(s.out, f),
                    !.up  = s.up /\ net[Len(s.out) + 1] # "ENETDOWN"]
    BY <1>2 DEF SendLldp, f
  <2> QED
    BY <1>2, <2>3, <2>4, <2>5 DEF InRange, Sender
<1> QED
  BY <1>1, <1>2

\* TryTransmit: it serves a trigger it has a credit for, and nothing else.
LEMMA TryTransmitFacts ==
    ASSUME NEW s, InRange(s), NEW net
    PROVE  /\ Method(s, TryTransmit(s, net))
           /\ Settled(TryTransmit(s, net))
           /\ TryTransmit(s, net).timer = s.timer
           /\ TryTransmit(s, net).ff = s.ff
           /\ IF s.ready /\ s.credits > 0 /\ s.mac # None
              THEN /\ ~TryTransmit(s, net).ready
                   /\ Len(TryTransmit(s, net).out) = Len(s.out) + 1
              ELSE TryTransmit(s, net) = s
<1>0. s \in Sender /\ s.credits \in Nat /\ Len(s.out) \in Nat
  BY DEF InRange, Sender
<1>1. CASE s.ready /\ s.credits > 0 /\ s.mac # None
  <2> DEFINE p == [s EXCEPT !.ready = FALSE, !.credits = s.credits - 1]
             r == SendLldp(p, TARGET_TTL, net)
  <2>1. TryTransmit(s, net) = r
    BY <1>1 DEF TryTransmit
  <2>a. s.credits - 1 \in Nat
    BY <1>0, <1>1
  <2>b. /\ p \in Sender /\ p.mac = s.mac /\ p.credits = s.credits - 1
        /\ p.ready = FALSE /\ p.timer = s.timer /\ p.ff = s.ff
        /\ p.up = s.up /\ p.out = s.out
    BY <1>0, <2>a DEF Sender
  <2>2. InRange(p)
    BY <1>0, <2>b, SenderConstants DEF InRange
  <2>3. TARGET_TTL \in Nat
    BY SenderConstants
  <2> HIDE DEF p
  <2>4. /\ InRange(r) /\ r.mac = p.mac /\ r.credits = p.credits
        /\ r.ready = p.ready /\ r.timer = p.timer /\ r.ff = p.ff
        /\ r.up => p.up
        /\ Len(r.out) = Len(p.out) + 1
    BY <1>1, <2>b, <2>2, <2>3, SendLldpFacts
  <2> HIDE DEF r
  <2> QED
    BY <1>0, <1>1, <2>1, <2>b, <2>4 DEF Method, Settled
<1>2. CASE ~(s.ready /\ s.credits > 0 /\ s.mac # None)
  <2>1. TryTransmit(s, net) = s
    BY <1>2 DEF TryTransmit
  <2>2. Method(s, s)
    BY <1>0 DEF Method
  <2>3. Settled(s)
    BY <1>0, <1>2 DEF Settled
  <2> QED
    BY <1>2, <2>1, <2>2, <2>3
<1> QED
  BY <1>1, <1>2

\* The triggering methods differ only in what they do to the fast counter.
LEMMA TriggerFacts ==
    ASSUME NEW s, InRange(s), NEW net
    PROVE  Triggered(s, TriggerTransmission(s, net))
<1> DEFINE t == IF s.ff > 0 THEN MESSAGE_FAST_INTERVAL
                            ELSE MESSAGE_TRANSMIT_INTERVAL
           p == [s EXCEPT !.timer = t, !.ready = TRUE]
<1>1. t \in Nat /\ t <= MESSAGE_TRANSMIT_INTERVAL
  BY SenderConstants
<1>2. TriggerTransmission(s, net) = TryTransmit(p, net)
  BY DEF TriggerTransmission
<1> HIDE DEF t
<1>3. InRange(p) /\ p.mac = s.mac /\ p.credits = s.credits /\ p.ready
      /\ p.up = s.up /\ p.out = s.out
  BY <1>1 DEF InRange, Sender
<1>4. s.credits \in Nat /\ s.out \in Seq(Frame)
  BY DEF InRange, Sender
<1> HIDE DEF p
<1> DEFINE r == TryTransmit(p, net)
<1>5. /\ Method(p, r)
      /\ Settled(r)
      /\ IF p.ready /\ p.credits > 0 /\ p.mac # None
         THEN ~r.ready /\ Len(r.out) = Len(p.out) + 1
         ELSE r = p
  BY <1>3, TryTransmitFacts
<1> HIDE DEF r
<1>6. Method(s, r)
  BY <1>3, <1>5 DEF Method
<1>7. Len(r.out) = Len(s.out) + 1 => r.out # <<>>
  BY <1>4
<1>8. TriggerTransmission(s, net) = r
  BY <1>2 DEF r
<1> QED
  BY <1>3, <1>4, <1>5, <1>6, <1>7, <1>8 DEF Triggered

LEMMA TimerExpiredFacts ==
    ASSUME NEW s, InRange(s), NEW net
    PROVE  Triggered(s, TimerExpired(s, net))
<1> DEFINE p == [s EXCEPT !.ff = IF @ > 0 THEN @ - 1 ELSE @]
<1>1. InRange(p) /\ p.mac = s.mac /\ p.credits = s.credits
      /\ p.up = s.up /\ p.out = s.out
  BY SenderConstants DEF InRange, Sender
<1>2. TimerExpired(s, net) = TriggerTransmission(p, net)
  BY DEF TimerExpired
<1> HIDE DEF p
<1>3. Triggered(p, TriggerTransmission(p, net))
  BY <1>1, TriggerFacts
<1> QED
  BY <1>1, <1>2, <1>3 DEF Triggered, Method

LEMMA NewNeighbourFacts ==
    ASSUME NEW s, InRange(s), NEW net
    PROVE  Triggered(s, NewNeighbour(s, net))
<1> DEFINE p == [s EXCEPT !.ff = IF @ = 0 THEN FAST_TRANSMIT_AMOUNT ELSE @]
<1>1. InRange(p) /\ p.mac = s.mac /\ p.credits = s.credits
      /\ p.up = s.up /\ p.out = s.out
  BY SenderConstants DEF InRange, Sender
<1>2. NewNeighbour(s, net) = TimerExpired(p, net)
  BY DEF NewNeighbour
<1> HIDE DEF p
<1>3. Triggered(p, TimerExpired(p, net))
  BY <1>1, TimerExpiredFacts
<1> QED
  BY <1>1, <1>2, <1>3 DEF Triggered, Method

----------------------------------------------------------------------------
\* The object UpdateState emplaces has no credit yet, so it sends nothing.
LEMMA CreateFacts ==
    ASSUME NEW d \in DeviceData, NEW net
    PROVE  /\ InRange(CreateLldpStateMachine(d, net))
           /\ Settled(CreateLldpStateMachine(d, net))
           /\ CreateLldpStateMachine(d, net).mac = d.mac
           /\ CreateLldpStateMachine(d, net).credits = 0
           /\ Len(CreateLldpStateMachine(d, net).out) = 0
<1> DEFINE b == Blank(d)
           c == Construct(d, net)
           r == NewNeighbour(c, net)
<1>1. InRange(b) /\ b.mac = d.mac /\ b.credits = 0 /\ Len(b.out) = 0
  BY SenderConstants DEF Blank, InRange, Sender, DeviceData
<1>2. InRange(c) /\ c.mac = d.mac /\ c.credits + Len(c.out) = 0
  <2>1. CASE d.up
    <3>1. c = NewNeighbour(b, net)
      BY <2>1 DEF Construct, EnableSender
    <3>2. Triggered(b, NewNeighbour(b, net))
      BY <1>1, NewNeighbourFacts
    <3> QED
      BY <1>1, <3>1, <3>2 DEF Triggered, Method
  <2>2. CASE ~d.up
    BY <1>1, <2>2 DEF Construct, DisableSender
  <2> QED
    BY <2>1, <2>2
<1> HIDE DEF b, c
<1>3. Triggered(c, r)
  BY <1>2, NewNeighbourFacts
<1>4. CreateLldpStateMachine(d, net) = r
  BY DEF CreateLldpStateMachine, r, c
<1> HIDE DEF r
<1>5. InRange(r) /\ Settled(r) /\ r.mac = d.mac /\ r.credits + Len(r.out) = 0
  BY <1>2, <1>3 DEF Triggered, Method
<1>6. r.credits \in Nat /\ Len(r.out) \in Nat
  BY <1>5 DEF InRange, Sender
<1> QED
  BY <1>4, <1>5, <1>6

\* Update pays for what it sends, and on an interface that stays operational
\* it sends, or leaves a trigger pending, or leaves the timer alone.
LEMMA UpdateFacts ==
    ASSUME NEW s, InRange(s), Settled(s), s.out = <<>>,
           NEW d \in DeviceData, NEW net
    PROVE  /\ InRange(Update(s, d, net))
           /\ Settled(Update(s, d, net))
           /\ Update(s, d, net).mac = s.mac
           /\ Update(s, d, net).credits + Len(Update(s, d, net).out) = s.credits
           /\ Len(Update(s, d, net).out) <= 2
           /\ (s.up /\ Update(s, d, net).up /\ Update(s, d, net).out = <<>>)
                 => \/ Update(s, d, net).ready
                    \/ /\ Update(s, d, net).timer = s.timer
                       /\ Update(s, d, net).ready = s.ready
<1> DEFINE named    == [s EXCEPT !.ip = d.ip]
           switched == IF d.up THEN DisableSender(named)
                               ELSE EnableSender(named, net)
           flagged  == IF s.up = d.up THEN named
                                      ELSE [switched EXCEPT !.up = d.up]
           changed  == s.ip # d.ip \/ s.up # d.up
           r        == IF changed THEN LocalChangeDetected(flagged, net)
                                  ELSE flagged
<1>1. Update(s, d, net) = r
  BY DEF Update
<1>2. s \in Sender /\ d.ip \in Addrs \cup {None} /\ d.up \in BOOLEAN
  BY DEF InRange, DeviceData
<1>3. /\ InRange(named) /\ named.mac = s.mac /\ named.credits = s.credits
      /\ named.out = s.out /\ named.timer = s.timer /\ named.ready = s.ready
      /\ named.up = s.up
  BY <1>2 DEF InRange, Sender
<1>4. Len(s.out) = 0 /\ s.credits \in Nat
  BY <1>2 DEF Sender
<1> HIDE DEF named
<1>5. InRange(switched) /\ switched.mac = s.mac
      /\ switched.credits + Len(switched.out) = s.credits /\ Len(switched.out) <= 1
  <2>1. CASE d.up
    BY <1>3, <1>4, <2>1 DEF DisableSender
  <2>2. CASE ~d.up
    <3>1. Triggered(named, NewNeighbour(named, net))
      BY <1>3, NewNeighbourFacts
    <3>2. switched = NewNeighbour(named, net)
      BY <2>2 DEF EnableSender
    <3> QED
      BY <1>3, <1>4, <3>1, <3>2 DEF Triggered, Method
  <2> QED
    BY <2>1, <2>2
<1> HIDE DEF switched
<1>6. /\ InRange(flagged) /\ flagged.mac = s.mac /\ flagged.up = d.up
      /\ flagged.credits + Len(flagged.out) = s.credits /\ Len(flagged.out) <= 1
  <2>1. CASE s.up = d.up
    BY <1>3, <1>4, <2>1
  <2>2. CASE s.up # d.up
    <3>1. /\ InRange([switched EXCEPT !.up = d.up])
          /\ [switched EXCEPT !.up = d.up].mac = switched.mac
          /\ [switched EXCEPT !.up = d.up].credits = switched.credits
          /\ [switched EXCEPT !.up = d.up].out = switched.out
          /\ [switched EXCEPT !.up = d.up].up = d.up
      BY <1>2, <1>5 DEF InRange, Sender
    <3> QED
      BY <1>5, <2>2, <3>1
  <2> QED
    BY <2>1, <2>2
<1>7. CASE changed
  <2> HIDE DEF flagged
  <2>1. Triggered(flagged, r)
    BY <1>6, <1>7, TriggerFacts DEF LocalChangeDetected
  <2> HIDE DEF r
  <2>2. InRange(r) /\ Settled(r) /\ r.mac = s.mac
        /\ r.credits + Len(r.out) = s.credits /\ (r.up => d.up)
    BY <1>6, <2>1 DEF Triggered, Method
  <2>a. Len(r.out) <= 2
    <3>1. Len(flagged.out) \in Nat /\ Len(r.out) \in Nat
      BY <1>6, <2>2 DEF InRange, Sender
    <3>2. Len(r.out) <= Len(flagged.out) + 1
      BY <2>1 DEF Triggered, Method
    <3> QED
      BY <1>6, <3>1, <3>2
  <2>3. (s.up /\ r.up /\ r.out = <<>>) => r.ready
    BY <1>6, <2>1 DEF Triggered, InRange, Sender
  <2> QED
    BY <1>1, <2>2, <2>a, <2>3
<1>8. CASE ~changed
  <2>1. r = named
    BY <1>8
  <2>2. Settled(named)
    BY <1>3 DEF Settled
  <2> QED
    BY <1>1, <1>3, <1>4, <2>1, <2>2
<1> QED
  BY <1>7, <1>8

\* A clock event of at most MAX_TRANSMIT_CREDITS seconds leaves the bucket
\* non-empty, so a sender that knows its MAC stays silent only while its timer
\* is still running and no trigger is pending.
LEMMA TickFacts ==
    ASSUME NEW s, InRange(s), Settled(s), s.out = <<>>, s.up,
           NEW delta \in 1..MAX_TRANSMIT_CREDITS, NEW net
    PROVE  /\ InRange(SenderTick(s, delta, net))
           /\ Settled(SenderTick(s, delta, net))
           /\ SenderTick(s, delta, net).mac = s.mac
           /\ SenderTick(s, delta, net).credits
                + Len(SenderTick(s, delta, net).out) <= s.credits + delta
           /\ Len(SenderTick(s, delta, net).out) <= 2
           /\ (s.mac # None /\ SenderTick(s, delta, net).out = <<>>)
                 => /\ ~s.ready
                    /\ ~SenderTick(s, delta, net).ready
                    /\ SenderTick(s, delta, net).timer > 0
                    /\ SenderTick(s, delta, net).timer + delta = s.timer
<1> DEFINE g == GrantCredits(s, delta)
           e == IF g.timer > delta THEN [g EXCEPT !.timer = @ - delta]
                                   ELSE TimerExpired([g EXCEPT !.timer = 0], net)
           r == TryTransmit(e, net)
<1>1. SenderTick(s, delta, net) = r
  BY DEF SenderTick
<1>2. s \in Sender /\ s.credits \in Nat /\ s.timer \in Nat /\ delta \in Nat
      /\ Len(s.out) = 0 /\ MAX_TRANSMIT_CREDITS \in Nat
  BY SenderConstants DEF InRange, Sender
<1>3. /\ InRange(g) /\ g.mac = s.mac /\ g.ready = s.ready /\ g.timer = s.timer
      /\ g.out = <<>> /\ g.credits > 0 /\ g.credits <= s.credits + delta
  BY <1>2 DEF GrantCredits, InRange, Sender
<1>4. g \in Sender /\ g.credits \in Nat /\ g.timer \in Nat
  BY <1>3 DEF InRange, Sender
<1> HIDE DEF g
<1>5. CASE g.timer > delta
  <2>1. g.timer - delta \in Nat /\ g.timer - delta <= g.timer
    BY <1>2, <1>4, <1>5
  <2>2. e = [g EXCEPT !.timer = g.timer - delta]
    BY <1>5
  <2>a. /\ e \in Sender /\ e.mac = g.mac /\ e.ready = g.ready
        /\ e.timer = g.timer - delta /\ e.out = g.out /\ e.credits = g.credits
        /\ e.ff = g.ff
    BY <1>4, <2>1, <2>2 DEF Sender
  <2> HIDE DEF e
  <2>3. InRange(e)
    BY <1>2, <1>3, <1>4, <2>1, <2>a, SenderConstants DEF InRange
  <2>4. /\ Method(e, r) /\ Settled(r) /\ r.timer = e.timer
        /\ IF e.ready /\ e.credits > 0 /\ e.mac # None
           THEN ~r.ready /\ Len(r.out) = Len(e.out) + 1
           ELSE r = e
    BY <2>3, TryTransmitFacts
  <2> HIDE DEF r
  <2>5. r.credits + Len(r.out) <= s.credits + delta
    BY <1>2, <1>3, <1>4, <2>a, <2>4 DEF Method
  <2>6. (s.mac # None /\ r.out = <<>>)
           => ~s.ready /\ ~r.ready /\ r.timer > 0 /\ r.timer + delta = s.timer
    BY <1>2, <1>3, <1>4, <1>5, <2>a, <2>4
  <2>7. Len(r.out) <= 2
    BY <1>3, <2>a, <2>4 DEF Method
  <2> QED
    BY <1>1, <1>3, <2>a, <2>4, <2>5, <2>6, <2>7 DEF Method
<1>6. CASE ~(g.timer > delta)
  <2> DEFINE z == [g EXCEPT !.timer = 0]
  <2>1. /\ z \in Sender /\ z.mac = g.mac /\ z.credits = g.credits
        /\ z.out = g.out /\ z.timer = 0 /\ z.ff = g.ff
    BY <1>4 DEF Sender
  <2>2. e = TimerExpired(z, net)
    BY <1>6
  <2> HIDE DEF z, e
  <2>a. InRange(z)
    BY <1>3, <2>1, SenderConstants DEF InRange
  <2>3. Triggered(z, e)
    BY <2>a, <2>2, TimerExpiredFacts
  <2>4. InRange(e) /\ e.mac = s.mac /\ e.credits + Len(e.out) = g.credits
        /\ Len(e.out) \in Nat /\ Len(e.out) <= 1
    BY <1>2, <1>3, <1>4, <2>1, <2>3 DEF Triggered, Method, InRange, Sender
  <2>5. s.mac # None => e.out # <<>>
    BY <1>3, <2>1, <2>3 DEF Triggered
  <2>6. Method(e, r) /\ Settled(r)
    BY <2>4, TryTransmitFacts
  <2> HIDE DEF r
  <2>7. r.out = <<>> => e.out = <<>>
    BY <2>4, <2>6 DEF Method, InRange, Sender
  <2>8. Len(r.out) <= 2
    <3>1. Len(r.out) \in Nat /\ Len(r.out) <= Len(e.out) + 1
      BY <2>6 DEF Method, InRange, Sender
    <3> QED
      BY <2>4, <3>1
  <2> QED
    BY <1>1, <1>2, <1>3, <1>4, <2>4, <2>5, <2>6, <2>7, <2>8 DEF Method
<1> QED
  BY <1>5, <1>6

\* The object at rest between two handlers.
LEMMA QuietFacts ==
    ASSUME NEW s, InRange(s), Settled(s)
    PROVE  /\ InRange(Quiet(s)) /\ Settled(Quiet(s))
           /\ Quiet(s).out = <<>> /\ Quiet(s).mac = s.mac
           /\ Quiet(s).credits = s.credits /\ Quiet(s).up = s.up
           /\ Quiet(s).ready = s.ready /\ Quiet(s).timer = s.timer
<1> DEFINE none == <<>>
           q == Quiet(s)
<1>a. none \in Seq(Frame)
  OBVIOUS
<1>b. q = [s EXCEPT !.out = none] /\ s \in Sender
  BY DEF Quiet, InRange
<1> HIDE DEF none, q
<1>1. /\ q \in Sender /\ q.out = none /\ q.mac = s.mac /\ q.credits = s.credits
      /\ q.up = s.up /\ q.ready = s.ready /\ q.timer = s.timer /\ q.ff = s.ff
  BY <1>a, <1>b DEF Sender
<1>2. InRange(q) /\ Settled(q)
  BY <1>1 DEF InRange, Settled
<1> QED
  BY <1>1, <1>2 DEF q, none

----------------------------------------------------------------------------
\* The frames the handler has sent so far announce the time to live and the MAC of
\* the sender, and none failed if the sender is still operational.
Honest(s) ==
    \A k \in 1..Len(s.out) : /\ s.out[k].ttl = TARGET_TTL /\ s.out[k].mac = s.mac
                             /\ s.up => ~s.out[k].lost

LEMMA SendHonest ==
    ASSUME NEW s, InRange(s), Honest(s), NEW net
    PROVE  Honest(SendLldp(s, TARGET_TTL, net))
<1> DEFINE f == [ttl |-> TARGET_TTL, mac |-> s.mac, ip |-> s.ip,
                 lost |-> net[Len(s.out) + 1] = "ENETDOWN"]
           r == SendLldp(s, TARGET_TTL, net)
<1>1. CASE s.mac = None
  BY <1>1 DEF SendLldp
<1>2. CASE s.mac # None
  <2>1. s.out \in Seq(Frame) /\ s \in Sender
    BY DEF InRange, Sender
  <2>2. f \in Frame /\ f.ttl = TARGET_TTL /\ f.mac = s.mac
        /\ f.lost = (net[Len(s.out) + 1] = "ENETDOWN")
    BY SenderConstants, <2>1 DEF Frame, Sender
  <2> HIDE DEF f
  <2>3. r = [s EXCEPT !.out = Append(s.out, f),
                      !.up  = s.up /\ net[Len(s.out) + 1] # "ENETDOWN"]
    BY <1>2 DEF SendLldp, f
  <2>4. r.out = Append(s.out, f) /\ r.mac = s.mac /\ (r.up => s.up /\ ~f.lost)
    BY <2>1, <2>2, <2>3 DEF Sender
  <2>5. \A k \in 1..Len(r.out) : \/ k \in 1..Len(s.out) /\ r.out[k] = s.out[k]
                                 \/ r.out[k] = f
    BY <2>1, <2>2, <2>4
  <2> HIDE DEF r
  <2>6. Honest(r)
    BY <2>2, <2>4, <2>5 DEF Honest
  <2> QED
    BY <2>6 DEF r
<1> QED
  BY <1>1, <1>2

LEMMA TryHonest ==
    ASSUME NEW s, InRange(s), Honest(s), NEW net
    PROVE  Honest(TryTransmit(s, net))
<1>1. CASE s.ready /\ s.credits > 0 /\ s.mac # None
  <2> DEFINE p == [s EXCEPT !.ready = FALSE, !.credits = s.credits - 1]
  <2>1. s \in Sender /\ s.credits \in Nat /\ s.credits - 1 \in Nat
    BY <1>1 DEF InRange, Sender
  <2>2. /\ p \in Sender /\ p.mac = s.mac /\ p.credits = s.credits - 1
        /\ p.timer = s.timer /\ p.ff = s.ff /\ p.up = s.up /\ p.out = s.out
    BY <2>1 DEF Sender
  <2>3. TryTransmit(s, net) = SendLldp(p, TARGET_TTL, net)
    BY <1>1 DEF TryTransmit
  <2> HIDE DEF p
  <2>4. InRange(p) /\ Honest(p)
    BY <2>1, <2>2, SenderConstants DEF InRange, Honest
  <2> QED
    BY <2>3, <2>4, SendHonest
<1>2. CASE ~(s.ready /\ s.credits > 0 /\ s.mac # None)
  BY <1>2 DEF TryTransmit
<1> QED
  BY <1>1, <1>2

LEMMA TriggerHonest ==
    ASSUME NEW s, InRange(s), Honest(s), NEW net
    PROVE  Honest(TriggerTransmission(s, net))
<1> DEFINE t == IF s.ff > 0 THEN MESSAGE_FAST_INTERVAL
                            ELSE MESSAGE_TRANSMIT_INTERVAL
           p == [s EXCEPT !.timer = t, !.ready = TRUE]
<1>1. t \in Nat /\ t <= MESSAGE_TRANSMIT_INTERVAL
  BY SenderConstants
<1>2. TriggerTransmission(s, net) = TryTransmit(p, net)
  BY DEF TriggerTransmission
<1> HIDE DEF t
<1>3. InRange(p) /\ p.mac = s.mac /\ p.up = s.up /\ p.out = s.out
  BY <1>1 DEF InRange, Sender
<1> HIDE DEF p
<1>4. Honest(p)
  BY <1>3 DEF Honest
<1> QED
  BY <1>2, <1>3, <1>4, TryHonest

LEMMA TimerExpiredHonest ==
    ASSUME NEW s, InRange(s), Honest(s), NEW net
    PROVE  Honest(TimerExpired(s, net))
<1> DEFINE p == [s EXCEPT !.ff = IF @ > 0 THEN @ - 1 ELSE @]
<1>1. InRange(p) /\ p.mac = s.mac /\ p.up = s.up /\ p.out = s.out
  BY SenderConstants DEF InRange, Sender
<1>2. TimerExpired(s, net) = TriggerTransmission(p, net)
  BY DEF TimerExpired
<1> HIDE DEF p
<1>3. Honest(p)
  BY <1>1 DEF Honest
<1> QED
  BY <1>1, <1>2, <1>3, TriggerHonest

LEMMA NewNeighbourHonest ==
    ASSUME NEW s, InRange(s), Honest(s), NEW net
    PROVE  Honest(NewNeighbour(s, net))
<1> DEFINE p == [s EXCEPT !.ff = IF @ = 0 THEN FAST_TRANSMIT_AMOUNT ELSE @]
<1>1. InRange(p) /\ p.mac = s.mac /\ p.up = s.up /\ p.out = s.out
  BY SenderConstants DEF InRange, Sender
<1>2. NewNeighbour(s, net) = TimerExpired(p, net)
  BY DEF NewNeighbour
<1> HIDE DEF p
<1>3. Honest(p)
  BY <1>1 DEF Honest
<1> QED
  BY <1>1, <1>2, <1>3, TimerExpiredHonest

LEMMA UpdateHonest ==
    ASSUME NEW s, InRange(s), s.out = <<>>, NEW d \in DeviceData, NEW net
    PROVE  Honest(Update(s, d, net))
<1> DEFINE named    == [s EXCEPT !.ip = d.ip]
           switched == IF d.up THEN DisableSender(named)
                               ELSE EnableSender(named, net)
           flagged  == IF s.up = d.up THEN named
                                      ELSE [switched EXCEPT !.up = d.up]
           changed  == s.ip # d.ip \/ s.up # d.up
           r        == IF changed THEN LocalChangeDetected(flagged, net)
                                  ELSE flagged
<1>1. Update(s, d, net) = r
  BY DEF Update
<1>2. s \in Sender /\ d.ip \in Addrs \cup {None} /\ d.up \in BOOLEAN
  BY DEF InRange, DeviceData
<1>3. InRange(named) /\ named.mac = s.mac /\ named.out = <<>>
  BY <1>2 DEF InRange, Sender
<1> HIDE DEF named
<1>4. Honest(named)
  BY <1>3 DEF Honest
<1>5. InRange(switched) /\ Honest(switched) /\ (d.up => switched.out = <<>>)
  <2>1. CASE d.up
    BY <1>3, <1>4, <2>1 DEF DisableSender
  <2>2. CASE ~d.up
    <3>1. Triggered(named, NewNeighbour(named, net)) /\ Honest(NewNeighbour(named, net))
      BY <1>3, <1>4, NewNeighbourFacts, NewNeighbourHonest
    <3>2. switched = NewNeighbour(named, net)
      BY <2>2 DEF EnableSender
    <3> QED
      BY <2>2, <3>1, <3>2 DEF Triggered, Method
  <2> QED
    BY <2>1, <2>2
<1> HIDE DEF switched
<1>6. InRange(flagged) /\ Honest(flagged)
  <2>1. CASE s.up = d.up
    BY <1>3, <1>4, <2>1
  <2>2. CASE s.up # d.up
    <3> DEFINE w == [switched EXCEPT !.up = d.up]
    <3>1. InRange(w) /\ w.mac = switched.mac /\ w.out = switched.out /\ w.up = d.up
      BY <1>2, <1>5 DEF InRange, Sender
    <3>2. flagged = w
      BY <2>2
    <3> HIDE DEF w
    <3>3. Honest(w)
      <4>1. CASE d.up
        BY <1>5, <3>1, <4>1 DEF Honest
      <4>2. CASE ~d.up
        BY <1>5, <3>1, <4>2 DEF Honest
      <4> QED
        BY <4>1, <4>2
    <3> QED
      BY <3>1, <3>2, <3>3
  <2> QED
    BY <2>1, <2>2
<1> HIDE DEF flagged
<1>7. Honest(r)
  BY <1>6, TriggerHonest DEF LocalChangeDetected
<1> QED
  BY <1>1, <1>7

LEMMA TickHonest ==
    ASSUME NEW s, InRange(s), s.out = <<>>, NEW delta \in Nat \ {0}, NEW net
    PROVE  Honest(SenderTick(s, delta, net))
<1> DEFINE g == GrantCredits(s, delta)
           e == IF g.timer > delta THEN [g EXCEPT !.timer = @ - delta]
                                   ELSE TimerExpired([g EXCEPT !.timer = 0], net)
<1>1. s \in Sender /\ s.credits \in Nat /\ Honest(s) /\ MAX_TRANSMIT_CREDITS \in Nat
  BY SenderConstants DEF InRange, Sender, Honest
<1>2. InRange(g) /\ g.out = <<>> /\ g \in Sender /\ g.timer \in Nat
  BY <1>1 DEF GrantCredits, InRange, Sender
<1>3. SenderTick(s, delta, net) = IF s.up THEN TryTransmit(e, net) ELSE s
  BY DEF SenderTick
<1> HIDE DEF g
<1>4. InRange(e) /\ Honest(e)
  <2>1. CASE g.timer > delta
    <3>1. g.timer - delta \in Nat /\ g.timer - delta <= g.timer
      BY <1>2, <2>1
    <3>2. e = [g EXCEPT !.timer = g.timer - delta]
      BY <2>1
    <3>3. e \in Sender /\ e.timer = g.timer - delta /\ e.out = <<>>
          /\ e.credits = g.credits /\ e.ff = g.ff
      BY <1>2, <3>1, <3>2 DEF Sender
    <3> HIDE DEF e
    <3>4. InRange(e)
      BY <1>2, <3>1, <3>3, SenderConstants DEF InRange
    <3> QED
      BY <3>3, <3>4 DEF Honest
  <2>2. CASE ~(g.timer > delta)
    <3> DEFINE z == [g EXCEPT !.timer = 0]
    <3>1. z \in Sender /\ z.out = <<>> /\ z.timer = 0 /\ z.credits = g.credits /\ z.ff = g.ff
      BY <1>2 DEF Sender
    <3>2. e = TimerExpired(z, net)
      BY <2>2
    <3> HIDE DEF z, e
    <3>3. InRange(z) /\ Honest(z)
      BY <1>2, <3>1, SenderConstants DEF InRange, Honest
    <3>4. Triggered(z, e) /\ Honest(e)
      BY <3>2, <3>3, TimerExpiredFacts, TimerExpiredHonest
    <3> QED
      BY <3>4 DEF Triggered, Method
  <2> QED
    BY <2>1, <2>2
<1> HIDE DEF e
<1> QED
  BY <1>1, <1>3, <1>4, TryHonest
=============================================================================

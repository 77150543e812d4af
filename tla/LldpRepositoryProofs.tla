------------------------ MODULE LldpRepositoryProofs ------------------------
(***************************************************************************)
(* Proofs about the transmit state machines, for every set of interfaces    *)
(* and every value of the protocol constants that SenderConstants and       *)
(* RepositoryConstants allow.                                               *)
(*                                                                          *)
(* The argument works one sender at a time: LldpSenderProofs says what each *)
(* method does, and the invariant is a predicate of one interface.          *)
(***************************************************************************)
EXTENDS LldpRepository, LldpSenderProofs

\* The silence of an announced interface never exceeds one transmit interval,
\* and what is left on the timer fits into the rest of that interval unless a
\* trigger is already waiting for a credit.
NotSilent(s, silence) ==
    (s.up /\ s.mac # None) =>
        /\ silence <= MESSAGE_TRANSMIT_INTERVAL
        /\ ~s.ready => silence + s.timer <= MESSAGE_TRANSMIT_INTERVAL

\* The inductive invariant, for one interface.  Credits still in the bucket
\* count as frames already sent.
SenderInv(s, seconds, frames, silence) ==
    /\ seconds \in Nat
    /\ frames \in Nat
    /\ silence \in Nat
    /\ frames <= seconds
    /\ s # None => /\ InRange(s)
                   /\ Settled(s)
                   /\ s.out = <<>>
                   /\ frames + s.credits <= seconds
                   /\ NotSilent(s, silence)

Inv ==
    /\ current_state = [i \in Ifs |-> current_state[i]]
    /\ elapsed = [i \in Ifs |-> elapsed[i]]
    /\ sent = [i \in Ifs |-> sent[i]]
    /\ since = [i \in Ifs |-> since[i]]
    /\ wire \in [Ifs -> Seq(Frame)]
    /\ \A i \in Ifs :
          SenderInv(current_state[i], elapsed[i], sent[i], since[i])

LEMMA InitInv == Init => Inv
  BY SenderConstants DEF Init, Inv, SenderInv

LEMMA UpdateStateInv ==
    ASSUME Inv, NEW net, NEW new_state \in DeviceTable,
           UpdateState(new_state, net)
    PROVE  Inv'
<1> DEFINE s(i)    == current_state[i]
           d(i)    == new_state[i]
           r(i)    == UpdatedSender(s(i), d(i), net[i])
           kept(i) == d(i) # None
<1>1. ASSUME NEW i \in Ifs
      PROVE  /\ SenderInv(current_state[i], elapsed[i], sent[i], since[i])'
             /\ wire'[i] \in Seq(Frame)
  <2>0. SenderInv(s(i), elapsed[i], sent[i], since[i])
    BY DEF Inv
  <2>1. CASE ~kept(i)
    <3>1. current_state'[i] = None /\ elapsed'[i] = 0 /\ sent'[i] = 0
          /\ since'[i] = 0
          /\ wire'[i] = DeleteLldpStateMachine(s(i), net[i])
      BY <2>1 DEF UpdateState
    <3>2. CASE s(i) = None
      BY <3>1, <3>2 DEF DeleteLldpStateMachine, SenderInv
    <3>3. CASE s(i) # None
      <4>1. InRange(EndTransmission(s(i), net[i]))
        BY <2>0, <3>3, SendLldpFacts DEF SenderInv, EndTransmission
      <4>2. wire'[i] = EndTransmission(s(i), net[i]).out
        BY <3>1, <3>3 DEF DeleteLldpStateMachine
      <4>3. wire'[i] \in Seq(Frame)
        BY <4>1, <4>2 DEF InRange, Sender
      <4> QED
        BY <3>1, <4>3 DEF SenderInv
    <3> QED
      BY <3>2, <3>3
  <2>2. CASE kept(i) /\ s(i) = None
    <3>1. d(i) \in DeviceData
      BY <2>2 DEF DeviceTable
    <3>2. r(i) = CreateLldpStateMachine(d(i), net[i])
      BY <2>2 DEF UpdatedSender
    <3>3. InRange(r(i)) /\ Settled(r(i)) /\ r(i).credits = 0 /\ Len(r(i).out) = 0
      BY <3>1, <3>2, CreateFacts
    <3>4. /\ current_state'[i] = Quiet(r(i)) /\ elapsed'[i] = 0
          /\ sent'[i] = Len(r(i).out) /\ since'[i] = 0 /\ wire'[i] = r(i).out
      BY <2>2 DEF UpdateState
    <3> HIDE DEF r
    <3>5. /\ InRange(Quiet(r(i))) /\ Settled(Quiet(r(i)))
          /\ Quiet(r(i)).out = <<>> /\ Quiet(r(i)).credits = 0
      BY <3>3, QuietFacts
    <3>6. NotSilent(Quiet(r(i)), 0)
      BY <3>5, SenderConstants DEF NotSilent, InRange, Sender
    <3>7. r(i).out \in Seq(Frame)
      BY <3>3 DEF InRange, Sender
    <3> QED
      BY <3>3, <3>4, <3>5, <3>6, <3>7 DEF SenderInv
  <2>3. CASE kept(i) /\ s(i) # None
    <3>1. d(i) \in DeviceData
      BY <2>3 DEF DeviceTable
    <3>2. r(i) = Update(s(i), d(i), net[i])
      BY <2>3 DEF UpdatedSender
    <3>3. /\ InRange(s(i)) /\ Settled(s(i)) /\ s(i).out = <<>>
          /\ elapsed[i] \in Nat /\ sent[i] \in Nat /\ since[i] \in Nat
          /\ sent[i] + s(i).credits <= elapsed[i]
          /\ NotSilent(s(i), since[i])
      BY <2>0, <2>3 DEF SenderInv
    <3>4. /\ InRange(r(i)) /\ Settled(r(i)) /\ r(i).mac = s(i).mac
          /\ r(i).credits + Len(r(i).out) = s(i).credits
          /\ (s(i).up /\ r(i).up /\ r(i).out = <<>>)
                => \/ r(i).ready
                   \/ r(i).timer = s(i).timer /\ r(i).ready = s(i).ready
      BY <3>1, <3>2, <3>3, UpdateFacts
    <3>5. /\ current_state'[i] = Quiet(r(i)) /\ elapsed'[i] = elapsed[i]
          /\ sent'[i] = sent[i] + Len(r(i).out) /\ wire'[i] = r(i).out
          /\ since'[i] = IF (~s(i).up /\ r(i).up) \/ r(i).out # <<>>
                         THEN 0 ELSE since[i]
      BY <2>3 DEF UpdateState
    <3> HIDE DEF r, s
    <3>6. /\ InRange(Quiet(r(i))) /\ Settled(Quiet(r(i)))
          /\ Quiet(r(i)).out = <<>> /\ Quiet(r(i)).credits = r(i).credits
          /\ Quiet(r(i)).up = r(i).up /\ Quiet(r(i)).mac = r(i).mac
          /\ Quiet(r(i)).ready = r(i).ready /\ Quiet(r(i)).timer = r(i).timer
      BY <3>4, QuietFacts
    <3>7. r(i).credits \in Nat /\ s(i).credits \in Nat /\ r(i).timer \in Nat
          /\ r(i).out \in Seq(Frame) /\ Len(r(i).out) \in Nat
          /\ r(i).timer <= MESSAGE_TRANSMIT_INTERVAL /\ s(i).up \in BOOLEAN
          /\ r(i).ready \in BOOLEAN /\ s(i).ready \in BOOLEAN
      BY <3>3, <3>4 DEF InRange, Sender
    <3>8. NotSilent(Quiet(r(i)), since'[i])
      <4>1. CASE since'[i] = 0
        BY <3>6, <3>7, <4>1, SenderConstants DEF NotSilent
      <4>2. CASE since'[i] # 0
        BY <3>3, <3>4, <3>5, <3>6, <3>7, <4>2 DEF NotSilent
      <4> QED
        BY <4>1, <4>2
    <3>9. sent'[i] + r(i).credits <= elapsed'[i] /\ sent'[i] \in Nat
      BY <3>3, <3>4, <3>5, <3>7
    <3>10. since'[i] \in Nat
      BY <3>3, <3>5
    <3> QED
      BY <3>3, <3>5, <3>6, <3>7, <3>8, <3>9, <3>10 DEF SenderInv
  <2> QED
    BY <2>1, <2>2, <2>3
<1>2. /\ current_state' = [i \in Ifs |-> current_state'[i]]
      /\ elapsed' = [i \in Ifs |-> elapsed'[i]]
      /\ sent' = [i \in Ifs |-> sent'[i]]
      /\ since' = [i \in Ifs |-> since'[i]]
      /\ wire' = [i \in Ifs |-> wire'[i]]
  BY DEF UpdateState
<1>3. wire' \in [Ifs -> Seq(Frame)]
  BY <1>1, <1>2
<1> QED
  BY <1>1, <1>2, <1>3 DEF Inv

LEMMA TickInv ==
    ASSUME Inv, NEW net, NEW delta \in 1..MaxDelta, Tick(delta, net)
    PROVE  Inv'
<1> DEFINE s(i)    == current_state[i]
           r(i)    == SenderTick(s(i), delta, net[i])
<1>0. delta \in 1..MAX_TRANSMIT_CREDITS /\ delta \in Nat
  BY SenderConstants, RepositoryConstants
<1>1. ASSUME NEW i \in Ifs
      PROVE  /\ SenderInv(current_state[i], elapsed[i], sent[i], since[i])'
             /\ wire'[i] \in Seq(Frame)
  <2>0. SenderInv(s(i), elapsed[i], sent[i], since[i])
    BY DEF Inv
  <2>1. CASE s(i) = None
    <3>1. /\ current_state'[i] = None /\ elapsed'[i] = elapsed[i]
          /\ sent'[i] = sent[i] /\ since'[i] = since[i] /\ wire'[i] = <<>>
      BY <2>1 DEF Tick
    <3> QED
      BY <2>0, <2>1, <3>1 DEF SenderInv
  <2>2. CASE s(i) # None /\ ~s(i).up
    <3>1. /\ current_state'[i] = Quiet(s(i)) /\ elapsed'[i] = elapsed[i]
          /\ sent'[i] = sent[i] /\ since'[i] = since[i] /\ wire'[i] = s(i).out
      BY <2>2 DEF Tick, SenderTick
    <3>2. InRange(s(i)) /\ Settled(s(i)) /\ s(i).out = <<>>
      BY <2>0, <2>2 DEF SenderInv
    <3>3. /\ InRange(Quiet(s(i))) /\ Settled(Quiet(s(i)))
          /\ Quiet(s(i)).out = <<>> /\ Quiet(s(i)).credits = s(i).credits
          /\ Quiet(s(i)).up = s(i).up
      BY <3>2, QuietFacts
    <3> QED
      BY <2>0, <2>2, <3>1, <3>2, <3>3 DEF SenderInv, NotSilent
  <2>3. CASE s(i) # None /\ s(i).up
    <3>3. /\ InRange(s(i)) /\ Settled(s(i)) /\ s(i).out = <<>>
          /\ elapsed[i] \in Nat /\ sent[i] \in Nat /\ since[i] \in Nat
          /\ sent[i] + s(i).credits <= elapsed[i]
          /\ NotSilent(s(i), since[i])
      BY <2>0, <2>3 DEF SenderInv
    <3>4. /\ InRange(r(i)) /\ Settled(r(i)) /\ r(i).mac = s(i).mac
          /\ r(i).credits + Len(r(i).out) <= s(i).credits + delta
          /\ (s(i).mac # None /\ r(i).out = <<>>)
                => ~s(i).ready /\ ~r(i).ready /\ r(i).timer + delta = s(i).timer
      BY <1>0, <2>3, <3>3, TickFacts
    <3>5. /\ current_state'[i] = Quiet(r(i)) /\ elapsed'[i] = elapsed[i] + delta
          /\ sent'[i] = sent[i] + Len(r(i).out) /\ wire'[i] = r(i).out
          /\ since'[i] = IF r(i).out # <<>> THEN 0 ELSE since[i] + delta
      BY <2>3 DEF Tick
    <3> HIDE DEF r, s
    <3>6. /\ InRange(Quiet(r(i))) /\ Settled(Quiet(r(i)))
          /\ Quiet(r(i)).out = <<>> /\ Quiet(r(i)).credits = r(i).credits
          /\ Quiet(r(i)).up = r(i).up /\ Quiet(r(i)).mac = r(i).mac
          /\ Quiet(r(i)).ready = r(i).ready /\ Quiet(r(i)).timer = r(i).timer
      BY <3>4, QuietFacts
    <3>7. r(i).credits \in Nat /\ s(i).credits \in Nat /\ r(i).timer \in Nat
          /\ s(i).timer \in Nat
          /\ r(i).out \in Seq(Frame) /\ Len(r(i).out) \in Nat
          /\ r(i).timer <= MESSAGE_TRANSMIT_INTERVAL
      BY <3>3, <3>4 DEF InRange, Sender
    <3>8. NotSilent(Quiet(r(i)), since'[i])
      <4>1. CASE since'[i] = 0
        BY <3>6, <3>7, <4>1, SenderConstants DEF NotSilent
      <4>2. CASE since'[i] # 0
        <5>1. r(i).out = <<>> /\ since'[i] = since[i] + delta
          BY <3>5, <4>2
        <5> SUFFICES ASSUME Quiet(r(i)).mac # None
                     PROVE  /\ since'[i] <= MESSAGE_TRANSMIT_INTERVAL
                            /\ since'[i] + Quiet(r(i)).timer
                                 <= MESSAGE_TRANSMIT_INTERVAL
          BY DEF NotSilent
        <5>2. s(i).mac # None /\ r(i).timer + delta = s(i).timer /\ ~s(i).ready
          BY <3>4, <3>6, <5>1
        <5>3. since[i] + s(i).timer <= MESSAGE_TRANSMIT_INTERVAL
          BY <2>3, <3>3, <5>2 DEF NotSilent
        <5>4. MESSAGE_TRANSMIT_INTERVAL \in Nat
          BY SenderConstants
        <5> QED
          BY <1>0, <3>3, <3>6, <3>7, <5>1, <5>2, <5>3, <5>4
      <4> QED
        BY <4>1, <4>2
    <3>9. sent'[i] + r(i).credits <= elapsed'[i] /\ sent'[i] \in Nat
          /\ elapsed'[i] \in Nat
      <4> DEFINE cr == r(i).credits
                 n  == Len(r(i).out)
                 cs == s(i).credits
                 el == elapsed[i]
                 sn == sent[i]
      <4>1. cr + n <= cs + delta /\ sn + cs <= el
        BY <3>3, <3>4
      <4>2. cr \in Nat /\ n \in Nat /\ cs \in Nat /\ el \in Nat /\ sn \in Nat
        BY <3>3, <3>7
      <4>3. sent'[i] = sn + n /\ elapsed'[i] = el + delta
        BY <3>5
      <4> HIDE DEF cr, n, cs, el, sn
      <4>4. (sn + n) + cr <= el + delta /\ sn + n \in Nat /\ el + delta \in Nat
        BY <1>0, <4>1, <4>2
      <4> QED
        BY <4>3, <4>4 DEF cr
    <3>10. since'[i] \in Nat
      BY <1>0, <3>3, <3>5
    <3> QED
      BY <3>3, <3>5, <3>6, <3>7, <3>8, <3>9, <3>10 DEF SenderInv
  <2> QED
    BY <2>1, <2>2, <2>3
<1>2. /\ current_state' = [i \in Ifs |-> current_state'[i]]
      /\ elapsed' = [i \in Ifs |-> elapsed'[i]]
      /\ sent' = [i \in Ifs |-> sent'[i]]
      /\ since' = [i \in Ifs |-> since'[i]]
      /\ wire' = [i \in Ifs |-> wire'[i]]
  BY DEF Tick
<1>3. wire' \in [Ifs -> Seq(Frame)]
  BY <1>1, <1>2
<1> QED
  BY <1>1, <1>2, <1>3 DEF Inv

\* The inductive invariant holds throughout.
THEOREM Invariance == Spec => []Inv
<1>1. Inv /\ [Next]_vars => Inv'
  <2> SUFFICES ASSUME Inv, [Next]_vars PROVE Inv'
    OBVIOUS
  <2>1. CASE UNCHANGED vars
    BY <2>1 DEF vars, Inv
  <2>2. CASE Next
    BY <2>2, UpdateStateInv, TickInv DEF Next
  <2> QED
    BY <2>1, <2>2
<1> QED
  BY InitInv, <1>1, PTL DEF Spec

\* Every member of every sender stays in its range, whatever device tables the
\* callback delivers and however sendto() fails (LldpSender, LldpRepository).
THEOREM TypeCorrect == Spec => []TypeOK
<1>1. Inv => TypeOK
  BY DEF Inv, SenderInv, TypeOK, InRange
<1> QED
  BY <1>1, Invariance, PTL

\* The credit bucket of LldpSender limits every interface to one announcement
\* per operational second, over any length of time.
THEOREM RateLimited == Spec => []RateLimit
<1>1. Inv => RateLimit
  BY DEF Inv, SenderInv, RateLimit
<1> QED
  BY <1>1, Invariance, PTL

\* No method of LldpSender leaves a trigger pending that it could have served.
THEOREM TriggersServed == Spec => []TriggerNotLost
<1>1. Inv => TriggerNotLost
  BY DEF Inv, SenderInv, Settled, TriggerNotLost
<1> QED
  BY <1>1, Invariance, PTL

\* As long as no clock event reports more seconds than the bucket holds, an
\* announced interface is heard again before its time to live runs out.
THEOREM HeardInTime == Spec => []NeverSilentTooLong
<1>1. Inv => NeverSilentTooLong
  BY SenderConstants, RepositoryConstants
     DEF Inv, SenderInv, NotSilent, NeverSilentTooLong
<1> QED
  BY <1>1, Invariance, PTL
=============================================================================

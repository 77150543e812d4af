------------------------ MODULE ClientSessionsProofs ------------------------
(***************************************************************************)
(* Safety of the event loop and its clients, for any number of clients,     *)
(* batch size, packet limit and sizes of the queues: type correctness, that *)
(* no handler reads in vain, and that answers are tables.                   *)
(***************************************************************************)
EXTENDS ClientSessions, ClientPacketsProofs

Session == [client : Clients, eof_received : BOOLEAN]

\* Packets of responses.
Packet == UNION {Range(DumpData(t)) : t \in Tables}

DaemonType ==
    /\ status \in {"running", "exited", "killed"}
    /\ signals \subseteq Signals /\ interrupt_flag \in BOOLEAN
    /\ table \in Tables /\ news \in 0 .. MaxNews /\ faults \in 0 .. MaxFaults

ServiceType ==
    /\ batch \in Seq(Nat)
    /\ sessions \in [DOMAIN sessions -> Session] /\ DOMAIN sessions \subseteq SessionFds
    /\ sending = Idle \/ sending \in [fd : DOMAIN sessions, packets : Seq(Packet) \ {<<>>}]
    /\ status # "running" => batch = <<>> /\ sending = Idle /\ DOMAIN sessions = {}

ClientType ==
    /\ backlog \in Seq(Clients)
    /\ phase \in [Clients -> {"off", "idle", "waiting", "gone"}]
    /\ requests \in [Clients -> 0 .. Window]
    /\ inbox \in [Clients -> Seq(Packet)]
    /\ \A c \in Clients : Len(inbox[c]) <= Window
    /\ received \in [Clients -> Seq(Packet)]

TypeInv == DaemonType /\ ServiceType /\ ClientType

\* Each client has one connection at most.
ConnInv ==
    /\ \A fd, d \in DOMAIN sessions : sessions[fd].client = sessions[d].client => fd = d
    /\ \A k, l \in DOMAIN backlog : backlog[k] = backlog[l] => k = l
    /\ \A k \in DOMAIN backlog, fd \in DOMAIN sessions : backlog[k] # sessions[fd].client
    /\ \A c \in Clients : phase[c] = "off" => ~Connected(c)
    /\ \A fd \in DOMAIN sessions :
          sessions[fd].eof_received => phase[sessions[fd].client] = "gone"
    /\ \A c \in reset : phase[c] = "gone"

\* These descriptors are registered, each under a handle of its own, and epoll
\* knows them by it.  Handles that are given out later are greater.
Wired(m, fds) ==
    /\ DOMAIN m = {"registered", "event_id_counter", "interest"}
    /\ DOMAIN m.interest = fds
    /\ DOMAIN m.registered = {m.interest[fd] : fd \in fds}
    /\ \A fd \in fds : m.registered[m.interest[fd]] = fd
    /\ m.event_id_counter \in Nat
    /\ \A h \in DOMAIN m.registered : h \in Nat /\ h < m.event_id_counter

Descriptors == IF status = "running" THEN DOMAIN sessions \cup Fixed ELSE {}

BatchInv ==
    /\ \A m, n \in DOMAIN batch : batch[m] = batch[n] => m = n
    /\ \A n \in DOMAIN batch : batch[n] < manager.event_id_counter
    /\ NeverReadsInVain

LoopInv == TypeInv /\ ConnInv /\ Wired(manager, Descriptors)

\* What the daemon is sending to client c.
SendingTo(c) == sending # Idle /\ sessions[sending.fd].client = c

\* While c waits, what it has read, what is in its socket and what is still to be
\* sent are the response for one of the tables since its request.
Underway(c) ==
    \E t \in shown[c], rest \in Seq(Packet) :
        /\ received[c] \o inbox[c] \o rest = DumpData(t)
        /\ inbox[c] \o rest # <<>>
        /\ Connected(c) => rest = IF SendingTo(c) THEN sending.packets ELSE <<>>

\* A client that has not connected has nothing.
Unused(c) == phase[c] = "off" => requests[c] = 0 /\ inbox[c] = <<>> /\ shown[c] = {}

Watching(c) == phase[c] = "waiting" => table \in shown[c]

\* Between requests nothing is on the way to the client, and what it has read is a
\* whole response or was cut short with the connection, which then may have taken a
\* request with it.
AtRest(c) ==
    phase[c] = "idle" =>
        /\ inbox[c] = <<>> /\ requests[c] \in {0, 1}
        /\ Connected(c) => requests[c] = 0 /\ ~SendingTo(c)
        /\ \/ shown[c] = {}
           \/ \E t \in shown[c] : received[c] = DumpData(t)
           \/ ~Connected(c) /\ \A k \in DOMAIN received[c] : received[c][k] # End

\* During a request either it or its response is on the way.
Waits(c) ==
    phase[c] = "waiting" =>
        \/ requests[c] = 1 /\ received[c] = <<>> /\ inbox[c] = <<>> /\ ~SendingTo(c)
        \/ requests[c] = 0 /\ Underway(c)

Stream(c) ==
    /\ Unused(c) /\ Watching(c)
    /\ c \in overrun \/ (AtRest(c) /\ Waits(c))

StreamInv ==
    /\ shown \in [Clients -> SUBSET Tables]
    /\ \A c \in Clients : Stream(c)

----------------------------------------------------------------------------
(* The operators of EventManager.                                           *)

\* The handles of the descriptors in F are as many at most.
LEMMA FiniteHandles ==
    ASSUME NEW m, NEW F, Wired(m, F), IsFiniteSet(F)
    PROVE  Cardinality(DOMAIN m.registered) \in Nat
<1> DEFINE H == {m.interest[fd] : fd \in F}
           f == [fd \in F |-> m.interest[fd]]
<1>1. f \in Surjection(F, H)
  BY DEF Surjection
<1>2. IsFiniteSet(H)
  <2> HIDE DEF f, H
  <2> QED  BY <1>1, FS_Surjection
<1>3. DOMAIN m.registered = H
  BY DEF Wired
<1> QED
  BY <1>2, <1>3, FS_CardinalityType

\* A new handler gets a handle that was never given out, and the others keep theirs.
LEMMA AddWired ==
    ASSUME NEW m, NEW F, Wired(m, F), IsFiniteSet(F), NEW fd, fd \notin F
    PROVE  /\ Wired(Add(m, fd), F \cup {fd})
           /\ m.event_id_counter < Add(m, fd).event_id_counter
           /\ \A h \in DOMAIN m.registered : Add(m, fd).registered[h] = m.registered[h]
           /\ \A h \in DOMAIN Add(m, fd).registered :
                 h < m.event_id_counter => h \in DOMAIN m.registered
<1> DEFINE n       == FreeHandle(m)
           counter == m.event_id_counter
           after   == Add(m, fd)
<1>1. counter \in Nat /\ (\A h \in DOMAIN m.registered : h \in Nat /\ h < counter)
  BY DEF Wired
<1>2. n \in Nat /\ n >= counter
  <2> DEFINE Taken(k) == k \in DOMAIN m.registered
             span     == counter..(counter + Cardinality(DOMAIN m.registered))
  <2>1. counter \in span
    BY <1>1, FiniteHandles
  <2>2. ~Taken(counter) /\ \A k \in counter..(counter - 1) : Taken(k)
    BY <1>1
  <2>3. n = CHOOSE k \in span : ~Taken(k) /\ \A l \in counter..(k - 1) : Taken(l)
    BY DEF FreeHandle
  <2>4. n \in span
    <3> HIDE DEF n, span, Taken
    <3> QED  BY <2>1, <2>2, <2>3
  <2> QED
    BY <1>1, <2>4, FiniteHandles
<1>3. /\ after = [registered |-> With(m.registered, n, fd), event_id_counter |-> n + 1,
                  interest |-> With(m.interest, fd, n)]
      /\ DOMAIN after = {"registered", "event_id_counter", "interest"}
  BY DEF Add
<1>4. /\ after.event_id_counter = n + 1
      /\ DOMAIN after.registered = DOMAIN m.registered \cup {n}
      /\ after.registered[n] = fd
      /\ \A h \in DOMAIN m.registered \ {n} : after.registered[h] = m.registered[h]
      /\ DOMAIN after.interest = DOMAIN m.interest \cup {fd}
      /\ after.interest[fd] = n
      /\ \A d \in DOMAIN m.interest \ {fd} : after.interest[d] = m.interest[d]
  BY <1>3 DEF With
<1> HIDE DEF n, counter, after
<1>5. n \notin DOMAIN m.registered
  BY <1>1, <1>2
<1>6. /\ DOMAIN m.interest = F
      /\ DOMAIN m.registered = {m.interest[d] : d \in F}
      /\ \A d \in F : m.registered[m.interest[d]] = d
  BY DEF Wired
<1>7. DOMAIN after.registered = {after.interest[d] : d \in F \cup {fd}}
  BY <1>4, <1>6
<1>8. \A d \in F \cup {fd} : after.registered[after.interest[d]] = d
  BY <1>4, <1>5, <1>6
<1>9. /\ after.event_id_counter \in Nat
      /\ \A h \in DOMAIN after.registered : h \in Nat /\ h < after.event_id_counter
  <2>1. n \in Nat /\ n < n + 1
    BY <1>2
  <2>2. \A h \in DOMAIN m.registered : h \in Nat /\ h < n + 1
    BY <1>1, <1>2
  <2> QED
    BY <1>2, <1>4, <2>1, <2>2
<1>10. Wired(after, F \cup {fd})
  BY <1>3, <1>4, <1>6, <1>7, <1>8, <1>9 DEF Wired
<1>11. counter < after.event_id_counter
  BY <1>1, <1>2, <1>4
<1>12. \A h \in DOMAIN after.registered : h < counter => h \in DOMAIN m.registered
  BY <1>1, <1>2, <1>4
<1> QED
  BY <1>4, <1>5, <1>10, <1>11, <1>12 DEF counter, after

\* Destroying handlers leaves those of the other descriptors under their handles.
LEMMA DestroyedWired ==
    ASSUME NEW m, NEW F, Wired(m, F), NEW D, D \subseteq F
    PROVE  /\ Wired(Destroyed(m, D), F \ D)
           /\ Destroyed(m, D).event_id_counter = m.event_id_counter
           /\ \A h \in DOMAIN Destroyed(m, D).registered :
                 /\ h \in DOMAIN m.registered
                 /\ Destroyed(m, D).registered[h] = m.registered[h]
<1> DEFINE after == Destroyed(m, D)
           gone  == {h \in DOMAIN m.registered : m.registered[h] \in D}
<1>1. DOMAIN m = {"registered", "event_id_counter", "interest"}
  BY DEF Wired
<1>2. /\ DOMAIN after = DOMAIN m
      /\ after.event_id_counter = m.event_id_counter
      /\ after.interest = Without(m.interest, D)
      /\ after.registered = Without(m.registered, gone)
  BY <1>1 DEF Destroyed
<1> HIDE DEF after
<1>3. /\ DOMAIN after.interest = DOMAIN m.interest \ D
      /\ \A d \in DOMAIN m.interest \ D : after.interest[d] = m.interest[d]
      /\ DOMAIN after.registered = DOMAIN m.registered \ gone
      /\ \A h \in DOMAIN m.registered \ gone : after.registered[h] = m.registered[h]
  BY <1>2 DEF Without
<1>4. /\ DOMAIN m.interest = F
      /\ DOMAIN m.registered = {m.interest[d] : d \in F}
      /\ \A d \in F : m.registered[m.interest[d]] = d
      /\ m.event_id_counter \in Nat
      /\ \A h \in DOMAIN m.registered : h \in Nat /\ h < m.event_id_counter
  BY DEF Wired
<1>5. \A d \in F \ D : m.interest[d] \in DOMAIN after.registered /\ after.interest[d] = m.interest[d]
  BY <1>3, <1>4
<1>6. DOMAIN after.registered = {after.interest[d] : d \in F \ D}
  <2>1. \A h \in DOMAIN after.registered : \E d \in F \ D : h = m.interest[d]
    BY <1>3, <1>4
  <2> QED
    BY <1>5, <2>1
<1>7. \A d \in F \ D : after.registered[after.interest[d]] = d
  BY <1>3, <1>4, <1>5
<1>8. Wired(after, F \ D)
  BY <1>1, <1>2, <1>3, <1>4, <1>6, <1>7 DEF Wired
<1> QED
  BY <1>2, <1>3, <1>8 DEF after

----------------------------------------------------------------------------
(* Descriptors.                                                             *)

\* There are no more sessions than clients, so one more has a descriptor to get.
LEMMA FreeFdType ==
    ASSUME sessions \in [DOMAIN sessions -> Session], DOMAIN sessions \subseteq SessionFds,
           \A fd, d \in DOMAIN sessions : sessions[fd].client = sessions[d].client => fd = d
    PROVE  /\ IsFiniteSet(DOMAIN sessions)
           /\ FreeFd \in SessionFds /\ FreeFd \notin DOMAIN sessions
<1> DEFINE S == DOMAIN sessions
           f == [fd \in S |-> sessions[fd].client]
<1>1. IsFiniteSet(Clients) /\ Cardinality(Clients) \in Nat
  BY SessionConstants, FS_CardinalityType
<1>2. f \in Injection(S, Clients)
  BY DEF Injection, IsInjective, Session
<1> HIDE DEF f
<1>3. IsFiniteSet(S) /\ Cardinality(S) <= Cardinality(Clients)
  BY <1>1, <1>2, FS_Injection
<1>4. Cardinality(SessionFds) = Cardinality(Clients) + 1
  <2> DEFINE n == Cardinality(Clients)
  <2>1. 5 \in Int /\ 5 + n \in Int /\ n \in Nat
    BY <1>1
  <2> HIDE DEF n
  <2>2. Cardinality(5 .. 5 + n) = IF 5 > 5 + n THEN 0 ELSE (5 + n) - 5 + 1
    BY ONLY <2>1, FS_Interval
  <2>3. Cardinality(5 .. 5 + n) = n + 1
    BY ONLY <2>1, <2>2
  <2> QED
    BY <2>3 DEF n, SessionFds
<1>5. SessionFds \ S # {}
  <2>1. SUFFICES ASSUME SessionFds = S PROVE FALSE
    OBVIOUS
  <2> QED
    BY <1>1, <1>3, <1>4, <2>1
<1>6. SessionFds \ S \in SUBSET Nat
  BY <1>1 DEF SessionFds
<1> QED
  BY <1>3, <1>5, <1>6, Least DEF FreeFd

----------------------------------------------------------------------------
(* The response of the daemon.                                              *)

\* A response has one last packet, and it comes last.
LEMMA DumpType ==
    ASSUME NEW t \in Tables
    PROVE  /\ DumpData(t) \in Seq(Packet) \ {<<>>}
           /\ Last(DumpData(t)) = End
           /\ \A k \in 1..(Len(DumpData(t)) - 1) : DumpData(t)[k] # End
<1> DEFINE d == DumpData(t)
<1>1. PICK s : Plain(s) /\ d = s \o <<End>>
  BY DumpShape, SessionConstants
<1>2. s \in Seq(Range(s)) /\ End \notin Range(s)
  BY <1>1 DEF Plain
<1> DEFINE X == Range(s) \cup {End}
<1>3. s \in Seq(X) /\ <<End>> \in Seq(X)
  BY <1>2
<1>4. /\ d \in Seq(X) /\ Len(d) = Len(s) + 1 /\ Len(s) \in Nat
      /\ d[Len(s) + 1] = End
      /\ \A k \in 1..Len(s) : d[k] = s[k]
  <2> HIDE DEF X, d
  <2> QED  BY <1>1, <1>3
<1>5. \A k \in 1..Len(s) : s[k] # End
  BY <1>2 DEF Range
<1> HIDE DEF d
<1>6. d \in Seq(Packet)
  <2>1. \A k \in 1..Len(d) : d[k] \in Packet
    <3>1. \A k \in 1..Len(d) : d[k] \in Range(d)
      BY <1>4 DEF Range
    <3> QED
      BY <3>1 DEF Packet, d
  <2> HIDE DEF X
  <2> QED
    BY <1>4, <2>1
<1>7. d # <<>>
  BY <1>4
<1>8. Last(d) = End /\ \A k \in 1..(Len(d) - 1) : d[k] # End
  <2>1. Len(d) - 1 = Len(s)
    BY <1>4
  <2> QED
    BY <1>4, <1>5, <2>1 DEF Last
<1> QED
  BY <1>6, <1>7, <1>8 DEF d

----------------------------------------------------------------------------
(* The invariant LoopInv.                                                   *)

LEMMA FixedApart ==
    /\ SessionFds \subseteq Nat /\ SessionFds \cap Fixed = {} /\ IsFiniteSet(Fixed)
    /\ Monitor # Repository /\ Monitor # Listener /\ Monitor # Interrupt
    /\ Repository # Listener /\ Repository # Interrupt /\ Listener # Interrupt
<1>1. Cardinality(Clients) \in Nat
  BY SessionConstants, FS_CardinalityType
<1>2. SessionFds \subseteq Nat /\ SessionFds \cap Fixed = {}
  <2>1. \A fd \in SessionFds : fd \in Nat /\ fd >= 5
    BY <1>1 DEF SessionFds
  <2> QED
    BY <2>1 DEF Fixed, Monitor, Repository, Listener, Interrupt
<1>3. IsFiniteSet(Fixed)
  <2>1. Fixed = 1..4
    BY DEF Fixed, Monitor, Repository, Listener, Interrupt
  <2>2. \A a, b \in Int : IsFiniteSet(a..b)
    BY FS_Interval
  <2>3. 1 \in Int /\ 4 \in Int
    OBVIOUS
  <2> QED
    BY <2>1, <2>2, <2>3, Zenon
<1>4. /\ Monitor # Repository /\ Monitor # Listener /\ Monitor # Interrupt
      /\ Repository # Listener /\ Repository # Interrupt /\ Listener # Interrupt
  BY DEF Monitor, Repository, Listener, Interrupt
<1> QED
  BY <1>2, <1>3, <1>4

LEMMA FiniteDescriptors ==
    ASSUME LoopInv
    PROVE  IsFiniteSet(Descriptors)
<1>1. IsFiniteSet(DOMAIN sessions)
  BY FreeFdType DEF LoopInv, TypeInv, ServiceType, ConnInv
<1>2. IsFiniteSet(DOMAIN sessions \cup Fixed)
  BY <1>1, FixedApart, FS_Union
<1> QED
  BY <1>2, FS_EmptySet DEF Descriptors

LEMMA EmptyWired == Wired(EmptyManager, {})
BY DEF Wired, EmptyManager

LEMMA InitLoop ==
    ASSUME Init
    PROVE  LoopInv
<1>1. TypeInv
  <2>1. DaemonType
    <3>1. status \in {"running"} /\ signals \subseteq Signals /\ interrupt_flag \in BOOLEAN
      BY DEF Init
    <3>2. table \in Tables /\ news \in 0..MaxNews /\ faults \in 0..MaxFaults
      BY SessionConstants DEF Init
    <3> QED
      BY <3>1, <3>2 DEF DaemonType
  <2>2. ServiceType
    BY DEF Init, ServiceType
  <2>3. ClientType
    BY SessionConstants DEF Init, ClientType
  <2> QED
    BY <2>1, <2>2, <2>3 DEF TypeInv
<1>2. ConnInv
  BY DEF Init, ConnInv, Connected, Range
<1>3. Wired(manager, Fixed)
  <2> DEFINE m1 == Add(EmptyManager, Monitor)
             m2 == Add(m1, Repository)
             m3 == Add(m2, Listener)
             F1 == {} \cup {Monitor}
             F2 == F1 \cup {Repository}
             F3 == F2 \cup {Listener}
  <2>1. IsFiniteSet({}) /\ IsFiniteSet(F1) /\ IsFiniteSet(F2) /\ IsFiniteSet(F3)
    BY FS_EmptySet, FS_AddElement
  <2>2. Monitor \notin {} /\ Repository \notin F1 /\ Listener \notin F2 /\ Interrupt \notin F3
    BY FixedApart
  <2>3. F3 \cup {Interrupt} = Fixed
    BY DEF Fixed
  <2>4. manager = Add(m3, Interrupt)
    BY DEF Init
  <2> HIDE DEF F1, F2, F3
  <2>5. Wired(m1, F1)
    BY <2>1, <2>2, EmptyWired, AddWired DEF F1
  <2> HIDE DEF m1
  <2>6. Wired(m2, F2)
    BY <2>1, <2>2, <2>5, AddWired DEF F2
  <2> HIDE DEF m2
  <2>7. Wired(m3, F3)
    BY <2>1, <2>2, <2>6, AddWired DEF F3
  <2> HIDE DEF m3
  <2> QED
    BY <2>1, <2>2, <2>3, <2>4, <2>7, AddWired
<1>4. Descriptors = Fixed
  BY DEF Init, Descriptors
<1> QED
  BY <1>1, <1>2, <1>3, <1>4 DEF LoopInv

\* The handler that is called has a descriptor of its own.
LEMMA CalledFor ==
    ASSUME LoopInv, NEW fd, Called(fd)
    PROVE  /\ status = "running" /\ sending = Idle
           /\ batch \in Seq(Nat) /\ batch # <<>>
           /\ fd \in DOMAIN sessions \cup Fixed
           /\ manager.interest[fd] = Head(batch)
<1>1. Wired(manager, Descriptors) /\ Descriptors = DOMAIN sessions \cup Fixed
  BY DEF LoopInv, Called, Free, Descriptors
<1>2. PICK d \in Descriptors : Head(batch) = manager.interest[d]
  BY <1>1 DEF Called, Wired
<1>3. d = fd
  BY <1>1, <1>2 DEF Called, Wired
<1> QED
  BY <1>1, <1>2, <1>3 DEF Called, Free, LoopInv, TypeInv, ServiceType

LEMMA ServedType ==
    ASSUME batch \in Seq(Nat), batch # <<>>, Served
    PROVE  batch' \in Seq(Nat)
BY DEF Served

LEMMA EndsLoop ==
    ASSUME LoopInv, NEW how \in {"exited", "killed"}, Ends(how),
           interrupt_flag' \in BOOLEAN, UNCHANGED <<faults, table, news, clientVars>>
    PROVE  LoopInv'
<1>1. TypeInv'
  <2>1. DaemonType'
    BY DEF LoopInv, TypeInv, DaemonType, Ends
  <2>2. ServiceType'
    <3>1. sessions' = <<>> /\ batch' = <<>> /\ sending' = Idle
      BY DEF Ends
    <3> QED
      BY <3>1 DEF ServiceType
  <2>3. ClientType'
    BY DEF LoopInv, TypeInv, ClientType, Ends, clientVars
  <2> QED
    BY <2>1, <2>2, <2>3 DEF TypeInv
<1>2. ConnInv'
  BY DEF LoopInv, ConnInv, Connected, Range, Ends, clientVars
<1>3. Descriptors' = {} /\ manager' = EmptyManager
  BY DEF Descriptors, Ends
<1> QED
  BY <1>1, <1>2, <1>3, EmptyWired DEF LoopInv

LEMMA ProcessEventsLoop ==
    ASSUME LoopInv, ProcessEvents
    PROVE  LoopInv'
<1> USE DEF ProcessEvents
<1>1. batch' \in Seq(Nat)
  <2> DEFINE ready == {manager.interest[fd] : fd \in {d \in DOMAIN manager.interest : Readable(d)}}
  <2>1. PICK reported \in Reported(ready, passed, MAX_CONCURRENT_EVENTS) :
            batch' \in SetToSeqs(reported)
    OBVIOUS
  <2>2. ready \subseteq DOMAIN manager.registered /\ ready \subseteq Nat
    BY DEF LoopInv, Wired
  <2>3. reported \subseteq ready
    BY <2>1 DEF Reported
  <2>4. Cardinality(reported) \in Nat
    <3> DEFINE f == [fd \in Descriptors |-> manager.interest[fd]]
    <3>1. f \in Surjection(Descriptors, DOMAIN manager.registered)
      BY DEF LoopInv, Wired, Surjection
    <3> HIDE DEF f
    <3>2. IsFiniteSet(DOMAIN manager.registered)
      BY <3>1, FiniteDescriptors, FS_Surjection
    <3>3. reported \in SUBSET DOMAIN manager.registered
      BY <2>2, <2>3
    <3> QED
      BY <3>2, <3>3, FS_Subset, FS_CardinalityType
  <2> HIDE DEF ready
  <2>5. batch' \in [1..Cardinality(reported) -> reported]
    BY <2>1 DEF SetToSeqs
  <2>6. batch' \in [1..Cardinality(reported) -> Nat]
    BY <2>2, <2>3, <2>5
  <2> QED
    BY <2>4, <2>6
<1>2. /\ UNCHANGED <<status, interrupt_flag, manager, sessions, sending, faults, signals, table,
                     news, backlog, phase, requests, reset, inbox, received>>
      /\ status = "running"
  BY DEF clientVars, Free
<1>3. TypeInv'
  <2>1. ServiceType'
    BY <1>1, <1>2 DEF LoopInv, TypeInv, ServiceType
  <2> QED
    BY <1>2, <2>1 DEF LoopInv, TypeInv, DaemonType, ClientType
<1>4. ConnInv'
  BY <1>2 DEF LoopInv, ConnInv, Connected
<1> QED
  BY <1>2, <1>3, <1>4 DEF LoopInv, Descriptors

LEMMA SkipLoop ==
    ASSUME LoopInv, Skip
    PROVE  LoopInv'
<1> USE DEF Skip
<1>1. /\ UNCHANGED <<status, interrupt_flag, manager, sessions, sending, faults, signals, table,
                     news, backlog, phase, requests, reset, inbox, received>>
      /\ status = "running" /\ batch' \in Seq(Nat)
  BY ServedType DEF clientVars, Free, LoopInv, TypeInv, ServiceType
<1>2. TypeInv'
  BY <1>1 DEF LoopInv, TypeInv, DaemonType, ServiceType, ClientType
<1>3. ConnInv'
  BY <1>1 DEF LoopInv, ConnInv, Connected
<1> QED
  BY <1>1, <1>2, <1>3 DEF LoopInv, Descriptors

LEMMA MonitorLoop ==
    ASSUME LoopInv, MonitorCall
    PROVE  LoopInv'
<1> USE DEF MonitorCall
<1>1. /\ UNCHANGED <<status, interrupt_flag, manager, sessions, sending, faults, signals,
                     backlog, phase, requests, reset, inbox, received>>
      /\ status = "running" /\ batch' \in Seq(Nat)
  BY CalledFor, ServedType
<1>2. table' \in Tables /\ news' \in 0..MaxNews
  <2>1. news > 0
    BY FixedApart DEF Called, Readable, LoopInv, TypeInv, ServiceType, Fixed
  <2> QED
    BY <2>1, SessionConstants DEF LoopInv, TypeInv, DaemonType
<1>3. TypeInv'
  BY <1>1, <1>2 DEF LoopInv, TypeInv, DaemonType, ServiceType, ClientType
<1>4. ConnInv'
  BY <1>1 DEF LoopInv, ConnInv, Connected
<1> QED
  BY <1>1, <1>3, <1>4 DEF LoopInv, Descriptors

LEMMA RepositoryLoop ==
    ASSUME LoopInv, RepositoryCall
    PROVE  LoopInv'
<1> USE DEF RepositoryCall
<1> DEFINE departed == {fd \in DOMAIN sessions : sessions[fd].eof_received}
<1>1. /\ UNCHANGED <<status, interrupt_flag, sending, faults, signals, table, news,
                     backlog, phase, requests, reset, inbox, received>>
      /\ status = "running" /\ sending = Idle /\ batch' \in Seq(Nat)
  BY CalledFor, ServedType DEF clientVars
<1>2. sessions' = Without(sessions, departed) /\ manager' = Destroyed(manager, departed)
  OBVIOUS
<1>3. /\ DOMAIN sessions' = DOMAIN sessions \ departed
      /\ sessions' = [fd \in DOMAIN sessions' |-> sessions[fd]]
      /\ \A fd \in DOMAIN sessions' : sessions'[fd] = sessions[fd]
  BY <1>2 DEF Without
<1> HIDE DEF departed
<1>4. TypeInv'
  <2>1. sessions' \in [DOMAIN sessions' -> Session] /\ DOMAIN sessions' \subseteq SessionFds
    BY <1>3 DEF LoopInv, TypeInv, ServiceType
  <2>2. ServiceType'
    BY <1>1, <2>1 DEF ServiceType
  <2> QED
    BY <1>1, <2>2 DEF LoopInv, TypeInv, DaemonType, ClientType
<1>5. ConnInv'
  <2>1. \A c \in Clients : Connected(c)' => Connected(c)
    BY <1>1, <1>3 DEF Connected
  <2>2. DOMAIN sessions' \subseteq DOMAIN sessions
    BY <1>3
  <2>3. backlog' = backlog /\ phase' = phase /\ reset' = reset
    BY <1>1
  <2> HIDE DEF RepositoryCall
  <2> QED
    BY <1>3, <2>1, <2>2, <2>3 DEF LoopInv, ConnInv
<1>6. Wired(manager', Descriptors')
  <2>1. Descriptors = DOMAIN sessions \cup Fixed /\ Descriptors' = DOMAIN sessions' \cup Fixed
    BY <1>1 DEF Descriptors
  <2>2. Descriptors' = Descriptors \ departed /\ departed \subseteq Descriptors
    BY <1>3, <2>1, FixedApart DEF LoopInv, TypeInv, ServiceType, departed
  <2> QED
    BY <1>2, <2>2, DestroyedWired DEF LoopInv
<1> QED
  BY <1>4, <1>5, <1>6 DEF LoopInv

LEMMA ListenerLoop ==
    ASSUME LoopInv, ListenerCall
    PROVE  LoopInv'
<1> USE DEF ListenerCall
<1>1. /\ UNCHANGED <<status, interrupt_flag, sending, signals, table, news,
                     phase, requests, reset, inbox, received>>
      /\ status = "running" /\ sending = Idle /\ batch' \in Seq(Nat)
  BY CalledFor, ServedType DEF clientVars
<1>2. backlog \in Seq(Clients) /\ backlog # <<>>
  BY FixedApart DEF Called, Readable, LoopInv, TypeInv, ServiceType, ClientType, Fixed
<1>3. /\ Tail(backlog) \in Seq(Clients) /\ Head(backlog) \in Clients
      /\ 1 \in DOMAIN backlog /\ Head(backlog) = backlog[1]
      /\ \A k \in DOMAIN Tail(backlog) : k + 1 \in DOMAIN backlog /\ k + 1 # 1
                                         /\ Tail(backlog)[k] = backlog[k + 1]
  BY <1>2
<1>4. Range(Tail(backlog)) \subseteq Range(backlog) /\ Head(backlog) \in Range(backlog)
  BY <1>3 DEF Range
<1>5. CASE /\ sessions' = With(sessions, FreeFd, [client |-> Head(backlog), eof_received |-> FALSE])
           /\ manager' = Add(manager, FreeFd)
           /\ backlog' = Tail(backlog)
           /\ UNCHANGED faults
  <2> DEFINE fd == FreeFd
             session == [client |-> Head(backlog), eof_received |-> FALSE]
  <2>1. fd \in SessionFds /\ fd \notin DOMAIN sessions
    BY FreeFdType DEF LoopInv, TypeInv, ServiceType, ConnInv
  <2> HIDE DEF fd
  <2>2. /\ DOMAIN sessions' = DOMAIN sessions \cup {fd}
        /\ sessions'[fd] = session
        /\ \A d \in DOMAIN sessions : sessions'[d] = sessions[d]
        /\ sessions' = [d \in DOMAIN sessions' |-> sessions'[d]]
    BY <1>5, <2>1 DEF With, fd
  <2>3. session \in Session /\ session.client = Head(backlog) /\ session.eof_received = FALSE
    BY <1>3 DEF Session
  <2> HIDE DEF session
  <2>4. TypeInv'
    <3>1. \A d \in DOMAIN sessions' : sessions'[d] \in Session
      BY <2>2, <2>3 DEF LoopInv, TypeInv, ServiceType
    <3>2. DOMAIN sessions' \subseteq SessionFds
      BY <2>1, <2>2 DEF LoopInv, TypeInv, ServiceType
    <3>3. ServiceType'
      BY <1>1, <2>2, <3>1, <3>2 DEF ServiceType
    <3>4. DaemonType' /\ ClientType'
      BY <1>1, <1>3, <1>5 DEF LoopInv, TypeInv, DaemonType, ClientType
    <3> QED
      BY <3>3, <3>4 DEF TypeInv
  <2>5. ConnInv'
    <3> HIDE DEF ListenerCall
    <3>1. \A k \in DOMAIN backlog, d \in DOMAIN sessions : backlog[k] # sessions[d].client
      BY DEF LoopInv, ConnInv
    <3>2. \A d, e \in DOMAIN sessions' : sessions'[d].client = sessions'[e].client => d = e
      BY <1>3, <2>2, <2>3, <3>1 DEF LoopInv, ConnInv
    <3>3. \A k, l \in DOMAIN backlog' : backlog'[k] = backlog'[l] => k = l
      <4> SUFFICES ASSUME NEW k \in DOMAIN Tail(backlog), NEW l \in DOMAIN Tail(backlog),
                          Tail(backlog)[k] = Tail(backlog)[l]
                   PROVE  k = l
        BY <1>5
      <4>1. k + 1 = l + 1
        BY <1>3 DEF LoopInv, ConnInv
      <4>2. k \in Nat /\ l \in Nat
        BY <1>3
      <4> QED
        BY <4>1, <4>2
    <3>4. \A k \in DOMAIN backlog', d \in DOMAIN sessions' : backlog'[k] # sessions'[d].client
      <4> SUFFICES ASSUME NEW k \in DOMAIN Tail(backlog), NEW d \in DOMAIN sessions'
                   PROVE  Tail(backlog)[k] # sessions'[d].client
        BY <1>5
      <4>1. Tail(backlog)[k] # backlog[1]
        BY <1>3 DEF LoopInv, ConnInv
      <4> QED
        BY <1>3, <2>2, <2>3, <3>1, <4>1
    <3>5. \A c \in Clients : Connected(c)' => Connected(c)
      <4>1. \A d \in DOMAIN sessions' : \/ d \in DOMAIN sessions /\ sessions'[d] = sessions[d]
                                        \/ sessions'[d].client \in Range(backlog)
        BY <1>4, <2>2, <2>3
      <4> QED
        BY <1>4, <1>5, <4>1 DEF Connected
    <3>6. \A d \in DOMAIN sessions' : sessions'[d].eof_received => phase[sessions'[d].client] = "gone"
      BY <2>2, <2>3 DEF LoopInv, ConnInv
    <3>7. phase' = phase /\ reset' = reset
      BY <1>1
    <3> QED
      BY <3>2, <3>3, <3>4, <3>5, <3>6, <3>7 DEF LoopInv, ConnInv
  <2>6. Wired(manager', Descriptors')
    <3>1. Descriptors = DOMAIN sessions \cup Fixed /\ Descriptors' = Descriptors \cup {fd}
      BY <1>1, <2>2 DEF Descriptors
    <3>2. fd \notin Descriptors
      BY <2>1, <3>1, FixedApart
    <3> QED
      BY <1>5, <3>1, <3>2, FiniteDescriptors, AddWired DEF LoopInv, fd
  <2> QED
    BY <2>4, <2>5, <2>6 DEF LoopInv
<1>6. CASE /\ faults > 0 /\ faults' = faults - 1
           /\ backlog' \in {backlog, Tail(backlog)}
           /\ UNCHANGED <<sessions, manager>>
  <2>1. TypeInv'
    <3>1. DaemonType'
      BY <1>1, <1>6, SessionConstants DEF LoopInv, TypeInv, DaemonType
    <3>2. ServiceType'
      BY <1>1, <1>6 DEF LoopInv, TypeInv, ServiceType
    <3>3. ClientType'
      BY <1>1, <1>2, <1>3, <1>6 DEF LoopInv, TypeInv, ClientType
    <3> QED
      BY <3>1, <3>2, <3>3 DEF TypeInv
  <2>2. ConnInv'
    <3> HIDE DEF ListenerCall
    <3>1. \A k \in DOMAIN backlog' : \E l \in DOMAIN backlog : backlog'[k] = backlog[l]
      BY <1>3, <1>6
    <3>2. \A k, l \in DOMAIN backlog' : backlog'[k] = backlog'[l] => k = l
      <4>1. CASE backlog' = backlog
        BY <4>1 DEF LoopInv, ConnInv
      <4>2. CASE backlog' = Tail(backlog)
        <5> SUFFICES ASSUME NEW k \in DOMAIN Tail(backlog), NEW l \in DOMAIN Tail(backlog),
                            Tail(backlog)[k] = Tail(backlog)[l]
                     PROVE  k = l
          BY <4>2
        <5>1. k + 1 = l + 1
          BY <1>3 DEF LoopInv, ConnInv
        <5>2. k \in Nat /\ l \in Nat
          BY <1>3
        <5> QED
          BY <5>1, <5>2
      <4> QED
        BY <1>6, <4>1, <4>2
    <3>3. \A c \in Clients : Connected(c)' => Connected(c)
      <4>1. Range(backlog') \subseteq Range(backlog)
        BY <1>4, <1>6
      <4> QED
        BY <1>6, <4>1 DEF Connected
    <3>4. phase' = phase /\ reset' = reset /\ sessions' = sessions
      BY <1>1, <1>6
    <3> QED
      BY <3>1, <3>2, <3>3, <3>4 DEF LoopInv, ConnInv
  <2> QED
    BY <1>1, <1>6, <2>1, <2>2 DEF LoopInv, Descriptors
<1> QED
  BY <1>5, <1>6

LEMMA SessionLoop ==
    ASSUME LoopInv, NEW fd \in SessionFds, SessionCall(fd)
    PROVE  LoopInv'
<1> DEFINE c == sessions[fd].client
<1>1. /\ UNCHANGED <<status, interrupt_flag, manager, faults, signals, table, news, backlog,
                     phase, inbox, received>>
      /\ status = "running" /\ sending = Idle /\ batch' \in Seq(Nat)
  BY CalledFor, ServedType DEF SessionCall
<1>2. fd \in DOMAIN sessions /\ c \in Clients /\ Readable(fd) /\ sessions[fd] \in Session
  <2>1. fd \in DOMAIN sessions
    BY CalledFor, FixedApart DEF SessionCall
  <2> QED
    BY <2>1 DEF SessionCall, Called, LoopInv, TypeInv, ServiceType, Session
<1>3. /\ DOMAIN sessions' = DOMAIN sessions
      /\ sessions' \in [DOMAIN sessions -> Session]
      /\ \A d \in DOMAIN sessions : /\ sessions'[d].client = sessions[d].client
                                    /\ sessions'[d].eof_received =>
                                          sessions[d].eof_received \/ (d = fd /\ phase[c] = "gone")
  <2>1. CASE UNCHANGED sessions
    BY <2>1 DEF LoopInv, TypeInv, ServiceType
  <2>2. CASE sessions' = [sessions EXCEPT ![fd].eof_received = TRUE]
             /\ c \notin reset /\ requests[c] = 0
    <3>1. sessions \in [DOMAIN sessions -> Session]
      BY DEF LoopInv, TypeInv, ServiceType
    <3>2. phase[c] = "gone"
      <4>1. fd # Monitor /\ fd # Repository /\ fd # Listener /\ fd # Interrupt
        BY FixedApart DEF Fixed
      <4> QED
        BY <1>2, <2>2, <4>1 DEF Readable
    <3>3. DOMAIN sessions' = DOMAIN sessions
      BY <2>2
    <3>4. \A d \in DOMAIN sessions : d # fd => sessions'[d] = sessions[d]
      BY <2>2
    <3>5. sessions'[fd] = [sessions[fd] EXCEPT !.eof_received = TRUE]
      BY <1>2, <2>2
    <3>6. sessions'[fd] \in Session /\ sessions'[fd].client = c
      BY <1>2, <3>5 DEF Session
    <3>7. sessions' \in [DOMAIN sessions -> Session]
      <4>1. sessions' = [d \in DOMAIN sessions |-> sessions'[d]]
        BY <2>2
      <4> QED
        BY <3>1, <3>4, <3>6, <4>1
    <3> QED
      BY <3>2, <3>3, <3>4, <3>6, <3>7
  <2> QED
    BY <2>1, <2>2 DEF SessionCall
<1>4. requests' \in [Clients -> 0..Window] /\ reset' \subseteq reset
  <2>1. requests \in [Clients -> 0..Window] /\ Window \in Nat
    BY SessionConstants DEF LoopInv, TypeInv, ClientType
  <2>2. CASE requests[c] > 0 /\ requests' = [requests EXCEPT ![c] = @ - 1]
    <3>1. requests[c] - 1 \in 0..Window
      BY <1>2, <2>1, <2>2
    <3> QED
      BY <2>1, <2>2, <3>1 DEF SessionCall
  <2> QED
    BY <2>1, <2>2 DEF SessionCall
<1>5. sending' = Idle \/ sending' \in [fd : DOMAIN sessions, packets : Seq(Packet) \ {<<>>}]
  <2>1. CASE sending' = [fd |-> fd, packets |-> DumpData(table)]
    <3>1. DumpData(table) \in Seq(Packet) \ {<<>>}
      BY DumpType DEF LoopInv, TypeInv, DaemonType
    <3> QED
      BY <1>2, <2>1, <3>1
  <2> QED
    BY <1>1, <2>1 DEF SessionCall
<1>6. TypeInv'
  <2>1. ServiceType'
    BY <1>1, <1>3, <1>5 DEF LoopInv, TypeInv, ServiceType
  <2>2. ClientType'
    BY <1>1, <1>4 DEF LoopInv, TypeInv, ClientType
  <2> QED
    BY <1>1, <2>1, <2>2 DEF LoopInv, TypeInv, DaemonType
<1>7. ConnInv'
  <2>1. \A b \in Clients : Connected(b)' <=> Connected(b)
    BY <1>1, <1>3 DEF Connected
  <2>2. /\ \A d, e \in DOMAIN sessions' : sessions'[d].client = sessions'[e].client => d = e
        /\ \A k \in DOMAIN backlog', d \in DOMAIN sessions' : backlog'[k] # sessions'[d].client
    BY <1>1, <1>3 DEF LoopInv, ConnInv
  <2>3. \A d \in DOMAIN sessions' : sessions'[d].eof_received => phase'[sessions'[d].client] = "gone"
    BY <1>1, <1>3 DEF LoopInv, ConnInv
  <2>4. \A b \in reset' : phase'[b] = "gone"
    BY <1>1, <1>4 DEF LoopInv, ConnInv
  <2>5. \A b \in Clients : phase'[b] = "off" => ~Connected(b)'
    BY <1>1, <2>1 DEF LoopInv, ConnInv
  <2> QED
    BY <1>1, <2>2, <2>3, <2>4, <2>5 DEF LoopInv, ConnInv
<1> QED
  BY <1>1, <1>3, <1>6, <1>7 DEF LoopInv, Descriptors

LEMMA SendLoop ==
    ASSUME LoopInv, Send
    PROVE  LoopInv'
<1> DEFINE c == sessions[sending.fd].client
           rest == Tail(sending.packets)
<1>1. /\ sending' = IF rest = <<>> THEN Idle ELSE [sending EXCEPT !.packets = rest]
      /\ reset' \subseteq reset
      /\ UNCHANGED <<status, interrupt_flag, manager, sessions, notified, batch, passed, faults,
                     signals, table, news, backlog, phase, requests, received>>
  BY DEF Send
<1>2. /\ sending \in [fd : DOMAIN sessions, packets : Seq(Packet) \ {<<>>}]
      /\ c \in Clients
  <2>1. sending \in [fd : DOMAIN sessions, packets : Seq(Packet) \ {<<>>}]
    BY DEF Send, LoopInv, TypeInv, ServiceType
  <2> QED
    BY <2>1 DEF LoopInv, TypeInv, ServiceType, Session
<1>3. Head(sending.packets) \in Packet /\ rest \in Seq(Packet)
  BY <1>2
<1>4. inbox \in [Clients -> Seq(Packet)] /\ \A b \in Clients : Len(inbox[b]) <= Window
  BY DEF LoopInv, TypeInv, ClientType
<1>5. inbox' \in [Clients -> Seq(Packet)] /\ \A b \in Clients : Len(inbox'[b]) <= Window
  <2>1. CASE UNCHANGED inbox
    BY <1>4, <2>1
  <2>2. CASE Len(inbox[c]) < Window /\ inbox' = [inbox EXCEPT ![c] = Append(@, Head(sending.packets))]
    <3> DEFINE next == Append(inbox[c], Head(sending.packets))
    <3>1. next \in Seq(Packet) /\ Len(next) <= Window
      BY <1>2, <1>3, <1>4, <2>2, SessionConstants
    <3> HIDE DEF next
    <3>2. inbox' = [inbox EXCEPT ![c] = next]
      BY <2>2 DEF next
    <3> QED
      BY <1>4, <3>1, <3>2
  <2> QED
    BY <2>1, <2>2 DEF Send
<1>6. ClientType'
  BY <1>1, <1>5 DEF LoopInv, TypeInv, ClientType
<1>7. sending' = Idle \/ sending' \in [fd : DOMAIN sessions, packets : Seq(Packet) \ {<<>>}]
  BY <1>1, <1>2, <1>3
<1>8. status = "running"
  BY DEF Send
<1>9. ServiceType' /\ DaemonType'
  BY <1>1, <1>7, <1>8 DEF LoopInv, TypeInv, ServiceType, DaemonType
<1>10. ConnInv'
  BY <1>1 DEF LoopInv, ConnInv, Connected
<1> QED
  BY <1>1, <1>6, <1>9, <1>10 DEF LoopInv, TypeInv, Descriptors

LEMMA InterruptLoop ==
    ASSUME LoopInv, InterruptCall
    PROVE  LoopInv'
<1>1. UNCHANGED <<faults, table, news, clientVars>>
  BY DEF InterruptCall
<1>2. CASE Ends("killed") /\ UNCHANGED interrupt_flag
  BY <1>1, <1>2, EndsLoop DEF LoopInv, TypeInv, DaemonType
<1>3. CASE /\ signals' = {} /\ interrupt_flag' = TRUE /\ Served
           /\ UNCHANGED <<status, manager, sessions, notified, sending, backlog>>
  <2>1. status = "running" /\ batch' \in Seq(Nat)
    BY <1>3, CalledFor, ServedType DEF InterruptCall
  <2>2. interrupt_flag' \in BOOLEAN
    BY <1>3
  <2>3. DaemonType' /\ ServiceType' /\ ClientType'
    BY <1>1, <1>3, <2>1, <2>2 DEF LoopInv, TypeInv, DaemonType, ServiceType, ClientType, clientVars
  <2>4. ConnInv'
    BY <1>1, <1>3 DEF LoopInv, ConnInv, Connected, clientVars
  <2> QED
    BY <1>3, <2>3, <2>4 DEF LoopInv, TypeInv, Descriptors
<1> QED
  BY <1>2, <1>3 DEF InterruptCall

LEMMA SignalLoop ==
    ASSUME LoopInv, NEW s \in Signals, Signal(s)
    PROVE  LoopInv'
<1>1. UNCHANGED <<table, news, clientVars>>
  BY DEF Signal
<1>2. CASE Ends("killed") /\ UNCHANGED <<interrupt_flag, faults>>
  BY <1>1, <1>2, EndsLoop DEF LoopInv, TypeInv, DaemonType
<1>3. CASE signals' = signals \cup {s} /\ UNCHANGED <<daemonVars, backlog>>
  <2>1. DaemonType' /\ ServiceType' /\ ClientType'
    BY <1>1, <1>3 DEF LoopInv, TypeInv, DaemonType, ServiceType, ClientType, clientVars,
                      daemonVars, loopVars
  <2>2. ConnInv'
    BY <1>1, <1>3 DEF LoopInv, ConnInv, Connected, clientVars, daemonVars, loopVars
  <2> QED
    BY <1>3, <2>1, <2>2 DEF LoopInv, TypeInv, Descriptors, daemonVars, loopVars
<1> QED
  BY <1>2, <1>3 DEF Signal

LEMMA ExitLoop ==
    ASSUME LoopInv, Exit
    PROVE  LoopInv'
BY EndsLoop DEF Exit, LoopInv, TypeInv, DaemonType

LEMMA ConnectLoop ==
    ASSUME LoopInv, NEW c \in Clients, Connect(c)
    PROVE  LoopInv'
<1>1. /\ UNCHANGED <<daemonVars, signals, table, news, requests, reset, inbox, received>>
      /\ phase' = [phase EXCEPT ![c] = "idle"] /\ backlog' = Append(backlog, c)
      /\ phase[c] = "off" /\ status = "running"
  BY DEF Connect
<1>2. /\ backlog \in Seq(Clients) /\ phase \in [Clients -> {"off", "idle", "waiting", "gone"}]
      /\ DOMAIN backlog = 1..Len(backlog) /\ Len(backlog) \in Nat
  BY DEF LoopInv, TypeInv, ClientType
<1>3. /\ backlog' \in Seq(Clients)
      /\ DOMAIN backlog' = DOMAIN backlog \cup {Len(backlog) + 1}
      /\ Len(backlog) + 1 \notin DOMAIN backlog
      /\ backlog'[Len(backlog) + 1] = c
      /\ \A k \in DOMAIN backlog : backlog'[k] = backlog[k]
  BY <1>1, <1>2
<1>4. /\ phase' \in [Clients -> {"off", "idle", "waiting", "gone"}]
      /\ phase'[c] = "idle" /\ \A b \in Clients \ {c} : phase'[b] = phase[b]
  BY <1>1, <1>2
<1>5. TypeInv'
  BY <1>1, <1>3, <1>4 DEF LoopInv, TypeInv, DaemonType, ServiceType, ClientType, daemonVars, loopVars
<1>6. ConnInv'
  <2>1. ~Connected(c)
    BY <1>1 DEF LoopInv, ConnInv
  <2>2. /\ \A k \in DOMAIN backlog : backlog[k] # c
        /\ \A fd \in DOMAIN sessions : sessions[fd].client # c /\ sessions[fd].client \in Clients
    BY <2>1 DEF Connected, Range, LoopInv, TypeInv, ServiceType, Session
  <2>3. UNCHANGED <<sessions, reset>>
    BY <1>1 DEF daemonVars
  <2>4. \A k, l \in DOMAIN backlog' : backlog'[k] = backlog'[l] => k = l
    BY <1>3, <2>2 DEF LoopInv, ConnInv
  <2>5. \A k \in DOMAIN backlog', fd \in DOMAIN sessions : backlog'[k] # sessions[fd].client
    BY <1>3, <2>2 DEF LoopInv, ConnInv
  <2>6. \A b \in Clients : phase'[b] = "off" => ~Connected(b)'
    <3> SUFFICES ASSUME NEW b \in Clients \ {c}, phase'[b] = "off" PROVE ~Connected(b)'
      BY <1>4
    <3>1. ~Connected(b)
      BY <1>4 DEF LoopInv, ConnInv
    <3>2. \A k \in DOMAIN backlog' : backlog'[k] # b
      BY <1>3, <3>1 DEF Connected, Range
    <3> QED
      BY <2>3, <3>1, <3>2 DEF Connected, Range
  <2>7. \A fd \in DOMAIN sessions : sessions[fd].eof_received => phase'[sessions[fd].client] = "gone"
    BY <1>4, <2>2 DEF LoopInv, ConnInv
  <2>8. \A b \in reset : phase'[b] = "gone"
    <3> SUFFICES ASSUME NEW b \in reset PROVE phase'[b] = "gone"
      OBVIOUS
    <3>1. phase[b] = "gone" /\ b # c
      BY <1>1 DEF LoopInv, ConnInv
    <3> QED
      BY <1>1, <1>2, <3>1
  <2> QED
    BY <2>3, <2>4, <2>5, <2>6, <2>7, <2>8 DEF LoopInv, ConnInv
<1> QED
  BY <1>1, <1>5, <1>6 DEF LoopInv, Descriptors, daemonVars

\* A client that stays a client only changes its phase and its own buffers.
LEMMA ClientLoop ==
    ASSUME LoopInv, UNCHANGED <<daemonVars, signals, table, news, backlog>>,
           NEW c \in Clients, NEW p \in {"idle", "waiting", "gone"},
           phase[c] # "gone", phase' = [phase EXCEPT ![c] = p],
           reset' \subseteq IF p = "gone" THEN reset \cup {c} ELSE reset,
           requests' \in [Clients -> 0..Window],
           inbox' \in [Clients -> Seq(Packet)], \A b \in Clients : Len(inbox'[b]) <= Window,
           received' \in [Clients -> Seq(Packet)]
    PROVE  LoopInv'
<1>1. UNCHANGED <<status, signals, interrupt_flag, table, news, faults, batch, sessions, sending,
                  manager, backlog>>
  BY DEF daemonVars, loopVars
<1>2. /\ phase \in [Clients -> {"off", "idle", "waiting", "gone"}]
      /\ phase' \in [Clients -> {"off", "idle", "waiting", "gone"}]
      /\ phase'[c] = p /\ \A b \in Clients \ {c} : phase'[b] = phase[b]
  BY DEF LoopInv, TypeInv, ClientType
<1>3. TypeInv'
  <2>1. DaemonType' /\ ServiceType'
    BY <1>1 DEF LoopInv, TypeInv, DaemonType, ServiceType
  <2>2. ClientType'
    BY <1>1, <1>2 DEF LoopInv, TypeInv, ClientType
  <2> QED
    BY <2>1, <2>2 DEF TypeInv
<1>4. ConnInv'
  <2>1. \A b \in Clients : phase'[b] = "off" => ~Connected(b)'
    BY <1>1, <1>2 DEF LoopInv, ConnInv, Connected
  <2>2. \A b : phase[b] = "gone" => phase'[b] = "gone"
    BY <1>2
  <2>3. \A fd \in DOMAIN sessions : sessions[fd].eof_received => phase'[sessions[fd].client] = "gone"
    BY <2>2 DEF LoopInv, ConnInv
  <2>4. \A b \in reset' : phase'[b] = "gone"
    BY <1>2, <2>2 DEF LoopInv, ConnInv
  <2> QED
    BY <1>1, <2>1, <2>3, <2>4 DEF LoopInv, ConnInv
<1> QED
  BY <1>1, <1>3, <1>4 DEF LoopInv, Descriptors

LEMMA LeaveLoop ==
    ASSUME LoopInv, NEW c \in Clients, Leave(c)
    PROVE  LoopInv'
<1>1. /\ phase[c] # "gone" /\ phase' = [phase EXCEPT ![c] = "gone"]
      /\ reset' \subseteq reset \cup {c}
      /\ UNCHANGED <<daemonVars, signals, table, news, backlog, requests>>
  BY DEF Leave
<1>2. /\ inbox' \in [Clients -> Seq(Packet)] /\ \A b \in Clients : Len(inbox'[b]) <= Window
      /\ received' \in [Clients -> Seq(Packet)]
  BY SessionConstants DEF Leave, LoopInv, TypeInv, ClientType
<1>3. requests' \in [Clients -> 0..Window]
  BY <1>1 DEF LoopInv, TypeInv, ClientType
<1> QED
  BY <1>1, <1>2, <1>3, ClientLoop

LEMMA RequestLoop ==
    ASSUME LoopInv, NEW c \in Clients, SendRequest(c)
    PROVE  LoopInv'
<1>1. /\ phase[c] = "idle" /\ phase' = [phase EXCEPT ![c] = "waiting"]
      /\ received' = [received EXCEPT ![c] = <<>>]
      /\ UNCHANGED <<daemonVars, signals, table, news, backlog, reset, inbox>>
  BY DEF SendRequest
<1>2. requests' \in [Clients -> 0..Window]
  <2>1. requests \in [Clients -> 0..Window] /\ Window \in Nat
    BY SessionConstants DEF LoopInv, TypeInv, ClientType
  <2>2. CASE requests' = requests
    BY <2>1, <2>2
  <2>3. CASE requests[c] < Window /\ requests' = [requests EXCEPT ![c] = @ + 1]
    <3>1. requests[c] + 1 \in 0..Window
      BY <2>1, <2>3
    <3> QED
      BY <2>1, <2>3, <3>1
  <2> QED
    BY <2>2, <2>3 DEF SendRequest
<1>3. received' \in [Clients -> Seq(Packet)]
  BY <1>1 DEF LoopInv, TypeInv, ClientType
<1>4. inbox' \in [Clients -> Seq(Packet)] /\ \A b \in Clients : Len(inbox'[b]) <= Window
  BY <1>1 DEF LoopInv, TypeInv, ClientType
<1> QED
  BY <1>1, <1>2, <1>3, <1>4, ClientLoop

LEMMA ReadLoop ==
    ASSUME LoopInv, NEW c \in Clients, ReadData(c)
    PROVE  LoopInv'
<1>1. phase[c] = "waiting" /\ UNCHANGED <<daemonVars, signals, table, news, backlog, requests, reset>>
  BY DEF ReadData
<1>2. phase' = [phase EXCEPT ![c] = "idle"] \/ phase' = [phase EXCEPT ![c] = "waiting"]
  <2>1. phase = [phase EXCEPT ![c] = "waiting"]
    BY <1>1 DEF LoopInv, TypeInv, ClientType
  <2> QED
    BY <2>1 DEF ReadData
<1>3. requests' \in [Clients -> 0..Window] /\ reset' = reset
  BY <1>1 DEF LoopInv, TypeInv, ClientType
<1>4. /\ inbox' \in [Clients -> Seq(Packet)] /\ \A b \in Clients : Len(inbox'[b]) <= Window
      /\ received' \in [Clients -> Seq(Packet)]
  <2>1. /\ inbox \in [Clients -> Seq(Packet)] /\ \A b \in Clients : Len(inbox[b]) <= Window
        /\ received \in [Clients -> Seq(Packet)] /\ Window \in Nat
    BY SessionConstants DEF LoopInv, TypeInv, ClientType
  <2>2. CASE UNCHANGED <<received, inbox>>
    BY <2>1, <2>2
  <2>3. CASE /\ inbox[c] # <<>>
             /\ received' = [received EXCEPT ![c] = Append(received[c], Head(inbox[c]))]
             /\ inbox' = [inbox EXCEPT ![c] = Tail(@)]
    <3>1. /\ Head(inbox[c]) \in Packet /\ Tail(inbox[c]) \in Seq(Packet)
          /\ Len(Tail(inbox[c])) <= Window
      BY <2>1, <2>3
    <3>2. Append(received[c], Head(inbox[c])) \in Seq(Packet)
      BY <2>1, <3>1
    <3> QED
      BY <2>1, <2>3, <3>1, <3>2
  <2> QED
    BY <2>2, <2>3 DEF ReadData
<1> QED
  BY <1>1, <1>2, <1>3, <1>4, ClientLoop

LEMMA LoopStep ==
    ASSUME LoopInv, [Next]_vars
    PROVE  LoopInv'
<1>1. CASE ProcessEvents
  BY <1>1, ProcessEventsLoop
<1>2. CASE Skip
  BY <1>2, SkipLoop
<1>3. CASE MonitorCall
  BY <1>3, MonitorLoop
<1>4. CASE ListenerCall
  BY <1>4, ListenerLoop
<1>5. CASE RepositoryCall
  BY <1>5, RepositoryLoop
<1>6. CASE \E fd \in SessionFds : SessionCall(fd)
  BY <1>6, SessionLoop
<1>7. CASE Send
  BY <1>7, SendLoop
<1>8. CASE InterruptCall
  BY <1>8, InterruptLoop
<1>9. CASE Exit
  BY <1>9, ExitLoop
<1>10. CASE \E s \in Signals : Signal(s)
  BY <1>10, SignalLoop
<1>11. ASSUME NEW c \in Clients, Client(c) PROVE LoopInv'
  <2>1. CASE Connect(c)
    BY <2>1, ConnectLoop
  <2>2. CASE Leave(c)
    BY <2>2, LeaveLoop
  <2>3. CASE SendRequest(c)
    BY <2>3, RequestLoop
  <2>4. CASE ReadData(c)
    BY <2>4, ReadLoop
  <2> QED
    BY <1>11, <2>1, <2>2, <2>3, <2>4 DEF Client
<1>12. CASE UNCHANGED vars
  <2>1. UNCHANGED <<status, signals, interrupt_flag, table, news, faults, batch, sessions, sending,
                    manager, backlog, phase, requests, reset, inbox, received>>
    BY <1>12 DEF vars, daemonVars, loopVars, clientVars
  <2>2. DaemonType' /\ ServiceType' /\ ClientType'
    BY <2>1 DEF LoopInv, TypeInv, DaemonType, ServiceType, ClientType
  <2>3. ConnInv'
    BY <2>1 DEF LoopInv, ConnInv, Connected
  <2> QED
    BY <2>1, <2>2, <2>3 DEF LoopInv, TypeInv, Descriptors
<1> QED
  BY <1>1, <1>2, <1>3, <1>4, <1>5, <1>6, <1>7, <1>8, <1>9, <1>10, <1>11, <1>12 DEF Next, Daemon

LEMMA LoopTypeOK ==
    ASSUME LoopInv
    PROVE  TypeOK
<1>1. /\ status \in {"running", "exited", "killed"}
      /\ signals \subseteq Signals /\ interrupt_flag \in BOOLEAN
      /\ table \in Tables /\ news \in 0 .. MaxNews /\ faults \in 0 .. MaxFaults
      /\ DOMAIN sessions \subseteq SessionFds
  BY DEF LoopInv, TypeInv, DaemonType, ServiceType
<1>2. /\ DOMAIN manager.interest = Descriptors
      /\ DOMAIN manager.registered = {manager.interest[fd] : fd \in DOMAIN manager.interest}
      /\ \A fd \in DOMAIN manager.interest : manager.registered[manager.interest[fd]] = fd
  BY DEF LoopInv, Wired
<1>3. \A fd \in DOMAIN sessions : sessions[fd].eof_received => phase[sessions[fd].client] = "gone"
  BY DEF LoopInv, ConnInv
<1>4. \A c \in Clients : requests[c] <= Window /\ Len(inbox[c]) <= Window
  BY SessionConstants DEF LoopInv, TypeInv, ClientType
<1> QED
  BY <1>1, <1>2, <1>3, <1>4 DEF TypeOK, Descriptors

\* Type correctness: while the daemon runs, each session and each handler of
\* initializeHandlers is registered under one handle, by which epoll knows it, and
\* the buffers stay within their bounds.
THEOREM TypeCorrect == Spec => []TypeOK
<1>1. Init => LoopInv
  BY InitLoop
<1>2. LoopInv /\ [Next]_vars => LoopInv'
  BY LoopStep
<1>3. LoopInv => TypeOK
  BY LoopTypeOK
<1> QED
  BY <1>1, <1>2, <1>3, PTL DEF Spec

----------------------------------------------------------------------------
(* The batch of events, NeverReadsInVain.                                   *)

\* An event is taken from the batch, and what the others are for can still be read.
LEMMA ServedBatch ==
    ASSUME LoopInv, LoopInv', BatchInv, batch # <<>>, batch' = Tail(batch),
           manager.event_id_counter <= manager'.event_id_counter,
           \A h \in DOMAIN manager'.registered :
              h < manager.event_id_counter =>
                 h \in DOMAIN manager.registered /\ manager'.registered[h] = manager.registered[h],
           \A fd \in Descriptors' :
              Readable(fd) => \/ Readable(fd)'
                              \/ /\ Head(batch) \in DOMAIN manager.registered
                                 /\ manager.registered[Head(batch)] = fd
    PROVE  BatchInv'
<1>1. /\ batch \in Seq(Nat)
      /\ manager.event_id_counter \in Nat /\ manager'.event_id_counter \in Nat
  BY DEF LoopInv, TypeInv, ServiceType, Wired
<1>2. /\ 1 \in DOMAIN batch /\ Head(batch) = batch[1]
      /\ \A n \in DOMAIN batch' : /\ n + 1 \in DOMAIN batch /\ n + 1 # 1 /\ n \in Nat
                                  /\ batch'[n] = batch[n + 1] /\ batch'[n] \in Nat
  BY <1>1
<1>3. \A m, n \in DOMAIN batch' : batch'[m] = batch'[n] => m = n
  <2> SUFFICES ASSUME NEW m \in DOMAIN batch', NEW n \in DOMAIN batch', batch'[m] = batch'[n]
               PROVE  m = n
    OBVIOUS
  <2>1. m + 1 = n + 1
    BY <1>2 DEF BatchInv
  <2> QED
    BY <1>2, <2>1
<1>4. \A n \in DOMAIN batch' : batch'[n] < manager.event_id_counter /\ batch'[n] # Head(batch)
  BY <1>2 DEF BatchInv
<1>5. \A n \in DOMAIN batch' : batch'[n] < manager'.event_id_counter
  BY <1>1, <1>2, <1>4
<1>6. NeverReadsInVain'
  <2>1. SUFFICES ASSUME NEW n \in DOMAIN batch', batch'[n] \in DOMAIN manager'.registered,
                        NEW fd, manager'.registered[batch'[n]] = fd
                 PROVE  Readable(fd)'
    BY DEF NeverReadsInVain
  <2>2. batch'[n] \in DOMAIN manager.registered /\ manager.registered[batch'[n]] = fd
    BY <1>4, <2>1
  <2>3. Readable(fd)
    BY <1>2, <2>2 DEF BatchInv, NeverReadsInVain
  <2>4. fd \in Descriptors'
    BY <2>1 DEF LoopInv, Wired
  <2>5. ~ (Head(batch) \in DOMAIN manager.registered /\ manager.registered[Head(batch)] = fd)
    <3>1. \A h \in DOMAIN manager.registered : manager.interest[manager.registered[h]] = h
      BY DEF LoopInv, Wired
    <3> QED
      BY <1>4, <2>2, <3>1
  <2> QED
    BY <2>3, <2>4, <2>5
<1> QED
  BY <1>3, <1>5, <1>6 DEF BatchInv

\* No event is taken, and no handler loses what it is to read.
LEMMA KeptBatch ==
    ASSUME LoopInv, BatchInv, UNCHANGED <<batch, manager>>,
           \A fd \in Descriptors : Readable(fd) => Readable(fd)'
    PROVE  BatchInv'
<1>1. NeverReadsInVain'
  <2>1. SUFFICES ASSUME NEW n \in DOMAIN batch, batch[n] \in DOMAIN manager.registered,
                        NEW fd, manager.registered[batch[n]] = fd
                 PROVE  Readable(fd)'
    BY DEF NeverReadsInVain
  <2>2. Readable(fd) /\ fd \in Descriptors
    BY <2>1 DEF BatchInv, NeverReadsInVain, LoopInv, Wired
  <2> QED
    BY <2>2
<1> QED
  BY <1>1 DEF BatchInv

\* Without events there is nothing to say.
LEMMA NoBatch ==
    ASSUME batch = <<>>
    PROVE  BatchInv
BY DEF BatchInv, NeverReadsInVain

LEMMA ProcessEventsBatch ==
    ASSUME LoopInv, ProcessEvents
    PROVE  BatchInv'
<1> DEFINE ready == {manager.interest[fd] : fd \in {d \in DOMAIN manager.interest : Readable(d)}}
<1>1. PICK reported \in Reported(ready, passed, MAX_CONCURRENT_EVENTS) :
          batch' \in SetToSeqs(reported)
  BY DEF ProcessEvents
<1>2. /\ batch' \in [1..Cardinality(reported) -> reported]
      /\ \A i, j \in 1..Cardinality(reported) : i # j => batch'[i] # batch'[j]
  BY <1>1 DEF SetToSeqs
<1>3. reported \subseteq ready
  BY <1>1 DEF Reported
<1>4. /\ \A h \in ready : h < manager.event_id_counter
      /\ \A h \in ready : \A fd : manager.registered[h] = fd => Readable(fd)
  BY DEF LoopInv, Wired
<1> HIDE DEF ready
<1>5. UNCHANGED <<manager, news, notified, backlog, signals, sessions, requests, phase>>
  BY DEF ProcessEvents, clientVars
<1>6. \A n \in DOMAIN batch' : batch'[n] \in ready
  BY <1>2, <1>3
<1>7. NeverReadsInVain'
  <2>1. SUFFICES ASSUME NEW n \in DOMAIN batch', NEW fd, manager.registered[batch'[n]] = fd
                 PROVE  Readable(fd)'
    BY <1>5 DEF NeverReadsInVain
  <2>2. Readable(fd)
    BY <1>4, <1>6, <2>1
  <2> QED
    BY <1>5, <2>2 DEF Readable
<1> QED
  BY <1>2, <1>4, <1>5, <1>6, <1>7 DEF BatchInv

LEMMA SkipBatch ==
    ASSUME LoopInv, LoopInv', BatchInv, Skip
    PROVE  BatchInv'
<1>1. /\ batch # <<>> /\ batch' = Tail(batch)
      /\ UNCHANGED <<manager, news, notified, backlog, signals, sessions, requests, phase>>
  BY DEF Skip, Served, clientVars
<1>2. \A fd : Readable(fd) => Readable(fd)'
  BY <1>1 DEF Readable
<1>3. manager.event_id_counter <= manager'.event_id_counter
  BY <1>1 DEF LoopInv, Wired
<1> QED
  BY <1>1, <1>2, <1>3, ServedBatch

LEMMA MonitorBatch ==
    ASSUME LoopInv, LoopInv', BatchInv, MonitorCall
    PROVE  BatchInv'
<1>1. /\ batch # <<>> /\ batch' = Tail(batch)
      /\ Head(batch) \in DOMAIN manager.registered /\ manager.registered[Head(batch)] = Monitor
      /\ UNCHANGED <<manager, notified, backlog, signals, sessions, requests, phase>>
  BY DEF MonitorCall, Called, Served
<1>2. \A fd : fd # Monitor /\ Readable(fd) => Readable(fd)'
  BY <1>1 DEF Readable
<1>3. manager.event_id_counter <= manager'.event_id_counter
  BY <1>1 DEF LoopInv, Wired
<1> QED
  BY <1>1, <1>2, <1>3, ServedBatch

LEMMA ListenerBatch ==
    ASSUME LoopInv, LoopInv', BatchInv, ListenerCall
    PROVE  BatchInv'
<1>1. /\ batch # <<>> /\ batch' = Tail(batch)
      /\ Head(batch) \in DOMAIN manager.registered /\ manager.registered[Head(batch)] = Listener
      /\ UNCHANGED <<status, news, notified, signals, requests, phase>>
      /\ status = "running"
  BY DEF ListenerCall, Called, Free, Served, clientVars
<1>2. CASE UNCHANGED <<sessions, manager>>
  <2>1. \A fd : fd # Listener /\ Readable(fd) => Readable(fd)'
    BY <1>1, <1>2 DEF Readable
  <2>2. manager.event_id_counter <= manager'.event_id_counter
    BY <1>2 DEF LoopInv, Wired
  <2> QED
    BY <1>1, <1>2, <2>1, <2>2, ServedBatch
<1>3. CASE /\ sessions' = With(sessions, FreeFd, [client |-> Head(backlog), eof_received |-> FALSE])
           /\ manager' = Add(manager, FreeFd)
  <2> DEFINE fd == FreeFd
  <2>1. fd \in SessionFds /\ fd \notin DOMAIN sessions
    BY FreeFdType DEF LoopInv, TypeInv, ServiceType, ConnInv
  <2>2. fd \notin Descriptors
    BY <1>1, <2>1, FixedApart DEF Descriptors
  <2> HIDE DEF fd
  <2>3. /\ manager.event_id_counter < manager'.event_id_counter
        /\ \A h \in DOMAIN manager.registered : manager'.registered[h] = manager.registered[h]
        /\ \A h \in DOMAIN manager'.registered :
              h < manager.event_id_counter => h \in DOMAIN manager.registered
    BY <1>3, <2>2, FiniteDescriptors, AddWired DEF LoopInv, fd
  <2>4. manager.event_id_counter <= manager'.event_id_counter
    BY <2>3 DEF LoopInv, Wired
  <2>5. \A d \in DOMAIN sessions : d \in DOMAIN sessions' /\ sessions'[d] = sessions[d]
    BY <1>3, <2>1 DEF With, fd
  <2>6. \A d : d # Listener /\ Readable(d) => Readable(d)'
    BY <1>1, <2>5 DEF Readable
  <2> QED
    BY <1>1, <2>3, <2>4, <2>6, ServedBatch
<1> QED
  BY <1>2, <1>3 DEF ListenerCall

LEMMA RepositoryBatch ==
    ASSUME LoopInv, LoopInv', BatchInv, RepositoryCall
    PROVE  BatchInv'
<1> DEFINE departed == {fd \in DOMAIN sessions : sessions[fd].eof_received}
<1>1. /\ batch # <<>> /\ batch' = Tail(batch)
      /\ Head(batch) \in DOMAIN manager.registered /\ manager.registered[Head(batch)] = Repository
      /\ UNCHANGED <<status, news, backlog, signals, requests, phase>>
      /\ status = "running"
      /\ sessions' = Without(sessions, departed) /\ manager' = Destroyed(manager, departed)
  BY DEF RepositoryCall, Called, Free, Served, clientVars
<1>2. /\ DOMAIN sessions' = DOMAIN sessions \ departed
      /\ \A fd \in DOMAIN sessions' : sessions'[fd] = sessions[fd]
  BY <1>1 DEF Without
<1> HIDE DEF departed
<1>3. departed \subseteq Descriptors
  BY <1>1 DEF Descriptors, departed
<1>4. /\ manager'.event_id_counter = manager.event_id_counter
      /\ \A h \in DOMAIN manager'.registered :
            h \in DOMAIN manager.registered /\ manager'.registered[h] = manager.registered[h]
  <2>1. Wired(manager, Descriptors)
    BY DEF LoopInv
  <2> HIDE DEF departed
  <2> DEFINE after == Destroyed(manager, departed)
  <2>2. /\ Wired(after, Descriptors \ departed)
        /\ after.event_id_counter = manager.event_id_counter
        /\ \A h \in DOMAIN after.registered :
              /\ h \in DOMAIN manager.registered
              /\ after.registered[h] = manager.registered[h]
    BY <1>3, <2>1, DestroyedWired
  <2>3. manager' = Destroyed(manager, departed)
    BY <1>1
  <2> QED
    BY <2>2, <2>3
<1>5. manager.event_id_counter <= manager'.event_id_counter
  BY <1>4 DEF LoopInv, Wired
<1>6. \A fd \in Descriptors' : fd # Repository /\ Readable(fd) => Readable(fd)'
  <2>1. SUFFICES ASSUME NEW fd \in DOMAIN sessions' \cup Fixed, fd # Repository, Readable(fd)
                 PROVE  Readable(fd)'
    BY DEF Descriptors
  <2>2. fd \in DOMAIN sessions => fd \in DOMAIN sessions'
    BY <2>1, FixedApart DEF LoopInv, TypeInv, ServiceType
  <2> QED
    BY <1>1, <1>2, <2>1, <2>2 DEF Readable
<1> QED
  BY <1>1, <1>4, <1>5, <1>6, ServedBatch

LEMMA SessionBatch ==
    ASSUME LoopInv, LoopInv', BatchInv, NEW fd \in SessionFds, SessionCall(fd)
    PROVE  BatchInv'
<1> DEFINE c == sessions[fd].client
<1>1. /\ batch # <<>> /\ batch' = Tail(batch)
      /\ Head(batch) \in DOMAIN manager.registered /\ manager.registered[Head(batch)] = fd
      /\ UNCHANGED <<manager, news, backlog, signals, phase>>
      /\ notified => notified'
  BY DEF SessionCall, Called, Served
<1>2. fd \in DOMAIN sessions
  BY CalledFor, FixedApart DEF SessionCall
<1>3. /\ DOMAIN sessions' = DOMAIN sessions
      /\ \A d \in DOMAIN sessions : d # fd => sessions'[d] = sessions[d]
  BY DEF SessionCall
<1>4. \A b \in Clients : b # c => requests'[b] = requests[b]
  BY DEF SessionCall, LoopInv, TypeInv, ClientType
<1>5. \A d \in DOMAIN sessions : d # fd => sessions[d].client # c /\ sessions[d].client \in Clients
  BY <1>2 DEF LoopInv, TypeInv, ServiceType, ConnInv, Session
<1>6. \A d : d # fd /\ Readable(d) => Readable(d)'
  <2>1. SUFFICES ASSUME NEW d, d # fd, Readable(d) PROVE Readable(d)'
    OBVIOUS
  <2>2. CASE d \in DOMAIN sessions /\ requests[sessions[d].client] > 0
    BY <1>3, <1>4, <1>5, <2>1, <2>2 DEF Readable
  <2>3. CASE d \in DOMAIN sessions /\ phase[sessions[d].client] = "gone"
    BY <1>1, <1>3, <2>1, <2>3 DEF Readable
  <2>4. CASE d = Repository /\ notified
    BY <1>1, <2>4 DEF Readable
  <2> QED
    BY <1>1, <2>1, <2>2, <2>3, <2>4 DEF Readable
<1>7. manager.event_id_counter <= manager'.event_id_counter
  BY <1>1 DEF LoopInv, Wired
<1> QED
  BY <1>1, <1>6, <1>7, ServedBatch

LEMMA SendBatch ==
    ASSUME LoopInv, BatchInv, Send
    PROVE  BatchInv'
<1>1. UNCHANGED <<news, phase, requests, manager, sessions, notified, batch, backlog, signals>>
  BY DEF Send
<1>2. \A fd : Readable(fd) => Readable(fd)'
  BY <1>1 DEF Readable
<1> QED
  BY <1>1, <1>2, KeptBatch

LEMMA InterruptBatch ==
    ASSUME LoopInv, LoopInv', BatchInv, InterruptCall
    PROVE  BatchInv'
<1>1. /\ batch # <<>> /\ UNCHANGED <<news, phase, requests>>
      /\ Head(batch) \in DOMAIN manager.registered /\ manager.registered[Head(batch)] = Interrupt
  BY DEF InterruptCall, Called, clientVars
<1>2. CASE Ends("killed")
  BY <1>2 DEF Ends, BatchInv, NeverReadsInVain
<1>3. CASE Served /\ UNCHANGED <<status, manager, sessions, notified, sending, backlog>>
  <2>1. \A fd : fd # Interrupt /\ Readable(fd) => Readable(fd)'
    BY <1>1, <1>3 DEF Readable
  <2>2. manager.event_id_counter <= manager'.event_id_counter
    BY <1>3 DEF LoopInv, Wired
  <2> QED
    BY <1>1, <1>3, <2>1, <2>2, ServedBatch DEF Served
<1> QED
  BY <1>2, <1>3 DEF InterruptCall

LEMMA SignalBatch ==
    ASSUME LoopInv, BatchInv, NEW s \in Signals, Signal(s)
    PROVE  BatchInv'
<1>1. CASE Ends("killed")
  BY <1>1 DEF Ends, BatchInv, NeverReadsInVain
<1>2. CASE signals' = signals \cup {s} /\ UNCHANGED <<daemonVars, backlog>>
  <2>1. /\ UNCHANGED <<news, phase, requests, batch, manager, sessions, notified, backlog>>
        /\ signals # {} => signals' # {}
    BY <1>2 DEF Signal, clientVars, daemonVars, loopVars
  <2>2. \A fd : Readable(fd) => Readable(fd)'
    BY <2>1 DEF Readable
  <2> QED
    BY <2>1, <2>2, KeptBatch
<1> QED
  BY <1>1, <1>2 DEF Signal

\* What a client does never takes from the daemon what there is to read.
LEMMA ClientBatch ==
    ASSUME LoopInv, LoopInv', BatchInv, NEW c \in Clients, Client(c)
    PROVE  BatchInv'
<1>1. UNCHANGED <<batch, manager, sessions, notified, signals, news>>
  BY DEF Client, Connect, Leave, SendRequest, ReadData, daemonVars, loopVars
<1>2. backlog # <<>> => backlog' # <<>>
  <2>1. CASE backlog' = backlog
    BY <2>1
  <2>2. CASE backlog' = Append(backlog, c)
    <3>1. backlog \in Seq(Clients)
      BY DEF LoopInv, TypeInv, ClientType
    <3>2. Len(backlog') = Len(backlog) + 1 /\ Len(backlog) \in Nat
      BY <2>2, <3>1
    <3> QED
      BY <3>2
  <2> QED
    BY <2>1, <2>2 DEF Client, Connect, Leave, SendRequest, ReadData
<1>3. \A b \in Clients : /\ requests[b] > 0 => requests'[b] > 0
                         /\ phase[b] = "gone" => phase'[b] = "gone"
  <2>1. /\ phase \in [Clients -> {"off", "idle", "waiting", "gone"}]
        /\ requests \in [Clients -> 0..Window] /\ Window \in Nat
    BY SessionConstants DEF LoopInv, TypeInv, ClientType
  <2>2. \/ requests' = requests
        \/ requests' = [requests EXCEPT ![c] = @ + 1]
    BY DEF Client, Connect, Leave, SendRequest, ReadData
  <2>3. /\ phase[c] # "gone"
        /\ \E p : phase' = [phase EXCEPT ![c] = p]
    <3>1. CASE Connect(c)
      BY <3>1 DEF Connect
    <3>2. CASE Leave(c)
      BY <3>2 DEF Leave
    <3>3. CASE SendRequest(c)
      BY <3>3 DEF SendRequest
    <3>4. CASE ReadData(c)
      <4>1. phase = [phase EXCEPT ![c] = "waiting"]
        BY <2>1, <3>4 DEF ReadData
      <4> QED
        BY <3>4, <4>1 DEF ReadData
    <3> QED
      BY <3>1, <3>2, <3>3, <3>4 DEF Client
  <2> QED
    BY <2>1, <2>2, <2>3
<1>4. \A fd \in DOMAIN sessions : sessions[fd].client \in Clients
  BY DEF LoopInv, TypeInv, ServiceType, Session
<1>5. \A fd : Readable(fd) => Readable(fd)'
  BY <1>1, <1>2, <1>3, <1>4 DEF Readable
<1> QED
  BY <1>1, <1>5, KeptBatch

LEMMA BatchStep ==
    ASSUME LoopInv, LoopInv', BatchInv, [Next]_vars
    PROVE  BatchInv'
<1>1. CASE ProcessEvents
  BY <1>1, ProcessEventsBatch
<1>2. CASE Skip
  BY <1>2, SkipBatch
<1>3. CASE MonitorCall
  BY <1>3, MonitorBatch
<1>4. CASE ListenerCall
  BY <1>4, ListenerBatch
<1>5. CASE RepositoryCall
  BY <1>5, RepositoryBatch
<1>6. CASE \E fd \in SessionFds : SessionCall(fd)
  BY <1>6, SessionBatch
<1>7. CASE Send
  BY <1>7, SendBatch
<1>8. CASE InterruptCall
  BY <1>8, InterruptBatch
<1>9. CASE Exit
  BY <1>9 DEF Exit, Ends, BatchInv, NeverReadsInVain
<1>10. CASE \E s \in Signals : Signal(s)
  BY <1>10, SignalBatch
<1>11. CASE \E c \in Clients : Client(c)
  BY <1>11, ClientBatch
<1>12. CASE UNCHANGED vars
  <2>1. UNCHANGED <<batch, manager, sessions, notified, signals, news, backlog, requests, phase>>
    BY <1>12 DEF vars, daemonVars, loopVars, clientVars
  <2>2. \A fd : Readable(fd) => Readable(fd)'
    BY <2>1 DEF Readable
  <2> QED
    BY <2>1, <2>2, KeptBatch
<1> QED
  BY <1>1, <1>2, <1>3, <1>4, <1>5, <1>6, <1>7, <1>8, <1>9, <1>10, <1>11, <1>12 DEF Next, Daemon

\* NeverReadsInVain: a handle is not given out twice and what makes a descriptor
\* readable is only taken away by its own handler, so whatever the handlers served
\* before it do to the sessions, the one that is called finds something to read.
THEOREM ReadsSomething == Spec => []NeverReadsInVain
<1> DEFINE BothInv == LoopInv /\ BatchInv
<1>1. Init => BothInv
  BY InitLoop, NoBatch DEF Init
<1>2. BothInv /\ [Next]_vars => BothInv'
  BY LoopStep, BatchStep
<1>3. BothInv => NeverReadsInVain
  BY DEF BatchInv
<1> QED
  BY <1>1, <1>2, <1>3, PTL DEF Spec

----------------------------------------------------------------------------
(* The answers, AnswersAreTables.                                           *)

\* A packet that moves on from one queue to the next stays where it is in the
\* response.
LEMMA MoveOn ==
    ASSUME NEW X, NEW a \in Seq(X), NEW b \in Seq(X), b # <<>>
    PROVE  Append(a, Head(b)) \o Tail(b) = a \o b
<1> DEFINE u == Append(a, Head(b)) \o Tail(b)
           v == a \o b
<1>1. /\ Append(a, Head(b)) \in Seq(X) /\ Tail(b) \in Seq(X)
      /\ Len(a) \in Nat /\ Len(b) \in Nat /\ Len(b) >= 1
      /\ Len(Append(a, Head(b))) = Len(a) + 1 /\ Len(Tail(b)) = Len(b) - 1
  OBVIOUS
<1>2. /\ u \in Seq(X) /\ v \in Seq(X)
      /\ Len(u) = Len(a) + Len(b) /\ Len(v) = Len(a) + Len(b)
  BY <1>1
<1>3. \A i \in 1..(Len(a) + Len(b)) : u[i] = v[i]
  <2> SUFFICES ASSUME NEW i \in 1..(Len(a) + Len(b)) PROVE u[i] = v[i]
    OBVIOUS
  <2>1. CASE i <= Len(a)
    BY <1>1, <2>1
  <2>2. CASE i = Len(a) + 1
    <3>1. u[i] = Head(b)
      BY <1>1, <2>2
    <3>2. v[i] = b[1]
      BY <1>1, <2>2
    <3> QED
      BY <3>1, <3>2
  <2>3. CASE i > Len(a) + 1
    <3>1. u[i] = Tail(b)[i - (Len(a) + 1)]
      BY <1>1, <2>3
    <3>2. v[i] = b[i - Len(a)]
      BY <1>1, <2>3
    <3>3. Tail(b)[i - (Len(a) + 1)] = b[i - Len(a)]
      BY <1>1, <2>3
    <3> QED
      BY <3>1, <3>2, <3>3
  <2> QED
    BY <1>1, <2>1, <2>2, <2>3
<1> HIDE DEF u, v
<1>4. u = v
  BY <1>2, <1>3
<1> QED
  BY <1>4 DEF u, v

LEMMA HeadOfConcat ==
    ASSUME NEW a \in Seq(Packet), NEW r \in Seq(Packet), a # <<>>
    PROVE  /\ a \o r \in Seq(Packet) /\ a \o r # <<>> /\ Head(a \o r) = Head(a)
           /\ Tail(a \o r) = Tail(a) \o r
<1>1. a \o r \in Seq(Packet) /\ Len(a \o r) = Len(a) + Len(r) /\ Len(a) >= 1
      /\ Len(a) \in Nat /\ Len(r) \in Nat
  OBVIOUS
<1>2. a \o r # <<>> /\ Head(a \o r) = Head(a)
  BY <1>1
<1>3. Tail(a) \in Seq(Packet) /\ Len(Tail(a)) = Len(a) - 1
      /\ \A i \in 1..(Len(a) - 1) : Tail(a)[i] = a[i + 1]
  BY <1>1
<1> DEFINE u == Tail(a \o r)
           v == Tail(a) \o r
<1>4. u \in Seq(Packet) /\ v \in Seq(Packet) /\ Len(u) = Len(a) + Len(r) - 1 /\ Len(v) = Len(u)
  BY <1>1, <1>2, <1>3
<1>5. \A i \in 1..(Len(a) + Len(r) - 1) : u[i] = v[i]
  <2> SUFFICES ASSUME NEW i \in 1..(Len(a) + Len(r) - 1) PROVE u[i] = v[i]
    OBVIOUS
  <2>1. u[i] = (a \o r)[i + 1]
    BY <1>1, <1>2
  <2>2. CASE i <= Len(a) - 1
    BY <1>1, <1>3, <2>1, <2>2
  <2>3. CASE i > Len(a) - 1
    <3>1. (a \o r)[i + 1] = r[i + 1 - Len(a)]
      BY <1>1, <2>3
    <3>2. v[i] = r[i - (Len(a) - 1)]
      BY <1>1, <1>3, <2>3
    <3>3. i + 1 - Len(a) = i - (Len(a) - 1)
      BY <1>1
    <3> QED
      BY <2>1, <3>1, <3>2, <3>3
  <2> QED
    BY <1>1, <2>2, <2>3
<1> HIDE DEF u, v
<1>6. u = v
  BY <1>4, <1>5
<1> QED
  BY <1>1, <1>2, <1>6 DEF u, v

LEMMA MoveIn ==
    ASSUME NEW a \in Seq(Packet), NEW b \in Seq(Packet), NEW r \in Seq(Packet), r # <<>>
    PROVE  a \o Append(b, Head(r)) \o Tail(r) = a \o b \o r
<1>1. Append(b, Head(r)) \in Seq(Packet) /\ Tail(r) \in Seq(Packet)
  OBVIOUS
<1>2. \A s \in Seq(Packet), t \in Seq(Packet), u \in Seq(Packet) : (s \o t) \o u = s \o (t \o u)
  BY ConcatAssociative, SMTT(40)
<1>3. Append(b, Head(r)) \o Tail(r) = b \o r
  BY MoveOn
<1>4. (a \o Append(b, Head(r))) \o Tail(r) = a \o (Append(b, Head(r)) \o Tail(r))
  BY <1>1, <1>2, Zenon
<1>5. (a \o b) \o r = a \o (b \o r)
  BY <1>2
<1> QED
  BY <1>3, <1>4, <1>5

\* Where the first of two parts of a response ends.
LEMMA Position ==
    ASSUME NEW a \in Seq(Packet), NEW b \in Seq(Packet), NEW t \in Tables,
           a \o b = DumpData(t)
    PROVE  /\ b = <<>> => a = DumpData(t)
           /\ b # <<>> => /\ \A k \in DOMAIN a : a[k] # End
                          /\ Head(b) = End <=> Tail(b) = <<>>
<1> DEFINE d == DumpData(t)
<1>1. /\ d \in Seq(Packet) /\ d # <<>> /\ d[Len(d)] = End
      /\ \A k \in 1..(Len(d) - 1) : d[k] # End
  BY DumpType DEF Last
<1> HIDE DEF d
<1>2. d = a \o b
  BY DEF d
<1>3. /\ Len(d) = Len(a) + Len(b) /\ Len(a) \in Nat /\ Len(b) \in Nat
      /\ DOMAIN a = 1..Len(a)
      /\ \A k \in 1..Len(a) : d[k] = a[k]
      /\ \A k \in 1..Len(b) : d[Len(a) + k] = b[k]
  BY <1>2
<1>4. ASSUME b = <<>> PROVE a = d
  BY <1>2, <1>4
<1>5. ASSUME b # <<>>
      PROVE  (\A k \in DOMAIN a : a[k] # End) /\ (Head(b) = End <=> Tail(b) = <<>>)
  <2>1. Len(b) >= 1 /\ Head(b) = d[Len(a) + 1] /\ Len(Tail(b)) = Len(b) - 1 /\ Tail(b) \in Seq(Packet)
    BY <1>3, <1>5
  <2>2. Tail(b) = <<>> <=> Len(a) + 1 = Len(d)
    <3>1. \A s \in Seq(Packet) : s = <<>> <=> Len(s) = 0
      OBVIOUS
    <3>2. Tail(b) = <<>> <=> Len(Tail(b)) = 0
      BY <2>1, <3>1
    <3> QED
      BY <1>3, <2>1, <3>2
  <2>3. Head(b) = End <=> Len(a) + 1 = Len(d)
    BY <1>1, <1>3, <2>1
  <2>4. \A k \in DOMAIN a : a[k] # End
    BY <1>1, <1>3, <2>1
  <2> QED
    BY <2>2, <2>3, <2>4
<1> QED
  BY <1>4, <1>5 DEF d

\* A client that has not taken part in a step, except that it may have lost its
\* connection or that the table has changed.
LEMMA KeptStream ==
    ASSUME LoopInv', NEW c \in Clients, Stream(c),
           phase'[c] = phase[c], requests'[c] = requests[c], inbox'[c] = inbox[c],
           received'[c] = received[c], c \in overrun => c \in overrun',
           shown[c] \subseteq shown'[c],
           phase[c] # "waiting" => shown'[c] = shown[c],
           phase[c] = "waiting" => table' \in shown'[c],
           Connected(c)' => /\ Connected(c)
                            /\ SendingTo(c)' <=> SendingTo(c)
                            /\ SendingTo(c) => sending' = sending
    PROVE  Stream(c)'
<1>1. SendingTo(c)' => Connected(c)' /\ Connected(c) /\ SendingTo(c) /\ sending' = sending
  BY DEF LoopInv, TypeInv, ServiceType, SendingTo, Connected
<1>2. Unused(c)' /\ Watching(c)'
  BY DEF Stream, Unused, Watching
<1>3. ASSUME AtRest(c) PROVE AtRest(c)'
  BY <1>1, <1>3 DEF AtRest
<1>4. ASSUME Waits(c) PROVE Waits(c)'
  <2>1. ASSUME Underway(c), phase[c] = "waiting" PROVE Underway(c)'
    BY <2>1 DEF Underway
  <2> QED
    BY <1>1, <1>4, <2>1 DEF Waits
<1> QED
  BY <1>2, <1>3, <1>4 DEF Stream

\* A step that serves no session and is not of a client.
LEMMA DaemonStream ==
    ASSUME LoopInv', StreamInv, UNCHANGED <<table, phase, requests, inbox, received, shown, overrun>>,
           \A c \in Clients : Connected(c)' => /\ Connected(c)
                                               /\ SendingTo(c)' <=> SendingTo(c)
                                               /\ SendingTo(c) => sending' = sending
    PROVE  StreamInv'
<1>1. ASSUME NEW c \in Clients PROVE Stream(c)'
  <2>1. Stream(c)
    BY DEF StreamInv
  <2>2. phase[c] = "waiting" => table' \in shown'[c]
    BY <2>1 DEF Stream, Watching
  <2> QED
    BY <2>1, <2>2, KeptStream
<1> QED
  BY <1>1 DEF StreamInv

LEMMA EndsStream ==
    ASSUME LoopInv', StreamInv, NEW how, Ends(how),
           UNCHANGED <<table, phase, requests, inbox, received, shown, overrun>>
    PROVE  StreamInv'
<1>1. \A c : ~Connected(c)'
  BY DEF Ends, Connected, Range
<1> QED
  BY <1>1, DaemonStream

LEMMA QuietStream ==
    ASSUME LoopInv, LoopInv', StreamInv, ProcessEvents \/ Skip
    PROVE  StreamInv'
<1>1. UNCHANGED <<table, phase, requests, inbox, received, shown, overrun, sessions, backlog, sending>>
  BY DEF ProcessEvents, Skip, clientVars
<1> QED
  BY <1>1, DaemonStream DEF Connected, SendingTo

LEMMA MonitorStream ==
    ASSUME LoopInv, LoopInv', StreamInv, MonitorCall
    PROVE  StreamInv'
<1>1. /\ UNCHANGED <<sessions, backlog, sending, phase, requests, inbox, received, overrun>>
      /\ table' \in Tables
      /\ shown' = [c \in Clients |-> IF phase[c] = "waiting" THEN shown[c] \cup {table'} ELSE shown[c]]
  BY DEF MonitorCall
<1>2. ASSUME NEW c \in Clients PROVE Stream(c)'
  <2>1. Stream(c)
    BY DEF StreamInv
  <2>2. Connected(c)' = Connected(c) /\ SendingTo(c)' = SendingTo(c)
    BY <1>1 DEF Connected, SendingTo
  <2>3. /\ shown[c] \subseteq shown'[c]
        /\ phase[c] # "waiting" => shown'[c] = shown[c]
        /\ phase[c] = "waiting" => table' \in shown'[c]
    BY <1>1
  <2> QED
    BY <1>1, <2>1, <2>2, <2>3, KeptStream
<1>3. shown' \in [Clients -> SUBSET Tables]
  BY <1>1 DEF StreamInv
<1> QED
  BY <1>2, <1>3 DEF StreamInv

LEMMA ListenerStream ==
    ASSUME LoopInv, LoopInv', StreamInv, ListenerCall
    PROVE  StreamInv'
<1>1. /\ UNCHANGED <<table, phase, requests, inbox, received, shown, overrun, sending>>
      /\ sending = Idle
  BY DEF ListenerCall, Called, Free, clientVars
<1>2. backlog \in Seq(Clients) /\ backlog # <<>>
  BY FixedApart DEF ListenerCall, Called, Readable, LoopInv, TypeInv, ServiceType, ClientType, Fixed
<1>3. Range(Tail(backlog)) \subseteq Range(backlog) /\ Head(backlog) \in Range(backlog)
  <2>1. /\ 1 \in DOMAIN backlog /\ Head(backlog) = backlog[1]
        /\ \A k \in DOMAIN Tail(backlog) : k + 1 \in DOMAIN backlog
                                           /\ Tail(backlog)[k] = backlog[k + 1]
    BY <1>2
  <2> QED
    BY <2>1 DEF Range
<1>4. \A c \in Clients : Connected(c)' => Connected(c)
  <2>1. CASE /\ sessions' = With(sessions, FreeFd, [client |-> Head(backlog), eof_received |-> FALSE])
             /\ backlog' = Tail(backlog)
    <3>1. \A d \in DOMAIN sessions' : \/ d \in DOMAIN sessions /\ sessions'[d] = sessions[d]
                                      \/ sessions'[d].client \in Range(backlog)
      BY <1>3, <2>1 DEF With
    <3> QED
      BY <1>3, <2>1, <3>1 DEF Connected
  <2>2. CASE backlog' \in {backlog, Tail(backlog)} /\ UNCHANGED sessions
    <3>1. Range(backlog') \subseteq Range(backlog)
      BY <1>3, <2>2
    <3> QED
      BY <2>2, <3>1 DEF Connected
  <2> QED
    BY <2>1, <2>2 DEF ListenerCall
<1> QED
  BY <1>1, <1>4, DaemonStream DEF SendingTo

LEMMA RepositoryStream ==
    ASSUME LoopInv, LoopInv', StreamInv, RepositoryCall
    PROVE  StreamInv'
<1>1. /\ UNCHANGED <<table, phase, requests, inbox, received, shown, overrun, sending, backlog>>
      /\ sending = Idle
  BY DEF RepositoryCall, Called, Free, clientVars
<1>2. \A fd \in DOMAIN sessions' : fd \in DOMAIN sessions /\ sessions'[fd] = sessions[fd]
  BY DEF RepositoryCall, Without
<1>3. \A c \in Clients : Connected(c)' => Connected(c)
  BY <1>1, <1>2 DEF Connected
<1> QED
  BY <1>1, <1>3, DaemonStream DEF SendingTo

LEMMA SessionStream ==
    ASSUME LoopInv, LoopInv', StreamInv, NEW fd \in SessionFds, SessionCall(fd)
    PROVE  StreamInv'
<1>1. /\ UNCHANGED <<table, phase, inbox, received, shown, overrun, backlog>>
      /\ sending = Idle
  BY DEF SessionCall, Called, Free
<1>2. fd \in DOMAIN sessions /\ sessions[fd].client \in Clients
  <2>1. fd \in DOMAIN sessions
    BY CalledFor, FixedApart DEF SessionCall
  <2> QED
    BY <2>1 DEF LoopInv, TypeInv, ServiceType, Session
<1>c. PICK c \in Clients : c = sessions[fd].client
  BY <1>2
<1>3. /\ DOMAIN sessions' = DOMAIN sessions
      /\ \A d \in DOMAIN sessions : sessions'[d].client = sessions[d].client
  <2>1. CASE UNCHANGED sessions
    BY <2>1
  <2>2. CASE sessions' = [sessions EXCEPT ![fd].eof_received = TRUE]
    <3>1. sessions \in [DOMAIN sessions -> Session]
      BY DEF LoopInv, TypeInv, ServiceType
    <3>2. sessions'[fd] = [sessions[fd] EXCEPT !.eof_received = TRUE]
      BY <1>2, <2>2
    <3>3. sessions'[fd].client = sessions[fd].client
      BY <1>2, <3>1, <3>2 DEF Session
    <3> QED
      BY <2>2, <3>3
  <2> QED
    BY <2>1, <2>2 DEF SessionCall
<1>4. /\ \A b : Connected(b)' <=> Connected(b)
      /\ \A b : ~SendingTo(b)
      /\ Connected(c)
  BY <1>1, <1>2, <1>3, <1>c DEF Connected, SendingTo
<1>5. requests \in [Clients -> 0..Window] /\ Window \in Nat
  BY SessionConstants DEF LoopInv, TypeInv, ClientType
<1>6. CASE requests' = requests /\ sending' = sending
  <2>1. \A b : SendingTo(b)' <=> SendingTo(b)
    BY <1>1, <1>6 DEF SendingTo
  <2> QED
    BY <1>1, <1>4, <1>6, <2>1, DaemonStream
<1>7. CASE /\ requests[c] > 0
           /\ requests' = [requests EXCEPT ![c] = @ - 1]
           /\ sending' = [fd |-> fd, packets |-> DumpData(table)]
  <2>1. sending' # Idle /\ sending'.fd = fd /\ sending'.packets = DumpData(table)
    <3>1. fd # 0
      BY SessionConstants, FS_CardinalityType DEF SessionFds
    <3> QED
      BY <1>7, <3>1 DEF Idle
  <2>2. \A b : SendingTo(b)' <=> b = c
    BY <1>2, <1>3, <1>c, <2>1 DEF SendingTo
  <2>3. ASSUME NEW b \in Clients, b # c PROVE Stream(b)'
    <3>1. Stream(b) /\ requests'[b] = requests[b]
      BY <1>5, <1>7, <2>3 DEF StreamInv
    <3>2. phase[b] = "waiting" => table' \in shown'[b]
      BY <1>1, <3>1 DEF Stream, Watching
    <3> QED
      BY <1>1, <1>4, <2>2, <2>3, <3>1, <3>2, KeptStream
  <2>4. Stream(c)'
    <3>1. Stream(c) /\ phase[c] # "off" /\ requests'[c] = requests[c] - 1
      BY <1>2, <1>4, <1>5, <1>7 DEF StreamInv, LoopInv, ConnInv
    <3>2. Unused(c)' /\ Watching(c)'
      BY <1>1, <3>1 DEF Stream, Unused, Watching
    <3>3. ASSUME AtRest(c) PROVE AtRest(c)'
      BY <1>1, <1>4, <1>7, <3>3 DEF AtRest
    <3>4. ASSUME Waits(c), phase[c] = "waiting" PROVE requests'[c] = 0 /\ Underway(c)'
      <4>1. requests[c] = 1 /\ received[c] = <<>> /\ inbox[c] = <<>>
        BY <1>7, <3>4 DEF Waits
      <4>2. table \in shown[c] /\ DumpData(table) \in Seq(Packet) \ {<<>>}
        BY <3>1, <3>4, DumpType DEF Stream, Watching, LoopInv, TypeInv, DaemonType
      <4>3. <<>> \o <<>> \o DumpData(table) = DumpData(table) /\ <<>> \o DumpData(table) # <<>>
        BY <4>2
      <4>4. requests'[c] = 0
        BY <3>1, <4>1
      <4> QED
        BY <1>1, <2>1, <2>2, <4>1, <4>2, <4>3, <4>4 DEF Underway
    <3>5. ASSUME Waits(c) PROVE Waits(c)'
      BY <1>1, <3>4, <3>5 DEF Waits
    <3> QED
      BY <1>1, <3>1, <3>2, <3>3, <3>5 DEF Stream
  <2> QED
    BY <1>1, <2>3, <2>4 DEF StreamInv
<1> QED
  BY <1>1, <1>6, <1>7, <1>c DEF SessionCall

LEMMA SendStream ==
    ASSUME LoopInv, LoopInv', StreamInv, Send
    PROVE  StreamInv'
<1> DEFINE rest == Tail(sending.packets)
<1>1. /\ UNCHANGED <<table, phase, requests, received, shown, overrun, sessions, backlog>>
      /\ sending # Idle
      /\ sending' = IF rest = <<>> THEN Idle ELSE [sending EXCEPT !.packets = rest]
  BY DEF Send
<1>2. /\ sending \in [fd : DOMAIN sessions, packets : Seq(Packet) \ {<<>>}]
      /\ sending.fd \in DOMAIN sessions /\ sessions[sending.fd].client \in Clients
      /\ sending.packets \in Seq(Packet) /\ sending.packets # <<>>
  <2>1. sending \in [fd : DOMAIN sessions, packets : Seq(Packet) \ {<<>>}]
    BY <1>1 DEF LoopInv, TypeInv, ServiceType
  <2> QED
    BY <2>1 DEF LoopInv, TypeInv, ServiceType, Session
<1>c. PICK c \in Clients : c = sessions[sending.fd].client
  BY <1>2
<1>3. CASE phase[c] = "gone" /\ UNCHANGED inbox
  <2>1. \A b \in Clients : b # c => ~SendingTo(b) /\ ~SendingTo(b)'
    BY <1>1, <1>2, <1>c DEF SendingTo
  <2>2. ASSUME NEW b \in Clients PROVE Stream(b)'
    <3>1. Stream(b) /\ (Connected(b)' <=> Connected(b))
      BY <1>1 DEF StreamInv, Connected
    <3>2. phase[b] = "waiting" => table' \in shown'[b]
      BY <1>1, <3>1 DEF Stream, Watching
    <3>3. CASE b = c
      BY <1>1, <1>3, <3>1, <3>3 DEF Stream, Unused, Watching, AtRest, Waits
    <3>4. CASE b # c
      BY <1>1, <1>3, <2>1, <3>1, <3>2, <3>4, KeptStream
    <3> QED
      BY <3>3, <3>4
  <2> QED
    BY <1>1, <2>2 DEF StreamInv
<1>4. CASE inbox' = [inbox EXCEPT ![c] = Append(@, Head(sending.packets))]
  <2>1. \A b : Connected(b)' <=> Connected(b)
    BY <1>1 DEF Connected
  <2>2. \A b : SendingTo(b) <=> b = c
    BY <1>1, <1>c DEF SendingTo
  <2>3. rest # <<>> => sending' # Idle /\ sending'.fd = sending.fd /\ sending'.packets = rest
    <3>1. sending.fd # 0
      BY <1>2, FixedApart, SessionConstants, FS_CardinalityType
         DEF LoopInv, TypeInv, ServiceType, SessionFds
    <3>2. ASSUME rest # <<>>
          PROVE  sending'.fd = sending.fd /\ sending'.packets = rest
      BY <1>1, <1>2, <3>2
    <3> QED
      BY <3>1, <3>2 DEF Idle
  <2>4. /\ \A b : SendingTo(b)' => b = c
        /\ (IF SendingTo(c)' THEN sending'.packets ELSE <<>>) = rest
    BY <1>1, <1>c, <2>3 DEF SendingTo
  <2>5. ASSUME NEW b \in Clients, b # c PROVE Stream(b)'
    <3>1. Stream(b) /\ inbox'[b] = inbox[b]
      BY <1>4, <2>5 DEF StreamInv, LoopInv, TypeInv, ClientType
    <3>2. phase[b] = "waiting" => table' \in shown'[b]
      BY <1>1, <3>1 DEF Stream, Watching
    <3> QED
      BY <1>1, <2>1, <2>2, <2>4, <2>5, <3>1, <3>2, KeptStream
  <2>6. Stream(c)'
    <3>1. Stream(c) /\ Connected(c) /\ SendingTo(c) /\ phase[c] # "off"
      BY <1>2, <1>c, <2>2 DEF StreamInv, LoopInv, ConnInv, Connected
    <3>2. inbox[c] \in Seq(Packet) /\ inbox'[c] = Append(inbox[c], Head(sending.packets))
          /\ received[c] \in Seq(Packet)
      BY <1>4 DEF LoopInv, TypeInv, ClientType
    <3>3. Unused(c)' /\ Watching(c)'
      BY <1>1, <3>1 DEF Stream, Unused, Watching
    <3>4. ASSUME AtRest(c) PROVE AtRest(c)'
      BY <1>1, <3>1, <3>4 DEF AtRest
    <3>5. ASSUME Waits(c), phase[c] = "waiting" PROVE requests'[c] = 0 /\ Underway(c)'
      <4>1. requests[c] = 0 /\ Underway(c)
        BY <3>1, <3>5 DEF Waits
      <4>2. PICK t \in shown[c] : received[c] \o inbox[c] \o sending.packets = DumpData(t)
        BY <3>1, <4>1 DEF Underway
      <4>3. rest \in Seq(Packet) /\ Head(sending.packets) \in Packet
        BY <1>2
      <4>4. inbox'[c] \in Seq(Packet) /\ inbox'[c] \o rest # <<>>
        <5>1. inbox'[c] \in Seq(Packet) /\ inbox'[c] # <<>>
          BY <3>2, <4>3
        <5> QED
          BY <4>3, <5>1
      <4>5. received[c] \o inbox'[c] \o rest = received[c] \o inbox[c] \o sending.packets
        <5>1. \A a, b, r \in Seq(Packet) :
                 r # <<>> => a \o Append(b, Head(r)) \o Tail(r) = a \o b \o r
          BY MoveIn
        <5>2. received[c] \o Append(inbox[c], Head(sending.packets)) \o rest
                 = received[c] \o inbox[c] \o sending.packets
          BY <1>2, <3>2, <5>1
        <5> QED
          BY <3>2, <5>2
      <4> QED
        BY <1>1, <2>4, <4>1, <4>2, <4>3, <4>4, <4>5 DEF Underway
    <3>6. ASSUME Waits(c) PROVE Waits(c)'
      BY <1>1, <3>5, <3>6 DEF Waits
    <3> QED
      BY <1>1, <3>1, <3>3, <3>4, <3>6 DEF Stream
  <2> QED
    BY <1>1, <2>5, <2>6 DEF StreamInv
<1> QED
  BY <1>3, <1>4, <1>c DEF Send

LEMMA InterruptStream ==
    ASSUME LoopInv', StreamInv, InterruptCall
    PROVE  StreamInv'
<1>1. UNCHANGED <<table, phase, requests, inbox, received, shown, overrun>>
  BY DEF InterruptCall, clientVars
<1>2. CASE Ends("killed")
  BY <1>1, <1>2, EndsStream
<1>3. CASE UNCHANGED <<sessions, sending, backlog>>
  BY <1>1, <1>3, DaemonStream DEF Connected, SendingTo
<1> QED
  BY <1>2, <1>3 DEF InterruptCall

LEMMA SignalStream ==
    ASSUME LoopInv', StreamInv, NEW s \in Signals, Signal(s)
    PROVE  StreamInv'
<1>1. UNCHANGED <<table, phase, requests, inbox, received, shown, overrun>>
  BY DEF Signal, clientVars
<1>2. CASE Ends("killed")
  BY <1>1, <1>2, EndsStream
<1>3. CASE UNCHANGED <<sessions, sending, backlog>>
  BY <1>1, <1>3, DaemonStream DEF Connected, SendingTo
<1> QED
  BY <1>2, <1>3 DEF Signal, daemonVars, loopVars

\* A step of client c leaves the others alone.
LEMMA OthersStream ==
    ASSUME LoopInv', StreamInv, NEW c \in Clients, UNCHANGED <<table, sessions, sending>>,
           \A b \in Clients \ {c} :
              /\ phase'[b] = phase[b] /\ requests'[b] = requests[b]
              /\ inbox'[b] = inbox[b] /\ received'[b] = received[b] /\ shown'[b] = shown[b]
              /\ b \in overrun => b \in overrun'
              /\ b \in Range(backlog') => b \in Range(backlog),
           shown' \in [Clients -> SUBSET Tables],
           Stream(c)'
    PROVE  StreamInv'
<1>1. ASSUME NEW b \in Clients, b # c PROVE Stream(b)'
  <2>1. Stream(b)
    BY DEF StreamInv
  <2>2. phase[b] = "waiting" => table' \in shown'[b]
    BY <1>1, <2>1 DEF Stream, Watching
  <2>3. /\ Connected(b)' => Connected(b)
        /\ SendingTo(b)' <=> SendingTo(b)
    BY <1>1 DEF Connected, SendingTo
  <2> QED
    BY <1>1, <2>1, <2>2, <2>3, KeptStream
<1> QED
  BY <1>1 DEF StreamInv

LEMMA ConnectStream ==
    ASSUME LoopInv, LoopInv', StreamInv, NEW c \in Clients, Connect(c)
    PROVE  StreamInv'
<1>1. /\ UNCHANGED <<table, sessions, sending, requests, inbox, received, shown, overrun>>
      /\ phase[c] = "off" /\ phase' = [phase EXCEPT ![c] = "idle"]
      /\ backlog' = Append(backlog, c)
  BY DEF Connect, daemonVars, loopVars
<1>2. /\ phase \in [Clients -> {"off", "idle", "waiting", "gone"}] /\ backlog \in Seq(Clients)
  BY DEF LoopInv, TypeInv, ClientType
<1>3. phase'[c] = "idle" /\ \A b \in Clients \ {c} : phase'[b] = phase[b]
  BY <1>1, <1>2
<1>4. \A b \in Clients \ {c} : b \in Range(backlog') => b \in Range(backlog)
  <2>1. \A k \in DOMAIN backlog' : (k \in DOMAIN backlog /\ backlog'[k] = backlog[k]) \/ backlog'[k] = c
    BY <1>1, <1>2
  <2> QED
    BY <2>1 DEF Range
<1>5. requests[c] = 0 /\ inbox[c] = <<>> /\ shown[c] = {} /\ ~SendingTo(c)
  <2>1. ~Connected(c) /\ Unused(c)
    BY <1>1 DEF LoopInv, ConnInv, StreamInv, Stream
  <2>2. SendingTo(c) => Connected(c)
    BY DEF LoopInv, TypeInv, ServiceType, SendingTo, Connected
  <2> QED
    BY <1>1, <2>1, <2>2 DEF Unused
<1>6. Stream(c)'
  <2>1. ~SendingTo(c)'
    BY <1>1, <1>5 DEF SendingTo
  <2> QED
    BY <1>1, <1>3, <1>5, <2>1 DEF Stream, Unused, Watching, AtRest, Waits
<1>7. shown' \in [Clients -> SUBSET Tables]
  BY <1>1 DEF StreamInv
<1> QED
  BY <1>1, <1>3, <1>4, <1>6, <1>7, OthersStream

LEMMA LeaveStream ==
    ASSUME LoopInv, LoopInv', StreamInv, NEW c \in Clients, Leave(c)
    PROVE  StreamInv'
<1>1. /\ UNCHANGED <<table, sessions, sending, requests, backlog>>
      /\ phase' = [phase EXCEPT ![c] = "gone"]
      /\ inbox' = [inbox EXCEPT ![c] = <<>>]
      /\ received' = [received EXCEPT ![c] = <<>>]
      /\ shown' = [shown EXCEPT ![c] = {}]
      /\ overrun' = overrun \ {c}
  BY DEF Leave, daemonVars, loopVars
<1>2. /\ phase'[c] = "gone" /\ shown' \in [Clients -> SUBSET Tables]
      /\ \A b \in Clients \ {c} : /\ phase'[b] = phase[b] /\ inbox'[b] = inbox[b]
                                  /\ received'[b] = received[b] /\ shown'[b] = shown[b]
  BY <1>1 DEF LoopInv, TypeInv, ClientType, StreamInv
<1>3. Stream(c)'
  BY <1>2 DEF Stream, Unused, Watching, AtRest, Waits
<1> QED
  BY <1>1, <1>2, <1>3, OthersStream

LEMMA RequestStream ==
    ASSUME LoopInv, LoopInv', StreamInv, NEW c \in Clients, SendRequest(c)
    PROVE  StreamInv'
<1>1. /\ UNCHANGED <<table, sessions, sending, backlog, inbox, overrun>>
      /\ phase[c] = "idle" /\ phase' = [phase EXCEPT ![c] = "waiting"]
      /\ received' = [received EXCEPT ![c] = <<>>]
      /\ shown' = [shown EXCEPT ![c] = {table}]
      /\ \/ ~Connected(c) /\ requests' = requests
         \/ Connected(c) /\ requests' = [requests EXCEPT ![c] = @ + 1]
  BY DEF SendRequest, daemonVars, loopVars
<1>2. /\ phase'[c] = "waiting" /\ received'[c] = <<>> /\ shown'[c] = {table}
      /\ shown' \in [Clients -> SUBSET Tables]
      /\ \A b \in Clients \ {c} : /\ phase'[b] = phase[b] /\ requests'[b] = requests[b]
                                  /\ received'[b] = received[b] /\ shown'[b] = shown[b]
  BY <1>1 DEF LoopInv, TypeInv, DaemonType, ClientType, StreamInv
<1>3. Stream(c) /\ Unused(c)' /\ Watching(c)' /\ AtRest(c)'
  BY <1>1, <1>2 DEF StreamInv, Unused, Watching, AtRest
<1>4. ASSUME AtRest(c) PROVE Waits(c)'
  <2>1. inbox'[c] = <<>> /\ received'[c] = <<>>
    BY <1>1, <1>2, <1>4 DEF AtRest
  <2>2. ~SendingTo(c)'
    <3>1. SendingTo(c) => Connected(c)
      BY DEF LoopInv, TypeInv, ServiceType, SendingTo, Connected
    <3> QED
      BY <1>1, <1>4, <3>1 DEF AtRest, SendingTo
  <2>3. CASE Connected(c)
    <3>1. requests'[c] = 1
      BY <1>1, <1>4, <2>3 DEF AtRest, LoopInv, TypeInv, ClientType
    <3> QED
      BY <1>2, <2>1, <2>2, <3>1 DEF Waits
  <2>4. CASE ~Connected(c)
    <3>1. requests'[c] \in {0, 1} /\ ~Connected(c)'
      BY <1>1, <1>4, <2>4 DEF AtRest, Connected
    <3>2. Underway(c)'
      <4> DEFINE d == DumpData(table)
      <4>1. table \in Tables
        BY DEF LoopInv, TypeInv, DaemonType
      <4>2. d \in Seq(Packet) /\ d # <<>>
        BY <4>1, DumpType
      <4>3. <<>> \o <<>> \o d = d /\ <<>> \o d # <<>>
        <5> HIDE DEF d
        <5> QED  BY <4>2
      <4> QED
        BY <1>2, <2>1, <3>1, <4>2, <4>3 DEF Underway
    <3> QED
      BY <1>2, <2>1, <2>2, <3>1, <3>2 DEF Waits
  <2> QED
    BY <2>3, <2>4
<1>5. Stream(c)'
  BY <1>1, <1>3, <1>4 DEF Stream
<1> QED
  BY <1>1, <1>2, <1>5, OthersStream

LEMMA ReadStream ==
    ASSUME LoopInv, LoopInv', StreamInv, NEW c \in Clients, ReadData(c)
    PROVE  StreamInv'
<1> DEFINE packets == Append(received[c], Head(inbox[c]))
           ended == Head(inbox[c]) = End
           last == Len(packets) = MAX_DATA_TRANSPORT_PACKET_AMOUNT
<1>1. /\ UNCHANGED <<table, sessions, sending, backlog, requests, shown>>
      /\ phase[c] = "waiting"
  BY DEF ReadData, daemonVars, loopVars
<1>2. /\ phase \in [Clients -> {"off", "idle", "waiting", "gone"}]
      /\ inbox \in [Clients -> Seq(Packet)] /\ received \in [Clients -> Seq(Packet)]
  BY DEF LoopInv, TypeInv, ClientType
<1>3. \A b \in Clients \ {c} : /\ phase'[b] = phase[b] /\ inbox'[b] = inbox[b]
                               /\ received'[b] = received[b]
                               /\ b \in overrun => b \in overrun'
  BY <1>2 DEF ReadData
<1>4. /\ Stream(c) /\ shown' \in [Clients -> SUBSET Tables]
      /\ \A b : Connected(b)' <=> Connected(b)
      /\ \A b : SendingTo(b)' <=> SendingTo(b)
      /\ SendingTo(c) => sending.packets # <<>> /\ Connected(c)
  BY <1>1 DEF StreamInv, Connected, SendingTo, LoopInv, TypeInv, ServiceType
<1>5. Unused(c)' /\ Watching(c)'
  <2>1. phase'[c] \in {"idle", "waiting"}
    BY <1>1, <1>2 DEF ReadData
  <2> QED
    BY <1>1, <1>4, <2>1 DEF Stream, Unused, Watching
<1>6. CASE inbox[c] = <<>> /\ ~Connected(c) /\ phase' = [phase EXCEPT ![c] = "idle"]
           /\ UNCHANGED <<received, inbox, overrun>>
  <2>1. ASSUME Waits(c) PROVE \A k \in DOMAIN received[c] : received[c][k] # End
    <3>1. CASE received[c] = <<>>
      BY <3>1
    <3>2. CASE Underway(c)
      <4>1. PICK t \in shown[c], rest \in Seq(Packet) :
                /\ received[c] \o inbox[c] \o rest = DumpData(t)
                /\ inbox[c] \o rest # <<>>
        BY <3>2 DEF Underway
      <4>2. received[c] \o rest = DumpData(t) /\ rest # <<>> /\ t \in Tables
        <5>1. received[c] \o inbox[c] = received[c] /\ inbox[c] \o rest = rest
          BY <1>2, <1>6
        <5>2. t \in Tables
          BY DEF StreamInv
        <5> QED
          BY <4>1, <5>1, <5>2
      <4> QED
        BY <1>2, <4>2, Position
    <3> QED
      BY <1>1, <2>1, <3>1, <3>2 DEF Waits
  <2>2. phase'[c] = "idle"
    BY <1>2, <1>6
  <2>3. Stream(c)'
    BY <1>1, <1>4, <1>5, <1>6, <2>1, <2>2 DEF Stream, AtRest, Waits
  <2> QED
    BY <1>1, <1>3, <1>4, <2>3, OthersStream
<1>7. CASE /\ inbox[c] # <<>>
           /\ received' = [received EXCEPT ![c] = packets]
           /\ inbox' = [inbox EXCEPT ![c] = Tail(@)]
           /\ phase' = IF ended \/ last THEN [phase EXCEPT ![c] = "idle"] ELSE phase
           /\ overrun' = IF last /\ ~ended THEN overrun \cup {c} ELSE overrun
  <2>1. /\ received'[c] = packets /\ inbox'[c] = Tail(inbox[c])
        /\ packets \in Seq(Packet) /\ Tail(inbox[c]) \in Seq(Packet)
    BY <1>2, <1>7
  <2>2. Stream(c)'
    <3>2. CASE last /\ ~ended
      BY <1>5, <1>7, <3>2 DEF Stream
    <3>3. CASE c \in overrun
      BY <1>5, <1>7, <3>3 DEF Stream
    <3>4. CASE c \notin overrun /\ (ended \/ ~last)
      <4>1. requests[c] = 0 /\ Underway(c)
        BY <1>1, <1>4, <1>7, <3>4 DEF Stream, Waits
      <4>2. PICK t \in shown[c], rest \in Seq(Packet) :
                /\ received[c] \o inbox[c] \o rest = DumpData(t)
                /\ Connected(c) => rest = IF SendingTo(c) THEN sending.packets ELSE <<>>
        BY <4>1 DEF Underway
      <4>3. packets \o Tail(inbox[c]) \o rest = DumpData(t)
        BY <1>2, <1>7, <4>2, MoveOn
      <4> DEFINE b == inbox[c] \o rest
      <4>4. /\ b \in Seq(Packet) /\ b # <<>> /\ Head(b) = Head(inbox[c])
            /\ Tail(b) = Tail(inbox[c]) \o rest
        <5>1. inbox[c] \in Seq(Packet) /\ inbox[c] # <<>>
          BY <1>2, <1>7
        <5>2. \A a, r \in Seq(Packet) :
                 a # <<>> => /\ a \o r \in Seq(Packet) /\ a \o r # <<>> /\ Head(a \o r) = Head(a)
                             /\ Tail(a \o r) = Tail(a) \o r
          BY HeadOfConcat
        <5> QED
          BY <5>1, <5>2
      <4>5. received[c] \o b = DumpData(t) /\ t \in Tables
        <5>1. /\ received[c] \in Seq(Packet) /\ inbox[c] \in Seq(Packet)
              /\ rest \in Seq(Packet) /\ t \in Tables
          BY <1>1, <1>2, <1>4, <4>2
        <5>2. \A x, y, z \in Seq(Packet) : (x \o y) \o z = x \o (y \o z)
          BY ConcatAssociative, SMTT(40)
        <5>3. (received[c] \o inbox[c]) \o rest = received[c] \o (inbox[c] \o rest)
          BY <5>1, <5>2
        <5> QED
          BY <4>2, <5>1, <5>3
      <4>6. ended <=> Tail(inbox[c]) \o rest = <<>>
        <5> HIDE DEF b
        <5> QED  BY <1>2, <4>4, <4>5, Position
      <4>7. CASE ended
        <5>1. Tail(inbox[c]) = <<>> /\ rest = <<>>
          BY <2>1, <4>6, <4>7
        <5>2. packets = DumpData(t)
          <6>1. packets \o <<>> \o <<>> = packets
            BY <2>1
          <6> QED
            BY <4>3, <5>1, <6>1
        <5>3. phase'[c] = "idle" /\ overrun' = overrun
          BY <1>2, <1>7, <4>7
        <5>4. Connected(c) => ~SendingTo(c)
          BY <1>4, <4>2, <5>1
        <5>5. AtRest(c)'
          BY <1>1, <1>4, <2>1, <4>1, <5>1, <5>2, <5>3, <5>4 DEF AtRest
        <5> QED
          BY <1>5, <5>3, <5>5 DEF Stream, Waits
      <4>8. CASE ~ended /\ ~last
        <5>1. phase' = phase
          BY <1>7, <4>8
        <5>2. Underway(c)'
          BY <1>1, <1>4, <2>1, <4>2, <4>3, <4>6, <4>8 DEF Underway
        <5> QED
          BY <1>1, <1>5, <4>1, <5>1, <5>2 DEF Stream, AtRest, Waits
      <4> QED
        BY <3>4, <4>7, <4>8
    <3> QED
      BY <3>2, <3>3, <3>4
  <2> QED
    BY <1>1, <1>3, <1>4, <2>2, OthersStream
<1> QED
  BY <1>6, <1>7 DEF ReadData

LEMMA StreamStep ==
    ASSUME LoopInv, LoopInv', StreamInv, [Next]_vars
    PROVE  StreamInv'
<1>1. CASE ProcessEvents \/ Skip
  BY <1>1, QuietStream
<1>2. CASE MonitorCall
  BY <1>2, MonitorStream
<1>3. CASE ListenerCall
  BY <1>3, ListenerStream
<1>4. CASE RepositoryCall
  BY <1>4, RepositoryStream
<1>5. CASE \E fd \in SessionFds : SessionCall(fd)
  BY <1>5, SessionStream
<1>6. CASE Send
  BY <1>6, SendStream
<1>7. CASE InterruptCall
  BY <1>7, InterruptStream
<1>8. CASE Exit
  BY <1>8, EndsStream DEF Exit, clientVars
<1>9. CASE \E s \in Signals : Signal(s)
  BY <1>9, SignalStream
<1>10. ASSUME NEW c \in Clients, Client(c) PROVE StreamInv'
  BY <1>10, ConnectStream, LeaveStream, RequestStream, ReadStream DEF Client
<1>11. CASE UNCHANGED vars
  <2>1. UNCHANGED <<table, phase, requests, inbox, received, shown, overrun, sessions, backlog, sending>>
    BY <1>11 DEF vars, daemonVars, loopVars, clientVars
  <2> QED
    BY <2>1, DaemonStream DEF Connected, SendingTo
<1> QED
  BY <1>1, <1>2, <1>3, <1>4, <1>5, <1>6, <1>7, <1>8, <1>9, <1>10, <1>11 DEF Next, Daemon

\* AnswersAreTables: with any number of clients, and whatever becomes of the
\* connections, an answer is a table of the time of the request, provided the
\* tables have no more chassis and neighbours than 16 bits can number and, which
\* SessionConstants asks, no port that is too long for a packet (SessionCall,
\* sendClientPacket, GetData).
THEOREM AnswersRight ==
    ASSUME \A t \in Tables : Countable(t)
    PROVE  Spec => []AnswersAreTables
<1> DEFINE BothInv == LoopInv /\ StreamInv
<1>1. Init => BothInv
  <2> SUFFICES ASSUME Init PROVE StreamInv
    BY InitLoop
  <2>1. \A c \in Clients : phase[c] = "off" /\ requests[c] = 0 /\ inbox[c] = <<>> /\ shown[c] = {}
    BY DEF Init
  <2>2. \A c \in Clients : Stream(c)
    BY <2>1 DEF Stream, Unused, Watching, AtRest, Waits
  <2>3. shown \in [Clients -> SUBSET Tables]
    BY DEF Init
  <2> QED
    BY <2>2, <2>3 DEF StreamInv
<1>2. BothInv /\ [Next]_vars => BothInv'
  BY LoopStep, StreamStep
<1>3. BothInv => AnswersAreTables
  <2> SUFFICES ASSUME LoopInv, StreamInv, NEW c \in Clients \ overrun,
                      phase[c] = "idle", shown[c] # {}
               PROVE  IF received[c] # <<>> /\ Last(received[c]) = End
                      THEN \E t \in shown[c] : Shows(received[c], t)
                      ELSE ~Connected(c)
    BY DEF AnswersAreTables
  <2>1. /\ AtRest(c) /\ received[c] \in Seq(Packet) /\ shown[c] \subseteq Tables
    BY DEF StreamInv, Stream, LoopInv, TypeInv, ClientType
  <2>2. CASE \E t \in shown[c] : received[c] = DumpData(t)
    <3>1. PICK t \in shown[c] : received[c] = DumpData(t)
      BY <2>2
    <3>2. received[c] # <<>> /\ Last(received[c]) = End /\ Shows(received[c], t)
      BY <2>1, <3>1, DumpType, PacketsShowTable, SessionConstants
    <3> QED
      BY <3>2
  <2>3. CASE ~Connected(c) /\ \A k \in DOMAIN received[c] : received[c][k] # End
    <3>1. received[c] # <<>> => Len(received[c]) \in DOMAIN received[c]
      BY <2>1
    <3> QED
      BY <2>3, <3>1 DEF Last
  <2> QED
    BY <2>1, <2>2, <2>3 DEF AtRest
<1> QED
  BY <1>1, <1>2, <1>3, PTL DEF Spec
=============================================================================

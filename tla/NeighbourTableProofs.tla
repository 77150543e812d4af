------------------------ MODULE NeighbourTableProofs ------------------------
(***************************************************************************)
(* The neighbour table is proved correct for every set of chassis, ports    *)
(* and frames: its invariants, and that the nested countdown map implements *)
(* NeighbourSet.                                                            *)
(***************************************************************************)
EXTENDS NeighbourDump, ClientPacketsProofs

\* The inductive invariant.  The refinement needs more of an entry than TypeOK
\* says: its index is one that a frame can have left.
TableInv ==
    /\ TypeOK
    /\ NoEmptyChassis
    /\ \A c \in DOMAIN chassis_map : \A p \in DOMAIN chassis_map[c] :
          Info(chassis_map[c][p]) \in Infos

\* The entry lldpduToNeighbourEntry makes of a frame.
LEMMA EntryFacts ==
    ASSUME NEW f \in Frames
    PROVE  /\ lldpduToNeighbourEntry(f) \in Entry
           /\ lldpduToNeighbourEntry(f).time_to_live = f.ttl
           /\ Info(lldpduToNeighbourEntry(f)) \in Infos
<1>1. f.if_index \in Nat /\ f.ttl \in Nat /\ IF_INDEX_RANGE \in Nat \ {0}
  BY TableConstants DEF Frames
<1>2. f.if_index % IF_INDEX_RANGE \in 0..(IF_INDEX_RANGE - 1)
  BY <1>1
<1>3. f.ip \in Addrs \cup {None} /\ f.if_index \in Ifs
  BY DEF Frames
<1>4. lldpduToNeighbourEntry(f) \in Entry
  BY <1>1, <1>2, <1>3 DEF lldpduToNeighbourEntry, Entry
<1>5. f.if_index % IF_INDEX_RANGE \in {i % IF_INDEX_RANGE : i \in Ifs}
  BY <1>3
<1>6. Info(lldpduToNeighbourEntry(f)) \in Infos
  BY <1>3, <1>5 DEF lldpduToNeighbourEntry, Info, Infos
<1> QED
  BY <1>4, <1>6 DEF lldpduToNeighbourEntry

\* An accepted frame binds its own port and leaves every other one alone.
LEMMA FrameEffect ==
    ASSUME NEW f \in Frames, f.accepted, ReceiveFrame(f), TypeOK
    PROVE  /\ DOMAIN chassis_map' = DOMAIN chassis_map \cup {f.chassis}
           /\ \A c \in DOMAIN chassis_map' :
                 DOMAIN chassis_map'[c] =
                    (IF c \in DOMAIN chassis_map THEN DOMAIN chassis_map[c] ELSE {})
                    \cup (IF c = f.chassis THEN {f.port} ELSE {})
           /\ \A c, p : Known(c, p)' <=>
                 Known(c, p) \/ (c = f.chassis /\ p = f.port)
           /\ \A c, p : Known(c, p)' =>
                 chassis_map'[c][p] =
                    IF c = f.chassis /\ p = f.port THEN lldpduToNeighbourEntry(f)
                    ELSE chassis_map[c][p]
<1> DEFINE e == lldpduToNeighbourEntry(f)
           ports == PortMap(chassis_map, f.chassis)
           mine == [x \in DOMAIN ports \cup {f.port} |->
                       IF x = f.port THEN e ELSE ports[x]]
<1>1. chassis_map' = [x \in DOMAIN chassis_map \cup {f.chassis} |->
                         IF x = f.chassis THEN mine ELSE chassis_map[x]]
  BY DEF ReceiveFrame, lldpFrameParser, Assigned
<1>2. /\ f.chassis \in DOMAIN chassis_map => ports = chassis_map[f.chassis]
      /\ f.chassis \notin DOMAIN chassis_map => DOMAIN ports = {}
  BY DEF PortMap, EmptyMap
<1> HIDE DEF e, ports
<1>3. DOMAIN mine = DOMAIN ports \cup {f.port}
      /\ \A x \in DOMAIN mine : mine[x] = IF x = f.port THEN e ELSE ports[x]
  OBVIOUS
<1> HIDE DEF mine
<1>4. /\ DOMAIN chassis_map' = DOMAIN chassis_map \cup {f.chassis}
      /\ chassis_map'[f.chassis] = mine
      /\ \A c \in DOMAIN chassis_map :
            c # f.chassis => chassis_map'[c] = chassis_map[c]
  BY <1>1
<1>5. \A c \in DOMAIN chassis_map' :
         DOMAIN chassis_map'[c] =
            (IF c \in DOMAIN chassis_map THEN DOMAIN chassis_map[c] ELSE {})
            \cup (IF c = f.chassis THEN {f.port} ELSE {})
  BY <1>2, <1>3, <1>4
<1>6. \A c, p : Known(c, p)' <=> Known(c, p) \/ (c = f.chassis /\ p = f.port)
  BY <1>4, <1>5 DEF Known
<1>7. \A c, p : Known(c, p)' =>
         chassis_map'[c][p] = IF c = f.chassis /\ p = f.port THEN e
                              ELSE chassis_map[c][p]
  BY <1>2, <1>3, <1>4, <1>5 DEF Known
<1> QED
  BY <1>4, <1>5, <1>6, <1>7 DEF e

\* A clock event keeps exactly the entries with time left, each less by delta.
LEMMA TickEffect ==
    ASSUME NEW delta \in 1..MaxDelta, Tick(delta), TableInv
    PROVE  /\ DOMAIN chassis_map' \subseteq DOMAIN chassis_map
           /\ \A c \in DOMAIN chassis_map' :
                 /\ DOMAIN chassis_map'[c] # {}
                 /\ DOMAIN chassis_map'[c] \subseteq DOMAIN chassis_map[c]
           /\ \A c, p : Known(c, p)' <=>
                 Known(c, p) /\ chassis_map[c][p].time_to_live > delta
           /\ \A c, p : Known(c, p)' =>
                 chassis_map'[c][p] = Aged(chassis_map[c][p], delta)
<1>1. chassis_map' = [c \in Remaining(chassis_map, delta) |->
                        [p \in Alive(chassis_map[c], delta) |-> Aged(chassis_map[c][p], delta)]]
  BY DEF Tick, ListTick
<1>2. \A c : c \in Remaining(chassis_map, delta) <=>
               c \in DOMAIN chassis_map /\ Alive(chassis_map[c], delta) # {}
  BY DEF Remaining, TableInv, NoEmptyChassis
<1>3. \A c, p : p \in Alive(chassis_map[c], delta) <=>
               p \in DOMAIN chassis_map[c] /\ chassis_map[c][p].time_to_live > delta
  BY DEF Alive
<1>4. /\ DOMAIN chassis_map' = Remaining(chassis_map, delta)
      /\ \A c \in Remaining(chassis_map, delta) : DOMAIN chassis_map'[c] = Alive(chassis_map[c], delta)
  BY <1>1
<1>5. \A c \in Remaining(chassis_map, delta) : \A p \in Alive(chassis_map[c], delta) :
         chassis_map'[c][p] = Aged(chassis_map[c][p], delta)
  BY <1>1
<1>6. \A c, p : Known(c, p)' <=>
         Known(c, p) /\ chassis_map[c][p].time_to_live > delta
  BY <1>2, <1>3, <1>4 DEF Known
<1>7. \A c, p : Known(c, p)' => c \in Remaining(chassis_map, delta) /\ p \in Alive(chassis_map[c], delta)
  BY <1>4 DEF Known
<1> QED
  BY <1>2, <1>3, <1>4, <1>5, <1>6, <1>7

----------------------------------------------------------------------------
LEMMA InitTable == Init => TableInv
  BY TableConstants DEF Init, EmptyMap, TableInv, TypeOK, NoEmptyChassis

LEMMA FrameInv ==
    ASSUME TableInv, NEW f \in Frames, ReceiveFrame(f)
    PROVE  TableInv'
<1>0. clock' \in Nat
  BY DEF TableInv, TypeOK, ReceiveFrame, lldpFrameParser
<1>1. CASE f.accepted
  <2>1. TypeOK
    BY DEF TableInv
  <2>2. f.chassis \in Chassis /\ f.port \in Ports
    BY DEF Frames
  <2>3. lldpduToNeighbourEntry(f) \in Entry
        /\ Info(lldpduToNeighbourEntry(f)) \in Infos
    BY EntryFacts
  <2>4. /\ DOMAIN chassis_map' = DOMAIN chassis_map \cup {f.chassis}
        /\ \A c \in DOMAIN chassis_map' :
              DOMAIN chassis_map'[c] =
                 (IF c \in DOMAIN chassis_map THEN DOMAIN chassis_map[c] ELSE {})
                 \cup (IF c = f.chassis THEN {f.port} ELSE {})
        /\ \A c, p : Known(c, p)' <=>
              Known(c, p) \/ (c = f.chassis /\ p = f.port)
        /\ \A c, p : Known(c, p)' =>
              chassis_map'[c][p] =
                 IF c = f.chassis /\ p = f.port THEN lldpduToNeighbourEntry(f)
                 ELSE chassis_map[c][p]
    BY <1>1, <2>1, FrameEffect
  <2>5. \A c, p : Known(c, p)' =>
           chassis_map'[c][p] \in Entry /\ Info(chassis_map'[c][p]) \in Infos
    <3> SUFFICES ASSUME NEW c, NEW p, Known(c, p)'
                 PROVE  /\ chassis_map'[c][p] \in Entry
                        /\ Info(chassis_map'[c][p]) \in Infos
      OBVIOUS
    <3>1. CASE c = f.chassis /\ p = f.port
      BY <2>3, <2>4, <3>1
    <3>2. CASE ~(c = f.chassis /\ p = f.port)
      BY <2>4, <3>2 DEF TableInv, TypeOK, Known
    <3> QED
      BY <3>1, <3>2
  <2>6. \A c \in DOMAIN chassis_map' :
           c \in Chassis /\ DOMAIN chassis_map'[c] \subseteq Ports
                         /\ DOMAIN chassis_map'[c] # {}
    BY <2>1, <2>2, <2>4 DEF TableInv, TypeOK, NoEmptyChassis
  <2>7. \A c \in DOMAIN chassis_map' : \A p \in DOMAIN chassis_map'[c] :
           chassis_map'[c][p] \in Entry /\ Info(chassis_map'[c][p]) \in Infos
    BY <2>5 DEF Known
  <2> QED
    BY <1>0, <2>6, <2>7 DEF TableInv, TypeOK, NoEmptyChassis, Info
<1>2. CASE ~f.accepted
  <2>1. chassis_map' = chassis_map
    BY <1>2 DEF ReceiveFrame, lldpFrameParser
  <2> QED
    BY <1>0, <2>1 DEF TableInv, TypeOK, NoEmptyChassis, Info
<1> QED
  BY <1>1, <1>2

\* An entry with more than delta seconds left is still an entry afterwards.
LEMMA Countdown ==
    ASSUME NEW e \in Entry, NEW delta \in Nat, e.time_to_live > delta
    PROVE  /\ Aged(e, delta) \in Entry
           /\ Info(Aged(e, delta)) = Info(e)
           /\ Aged(e, delta).time_to_live = e.time_to_live - delta
<1>1. e.time_to_live - delta \in Nat
  BY DEF Entry
<1> QED
  BY <1>1 DEF Entry, Info, Aged

LEMMA ClockInv ==
    ASSUME TableInv, NEW delta \in 1..MaxDelta, Tick(delta)
    PROVE  TableInv'
<1>0. clock' \in Nat /\ delta \in Nat
  BY TableConstants DEF TableInv, TypeOK, Tick
<1>1. /\ DOMAIN chassis_map' \subseteq DOMAIN chassis_map
      /\ \A c \in DOMAIN chassis_map' :
            /\ DOMAIN chassis_map'[c] # {}
            /\ DOMAIN chassis_map'[c] \subseteq DOMAIN chassis_map[c]
      /\ \A c, p : Known(c, p)' <=>
            Known(c, p) /\ chassis_map[c][p].time_to_live > delta
      /\ \A c, p : Known(c, p)' =>
            chassis_map'[c][p] = Aged(chassis_map[c][p], delta)
  BY TickEffect
<1>2. \A c, p : Known(c, p)' =>
         chassis_map'[c][p] \in Entry /\ Info(chassis_map'[c][p]) \in Infos
  <2> SUFFICES ASSUME NEW c, NEW p, Known(c, p)'
               PROVE  /\ chassis_map'[c][p] \in Entry
                      /\ Info(chassis_map'[c][p]) \in Infos
    OBVIOUS
  <2>1. Known(c, p) /\ chassis_map[c][p].time_to_live > delta
    BY <1>1
  <2>2. chassis_map[c][p] \in Entry /\ Info(chassis_map[c][p]) \in Infos
    BY <2>1 DEF Known, TableInv, TypeOK
  <2> QED
    BY <1>0, <1>1, <2>1, <2>2, Countdown
<1>3. \A c \in DOMAIN chassis_map' : \A p \in DOMAIN chassis_map'[c] :
         chassis_map'[c][p] \in Entry /\ Info(chassis_map'[c][p]) \in Infos
  BY <1>2 DEF Known
<1>4. \A c \in DOMAIN chassis_map' : c \in Chassis /\ DOMAIN chassis_map'[c] \subseteq Ports
  BY <1>1 DEF TableInv, TypeOK
<1> QED
  BY <1>0, <1>1, <1>3, <1>4 DEF TableInv, TypeOK, NoEmptyChassis, Info

\* The inductive invariant holds throughout.
THEOREM TableInvariance == Spec => []TableInv
<1>1. TableInv /\ [Next]_vars => TableInv'
  <2> SUFFICES ASSUME TableInv, [Next]_vars PROVE TableInv'
    OBVIOUS
  <2>1. CASE UNCHANGED vars
    BY <2>1 DEF vars, TableInv, TypeOK, NoEmptyChassis, Info
  <2>2. CASE Next
    BY <2>2, FrameInv, ClockInv DEF Next
  <2> QED
    BY <2>1, <2>2
<1> QED
  BY InitTable, <1>1, PTL DEF Spec

\* Every entry of the table stays well formed (NeighbourList::Tick never lets
\* the unsigned time to live run below zero).
THEOREM TableTypeCorrect == Spec => []TypeOK
<1>1. TableInv => TypeOK
  BY DEF TableInv
<1> QED
  BY <1>1, TableInvariance, PTL

\* NeighbourList::Tick erases a chassis together with its last port.
THEOREM ChassisHavePorts == Spec => []NoEmptyChassis
<1>1. TableInv => NoEmptyChassis
  BY DEF TableInv
<1> QED
  BY <1>1, TableInvariance, PTL

----------------------------------------------------------------------------
\* An accepted frame is an announcement of the abstract table.
LEMMA FrameAnnounces ==
    ASSUME TableInv, NEW f \in Frames, f.accepted, ReceiveFrame(f)
    PROVE  Abstract!Announce(f.chassis, f.port,
                             Info(lldpduToNeighbourEntry(f)), f.ttl)
<1> DEFINE e == lldpduToNeighbourEntry(f)
           ours == <<f.chassis, f.port>>
<1>1. clock' = clock
  BY DEF ReceiveFrame, lldpFrameParser
<1>2. TypeOK
  BY DEF TableInv
<1>3. /\ \A c, p : Known(c, p)' <=> Known(c, p) \/ (c = f.chassis /\ p = f.port)
      /\ \A c, p : Known(c, p)' =>
            chassis_map'[c][p] = IF c = f.chassis /\ p = f.port THEN e
                                 ELSE chassis_map[c][p]
  BY <1>2, FrameEffect
<1>4. e.time_to_live = f.ttl /\ f.chassis \in Chassis /\ f.port \in Ports
  BY EntryFacts DEF Frames
<1> HIDE DEF e
<1>5. ASSUME NEW c \in Chassis, NEW p \in Ports
      PROVE  AbsNeighbours'[<<c, p>>] =
                IF <<c, p>> = ours
                THEN [info |-> Info(e), until |-> clock + f.ttl]
                ELSE AbsNeighbours[<<c, p>>]
  <2>1. CASE c = f.chassis /\ p = f.port
    <3>1. Known(c, p)' /\ chassis_map'[c][p] = e
      BY <1>3, <2>1
    <3> QED
      BY <1>1, <1>4, <2>1, <3>1 DEF AbsNeighbours, Known, Info
  <2>2. CASE ~(c = f.chassis /\ p = f.port)
    <3>1. (Known(c, p)' <=> Known(c, p))
          /\ (Known(c, p)' => chassis_map'[c][p] = chassis_map[c][p])
      BY <1>3, <2>2
    <3>2. <<c, p>> # ours
      BY <2>2
    <3> QED
      BY <1>1, <3>1, <3>2 DEF AbsNeighbours, Known, Info
  <2> QED
    BY <2>1, <2>2
<1>6. AbsNeighbours' = [cp \in Chassis \X Ports |-> AbsNeighbours'[cp]]
      /\ AbsNeighbours = [cp \in Chassis \X Ports |-> AbsNeighbours[cp]]
  BY DEF AbsNeighbours
<1>7. ours \in Chassis \X Ports
  BY <1>4
<1>8. \A cp \in Chassis \X Ports :
         AbsNeighbours'[cp] = IF cp = ours
                              THEN [info |-> Info(e), until |-> clock + f.ttl]
                              ELSE AbsNeighbours[cp]
  BY <1>5
<1> HIDE DEF ours
<1>9. AbsNeighbours' = [AbsNeighbours EXCEPT
                          ![ours] = [info |-> Info(e), until |-> clock + f.ttl]]
  BY <1>6, <1>7, <1>8
<1> QED
  BY <1>1, <1>9 DEF Abstract!Announce, e, ours

\* A clock event of the code is one of the abstract table.
LEMMA TickElapses ==
    ASSUME TableInv, NEW delta \in 1..MaxDelta, Tick(delta)
    PROVE  Abstract!Elapse(delta)
<1>0. delta \in Nat /\ clock \in Nat /\ clock' = clock + delta
      /\ clock + delta <= MaxTime
  BY TableConstants DEF TableInv, TypeOK, Tick
<1>1. /\ \A c, p : Known(c, p)' <=>
            Known(c, p) /\ chassis_map[c][p].time_to_live > delta
      /\ \A c, p : Known(c, p)' =>
            chassis_map'[c][p] = Aged(chassis_map[c][p], delta)
  BY TickEffect
<1>2. ASSUME NEW c \in Chassis, NEW p \in Ports
      PROVE  AbsNeighbours'[<<c, p>>] =
                IF \/ AbsNeighbours[<<c, p>>] = None
                   \/ AbsNeighbours[<<c, p>>].until <= clock + delta
                THEN None
                ELSE AbsNeighbours[<<c, p>>]
  <2> DEFINE e == chassis_map[c][p]
             a == AbsNeighbours[<<c, p>>]
  <2>1. CASE ~Known(c, p)
    <3>1. a = None
      BY <2>1 DEF AbsNeighbours
    <3>2. ~Known(c, p)'
      BY <1>1, <2>1
    <3> QED
      BY <3>1, <3>2 DEF AbsNeighbours, Known
  <2>2. CASE Known(c, p)
    <3>1. e \in Entry /\ Info(e) \in Infos
      BY <2>2 DEF TableInv, TypeOK, Known
    <3>2. e.time_to_live \in Nat
      BY <3>1 DEF Entry
    <3>3. a = [info |-> Info(e), until |-> clock + e.time_to_live]
      BY <2>2 DEF AbsNeighbours
    <3> HIDE DEF e, a
    <3>4. a \in [info : Infos, until : Nat]
      BY <1>0, <3>1, <3>2, <3>3
    <3>5. a # None
      BY <3>4, NoneIsNoNeighbour
    <3>6. CASE e.time_to_live > delta
      <4>1. Known(c, p)' /\ chassis_map'[c][p] = Aged(e, delta)
        BY <1>1, <2>2, <3>6 DEF e
      <4>2. Info(Aged(e, delta)) = Info(e)
            /\ Aged(e, delta).time_to_live = e.time_to_live - delta
        BY <1>0, <3>1, <3>6, Countdown
      <4>3. AbsNeighbours'[<<c, p>>] =
               [info |-> Info(e), until |-> (clock + delta) + (e.time_to_live - delta)]
        BY <1>0, <4>1, <4>2 DEF AbsNeighbours, Known, Info
      <4>4. (clock + delta) + (e.time_to_live - delta) = clock + e.time_to_live
            /\ ~(clock + e.time_to_live <= clock + delta)
        BY <1>0, <3>2, <3>6
      <4>5. AbsNeighbours'[<<c, p>>] = a /\ ~(a.until <= clock + delta)
        BY <3>3, <4>3, <4>4
      <4> QED
        BY <3>5, <4>5 DEF a
    <3>7. CASE ~(e.time_to_live > delta)
      <4>1. ~Known(c, p)'
        BY <1>1, <3>7 DEF e
      <4>2. a.until <= clock + delta
        BY <1>0, <3>2, <3>3, <3>7
      <4> QED
        BY <4>1, <4>2 DEF AbsNeighbours, Known, a
    <3> QED
      BY <3>6, <3>7
  <2> QED
    BY <2>1, <2>2
<1>3. AbsNeighbours' = [cp \in Chassis \X Ports |-> AbsNeighbours'[cp]]
  BY DEF AbsNeighbours
<1>4. \A cp \in Chassis \X Ports :
         AbsNeighbours'[cp] = IF AbsNeighbours[cp] = None
                                 \/ AbsNeighbours[cp].until <= clock + delta
                              THEN None ELSE AbsNeighbours[cp]
  BY <1>2
<1>5. AbsNeighbours' =
         [cp \in Chassis \X Ports |->
            IF AbsNeighbours[cp] = None \/ AbsNeighbours[cp].until <= clock + delta
            THEN None ELSE AbsNeighbours[cp]]
  BY <1>3, <1>4
<1> QED
  BY <1>0, <1>5 DEF Abstract!Elapse

\* The table of the code implements the abstract one: neighbours are known
\* exactly until their last announcement runs out.
THEOREM TableImplementsSet == Spec => ImplementsNeighbourSet
<1>1. Init => Abstract!Init
  BY DEF Init, EmptyMap, Abstract!Init, AbsNeighbours, Known
<1>2. TableInv /\ [Next]_vars => [Abstract!Next]_(Abstract!svars)
  <2> SUFFICES ASSUME TableInv, [Next]_vars
               PROVE  [Abstract!Next]_(Abstract!svars)
    OBVIOUS
  <2>1. ASSUME NEW f \in Frames, ReceiveFrame(f), f.accepted
        PROVE  Abstract!Next
    <3>1. Abstract!Announce(f.chassis, f.port, Info(lldpduToNeighbourEntry(f)), f.ttl)
      BY <2>1, FrameAnnounces
    <3>2. /\ f.chassis \in Chassis /\ f.port \in Ports /\ f.ttl \in TTLs
          /\ Info(lldpduToNeighbourEntry(f)) \in Infos
      BY EntryFacts DEF Frames
    <3> QED
      BY <3>1, <3>2 DEF Abstract!Next
  <2>2. ASSUME NEW f \in Frames, ReceiveFrame(f), ~f.accepted
        PROVE  UNCHANGED Abstract!svars
    <3>1. chassis_map' = chassis_map /\ clock' = clock
      BY <2>2 DEF ReceiveFrame, lldpFrameParser
    <3> QED
      BY <3>1 DEF Abstract!svars, AbsNeighbours, Known, Info
  <2>3. ASSUME NEW delta \in 1..MaxDelta, Tick(delta)
        PROVE  Abstract!Next
    BY <2>3, TickElapses DEF Abstract!Next
  <2>4. CASE UNCHANGED vars
    BY <2>4 DEF vars, Abstract!svars, AbsNeighbours, Known, Info
  <2> QED
    BY <2>1, <2>2, <2>3, <2>4 DEF Next
<1> QED
  BY <1>1, <1>2, TableInvariance, PTL
     DEF Spec, ImplementsNeighbourSet, Abstract!Spec

----------------------------------------------------------------------------
(* What a client is told.                                                   *)

LEMMA TableFinite ==
    ASSUME Chassis \subseteq Nat, Ports \subseteq Nat, TableInv, IsTable(chassis_map), [Next]_vars
    PROVE  IsTable(chassis_map)'
<1>1. ASSUME NEW f \in Frames, f.accepted, ReceiveFrame(f) PROVE IsTable(chassis_map)'
  <2>1. /\ DOMAIN chassis_map' = DOMAIN chassis_map \cup {f.chassis}
        /\ \A c \in DOMAIN chassis_map' :
              DOMAIN chassis_map'[c] =
                 (IF c \in DOMAIN chassis_map THEN DOMAIN chassis_map[c] ELSE {})
                 \cup (IF c = f.chassis THEN {f.port} ELSE {})
    BY <1>1, FrameEffect DEF TableInv
  <2>2. f.chassis \in Nat /\ f.port \in Nat
    BY DEF Frames
  <2>3. \A S : IsFiniteSet(S) => IsFiniteSet(S \cup {f.chassis}) /\ IsFiniteSet(S \cup {f.port})
    BY FS_AddElement
  <2>4. IsFiniteSet({})
    BY FS_EmptySet
  <2>5. IsFiniteSet(DOMAIN chassis_map') /\ DOMAIN chassis_map' \subseteq Nat
    <3>1. IsFiniteSet(DOMAIN chassis_map) /\ DOMAIN chassis_map \subseteq Nat
      BY DEF IsTable
    <3>2. IsFiniteSet(DOMAIN chassis_map \cup {f.chassis})
      BY <2>3, <3>1
    <3> QED
      BY <2>1, <2>2, <3>1, <3>2
  <2>6. ASSUME NEW c \in DOMAIN chassis_map'
        PROVE  IsFiniteSet(DOMAIN chassis_map'[c]) /\ DOMAIN chassis_map'[c] \subseteq Nat
    <3> DEFINE old == IF c \in DOMAIN chassis_map THEN DOMAIN chassis_map[c] ELSE {}
    <3>1. IsFiniteSet(old) /\ old \subseteq Nat
      BY <2>4 DEF IsTable
    <3>2. DOMAIN chassis_map'[c] = old \/ DOMAIN chassis_map'[c] = old \cup {f.port}
      BY <2>1
    <3> HIDE DEF old
    <3> QED
      BY <2>2, <2>3, <3>1, <3>2
  <2> QED
    BY <2>5, <2>6 DEF IsTable
<1>2. ASSUME NEW f \in Frames, ~f.accepted, ReceiveFrame(f) PROVE IsTable(chassis_map)'
  BY <1>2 DEF ReceiveFrame, lldpFrameParser, IsTable
<1>3. ASSUME NEW delta \in 1..MaxDelta, Tick(delta) PROVE IsTable(chassis_map)'
  <2>1. /\ DOMAIN chassis_map' \subseteq DOMAIN chassis_map
        /\ \A c \in DOMAIN chassis_map' : DOMAIN chassis_map'[c] \subseteq DOMAIN chassis_map[c]
    BY <1>3, TickEffect
  <2>2. \A S : IsFiniteSet(S) => \A T \in SUBSET S : IsFiniteSet(T)
    BY FS_Subset
  <2>3. IsFiniteSet(DOMAIN chassis_map') /\ DOMAIN chassis_map' \subseteq Nat
    BY <2>1, <2>2 DEF IsTable
  <2>4. \A c \in DOMAIN chassis_map' :
           IsFiniteSet(DOMAIN chassis_map'[c]) /\ DOMAIN chassis_map'[c] \subseteq Nat
    BY <2>1, <2>2 DEF IsTable
  <2> QED
    BY <2>3, <2>4 DEF IsTable
<1>4. CASE UNCHANGED vars
  BY <1>4 DEF vars, IsTable
<1> QED
  BY <1>1, <1>2, <1>3, <1>4 DEF Next

\* RoundTrip (DumpData, processDataPacket): whatever frames come in and whenever
\* neighbours time out, a client is shown the table, as long as there are no more
\* chassis and neighbours in it than 16 bits can number, and unless there is a port
\* in it that is too long for a packet.  Chassis and ports can be anything that is
\* numbered in its order.
THEOREM ClientSeesTable ==
    ASSUME Chassis \subseteq Nat, Ports \subseteq Nat
    PROVE  Spec /\ []Countable(chassis_map) => []RoundTrip
<1>1. Init => IsTable(chassis_map)
  BY FS_EmptySet DEF Init, EmptyMap, IsTable
<1>2. TableInv /\ IsTable(chassis_map) /\ [Next]_vars => IsTable(chassis_map)'
  BY TableFinite
<1>3. IsTable(chassis_map) /\ Countable(chassis_map) => RoundTrip
  <2> SUFFICES ASSUME IsTable(chassis_map), Countable(chassis_map), Fits(chassis_map), NEW devices \in SUBSET Ifs
               PROVE  Shows(DumpData(Named(devices)), Named(devices))
    BY DEF RoundTrip
  <2> DEFINE t == Named(devices)
  <2>1. DOMAIN t = DOMAIN chassis_map /\ \A c \in DOMAIN t : DOMAIN t[c] = DOMAIN chassis_map[c]
    BY DEF Named
  <2> HIDE DEF t
  <2>2. Neighbours(t) = Neighbours(chassis_map)
    BY <2>1 DEF Neighbours
  <2>3. IsTable(t) /\ Fits(t) /\ Countable(t)
    BY <2>1, <2>2 DEF IsTable, Fits, Countable
  <2>4. Shows(DumpData(t), t)
    BY <2>3, PacketsShowTable
  <2> QED
    BY <2>4 DEF t
<1> QED
  BY <1>1, <1>2, <1>3, TableInvariance, PTL DEF Spec
=============================================================================

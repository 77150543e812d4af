------------------------- MODULE InstanceLockProofs -------------------------
(***************************************************************************)
(* For any number of instances: as long as no lock file is unlinked under   *)
(* an instance that is up, at most one serves, its socket is its own, and   *)
(* the files of crashed instances are in nobody's way.                      *)
(***************************************************************************)
EXTENDS InstanceLock, FiniteSetTheorems, TLAPS

\* Phases in which an instance has the lock, or has left with it unlinked.
Starting == {"locked", "cleared", "serving"}

\* Who has a lock has a descriptor, and only one has the lock of an inode.
Locks ==
    /\ held \subseteq Instances
    /\ \A i \in Instances : pc[i] \in Starting => i \in held
    /\ \A i \in held : pc[i] \notin {"down", "opened"}

\* Undisturbed, everyone who is up and has not unlinked the lock file has the
\* descriptor of the file that is at the path.
SameFile ==
    ~disturbed =>
        \A i \in Instances :
            pc[i] \notin {"down", "unlinked"} => fd[i] = lock_path

\* Undisturbed, the socket at the path is that of the instance serving, and
\* there is none at the moment an instance binds.
Socket == SocketOwned /\ NoStaleSocket

Inv == TypeOK /\ disturbed \in BOOLEAN /\ Locks /\ SameFile /\ Socket

\* Two instances with the lock are one: they have locked the same inode.
LEMMA OneHolder ==
    ASSUME Inv, ~disturbed, NEW i \in Instances, NEW j \in Instances,
           pc[i] \in Starting, pc[j] \in Starting
    PROVE  i = j
<1>1. i \in held /\ j \in held
  BY DEF Inv, Locks
<1>2. fd[i] = lock_path /\ fd[j] = lock_path
  BY DEF Inv, SameFile, Starting
<1> QED
  BY <1>1, <1>2 DEF Inv, TypeOK

LEMMA InitInv == Init => Inv
  BY DEF Init, Inv, TypeOK, Locks, SameFile, Socket, SocketOwned, NoStaleSocket,
         Serving, Starting, Phases

\* One step per system call.
LEMMA NextInv == Inv /\ [Next]_vars => Inv'
<1> SUFFICES ASSUME Inv, [Next]_vars PROVE Inv'
  OBVIOUS
<1> USE InodesSuffice DEF Inv, TypeOK, Phases, Starting
<1>1. ASSUME NEW i \in Instances, Open(i) PROVE Inv'
  <2>1. PICK file \in OpenedFile : fd' = [fd EXCEPT ![i] = file] /\ lock_path' = file
    BY <1>1 DEF Open
  <2>2. file \in Inodes /\ file # None /\ (lock_path # None => file = lock_path)
    BY DEF OpenedFile
  <2>3. i \notin held
    BY <1>1 DEF Open, Locks
  <2>4. TypeOK'
    BY <1>1, <2>1, <2>2, <2>3 DEF Open, Goto, Locks
  <2>5. Locks'
    BY <1>1, <2>3 DEF Open, Goto, Locks
  <2>6. SameFile'
    BY <1>1, <2>1, <2>2 DEF Open, Goto, SameFile
  <2>7. Socket'
    BY <1>1 DEF Open, Goto, Socket, SocketOwned, NoStaleSocket, Serving
  <2> QED
    BY <1>1, <2>4, <2>5, <2>6, <2>7 DEF Open
<1>2. ASSUME NEW i \in Instances, Flock(i) PROVE Inv'
  <2>1. TypeOK'
    BY <1>2 DEF Flock, Goto, Lockable, Locks
  <2>2. Locks'
    BY <1>2 DEF Flock, Goto, Locks
  <2>3. SameFile'
    BY <1>2 DEF Flock, Goto, SameFile
  <2>4. Socket'
    BY <1>2 DEF Flock, Goto, Socket, SocketOwned, NoStaleSocket, Serving
  <2> QED
    BY <1>2, <2>1, <2>2, <2>3, <2>4 DEF Flock
<1>3. ASSUME NEW i \in Instances, Clear(i) PROVE Inv'
  <2>1. TypeOK' /\ Locks' /\ SameFile'
    BY <1>3 DEF Clear, Goto, Locks, SameFile
  <2>2. ~disturbed => \A j \in Instances : pc[j] \in Starting => j = i
    BY <1>3, OneHolder DEF Clear
  <2>3. Socket'
    BY <1>3, <2>2 DEF Clear, Goto, Socket, SocketOwned, NoStaleSocket, Serving
  <2> QED
    BY <1>3, <2>1, <2>3 DEF Clear
<1>4. ASSUME NEW i \in Instances, Bind(i) PROVE Inv'
  <2>1. TypeOK' /\ Locks' /\ SameFile'
    BY <1>4 DEF Bind, Goto, Locks, SameFile
  <2>2. ~disturbed => \A j \in Instances : pc[j] \in Starting => j = i
    BY <1>4, OneHolder DEF Bind
  <2>3. Socket'
    BY <1>4, <2>2 DEF Bind, Goto, Socket, SocketOwned, NoStaleSocket, Serving
  <2> QED
    BY <1>4, <2>1, <2>3 DEF Bind
<1>5. ASSUME NEW i \in Instances, BindFails(i) PROVE Inv'
  BY <1>5 DEF BindFails, Goto, Locks, SameFile, Socket, SocketOwned, NoStaleSocket, Serving
<1>6. ASSUME NEW i \in Instances, Shutdown(i) PROVE Inv'
  <2>1. TypeOK' /\ Locks' /\ SameFile'
    BY <1>6 DEF Shutdown, Goto, Locks, SameFile
  <2>2. ~disturbed => \A j \in Instances : pc[j] \in Starting => j = i
    BY <1>6, OneHolder DEF Shutdown
  <2>3. Socket'
    BY <1>6, <2>2 DEF Shutdown, Goto, Socket, SocketOwned, NoStaleSocket, Serving
  <2> QED
    BY <1>6, <2>1, <2>3 DEF Shutdown
<1>7. ASSUME NEW i \in Instances, UnlinkLock(i) PROVE Inv'
  <2>1. TypeOK' /\ disturbed' \in BOOLEAN
    BY <1>7 DEF UnlinkLock, Goto
  <2>2. Locks'
    BY <1>7 DEF UnlinkLock, Goto, Locks
  <2>3. SameFile'
    BY <1>7 DEF UnlinkLock, Goto, SameFile
  <2>4. Socket'
    BY <1>7 DEF UnlinkLock, Goto, Socket, SocketOwned, NoStaleSocket, Serving
  <2> QED
    BY <2>1, <2>2, <2>3, <2>4
<1>8. ASSUME NEW i \in Instances, pc[i] # "down", Down(i) PROVE Inv'
  <2>1. TypeOK'
    BY <1>8 DEF Down, Goto
  <2>2. Locks'
    BY <1>8 DEF Down, Goto, Locks
  <2>3. SameFile'
    BY <1>8 DEF Down, Goto, SameFile
  <2>4. Socket'
    BY <1>8 DEF Down, Goto, Socket, SocketOwned, NoStaleSocket, Serving
  <2> QED
    BY <1>8, <2>1, <2>2, <2>3, <2>4 DEF Down
<1>9. CASE UNCHANGED vars
  BY <1>9 DEF vars, Locks, SameFile, Socket, SocketOwned, NoStaleSocket, Serving
<1> QED
  BY <1>1, <1>2, <1>3, <1>4, <1>5, <1>6, <1>7, <1>8, <1>9 DEF Next, Close, Crash

\* Inv holds in every state of every behaviour of the instances.
THEOREM LockInvariance == Spec => []Inv
<1> QED
  BY InitInv, NextInv, PTL DEF Spec

\* An instance has a lock file open exactly while it is up, and no two
\* descriptors of one lock file hold its lock (ClientListenSocket::Create).
THEOREM InstancesTypeCorrect == Spec => []TypeOK
<1>1. Inv => TypeOK
  BY DEF Inv
<1> QED
  BY <1>1, LockInvariance, PTL

\* Instances that do not unlink a lock file under each other never serve
\* together (flock in ClientListenSocket::Create).
THEOREM LockExcludes == Spec => []Exclusive
<1>1. Inv => Exclusive
  <2> SUFFICES ASSUME Inv, ~disturbed PROVE OneServer
    BY DEF Exclusive
  <2>1. \A i, j \in Serving : i = j
    BY OneHolder DEF Serving, Starting
  <2>2. CASE Serving = {}
    BY <2>2, FS_EmptySet DEF OneServer
  <2>3. CASE Serving # {}
    <3>1. PICK i \in Serving : TRUE
      BY <2>3
    <3>2. Serving = {i}
      BY <2>1, <3>1
    <3> QED
      BY <3>2, FS_Singleton DEF OneServer
  <2> QED
    BY <2>2, <2>3
<1> QED
  BY <1>1, LockInvariance, PTL

\* The instance that serves is the one its clients reach (SOCKET_PATH).
THEOREM ServerReachable == Spec => []SocketOwned
<1>1. Inv => SocketOwned
  BY DEF Inv, Socket
<1> QED
  BY <1>1, LockInvariance, PTL

\* No socket left by a crash keeps an instance from starting
\* (prepareDirectory).
THEOREM RestartUnhindered == Spec => []NoStaleSocket
<1>1. Inv => NoStaleSocket
  BY DEF Inv, Socket
<1> QED
  BY <1>1, LockInvariance, PTL
=============================================================================

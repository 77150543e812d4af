---------------------------- MODULE InstanceLock ----------------------------
(***************************************************************************)
(* How instances of the daemon keep each other out: a lock file, and the    *)
(* named socket of the clients (client::ClientListenSocket::Create and the  *)
(* destructors of what it owns).  One action per system call, since the     *)
(* instances are processes of their own.                                    *)
(*                                                                          *)
(* A lock file is known by its inode, which lives as long as the path or a  *)
(* descriptor refers to it.  flock() locks the inode; unlink() takes the    *)
(* path from whatever inode has it.                                         *)
(***************************************************************************)
EXTENDS FiniteSets, Naturals

CONSTANTS
    Instances,      \* processes started
    Inodes,         \* inodes a lock file may have
    None

ASSUME InodesSuffice ==
    /\ IsFiniteSet(Instances) /\ IsFiniteSet(Inodes)
    /\ Cardinality(Inodes) > Cardinality(Instances)
    /\ None \notin Instances \cup Inodes

VARIABLES
    pc,             \* instance -> how far it has got
    fd,             \* instance -> inode its lock descriptor refers to, or None
    held,           \* instances that hold a lock on theirs
    lock_path,      \* inode at SOCKET_LOCK, or None
    socket_path,    \* instance whose socket is at SOCKET_PATH, or None
    disturbed       \* history: a lock file was unlinked while others were up

vars == <<pc, fd, held, lock_path, socket_path, disturbed>>

Phases == {"down", "opened", "locked", "cleared", "serving", "leaving", "unlinked"}

\* open() with O_CREAT finds the file at the path, or makes one.
OpenedFile ==
    IF lock_path # None THEN {lock_path} ELSE Inodes \ {fd[i] : i \in Instances}

Goto(i, phase) == pc' = [pc EXCEPT ![i] = phase]

----------------------------------------------------------------------------
Init ==
    /\ pc = [i \in Instances |-> "down"]
    /\ fd = [i \in Instances |-> None]
    /\ held = {}
    /\ lock_path = None
    /\ socket_path = None
    /\ disturbed = FALSE

\* Mutant of Open: the socket of a crashed instance is cleared away first.
Open_clearing(i) ==
    /\ pc[i] = "down"
    /\ Goto(i, "opened")
    /\ \E file \in OpenedFile : fd' = [fd EXCEPT ![i] = file] /\ lock_path' = file
    /\ socket_path' = None
    /\ UNCHANGED <<held, disturbed>>

\* open(SOCKET_LOCK, O_RDWR | O_CREAT)
Open(i) ==
    /\ pc[i] = "down"
    /\ Goto(i, "opened")
    /\ \E file \in OpenedFile : fd' = [fd EXCEPT ![i] = file] /\ lock_path' = file
    /\ UNCHANGED <<held, socket_path, disturbed>>

\* Mutant of Lockable: the lock is shared.
Lockable_shared(i) == TRUE

\* flock(LOCK_EX | LOCK_NB) gets the lock.
Lockable(i) == \A j \in held : fd[j] # fd[i]

\* Without the lock Create returns, and destroys the descriptor it has opened.
Flock(i) ==
    /\ pc[i] = "opened"
    /\ Goto(i, IF Lockable(i) THEN "locked" ELSE "leaving")
    /\ held' = IF Lockable(i) THEN held \cup {i} ELSE held
    /\ UNCHANGED <<fd, lock_path, socket_path, disturbed>>

\* Mutant of Clear: what is at SOCKET_PATH is left there.
Clear_not(i) ==
    /\ pc[i] = "locked"
    /\ Goto(i, "cleared")
    /\ UNCHANGED <<fd, held, lock_path, socket_path, disturbed>>

\* prepareDirectory: unlink(SOCKET_PATH)
Clear(i) ==
    /\ pc[i] = "locked"
    /\ Goto(i, "cleared")
    /\ socket_path' = None
    /\ UNCHANGED <<fd, held, lock_path, disturbed>>

\* The rest of createDataSocket.  bind() fails if the path is taken; a failure
\* ends Create.
Bind(i) ==
    /\ pc[i] = "cleared"
    /\ IF socket_path = None
       THEN Goto(i, "serving") /\ socket_path' = i
       ELSE Goto(i, "leaving") /\ UNCHANGED socket_path
    /\ UNCHANGED <<fd, held, lock_path, disturbed>>

\* No socket to be had.
BindFails(i) ==
    /\ pc[i] = "cleared"
    /\ Goto(i, "leaving")
    /\ UNCHANGED <<fd, held, lock_path, socket_path, disturbed>>

\* The end of main destroys listener_socket_, whoever has its path by now ...
Shutdown(i) ==
    /\ pc[i] = "serving"
    /\ Goto(i, "leaving")
    /\ socket_path' = None
    /\ UNCHANGED <<fd, held, lock_path, disturbed>>

\* ... and lock_socket_, as an unsuccessful Create does: unlink(SOCKET_LOCK) in
\* the destructor of DeletingOwnedFileDescriptor,
UnlinkLock(i) ==
    /\ pc[i] = "leaving"
    /\ Goto(i, "unlinked")
    /\ lock_path' = None
    /\ disturbed' = (disturbed \/ \E j \in Instances \ {i} : pc[j] # "down")
    /\ UNCHANGED <<fd, held, socket_path>>

\* and close() in that of its member.
Down(i) ==
    /\ Goto(i, "down")
    /\ fd' = [fd EXCEPT ![i] = None]
    /\ held' = held \ {i}
    /\ UNCHANGED <<lock_path, socket_path, disturbed>>

Close(i) == pc[i] = "unlinked" /\ Down(i)

\* The process is killed, or ends by exit() in unwrapOrLog, which runs no
\* destructor of main's: its descriptors are closed and its files stay.
Crash(i) == pc[i] # "down" /\ Down(i)

Next ==
    \E i \in Instances :
        \/ Open(i) \/ Flock(i) \/ Clear(i) \/ Bind(i) \/ BindFails(i)
        \/ Shutdown(i) \/ UnlinkLock(i) \/ Close(i) \/ Crash(i)

Spec == Init /\ [][Next]_vars

----------------------------------------------------------------------------
Serving == {i \in Instances : pc[i] = "serving"}

\* Every descriptor belongs to an instance that is up, every lock to a
\* descriptor, and no inode is locked twice (flock of two instances).
TypeOK ==
    /\ pc \in [Instances -> Phases]
    /\ fd \in [Instances -> Inodes \cup {None}]
    /\ \A i \in Instances : fd[i] = None <=> pc[i] = "down"
    /\ lock_path \in Inodes \cup {None}
    /\ socket_path \in Instances \cup {None}
    /\ \A i, j \in held : fd[i] = fd[j] => i = j

\* As the lock is exclusive, an instance that cannot have it fails to start:
\* never do two instances serve.
OneServer == Cardinality(Serving) <= 1

\* Instances that start, stop, fail and crash one after another never serve
\* together: it takes one that unlinks the lock file while another one is up.
Exclusive == ~disturbed => OneServer

\* Clients reach the instance that serves: no one starting or stopping takes
\* its socket away, so long as nobody has unlinked a lock file others relied on.
SocketOwned == ~disturbed => \A i \in Serving : socket_path = i

\* A crashed instance leaves its socket behind, and still the next one can bind
\* its own there (prepareDirectory).
NoStaleSocket == ~disturbed => \A i \in Instances : pc[i] = "cleared" => socket_path = None
=============================================================================

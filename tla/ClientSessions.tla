--------------------------- MODULE ClientSessions ---------------------------
(***************************************************************************)
(* The event loop of the daemon and the clients it serves: main() and       *)
(* EventManager::ProcessEvents, the handlers ClientListenSocket,            *)
(* ClientRepository, ClientSenderSocket and InterruptHandler, and the       *)
(* clients with their ClientReceiverSocket.                                 *)
(*                                                                          *)
(* The loop takes a batch of events from epoll_wait() and calls a handler   *)
(* for each: one action per call, so that clients and the kernel act in     *)
(* between.  Descriptors are blocking.  A handler that reads is held up     *)
(* until there is something to read; a response is sent packet by packet    *)
(* and is held up when the client's buffer is full.                         *)
(***************************************************************************)
EXTENDS EventManager, ClientPackets

CONSTANTS
    Clients,                            \* client processes
    Signals,                            \* SIGINT and SIGTERM
    Tables,                             \* neighbour tables the daemon may have
    MAX_CONCURRENT_EVENTS,
    MAX_DATA_TRANSPORT_PACKET_AMOUNT,
    Backlog,                            \* connections waiting to be accepted
    Window,                             \* packets a socket holds
    MaxNews,                            \* changes of the table
    MaxFaults                           \* failures of accept() and epoll_ctl()

ASSUME SessionConstants ==
    /\ {MAX_CONCURRENT_EVENTS, MAX_DATA_TRANSPORT_PACKET_AMOUNT, Backlog, Window} \subseteq Nat \ {0}
    /\ MaxNews \in Nat /\ MaxFaults \in Nat
    /\ IsFiniteSet(Clients)
    /\ \A t \in Tables : IsTable(t) /\ Fits(t)

VARIABLES
    status,         \* "running", "exited" after the main loop, "killed" by a signal
    signals,        \* those that are blocked and pending
    interrupt_flag,
    table,          \* the neighbour table
    news,           \* frames and clock events that change it, still to come
    manager,        \* the EventManager
    sessions,       \* fd -> ClientSenderSocket: its client, eof_received_
    notified,       \* the eventfd of the ClientRepository is not zero
    batch,          \* handles reported by epoll_wait(), to be served
    passed,         \* handles that were ready and did not fit into the batch
    sending,        \* response being sent: its descriptor and what is left of it
    faults,
    backlog,        \* clients connected and not yet accepted
    phase,          \* client -> what it does
    requests,       \* client -> requests it has sent and the daemon not read
    reset,          \* clients that left with packets unread
    inbox,          \* client -> packets in its socket
    received,       \* client -> packets of its last GetData
    shown,          \* history: client -> tables there were during its last GetData
    overrun         \* history: clients that ever stopped before the end of a response

loopVars == <<batch, passed, sending>>
daemonVars == <<status, interrupt_flag, manager, sessions, notified, loopVars, faults>>
clientVars == <<phase, requests, reset, inbox, received, shown, overrun>>
vars == <<daemonVars, signals, table, news, backlog, clientVars>>

\* The descriptors initializeHandlers opens; those of clients come after them.
Monitor == 1
Repository == 2
Listener == 3
Interrupt == 4
Fixed == {Monitor, Repository, Listener, Interrupt}
SessionFds == 5 .. 5 + Cardinality(Clients)

Idle == [fd |-> 0, packets |-> <<>>]

\* The daemon has a socket that leads to the client.
Connected(c) ==
    \/ c \in Range(backlog)
    \/ \E fd \in DOMAIN sessions : sessions[fd].client = c

----------------------------------------------------------------------------
(* The kernel's side. *)

Readable(fd) ==
    \/ fd = Monitor /\ news > 0
    \/ fd = Repository /\ notified
    \/ fd = Listener /\ backlog # <<>>
    \/ fd = Interrupt /\ signals # {}
    \/ /\ fd \in DOMAIN sessions
       /\ requests[sessions[fd].client] > 0 \/ phase[sessions[fd].client] = "gone"

\* The lowest descriptor that is free.
FreeFd == Min(SessionFds \ DOMAIN sessions)

\* The process ends: everything it has open is closed.
Ends(how) ==
    /\ status' = how
    /\ manager' = EmptyManager
    /\ sessions' = <<>> /\ backlog' = <<>>
    /\ batch' = <<>> /\ passed' = {} /\ sending' = Idle
    /\ notified' = FALSE
    /\ signals' = {}

----------------------------------------------------------------------------
(* The main loop. *)

Init ==
    /\ status = "running" /\ signals = {} /\ interrupt_flag = FALSE
    /\ table \in Tables /\ news = MaxNews
    /\ manager = Add(Add(Add(Add(EmptyManager, Monitor), Repository), Listener), Interrupt)
    /\ sessions = <<>> /\ notified = FALSE
    /\ batch = <<>> /\ passed = {} /\ sending = Idle
    /\ faults = MaxFaults /\ backlog = <<>>
    /\ phase = [c \in Clients |-> "off"]
    /\ requests = [c \in Clients |-> 0] /\ reset = {}
    /\ inbox = [c \in Clients |-> <<>>] /\ received = [c \in Clients |-> <<>>]
    /\ shown = [c \in Clients |-> {}] /\ overrun = {}

\* No handler is running.
Free == status = "running" /\ sending = Idle

\* ProcessEvents, up to epoll_wait() (which with nothing ready comes back empty).
\* No handler is found expired: every one is unregistered when it is destroyed.
ProcessEvents ==
    LET ready == {manager.interest[fd] : fd \in {d \in DOMAIN manager.interest : Readable(d)}}
    IN  /\ Free /\ batch = <<>> /\ ~interrupt_flag
        /\ ready # {}
        /\ \E reported \in Reported(ready, passed, MAX_CONCURRENT_EVENTS) :
              /\ batch' \in SetToSeqs(reported)
              /\ passed' = ready \ reported
        /\ UNCHANGED <<status, interrupt_flag, manager, sessions, notified, sending, faults,
                       signals, table, news, backlog, clientVars>>

\* The next event of the batch is for this handler, and its read() comes back.
Called(fd) ==
    /\ Free /\ batch # <<>>
    /\ Head(batch) \in DOMAIN manager.registered
    /\ manager.registered[Head(batch)] = fd
    /\ Readable(fd)

Served == batch' = Tail(batch) /\ UNCHANGED passed

\* The next event is for a handler that is gone.
Skip ==
    /\ Free /\ batch # <<>>
    /\ Head(batch) \notin DOMAIN manager.registered
    /\ Served
    /\ UNCHANGED <<status, interrupt_flag, manager, sessions, notified, sending, faults,
                   signals, table, news, backlog, clientVars>>

\* EthernetLldpMonitor and ClockHandler, for what they do to the table
MonitorCall ==
    /\ Called(Monitor) /\ Served
    /\ table' \in Tables
    /\ news' = news - 1
    /\ shown' = [c \in Clients |-> IF phase[c] = "waiting" THEN shown[c] \cup {table'} ELSE shown[c]]
    /\ UNCHANGED <<status, interrupt_flag, manager, sessions, notified, sending, faults,
                   signals, backlog, phase, requests, reset, inbox, received, overrun>>

\* ClientListenSocket::Call, with ClientRepository::Add.  If accept() fails the
\* client keeps waiting; if epoll_ctl() does, its connection is closed.
ListenerCall ==
    /\ Called(Listener) /\ Served
    /\ \/ /\ sessions' = With(sessions, FreeFd, [client |-> Head(backlog), eof_received |-> FALSE])
          /\ manager' = Add(manager, FreeFd)
          /\ backlog' = Tail(backlog)
          /\ UNCHANGED faults
       \/ /\ faults > 0 /\ faults' = faults - 1
          /\ backlog' \in {backlog, Tail(backlog)}
          /\ UNCHANGED <<sessions, manager>>
    /\ UNCHANGED <<status, interrupt_flag, notified, sending, signals, table, news, clientVars>>

\* Mutant of RepositoryCall: only the latest session is looked at.
RepositoryCall_last ==
    /\ Called(Repository) /\ Served
    /\ LET departed == {fd \in DOMAIN sessions : sessions[fd].eof_received
                                /\ \A d \in DOMAIN sessions : d <= fd}
       IN  /\ sessions' = Without(sessions, departed)
           /\ manager' = Destroyed(manager, departed)
    /\ notified' = FALSE
    /\ UNCHANGED <<status, interrupt_flag, sending, faults, signals, table, news, backlog, clientVars>>

\* ClientRepository::Call
RepositoryCall ==
    /\ Called(Repository) /\ Served
    /\ LET departed == {fd \in DOMAIN sessions : sessions[fd].eof_received}
       IN  /\ sessions' = Without(sessions, departed)
           /\ manager' = Destroyed(manager, departed)
    /\ notified' = FALSE
    /\ UNCHANGED <<status, interrupt_flag, sending, faults, signals, table, news, backlog, clientVars>>

\* ClientSenderSocket::Call: an error of recvmsg(), a request or the end of file.
SessionCall(fd) ==
    /\ Called(fd) /\ Served
    /\ LET c == sessions[fd].client
       IN  \/ /\ c \in reset
              /\ reset' = reset \ {c}
              /\ UNCHANGED <<requests, sessions, notified, sending>>
           \/ /\ c \notin reset /\ requests[c] > 0
              /\ requests' = [requests EXCEPT ![c] = @ - 1]
              /\ sending' = [fd |-> fd, packets |-> DumpData(table)]
              /\ UNCHANGED <<reset, sessions, notified>>
           \/ /\ c \notin reset /\ requests[c] = 0
              /\ sessions' = [sessions EXCEPT ![fd].eof_received = TRUE]
              /\ notified' = TRUE
              /\ UNCHANGED <<reset, requests, sending>>
    /\ UNCHANGED <<status, interrupt_flag, manager, faults, signals, table, news, backlog,
                   phase, inbox, received, shown, overrun>>

\* sendClientPacket.  With the client gone sendmsg() fails, which nobody looks at;
\* it takes the error of the socket with it unless it was held up in the call.
Send ==
    /\ status = "running" /\ sending # Idle
    /\ LET c == sessions[sending.fd].client
           rest == Tail(sending.packets)
       IN  /\ \/ /\ phase[c] = "gone"
                 /\ reset' \in {reset, reset \ {c}}
                 /\ UNCHANGED inbox
              \/ /\ phase[c] # "gone" /\ Len(inbox[c]) < Window
                 /\ inbox' = [inbox EXCEPT ![c] = Append(@, Head(sending.packets))]
                 /\ UNCHANGED reset
           /\ sending' = IF rest = <<>> THEN Idle ELSE [sending EXCEPT !.packets = rest]
    /\ UNCHANGED <<status, interrupt_flag, manager, sessions, notified, batch, passed, faults,
                   signals, table, news, backlog, phase, requests, received, shown, overrun>>

\* InterruptHandler::Call: one signal is read, then both are unblocked; the other
\* one, if it is pending, ends the process on the spot.
InterruptCall ==
    /\ Called(Interrupt)
    /\ \E s \in signals :
          \/ /\ signals # {s}
             /\ Ends("killed")
             /\ UNCHANGED interrupt_flag
          \/ /\ signals = {s} /\ signals' = {}
             /\ interrupt_flag' = TRUE
             /\ Served
             /\ UNCHANGED <<status, manager, sessions, notified, sending, backlog>>
    /\ UNCHANGED <<faults, table, news, clientVars>>

\* Mutant of Exit: the sessions are served until all clients have left.
Exit_drained ==
    /\ Free /\ batch = <<>> /\ interrupt_flag /\ DOMAIN sessions = {}
    /\ Ends("exited")
    /\ UNCHANGED <<interrupt_flag, faults, table, news, clientVars>>

\* The end of main(): the handlers are removed and destroyed.
Exit ==
    /\ Free /\ batch = <<>> /\ interrupt_flag
    /\ Ends("exited")
    /\ UNCHANGED <<interrupt_flag, faults, table, news, clientVars>>

\* A signal comes: blocked, it waits for the handler.
Signal(s) ==
    /\ status = "running"
    /\ \/ /\ ~interrupt_flag
          /\ signals' = signals \cup {s}
          /\ UNCHANGED <<daemonVars, backlog>>
       \/ /\ interrupt_flag
          /\ Ends("killed")
          /\ UNCHANGED <<interrupt_flag, faults>>
    /\ UNCHANGED <<table, news, clientVars>>

----------------------------------------------------------------------------
(* The clients. *)

\* ClientReceiverSocket::Create
Connect(c) ==
    /\ phase[c] = "off" /\ status = "running" /\ Len(backlog) < Backlog
    /\ phase' = [phase EXCEPT ![c] = "idle"]
    /\ backlog' = Append(backlog, c)
    /\ UNCHANGED <<daemonVars, signals, table, news, requests, reset, inbox, received, shown, overrun>>

\* It exits after an answer, or is killed at any time; what was on the way to it is
\* lost.
Leave(c) ==
    /\ phase[c] \in {"idle", "waiting"}
    /\ phase' = [phase EXCEPT ![c] = "gone"]
    /\ reset' = IF inbox[c] # <<>> THEN reset \cup {c} ELSE reset
    /\ inbox' = [inbox EXCEPT ![c] = <<>>]
    /\ received' = [received EXCEPT ![c] = <<>>]
    /\ shown' = [shown EXCEPT ![c] = {}]
    /\ overrun' = overrun \ {c}
    /\ UNCHANGED <<daemonVars, signals, table, news, backlog, requests>>

\* GetData sends its request, or fails to, with the connection closed, and goes on.
SendRequest(c) ==
    /\ phase[c] = "idle"
    /\ \/ ~Connected(c) /\ UNCHANGED requests
       \/ /\ Connected(c) /\ requests[c] < Window
          /\ requests' = [requests EXCEPT ![c] = @ + 1]
    /\ phase' = [phase EXCEPT ![c] = "waiting"]
    /\ received' = [received EXCEPT ![c] = <<>>]
    /\ shown' = [shown EXCEPT ![c] = {table}]
    /\ UNCHANGED <<daemonVars, signals, table, news, backlog, reset, inbox, overrun>>

\* One turn of the loop of GetData, which ends with END_OF_DATA, after the last
\* turn, or when the connection is found closed.
ReadData(c) ==
    /\ phase[c] = "waiting"
    /\ \/ /\ inbox[c] # <<>>
          /\ LET packets == Append(received[c], Head(inbox[c]))
                 ended == Head(inbox[c]) = End
                 last == Len(packets) = MAX_DATA_TRANSPORT_PACKET_AMOUNT
             IN  /\ received' = [received EXCEPT ![c] = packets]
                 /\ inbox' = [inbox EXCEPT ![c] = Tail(@)]
                 /\ phase' = IF ended \/ last THEN [phase EXCEPT ![c] = "idle"] ELSE phase
                 /\ overrun' = IF last /\ ~ended THEN overrun \cup {c} ELSE overrun
       \/ /\ inbox[c] = <<>> /\ ~Connected(c)
          /\ phase' = [phase EXCEPT ![c] = "idle"]
          /\ UNCHANGED <<received, inbox, overrun>>
    /\ UNCHANGED <<daemonVars, signals, table, news, backlog, requests, reset, shown>>

----------------------------------------------------------------------------
Daemon ==
    \/ ProcessEvents \/ Skip \/ MonitorCall \/ ListenerCall \/ RepositoryCall
    \/ \E fd \in SessionFds : SessionCall(fd)
    \/ Send \/ InterruptCall \/ Exit

Client(c) == Connect(c) \/ Leave(c) \/ SendRequest(c) \/ ReadData(c)

Next ==
    \/ Daemon
    \/ \E s \in Signals : Signal(s)
    \/ \E c \in Clients : Client(c)

Spec == Init /\ [][Next]_vars

\* The daemon's process runs on, a client that waits goes on reading, and one that
\* has its answer asks again or exits.
FairSpec ==
    /\ Spec
    /\ WF_vars(Daemon)
    /\ \A c \in Clients :
          /\ WF_vars(ReadData(c))
          /\ WF_vars(phase[c] = "idle" /\ (SendRequest(c) \/ Leave(c)))

----------------------------------------------------------------------------
\* A session is registered under one handle as long as it exists, and epoll knows
\* it by that handle (Add, ~EventHandler and close()); only departed clients have
\* eof_received_.
TypeOK ==
    /\ status \in {"running", "exited", "killed"}
    /\ signals \subseteq Signals /\ interrupt_flag \in BOOLEAN
    /\ table \in Tables /\ news \in 0 .. MaxNews /\ faults \in 0 .. MaxFaults
    /\ DOMAIN sessions \subseteq SessionFds
    /\ DOMAIN manager.interest =
          IF status = "running" THEN DOMAIN sessions \cup Fixed ELSE {}
    /\ DOMAIN manager.registered = {manager.interest[fd] : fd \in DOMAIN manager.interest}
    /\ \A fd \in DOMAIN manager.interest : manager.registered[manager.interest[fd]] = fd
    /\ \A fd \in DOMAIN sessions : sessions[fd].eof_received => phase[sessions[fd].client] = "gone"
    /\ \A c \in Clients : requests[c] <= Window /\ Len(inbox[c]) <= Window

\* No handler is ever called in vain: an event that is still to be served is for a
\* handler that finds something to read, although others, among them clients that
\* come and go with the same descriptor, were served since epoll_wait().  A read
\* in vain would block the whole daemon.
NeverReadsInVain ==
    \A n \in DOMAIN batch :
        batch[n] \in DOMAIN manager.registered => Readable(manager.registered[batch[n]])

\* What GetData has read up to END_OF_DATA is a table the daemon had while the
\* client waited, whole and with each address at its neighbour, and it is only cut
\* short when the connection is gone; except after the packet limit was reached.
AnswersAreTables ==
    \A c \in Clients \ overrun :
        phase[c] = "idle" /\ shown[c] # {} =>
            IF received[c] # <<>> /\ Last(received[c]) = End
            THEN \E t \in shown[c] : Shows(received[c], t)
            ELSE ~Connected(c)

\* A client never waits for ever for its answer, whatever other clients do.
Answered == \A c \in Clients : phase[c] = "waiting" ~> phase[c] # "waiting"

\* A session does not outlive its client for ever (ClientRepository::Call).
Reaped == \A c \in Clients : phase[c] = "gone" ~> ~Connected(c)

\* The daemon ends after a signal, however busy its clients keep it.
StopsOnSignal == signals # {} ~> status # "running"
=============================================================================

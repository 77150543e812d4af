---------------------------- MODULE EventManager ----------------------------
(***************************************************************************)
(* ndisc::EventManager: which handlers are registered, under which handles, *)
(* and the set of descriptors epoll watches for it.                         *)
(*                                                                          *)
(* A handler is known by the descriptor it owns.  registered is             *)
(* registered_events_, a map from handles; interest is the kernel's side, a *)
(* map from descriptors to the handle given to epoll_ctl().                 *)
(***************************************************************************)
EXTENDS FiniteSets, Naturals

EmptyManager == [registered |-> <<>>, event_id_counter |-> 1, interest |-> <<>>]

With(map, key, value) ==
    [k \in DOMAIN map \cup {key} |-> IF k = key THEN value ELSE map[k]]

Without(map, keys) == [k \in DOMAIN map \ keys |-> map[k]]

\* The first handle from the counter on that is not taken.
FreeHandle(manager) ==
    LET counter == manager.event_id_counter
        Taken(n) == n \in DOMAIN manager.registered
    IN  CHOOSE n \in counter .. counter + Cardinality(DOMAIN manager.registered) :
            ~Taken(n) /\ \A k \in counter .. n - 1 : Taken(k)

\* Mutant of Add: the descriptor serves as the handle.
Add_fd(manager, fd) ==
    [manager EXCEPT !.registered = With(@, fd, fd), !.interest = With(@, fd, fd)]

\* EventManager::Add of a handler that is not registered, when epoll_ctl() works
Add(manager, fd) ==
    LET handle == FreeHandle(manager)
    IN  [registered |-> With(manager.registered, handle, fd),
         event_id_counter |-> handle + 1,
         interest |-> With(manager.interest, fd, handle)]

\* Mutant of Destroyed: handlers do not unregister themselves.
Destroyed_kept(manager, fds) == [manager EXCEPT !.interest = Without(@, fds)]

\* The handlers of these descriptors are destroyed.  Their descriptors are
\* closed, with which epoll forgets them; then ~EventHandler calls Remove, which
\* finds the handler expired and only erases its handle.
Destroyed(manager, fds) ==
    [manager EXCEPT
        !.interest = Without(@, fds),
        !.registered = Without(@, {h \in DOMAIN @ : @[h] \in fds})]

\* The handles EventManager::ProcessEvents may get from epoll_wait(): as many of
\* the ready ones as fit.  A descriptor that stays ready goes to the end of the
\* kernel's ready list, so those passed over the last time come first.
Reported(ready, passed, limit) ==
    {S \in SUBSET ready :
        /\ Cardinality(S) = IF Cardinality(ready) < limit THEN Cardinality(ready) ELSE limit
        /\ passed \cap ready \subseteq S \/ S \subseteq passed}
=============================================================================

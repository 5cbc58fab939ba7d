------------------------------ MODULE Daemons ------------------------------
(***************************************************************************)
(* The life of dirhive processes that share one data directory: the flock, *)
(* the Unix socket and its stale file, the iroh stack, orderly shutdown,   *)
(* failed starts, SIGKILL, and the RPC connections that are open meanwhile.*)
(* A process runs once; a restart is another process.                      *)
(***************************************************************************)
EXTENDS Naturals, FiniteSets

CONSTANTS
    Process,     \* runs of the dirhive binary
    NoProcess,   \* nobody: the lock is free, the socket file does not exist
    Client,      \* connections that clients try to make
    MaxInFlight  \* MAX_IN_FLIGHT_CONNECTIONS

ASSUME DaemonsAssumption == /\ NoProcess \notin Process
                            /\ MaxInFlight \in Nat \ {0}

VARIABLES
    pc,      \* how far main has come
    lock,    \* who holds the flock on daemon.lock
    socket,  \* whose socket the file daemon.sock is, alive or stale
    stop,    \* a signal is in the stream main installed
    conn,    \* connections, as their clients see them
    host     \* the process a connection leads to

os == <<lock, socket>>
rpc == <<conn, host>>
vars == <<pc, os, stop, rpc>>

Pc == {"new", "lock", "probe", "stale", "stack", "bind", "tasks", "serve",
       "unlink", "unlock", "shutdown", "drop", "dropped", "abort", "off", "dead"}

\* Where a process runs at all, where main owns the lock file, where the
\* endpoint and the blob store are open, and where connections are accepted.
Alive == Pc \ {"new", "off", "dead"}
Locked == {"probe", "stale", "stack", "bind", "tasks", "serve", "unlink", "unlock",
           "drop", "dropped"}
StackOpen == (Locked \ {"probe", "stale", "stack"}) \cup {"shutdown", "abort"}
Serving == {"tasks", "serve"}

Init ==
    /\ pc = [p \in Process |-> "new"]
    /\ lock = NoProcess
    /\ socket = NoProcess
    /\ stop = [p \in Process |-> FALSE]
    /\ conn = [c \in Client |-> "none"]
    /\ host = [c \in Client |-> NoProcess]

-----------------------------------------------------------------------------
Goto(p, from, to) == pc[p] = from /\ pc' = [pc EXCEPT ![p] = to]

\* The connections of p that nobody will answer any more are closed.
Hangup(p, states) ==
    conn' = [c \in Client |-> IF host[c] = p /\ conn[c] \in states
                              THEN "closed" ELSE conn[c]]

Start(p) ==
    /\ Goto(p, "new", "lock")
    /\ UNCHANGED <<os, stop, rpc>>

\* Mutant: the lock is only opened, never tried.
AcquireLockOpened(p) ==
    /\ Goto(p, "lock", "probe")
    /\ lock' = p
    /\ UNCHANGED <<socket, stop, rpc>>

AcquireLock(p) ==
    /\ \/ /\ lock = NoProcess
          /\ Goto(p, "lock", "probe")
          /\ lock' = p
       \/ /\ lock # NoProcess
          /\ Goto(p, "lock", "off")
          /\ UNCHANGED lock
    /\ UNCHANGED <<socket, stop, rpc>>

Listening(p) == p \in Process /\ pc[p] \in Serving

\* Is a daemon behind the socket?  If it answers the health check, main ends.
ProbeSocket(p) ==
    /\ Goto(p, "probe", IF socket = NoProcess THEN "stack"
                        ELSE IF Listening(socket) THEN "dead" ELSE "stale")
    /\ lock' = IF Listening(socket) THEN NoProcess ELSE lock
    /\ UNCHANGED <<socket, stop, rpc>>

\* Mutant: the stale file is left to bind.
RemoveStaleNever(p) ==
    /\ Goto(p, "stale", "stack")
    /\ UNCHANGED <<os, stop, rpc>>

RemoveStale(p) ==
    /\ Goto(p, "stale", "stack")
    /\ socket' = NoProcess
    /\ UNCHANGED <<lock, stop, rpc>>

\* Mutant: a state main has no name for.
OpenStackOnline(p) ==
    /\ Goto(p, "stack", "online")
    /\ UNCHANGED <<os, stop, rpc>>

\* Endpoint, blob store, router and the files the daemon keeps.
OpenStack(p) ==
    /\ Goto(p, "stack", "bind")
    /\ UNCHANGED <<os, stop, rpc>>

\* Any of these fails and main returns the error; the lock file goes last.
SetupFails(p) ==
    /\ \E at \in {"probe", "stale", "stack"} : Goto(p, at, "dead")
    /\ lock' = NoProcess
    /\ UNCHANGED <<socket, stop, rpc>>

Bind(p) ==
    /\ socket = NoProcess
    /\ Goto(p, "bind", "tasks")
    /\ socket' = p
    /\ UNCHANGED <<lock, stop, rpc>>

\* bind_listener_with_lock fails before or after it has made the socket file.
\* It owns the lock file, so the lock goes first and the stack stays open.
BindFails(p) ==
    /\ Goto(p, "bind", "abort")
    /\ lock' = NoProcess
    /\ socket' \in {socket} \cup (IF socket = NoProcess THEN {p} ELSE {})
    /\ UNCHANGED <<stop, rpc>>

\* Receive loop and watcher are spawned with the listener already at work ...
StartTasks(p) ==
    /\ Goto(p, "tasks", "serve")
    /\ UNCHANGED <<os, stop, rpc>>

\* ... and if spawn_watcher fails main returns the error: the listener handle
\* is dropped, its accept loop aborted, and the stack goes after it.
TasksFail(p) ==
    /\ Goto(p, "tasks", "drop")
    /\ Hangup(p, {"waiting"})
    /\ UNCHANGED <<os, stop, host>>

-----------------------------------------------------------------------------
\* SIGINT or SIGTERM: the streams are installed first and keep it for select!.
Signal(p) ==
    /\ pc[p] \in Alive
    /\ stop' = [stop EXCEPT ![p] = TRUE]
    /\ UNCHANGED <<pc, os, rpc>>

\* Mutant: the listening socket outlives its accept loop.
CloseListenerQuietly(p) ==
    /\ stop[p]
    /\ Goto(p, "serve", "unlink")
    /\ UNCHANGED <<os, stop, rpc>>

\* Mutant: the lock file goes with the listener, before the socket file does.
CloseListenerUnlocks(p) ==
    /\ stop[p]
    /\ Goto(p, "serve", "unlink")
    /\ Hangup(p, {"waiting"})
    /\ lock' = NoProcess
    /\ UNCHANGED <<socket, stop, host>>

\* The accept loop ends and with it the listening socket; the handlers it has
\* spawned go on.
CloseListener(p) ==
    /\ stop[p]
    /\ Goto(p, "serve", "unlink")
    /\ Hangup(p, {"waiting"})
    /\ UNCHANGED <<os, stop, host>>

\* Mutant: the file is left to the next start.
UnlinkSocketNever(p) ==
    /\ Goto(p, "unlink", "unlock") \/ Goto(p, "drop", "dropped")
    /\ UNCHANGED <<os, stop, rpc>>

\* Drop of the ListenerHandle removes the file, whosever it is ...
UnlinkSocket(p) ==
    /\ Goto(p, "unlink", "unlock") \/ Goto(p, "drop", "dropped")
    /\ socket' = NoProcess
    /\ UNCHANGED <<lock, stop, rpc>>

\* ... and then its fields are dropped, the lock file among them.
Unlock(p) ==
    /\ Goto(p, "unlock", "shutdown") \/ Goto(p, "dropped", "abort")
    /\ lock' = NoProcess
    /\ UNCHANGED <<socket, stop, rpc>>

\* The router is shut down, main returns, and handlers still at work are lost.
End(p) ==
    /\ \/ Goto(p, "shutdown", "off")
       \/ Goto(p, "abort", "dead")
    /\ Hangup(p, {"serving"})
    /\ UNCHANGED <<os, stop, host>>

\* SIGKILL: the system frees the lock and the connections, not the socket file.
Kill(p) ==
    /\ pc[p] \in Alive
    /\ pc' = [pc EXCEPT ![p] = "dead"]
    /\ lock' = IF lock = p THEN NoProcess ELSE lock
    /\ Hangup(p, {"waiting", "serving"})
    /\ UNCHANGED <<socket, stop, host>>

-----------------------------------------------------------------------------
\* A client connects; if nobody listens it gets an error at once.
Connect(c) ==
    /\ conn[c] = "none"
    /\ conn' = [conn EXCEPT ![c] = IF Listening(socket) THEN "waiting" ELSE "closed"]
    /\ host' = [host EXCEPT ![c] = socket]
    /\ UNCHANGED <<pc, os, stop>>

InFlight(p) == {c \in Client : host[c] = p /\ conn[c] = "serving"}

\* accept_loop takes a permit, or closes the connection.
Accept(c) ==
    /\ conn[c] = "waiting"
    /\ pc[host[c]] \in Serving
    /\ conn' = [conn EXCEPT ![c] =
                  IF Cardinality(InFlight(host[c])) < MaxInFlight
                  THEN "serving" ELSE "closed"]
    /\ UNCHANGED <<pc, os, stop, host>>

\* handle_one has read a request, or waited for one long enough, and answers.
Answer(c) ==
    /\ conn[c] = "serving"
    /\ conn' = [conn EXCEPT ![c] = "answered"]
    /\ UNCHANGED <<pc, os, stop, host>>

Startup(p) ==
    \/ Start(p) \/ AcquireLock(p) \/ ProbeSocket(p) \/ RemoveStale(p)
    \/ OpenStack(p) \/ SetupFails(p) \/ Bind(p) \/ BindFails(p)
    \/ StartTasks(p) \/ TasksFail(p)

Shutdown(p) == CloseListener(p) \/ UnlinkSocket(p) \/ Unlock(p) \/ End(p)

Next ==
    \/ \E p \in Process : Startup(p) \/ Signal(p) \/ Shutdown(p) \/ Kill(p)
    \/ \E c \in Client : Connect(c) \/ Accept(c) \/ Answer(c)

Spec == Init /\ [][Next]_vars

\* A daemon accepts and answers, and a process that has to end does so;
\* nothing is assumed of a start, which may wait for the network for ever.
Fairness ==
    /\ \A p \in Process : WF_vars(Shutdown(p))
    /\ \A c \in Client : WF_vars(Accept(c)) /\ WF_vars(Answer(c))

FairSpec == Spec /\ Fairness

-----------------------------------------------------------------------------
(***************************************************************************)
(* Properties.                                                             *)
(***************************************************************************)
TypeOK ==
    /\ pc \in [Process -> Pc]
    /\ lock \in Process \cup {NoProcess}
    /\ socket \in Process \cup {NoProcess}
    /\ stop \in [Process -> BOOLEAN]
    /\ conn \in [Client -> {"none", "waiting", "serving", "answered", "closed"}]
    /\ host \in [Client -> Process \cup {NoProcess}]

\* A daemon that serves can be reached: no other process, whether it starts,
\* stops or has been killed, takes the socket file away from under it.
ServingReachable == \A p \in Process : pc[p] \in Serving => socket = p

\* Once a process has looked for a stale socket, none is in its way when it
\* binds: a killed daemon never keeps the next one from serving.
BindUnblocked == \A p \in Process : pc[p] \in {"stack", "bind"} => socket = NoProcess

\* A process that ends in order, or because a task did not start, leaves no
\* socket file, whoever ran meanwhile.
NothingLeft ==
    \A p \in Process : pc[p] \in {"dropped", "shutdown", "off"} => socket # p

\* Two processes have the endpoint and the blob store open at once only while
\* all but one of them are ending.
OverlapOnlyAtEnd ==
    \A p, q \in Process :
        /\ pc[p] \in StackOpen /\ pc[q] \in StackOpen
        /\ p # q
        => pc[p] \in {"shutdown", "abort"} \/ pc[q] \in {"shutdown", "abort"}

\* Every connection comes to an answer or an end, also when its daemon stops or
\* dies at that moment.
ConnectionsEnd ==
    \A c \in Client :
        conn[c] \in {"waiting", "serving"} ~> conn[c] \in {"answered", "closed"}

\* The lock is held for the life of the daemon: one that starts does not touch
\* the network or the blob store while another, serving or being stopped, has
\* them open.
OneDaemon ==
    \A p, q \in Process :
        p # q => ~ (pc[p] \in StackOpen \ {"abort"} /\ pc[q] \in StackOpen \ {"abort"})
=============================================================================

--------------------------- MODULE DaemonsProofs ---------------------------
(***************************************************************************)
(* The lock and the socket of Daemons for any number of processes: who     *)
(* holds the lock, and whose socket file there is, follows from where each *)
(* process is.                                                             *)
(***************************************************************************)
EXTENDS Daemons, TLAPS

LEMMA HangupTyped ==
    ASSUME TypeOK, NEW p \in Process, NEW states, Hangup(p, states)
    PROVE  conn' \in [Client -> {"none", "waiting", "serving", "answered", "closed"}]
  BY DEF Hangup, TypeOK

LEMMA TypeStep == TypeOK /\ [Next]_vars => TypeOK'
  <1> SUFFICES ASSUME TypeOK, [Next]_vars PROVE TypeOK'
    OBVIOUS
  <1> USE DEF Pc, os, rpc
  <1>1. ASSUME NEW p \in Process, Startup(p), ~ TasksFail(p) PROVE TypeOK'
    BY <1>1 DEF Startup, Start, AcquireLock, ProbeSocket, RemoveStale, OpenStack,
                SetupFails, Bind, BindFails, StartTasks, Goto, TypeOK
  <1>2. ASSUME NEW p \in Process,
               CloseListener(p) \/ TasksFail(p) \/ End(p) \/ Kill(p)
        PROVE  TypeOK'
    BY <1>2, HangupTyped DEF CloseListener, TasksFail, End, Kill, Goto, TypeOK
  <1>3. ASSUME NEW p \in Process, Signal(p) \/ UnlinkSocket(p) \/ Unlock(p)
        PROVE  TypeOK'
    BY <1>3 DEF Signal, UnlinkSocket, Unlock, Goto, TypeOK
  <1>4. ASSUME NEW c \in Client, Connect(c) \/ Accept(c) \/ Answer(c)
        PROVE  TypeOK'
    BY <1>4 DEF Connect, Accept, Answer, TypeOK
  <1>5. CASE UNCHANGED vars
    BY <1>5 DEF vars, TypeOK
  <1> QED
    BY <1>1, <1>2, <1>3, <1>4, <1>5 DEF Next, Shutdown

LEMMA TypeInit == Init => TypeOK
  BY DEF Init, TypeOK, Pc

\* Every variable keeps its type.
THEOREM Typing == Spec => []TypeOK
  BY TypeInit, TypeStep, PTL DEF Spec

-----------------------------------------------------------------------------
LockHeld == \A p \in Process : pc[p] \in Locked <=> lock = p

SocketOwned ==
    \A p \in Process :
        /\ pc[p] \in {"tasks", "serve", "unlink", "drop"} => socket = p
        /\ pc[p] \in {"stack", "bind", "unlock", "dropped"} => socket = NoProcess
        /\ socket = p => pc[p] \in {"tasks", "serve", "unlink", "drop", "abort", "dead"}

\* The clients do not matter to either.
LEMMA ClientsOutside ==
    ASSUME NEW c \in Client, Connect(c) \/ Accept(c) \/ Answer(c)
    PROVE  UNCHANGED <<pc, lock, socket>>
  BY DEF Connect, Accept, Answer, os

LEMMA LockStep == TypeOK /\ LockHeld /\ [Next]_vars => LockHeld'
  <1> SUFFICES ASSUME TypeOK, LockHeld, [Next]_vars PROVE LockHeld'
    OBVIOUS
  <1> USE DaemonsAssumption DEF LockHeld, Locked, Goto, os, rpc
  <1>1. ASSUME NEW p \in Process, Start(p) \/ RemoveStale(p) \/ OpenStack(p)
                               \/ Bind(p) \/ StartTasks(p) \/ TasksFail(p)
        PROVE  LockHeld'
    BY <1>1 DEF Start, RemoveStale, OpenStack, Bind, StartTasks, TasksFail, TypeOK
  <1>2. ASSUME NEW p \in Process, AcquireLock(p) PROVE LockHeld'
    BY <1>2 DEF AcquireLock, TypeOK
  <1>3. ASSUME NEW p \in Process, ProbeSocket(p) PROVE LockHeld'
    <2>1. ~ Listening(socket) \/ socket = p
      BY <1>3 DEF Listening, Serving, ProbeSocket
    <2>2. ~ Listening(socket)
      BY <1>3, <2>1 DEF Listening, Serving, ProbeSocket
    <2> QED
      BY <1>3, <2>2 DEF ProbeSocket, TypeOK
  <1>4. ASSUME NEW p \in Process, SetupFails(p) \/ BindFails(p) PROVE LockHeld'
    BY <1>4 DEF SetupFails, BindFails, TypeOK
  <1>5. ASSUME NEW p \in Process, Shutdown(p) PROVE LockHeld'
    BY <1>5 DEF Shutdown, CloseListener, UnlinkSocket, Unlock, End, TypeOK
  <1>6. ASSUME NEW p \in Process, Kill(p) PROVE LockHeld'
    BY <1>6 DEF Kill, TypeOK
  <1>7. CASE UNCHANGED <<pc, lock, socket>>
    BY <1>7
  <1> QED
    BY <1>1, <1>2, <1>3, <1>4, <1>5, <1>6, <1>7, ClientsOutside
       DEF Next, Startup, Signal, vars

LEMMA SocketStep ==
    TypeOK /\ LockHeld /\ SocketOwned /\ [Next]_vars => SocketOwned'
  <1> SUFFICES ASSUME TypeOK, LockHeld, SocketOwned, [Next]_vars
               PROVE  SocketOwned'
    OBVIOUS
  <1> USE DaemonsAssumption DEF LockHeld, SocketOwned, Locked, Goto, os, rpc
  <1>1. ASSUME NEW p \in Process, Start(p) \/ AcquireLock(p) PROVE SocketOwned'
    BY <1>1 DEF Start, AcquireLock, TypeOK
  <1>2. ASSUME NEW p \in Process, ProbeSocket(p) PROVE SocketOwned'
    <2>1. ~ Listening(socket)
      BY <1>2 DEF Listening, Serving, ProbeSocket
    <2> QED
      BY <1>2, <2>1 DEF ProbeSocket, TypeOK
  <1>3. ASSUME NEW p \in Process, RemoveStale(p) \/ OpenStack(p) PROVE SocketOwned'
    BY <1>3 DEF RemoveStale, OpenStack, TypeOK
  <1>4. ASSUME NEW p \in Process,
               SetupFails(p) \/ Bind(p) \/ StartTasks(p) \/ TasksFail(p)
        PROVE  SocketOwned'
    BY <1>4 DEF SetupFails, Bind, StartTasks, TasksFail, TypeOK
  <1>5. ASSUME NEW p \in Process, BindFails(p) PROVE SocketOwned'
    BY <1>5 DEF BindFails, TypeOK
  <1>6. ASSUME NEW p \in Process, Shutdown(p) PROVE SocketOwned'
    BY <1>6 DEF Shutdown, CloseListener, UnlinkSocket, Unlock, End, TypeOK
  <1>7. ASSUME NEW p \in Process, Kill(p) PROVE SocketOwned'
    BY <1>7 DEF Kill, TypeOK
  <1>8. CASE UNCHANGED <<pc, lock, socket>>
    BY <1>8
  <1> QED
    BY <1>1, <1>2, <1>3, <1>4, <1>5, <1>6, <1>7, <1>8, ClientsOutside
       DEF Next, Startup, Signal, vars

\* The inductive invariant: the lock is held exactly between acquire and drop,
\* and the socket file is of the process that serves or of one that failed.
THEOREM LockAndSocket == Spec => [](TypeOK /\ LockHeld /\ SocketOwned)
  <1>1. Init => LockHeld /\ SocketOwned
    BY DaemonsAssumption DEF Init, LockHeld, SocketOwned, Locked
  <1> QED
    BY <1>1, TypeInit, TypeStep, LockStep, SocketStep, PTL DEF Spec

\* Nobody takes the socket of a daemon that serves.
THEOREM Reachable == Spec => []ServingReachable
  <1>1. SocketOwned => ServingReachable
    BY DEF SocketOwned, ServingReachable, Serving
  <1> QED
    BY <1>1, LockAndSocket, PTL

\* A stale socket never keeps a daemon from binding.
THEOREM Unblocked == Spec => []BindUnblocked
  <1>1. SocketOwned => BindUnblocked
    BY DEF SocketOwned, BindUnblocked
  <1> QED
    BY <1>1, LockAndSocket, PTL

\* An orderly end leaves no socket file.
THEOREM LeavesNothing == Spec => []NothingLeft
  <1>1. SocketOwned => NothingLeft
    BY DaemonsAssumption DEF SocketOwned, NothingLeft
  <1> QED
    BY <1>1, LockAndSocket, PTL

\* Two processes have the iroh stack open only while one of them is ending.
THEOREM Overlap == Spec => []OverlapOnlyAtEnd
  <1>1. LockHeld => OverlapOnlyAtEnd
    BY DEF LockHeld, OverlapOnlyAtEnd, Locked, StackOpen
  <1> QED
    BY <1>1, LockAndSocket, PTL
=============================================================================

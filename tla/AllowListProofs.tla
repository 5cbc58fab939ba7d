--------------------------- MODULE AllowListProofs ---------------------------
(***************************************************************************)
(* For any number of tasks, peers and infos: the allowlist keeps its type, *)
(* persist_lock excludes, memory and file part only during a save, and the *)
(* whole implements AllowListSpec.                                         *)
(***************************************************************************)
EXTENDS AllowList, TLAPS

\* The steps alone: none of these results needs fairness, so they also hold where
\* another specification takes these steps.
Steps == Init /\ [][Next]_vars

-----------------------------------------------------------------------------
(***************************************************************************)
(* Types.                                                                  *)
(***************************************************************************)
LEMMA ListsTyped ==
    /\ EmptyStrict \in Lists /\ OpenAll \in Lists
    /\ \A l \in Lists, p \in Peer :
           /\ Removed(l, p) \in Lists
           /\ \A i \in Info : Added(l, p, i) \in Lists
    /\ \A l \in Lists, k \in Calls : Restored(l, k) \in Lists
  BY DEF EmptyStrict, OpenAll, Lists, Removed, Added, Restored, Calls

LEMMA IdleTyped == Idle \in Calls /\ Idle.pc = "idle"
  BY PeerAssumption, InfoAssumption, ListsTyped DEF Idle, Calls

LEMMA StartTyped ==
    ASSUME NEW f \in BOOLEAN, NEW l \in Lists \cup {NoFile}
    PROVE  Load(l) \in Lists /\ StartWith(f, l) \in Lists
  BY ListsTyped DEF Load, StartWith

\* A task that goes to its next step.
LEMMA GotoTyped ==
    ASSUME TypeOK, NEW c \in Caller, NEW pc, Goto(c, pc),
           pc \in {"idle", "recheck", "lock", "update", "write", "undo", "release"}
    PROVE  call' \in [Caller -> Calls]
  BY DEF TypeOK, Goto, Calls

LEMMA BeginTyped ==
    ASSUME TypeOK, NEW c \in Caller, NEW pc \in {"recheck", "lock"},
           NEW op \in {"add", "remove"}, NEW p \in Peer, NEW i \in Info,
           Begin(c, pc, op, p, i)
    PROVE  TypeOK'
  <1>1. [Idle EXCEPT !.pc = pc, !.op = op, !.peer = p, !.info = i] \in Calls
    BY IdleTyped DEF Calls
  <1>2. call' \in [Caller -> Calls]
    BY <1>1 DEF TypeOK, Begin
  <1>. QED BY <1>2 DEF TypeOK, Begin

LEMMA TypeStep == TypeOK /\ [Next]_vars => TypeOK'
  <1> SUFFICES ASSUME TypeOK, [Next]_vars PROVE TypeOK'
    OBVIOUS
  <1>1. ASSUME NEW c \in Caller, Request(c) PROVE TypeOK'
    BY <1>1, BeginTyped, IdleTyped
       DEF Request, AllowPeer, AcceptInvite, RevokePeer, Calls
  <1>2. ASSUME NEW c \in Caller, Recheck(c) PROVE TypeOK'
    BY <1>2, GotoTyped DEF Recheck, TypeOK
  <1>3. ASSUME NEW c \in Caller, Acquire(c) PROVE TypeOK'
    BY <1>3, GotoTyped DEF Acquire, TypeOK
  <1>4. ASSUME NEW c \in Caller, Update(c) PROVE TypeOK'
    <2>1. mem \in Lists /\ call \in [Caller -> Calls]
      BY DEF TypeOK
    <2>2. mem' \in Lists
      BY <1>4, <2>1, ListsTyped DEF Update, Calls
    <2>3. [call[c] EXCEPT !.pc = "write", !.bytes = mem',
              !.prevOpen = mem.openAll, !.prevInfo = mem.peers[call[c].peer]]
            \in Calls
      <3>1. /\ mem.openAll \in BOOLEAN
            /\ mem.peers[call[c].peer] \in Info \cup {Absent}
        BY <2>1 DEF Calls, Lists
      <3>2. call[c] \in Calls
        BY <2>1
      <3>. QED BY <2>2, <3>1, <3>2 DEF Calls
    <2>4. call' \in [Caller -> Calls]
      BY <1>4, <2>1, <2>3 DEF Update
    <2>. QED BY <1>4, <2>2, <2>4 DEF Update, TypeOK
  <1>5. ASSUME NEW c \in Caller, Write(c) PROVE TypeOK'
    <2>1. call[c].bytes \in Lists
      BY DEF TypeOK, Calls
    <2>. QED BY <1>5, <2>1, GotoTyped DEF Write, TypeOK
  <1>6. ASSUME NEW c \in Caller, Undo(c) PROVE TypeOK'
    <2>1. mem' \in Lists
      BY <1>6, ListsTyped DEF Undo, TypeOK
    <2>. QED BY <1>6, <2>1, GotoTyped DEF Undo, TypeOK
  <1>7. ASSUME NEW c \in Caller, Release(c) PROVE TypeOK'
    BY <1>7, GotoTyped DEF Release, TypeOK
  <1>8. ASSUME NEW f \in BOOLEAN, Restart(f) PROVE TypeOK'
    BY <1>8, StartTyped, IdleTyped DEF Restart, TypeOK
  <1>9. CASE UNCHANGED vars
    BY <1>9 DEF vars, TypeOK
  <1>. QED
    BY <1>1, <1>2, <1>3, <1>4, <1>5, <1>6, <1>7, <1>8, <1>9 DEF Next, Serve

\* The list, the file and the locals of every task keep their types.
THEOREM Typing == Spec => []TypeOK
  <1>1. Init => TypeOK
    BY StartTyped, IdleTyped DEF Init, TypeOK
  <1>. QED BY <1>1, TypeStep, PTL DEF Spec

-----------------------------------------------------------------------------
(***************************************************************************)
(* persist_lock, and what its holder knows of the list in memory.          *)
(***************************************************************************)
LockInv == \A c \in Caller : call[c].pc \in Holding <=> holder = c

\* Between update and save the list is what was serialised, and shows the
\* update; nobody else has touched it.
UpdateInv ==
    \A c \in Caller : call[c].pc \in Unsettled =>
        /\ call[c].bytes = mem
        /\ call[c].op = "add" => /\ ~mem.openAll
                                 /\ mem.peers[call[c].peer] = call[c].info
        /\ call[c].op = "remove" => mem.peers[call[c].peer] = Absent

\* A request is noted in the locals of its task and nowhere else.
LEMMA RequestMoves ==
    ASSUME TypeOK, NEW c \in Caller, Request(c)
    PROVE  /\ call[c].pc = "idle" /\ call'[c].pc \in {"recheck", "lock"}
           /\ \A d \in Caller : d # c => call'[d] = call[d]
           /\ UNCHANGED <<mem, file, holder, flag>>
  <1>1. PICK pc \in {"recheck", "lock"}, op \in {"add", "remove"}, p \in Peer,
             i \in Info : Begin(c, pc, op, p, i)
    BY IdleTyped DEF Request, AllowPeer, AcceptInvite, RevokePeer, Calls
  <1>2. [Idle EXCEPT !.pc = pc, !.op = op, !.peer = p, !.info = i].pc = pc
    BY IdleTyped DEF Calls
  <1>. QED BY <1>1, <1>2 DEF Begin, TypeOK

LEMMA LockStep == TypeOK /\ LockInv /\ [Next]_vars => LockInv'
  <1> SUFFICES ASSUME TypeOK, LockInv, [Next]_vars PROVE LockInv'
    OBVIOUS
  <1>0. call \in [Caller -> Calls] /\ NoCaller \notin Caller
    BY CallerAssumption DEF TypeOK
  <1> USE DEF LockInv, Holding, Calls
  <1>1. ASSUME NEW c \in Caller, Request(c) PROVE LockInv'
    BY <1>0, <1>1, RequestMoves
  <1>2. ASSUME NEW c \in Caller, Recheck(c) PROVE LockInv'
    BY <1>0, <1>2 DEF Recheck, Goto
  <1>3. ASSUME NEW c \in Caller, Acquire(c) PROVE LockInv'
    BY <1>0, <1>3 DEF Acquire, Goto
  <1>4. ASSUME NEW c \in Caller, Update(c) PROVE LockInv'
    BY <1>0, <1>4 DEF Update
  <1>5. ASSUME NEW c \in Caller, Write(c) PROVE LockInv'
    BY <1>0, <1>5 DEF Write, Goto
  <1>6. ASSUME NEW c \in Caller, Undo(c) PROVE LockInv'
    BY <1>0, <1>6 DEF Undo, Goto
  <1>7. ASSUME NEW c \in Caller, Release(c) PROVE LockInv'
    BY <1>0, <1>7 DEF Release, Goto
  <1>8. ASSUME NEW f \in BOOLEAN, Restart(f) PROVE LockInv'
    BY <1>0, <1>8, IdleTyped DEF Restart
  <1>9. CASE UNCHANGED vars
    BY <1>9 DEF vars
  <1>. QED
    BY <1>1, <1>2, <1>3, <1>4, <1>5, <1>6, <1>7, <1>8, <1>9 DEF Next, Serve

\* What the lock is for: two unsettled updates are one.
LEMMA OneUnsettled ==
    ASSUME LockInv, NEW c \in Caller, NEW d \in Caller,
           call[c].pc \in Unsettled, call[d].pc \in Unsettled
    PROVE  c = d
  BY DEF LockInv, Holding, Unsettled

LEMMA UpdateStep == TypeOK /\ LockInv /\ UpdateInv /\ [Next]_vars => UpdateInv'
  <1> SUFFICES ASSUME TypeOK, LockInv, UpdateInv, [Next]_vars PROVE UpdateInv'
    OBVIOUS
  <1>0. /\ call \in [Caller -> Calls]
        /\ mem \in Lists
    BY DEF TypeOK
  <1> USE DEF UpdateInv, Unsettled
  <1>1. ASSUME NEW c \in Caller, Request(c) PROVE UpdateInv'
    BY <1>0, <1>1, RequestMoves
  <1>2. ASSUME NEW c \in Caller, Recheck(c) \/ Acquire(c) \/ Release(c)
        PROVE  UpdateInv'
    BY <1>0, <1>2 DEF Recheck, Acquire, Release, Goto, Calls
  <1>3. ASSUME NEW c \in Caller, Update(c) PROVE UpdateInv'
    <2>1. \A d \in Caller : call[d].pc \notin Unsettled
      BY <1>3 DEF LockInv, Holding, Update
    <2>2. \A d \in Caller : d # c => call'[d] = call[d]
      BY <1>0, <1>3 DEF Update
    <2>3. /\ call'[c].bytes = mem' /\ call'[c].op = call[c].op
          /\ call'[c].peer = call[c].peer /\ call'[c].info = call[c].info
      BY <1>0, <1>3 DEF Update, Calls
    <2>4. call[c].peer \in Peer /\ call[c].op \in {"add", "remove"}
      BY <1>0 DEF Calls
    <2>5. CASE call[c].op = "add"
      BY <1>0, <1>3, <2>1, <2>2, <2>3, <2>4, <2>5 DEF Update, Added, Lists
    <2>6. CASE call[c].op = "remove"
      BY <1>0, <1>3, <2>1, <2>2, <2>3, <2>4, <2>6 DEF Update, Removed, Lists
    <2>. QED BY <2>4, <2>5, <2>6
  <1>4. ASSUME NEW c \in Caller, Write(c) PROVE UpdateInv'
    BY <1>0, <1>4 DEF Write, Goto, Calls
  <1>5. ASSUME NEW c \in Caller, Undo(c) PROVE UpdateInv'
    <2>1. \A d \in Caller : call'[d].pc \notin Unsettled
      BY <1>0, <1>5, OneUnsettled DEF Undo, Goto, Calls
    <2>. QED BY <2>1
  <1>6. ASSUME NEW f \in BOOLEAN, Restart(f) PROVE UpdateInv'
    BY <1>6, IdleTyped DEF Restart
  <1>7. CASE UNCHANGED vars
    BY <1>7 DEF vars
  <1>. QED
    BY <1>1, <1>2, <1>3, <1>4, <1>5, <1>6, <1>7 DEF Next, Serve

SaveInv == TypeOK /\ LockInv /\ UpdateInv

LEMMA SaveHolds == Steps => []SaveInv
  <1>1. Init => SaveInv
    BY StartTyped, IdleTyped, CallerAssumption
       DEF Init, SaveInv, TypeOK, LockInv, UpdateInv, Holding, Unsettled
  <1>2. SaveInv /\ [Next]_vars => SaveInv'
    BY TypeStep, LockStep, UpdateStep DEF SaveInv
  <1>. QED BY <1>1, <1>2, PTL DEF Steps

-----------------------------------------------------------------------------
(***************************************************************************)
(* The committed list.                                                     *)
(***************************************************************************)
LEMMA CommittedDuring ==
    ASSUME LockInv, NEW c \in Caller, call[c].pc \in Unsettled
    PROVE  Committed = Restored(mem, call[c])
  <1>1. (CHOOSE d \in Caller : call[d].pc \in Unsettled) = c
    BY OneUnsettled
  <1>. QED BY <1>1 DEF Committed

LEMMA CommittedOtherwise ==
    ASSUME \A c \in Caller : call[c].pc \notin Unsettled
    PROVE  Committed = mem
  BY DEF Committed

\* Undoing an update gives the list it was applied to.
LEMMA RestoredUpdate ==
    ASSUME NEW l \in Lists, NEW k \in Calls,
           k.prevOpen = l.openAll, k.prevInfo = l.peers[k.peer]
    PROVE  /\ k.op = "add" => Restored(Added(l, k.peer, k.info), k) = l
           /\ k.op = "remove" => Restored(Removed(l, k.peer), k) = l
  <1>1. /\ l = [openAll |-> l.openAll, peers |-> l.peers]
        /\ l.peers \in [Peer -> Info \cup {Absent}]
        /\ k.peer \in Peer
    BY DEF Lists, Calls
  <1>2. \A i : [[l.peers EXCEPT ![k.peer] = i] EXCEPT ![k.peer] = l.peers[k.peer]]
                = l.peers
    BY <1>1
  <1>3. CASE k.op = "add"
    BY <1>1, <1>2, <1>3 DEF Restored, Added
  <1>4. CASE k.op = "remove"
    <2>1. Removed(l, k.peer) = [openAll |-> l.openAll,
                                peers |-> [l.peers EXCEPT ![k.peer] = Absent]]
      BY <1>1 DEF Removed
    <2>. QED BY <1>1, <1>2, <1>4, <2>1 DEF Restored
  <1>. QED BY <1>3, <1>4

\* Applying it again to what was restored gives the updated list.
LEMMA UpdateRestored ==
    ASSUME NEW l \in Lists, NEW k \in Calls
    PROVE  /\ k.op = "add" /\ ~l.openAll /\ l.peers[k.peer] = k.info
                => l = Added(Restored(l, k), k.peer, k.info)
           /\ k.op = "remove" /\ l.peers[k.peer] = Absent
                => l = Removed(Restored(l, k), k.peer)
  BY ZenonT(30) DEF Restored, Added, Removed, Lists, Calls

\* A step that keeps the list and what is unsettled keeps the committed list.
LEMMA CommittedKept ==
    ASSUME TypeOK, mem' = mem,
           \A c \in Caller : call[c].pc \notin Unsettled => call'[c].pc \notin Unsettled,
           \A c \in Caller : call[c].pc \in Unsettled => /\ call'[c].pc \in Unsettled
                                                        /\ call'[c].op = call[c].op
                                                        /\ call'[c].peer = call[c].peer
                                                        /\ call'[c].prevOpen = call[c].prevOpen
                                                        /\ call'[c].prevInfo = call[c].prevInfo,
           LockInv, LockInv'
    PROVE  Committed' = Committed
  <1>1. CASE \A c \in Caller : call[c].pc \notin Unsettled
    BY <1>1, CommittedOtherwise DEF Committed
  <1>2. ASSUME NEW c \in Caller, call[c].pc \in Unsettled
        PROVE  Committed' = Committed
    <2>1. Committed = Restored(mem, call[c])
      BY <1>2, CommittedDuring
    <2>2. (CHOOSE d \in Caller : call'[d].pc \in Unsettled) = c
      BY <1>2 DEF LockInv, Holding, Unsettled
    <2>3. Committed' = Restored(mem, call'[c])
      BY <1>2, <2>2 DEF Committed
    <2>. QED BY <1>2, <2>1, <2>3 DEF Restored
  <1>. QED BY <1>1, <1>2

-----------------------------------------------------------------------------
(***************************************************************************)
(* One lemma per kind of step: what it does to the committed list.         *)
(***************************************************************************)
LEMMA UpdateCommitted ==
    ASSUME SaveInv, SaveInv', NEW c \in Caller, Update(c)
    PROVE  Committed' = Committed
  <1>0. /\ mem \in Lists /\ call \in [Caller -> Calls]
        /\ call[c].peer \in Peer /\ call[c].op \in {"add", "remove"}
    BY DEF SaveInv, TypeOK, Calls
  <1>. DEFINE k == call'[c]
  <1>1. Committed = mem
    <2>1. \A d \in Caller : call[d].pc \notin Unsettled
      BY DEF SaveInv, LockInv, Holding, Unsettled, Update
    <2>. QED BY <2>1, CommittedOtherwise
  <1>2. /\ k \in Calls /\ k.pc = "write" /\ k.op = call[c].op
        /\ k.peer = call[c].peer /\ k.info = call[c].info
        /\ k.prevOpen = mem.openAll /\ k.prevInfo = mem.peers[k.peer]
    BY <1>0 DEF Update, SaveInv, TypeOK, Calls
  <1>3. Committed' = Restored(mem', k)
    <2>1. (CHOOSE d \in Caller : call'[d].pc \in Unsettled) = c
      BY <1>2 DEF SaveInv, LockInv, Holding, Unsettled
    <2>. QED BY <1>2, <2>1 DEF Committed, Unsettled
  <1>4. /\ k.op = "add" => mem' = Added(mem, k.peer, k.info)
        /\ k.op = "remove" => mem' = Removed(mem, k.peer)
    BY <1>2 DEF Update
  <1>5. Restored(mem', k) = mem
    BY <1>0, <1>2, <1>4, RestoredUpdate
  <1>. QED BY <1>1, <1>3, <1>5

\* A save takes the update from memory to the file and thereby commits it; a
\* failed save changes nothing.
LEMMA WriteCommits ==
    ASSUME SaveInv, SaveInv', NEW c \in Caller, Write(c)
    PROVE  \/ Committed' = Committed /\ file' = file
           \/ /\ Committed' = mem /\ Load(file') = mem
              /\ \/ \E p \in Peer, i \in Info : mem = Added(Committed, p, i)
                 \/ \E p \in Peer : mem = Removed(Committed, p)
  <1>0. /\ mem \in Lists /\ call \in [Caller -> Calls]
        /\ call[c].peer \in Peer /\ call[c].info \in Info
        /\ call[c].op \in {"add", "remove"}
        /\ call[c].pc \in Unsettled
    BY DEF SaveInv, TypeOK, Calls, Write, Unsettled
  <1>1. Committed = Restored(mem, call[c])
    BY <1>0, CommittedDuring DEF SaveInv
  <1>2. CASE file' = call[c].bytes /\ Goto(c, "release")
    <2>1. file' = mem
      BY <1>0, <1>2 DEF SaveInv, UpdateInv
    <2>2. Load(file') = mem
      BY <1>0, <2>1, FileAssumption DEF Load
    <2>3. \A d \in Caller : call'[d].pc \notin Unsettled
      BY <1>0, <1>2, OneUnsettled DEF SaveInv, Goto, Calls, Unsettled
    <2>4. Committed' = mem
      BY <2>3 DEF Committed, Write
    <2>5. \/ call[c].op = "add" /\ ~mem.openAll /\ mem.peers[call[c].peer] = call[c].info
          \/ call[c].op = "remove" /\ mem.peers[call[c].peer] = Absent
      BY <1>0 DEF SaveInv, UpdateInv
    <2>6. \/ mem = Added(Committed, call[c].peer, call[c].info)
          \/ mem = Removed(Committed, call[c].peer)
      BY <1>0, <1>1, <2>5, UpdateRestored
    <2>. QED BY <1>0, <2>2, <2>4, <2>6
  <1>3. CASE Goto(c, "undo") /\ UNCHANGED file
    <2>1. /\ call'[c].pc = "undo"
          /\ call'[c].op = call[c].op /\ call'[c].peer = call[c].peer
          /\ call'[c].prevOpen = call[c].prevOpen
          /\ call'[c].prevInfo = call[c].prevInfo
          /\ \A d \in Caller : d # c => call'[d] = call[d]
      BY <1>0, <1>3 DEF Goto, Calls
    <2>2. Committed' = Committed
      BY <1>0, <2>1, CommittedKept DEF SaveInv, Unsettled, Write
    <2>. QED BY <1>3, <2>2
  <1>. QED BY <1>2, <1>3 DEF Write

LEMMA UndoCommitted ==
    ASSUME SaveInv, SaveInv', NEW c \in Caller, Undo(c)
    PROVE  Committed' = Committed
  <1>0. call \in [Caller -> Calls] /\ call[c].pc \in Unsettled
    BY DEF SaveInv, TypeOK, Undo, Unsettled
  <1>1. Committed = mem'
    BY <1>0, CommittedDuring DEF SaveInv, Undo
  <1>2. \A d \in Caller : call'[d].pc \notin Unsettled
    BY <1>0, OneUnsettled DEF SaveInv, Undo, Goto, Calls, Unsettled
  <1>. QED BY <1>1, <1>2 DEF Committed

LEMMA QuietStepCommitted ==
    ASSUME SaveInv, SaveInv', NEW c \in Caller,
           Request(c) \/ Recheck(c) \/ Acquire(c) \/ Release(c)
    PROVE  Committed' = Committed /\ UNCHANGED <<mem, file, flag>>
  <1>0. call \in [Caller -> Calls]
    BY DEF SaveInv, TypeOK
  <1>1. /\ call[c].pc \notin Unsettled /\ call'[c].pc \notin Unsettled
        /\ \A d \in Caller : d # c => call'[d] = call[d]
        /\ UNCHANGED <<mem, file, flag>>
    BY <1>0, RequestMoves
       DEF SaveInv, Recheck, Acquire, Release, Goto, Calls, Unsettled
  <1>. QED BY <1>1, CommittedKept DEF SaveInv

LEMMA RestartCommitted ==
    ASSUME NEW f \in BOOLEAN, Restart(f)
    PROVE  Committed' = StartWith(f, file')
  <1>1. \A d \in Caller : call'[d].pc \notin Unsettled
    BY IdleTyped DEF Restart, Unsettled
  <1>. QED BY <1>1 DEF Committed, Restart

-----------------------------------------------------------------------------
(***************************************************************************)
(* Durability: the committed list is what the file says, except that a     *)
(* process started open has no file of its own before its first save.      *)
(***************************************************************************)
Recorded == Committed = Load(file) \/ (flag /\ Committed = OpenAll)

LEMMA RecordedStep ==
    SaveInv /\ SaveInv' /\ Recorded /\ [Next]_vars => Recorded'
  <1> SUFFICES ASSUME SaveInv, SaveInv', Recorded, [Next]_vars PROVE Recorded'
    OBVIOUS
  <1> USE DEF Recorded
  <1>1. ASSUME NEW c \in Caller,
               Request(c) \/ Recheck(c) \/ Acquire(c) \/ Release(c)
        PROVE  Recorded'
    BY <1>1, QuietStepCommitted
  <1>2. ASSUME NEW c \in Caller, Update(c) PROVE Recorded'
    BY <1>2, UpdateCommitted DEF Update
  <1>3. ASSUME NEW c \in Caller, Write(c) PROVE Recorded'
    BY <1>3, WriteCommits DEF Write
  <1>4. ASSUME NEW c \in Caller, Undo(c) PROVE Recorded'
    BY <1>4, UndoCommitted DEF Undo
  <1>5. ASSUME NEW f \in BOOLEAN, Restart(f) PROVE Recorded'
    BY <1>5, RestartCommitted DEF Restart, StartWith
  <1>6. CASE UNCHANGED vars
    BY <1>6 DEF vars, Committed
  <1>. QED BY <1>1, <1>2, <1>3, <1>4, <1>5, <1>6 DEF Next, Serve

\* With persist_lock free, memory and file agree (but for an open process that
\* has not saved yet), for any number of concurrent writers.
LEMMA DurableSteps == Steps => []Durable
  <1>1. Init => Recorded
    BY IdleTyped DEF Init, Recorded, Committed, StartWith, Unsettled
  <1>2. SaveInv /\ Recorded => Durable
    BY CommittedOtherwise, CallerAssumption
       DEF SaveInv, LockInv, Recorded, Durable, Holding, Unsettled
  <1>. QED BY <1>1, <1>2, RecordedStep, SaveHolds, PTL DEF Steps

\* So it is whichever task tokio lets go on.
THEOREM Durability == Spec => []Durable
  BY DurableSteps DEF Spec, Steps

-----------------------------------------------------------------------------
(***************************************************************************)
(* Refinement.                                                             *)
(***************************************************************************)
\* Every behaviour of the RPC tasks is one of a list that is granted, revoked
\* and stored in single steps.
LEMMA Implementation == Steps => Atomic
  <1>1. Init => Abstract!Init
    BY IdleTyped
       DEF Init, Abstract!Init, Abstract!Nobody, Abstract!Everybody, Committed,
           Load, StartWith, EmptyStrict, OpenAll, Unsettled
  <1>2. SaveInv /\ SaveInv' /\ [Next]_vars
          => [Abstract!Next]_<<Committed, Load(file)>>
    <2> SUFFICES ASSUME SaveInv, SaveInv', [Next]_vars
                 PROVE  Abstract!Next \/ UNCHANGED <<Committed, Load(file)>>
      OBVIOUS
    <2>1. ASSUME NEW c \in Caller,
                 Request(c) \/ Recheck(c) \/ Acquire(c) \/ Release(c)
          PROVE  UNCHANGED <<Committed, Load(file)>>
      BY <2>1, QuietStepCommitted DEF Load
    <2>2. ASSUME NEW c \in Caller, Update(c)
          PROVE  UNCHANGED <<Committed, Load(file)>>
      BY <2>2, UpdateCommitted DEF Update, Load
    <2>3. ASSUME NEW c \in Caller, Write(c)
          PROVE  Abstract!Next \/ UNCHANGED <<Committed, Load(file)>>
      BY <2>3, WriteCommits
         DEF Load, Added, Removed, Abstract!Next, Abstract!Grant,
             Abstract!Revoke, Abstract!Store, Abstract!With, Abstract!Without
    <2>4. ASSUME NEW c \in Caller, Undo(c)
          PROVE  UNCHANGED <<Committed, Load(file)>>
      BY <2>4, UndoCommitted DEF Undo, Load
    <2>5. ASSUME NEW f \in BOOLEAN, Restart(f) PROVE Abstract!Next
      BY <2>5, RestartCommitted
         DEF Restart, StartWith, Load, EmptyStrict, OpenAll, Abstract!Next,
             Abstract!Restart, Abstract!Nobody, Abstract!Everybody
    <2>6. CASE UNCHANGED vars
      BY <2>6 DEF vars, Committed, Load
    <2>. QED BY <2>1, <2>2, <2>3, <2>4, <2>5, <2>6 DEF Next, Serve
  <1>. QED BY <1>1, <1>2, SaveHolds, PTL DEF Steps, Atomic, Abstract!Spec

\* And so does every fair one.
THEOREM Refinement == Spec => Atomic
  BY Implementation DEF Spec, Steps
=============================================================================

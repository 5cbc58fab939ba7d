------------------------------ MODULE AllowList ------------------------------
(***************************************************************************)
(* allowlist.rs and the RPC handlers that change it.  The listener runs    *)
(* each RPC in a task of its own; two mutexes serialise them: inner, held  *)
(* for one read or one update of the list, and persist_lock, held from the *)
(* update until the file is written or the update undone.  Each step below *)
(* is what a task does while it holds inner, or between two such points.   *)
(* contains takes inner only, so readers see an update before it is saved. *)
(***************************************************************************)
CONSTANTS
    Peer,      \* endpoint ids
    Info,      \* PeerInfo values (label, added_at)
    Absent,    \* no entry
    Caller,    \* tasks that serve RPCs
    NoCaller,  \* persist_lock is free
    NoFile     \* allowlist.json does not exist

ASSUME PeerAssumption == Peer # {}
ASSUME InfoAssumption == Info # {} /\ Absent \notin Info
ASSUME CallerAssumption == NoCaller \notin Caller

VARIABLES
    mem,     \* AllowListInner: open_all and peers
    file,    \* allowlist.json
    holder,  \* who holds persist_lock
    call,    \* the progress and the locals of each task
    flag     \* whether this process was started with --allow-open-all

vars == <<mem, file, holder, call, flag>>

Lists == [openAll : BOOLEAN, peers : [Peer -> Info \cup {Absent}]]

ASSUME FileAssumption == NoFile \notin Lists

EmptyStrict == [openAll |-> FALSE, peers |-> [p \in Peer |-> Absent]]
OpenAll == [openAll |-> TRUE, peers |-> [p \in Peer |-> Absent]]

\* The file is written to a temporary one and renamed: it is never torn.
Load(f) == IF f = NoFile THEN EmptyStrict ELSE f

Contains(p) == mem.openAll \/ mem.peers[p] # Absent

Calls == [pc : {"idle", "recheck", "lock", "update", "write", "undo", "release"},
          op : {"add", "remove"}, peer : Peer, info : Info,
          prevOpen : BOOLEAN, prevInfo : Info \cup {Absent}, bytes : Lists]

Idle == [pc |-> "idle", op |-> "remove", peer |-> CHOOSE p \in Peer : TRUE,
         info |-> CHOOSE i \in Info : TRUE,
         prevOpen |-> FALSE, prevInfo |-> Absent, bytes |-> EmptyStrict]

\* main chooses between open_all and load_or_strict_empty by the flag alone.
StartWith(f, l) == IF f THEN OpenAll ELSE Load(l)

Init ==
    /\ flag \in BOOLEAN
    /\ file = NoFile
    /\ mem = StartWith(flag, file)
    /\ holder = NoCaller
    /\ call = [c \in Caller |-> Idle]

-----------------------------------------------------------------------------
Begin(c, pc, op, p, i) ==
    /\ call[c].pc = "idle"
    /\ call' = [call EXCEPT ![c] = [Idle EXCEPT !.pc = pc, !.op = op,
                                                !.peer = p, !.info = i]]
    /\ UNCHANGED <<mem, file, holder, flag>>

Goto(c, pc) == call' = [call EXCEPT ![c].pc = pc]

\* allow_peer looks first whether the peer is already in ...
AllowPeer(c, p, i) ==
    Begin(c, IF Contains(p) THEN "recheck" ELSE "lock", "add", p, i)

\* ... and, with inner released in between, whether that is only because the
\* list is open.  A peer already in is answered without a save.
Recheck(c) ==
    /\ call[c].pc = "recheck"
    /\ Goto(c, IF mem.openAll THEN "lock" ELSE "idle")
    /\ UNCHANGED <<mem, file, holder, flag>>

\* accept_invite adds the inviter whether it is in or not.
AcceptInvite(c, p, i) == Begin(c, "lock", "add", p, i)

RevokePeer(c, p) == Begin(c, "lock", "remove", p, Idle.info)

\* Mutant: the list is saved without persist_lock.
AcquireAnyway(c) ==
    /\ call[c].pc = "lock"
    /\ holder' = c
    /\ Goto(c, "update")
    /\ UNCHANGED <<mem, file, flag>>

Acquire(c) ==
    /\ call[c].pc = "lock"
    /\ holder = NoCaller
    /\ holder' = c
    /\ Goto(c, "update")
    /\ UNCHANGED <<mem, file, flag>>

\* Mutant: the map loses the key and its holder expects an entry.
RemovedKey(l, p) == [l EXCEPT !.peers = [q \in Peer \ {p} |-> l.peers[q]]]

Added(l, p, i) == [openAll |-> FALSE, peers |-> [l.peers EXCEPT ![p] = i]]
Removed(l, p) == [l EXCEPT !.peers[p] = Absent]

\* Under inner: remember what is replaced, change the list, serialise it.
Update(c) ==
    /\ call[c].pc = "update"
    /\ LET k == call[c] IN
       /\ mem' = IF k.op = "add" THEN Added(mem, k.peer, k.info)
                 ELSE Removed(mem, k.peer)
       /\ call' = [call EXCEPT ![c] =
              [k EXCEPT !.pc = "write", !.bytes = mem',
                        !.prevOpen = mem.openAll, !.prevInfo = mem.peers[k.peer]]]
    /\ UNCHANGED <<file, holder, flag>>

\* write_atomic_0o600, or an error of one of its steps.
Write(c) ==
    /\ call[c].pc = "write"
    /\ \/ /\ file' = call[c].bytes
          /\ Goto(c, "release")
       \/ /\ Goto(c, "undo")
          /\ UNCHANGED file
    /\ UNCHANGED <<mem, holder, flag>>

\* Mutant: a failed grant takes out a peer that was in before.
RestoredWithout(l, k) ==
    IF k.op = "add"
    THEN [openAll |-> k.prevOpen, peers |-> [l.peers EXCEPT ![k.peer] = Absent]]
    ELSE [l EXCEPT !.peers[k.peer] = k.prevInfo]

\* The list as it was before k changed it.
Restored(l, k) ==
    IF k.op = "add"
    THEN [openAll |-> k.prevOpen, peers |-> [l.peers EXCEPT ![k.peer] = k.prevInfo]]
    ELSE [l EXCEPT !.peers[k.peer] = k.prevInfo]

\* Mutant: an early return leaves the failed update in memory.
UndoNothing(c) ==
    /\ call[c].pc = "undo"
    /\ Goto(c, "release")
    /\ UNCHANGED <<mem, file, holder, flag>>

Undo(c) ==
    /\ call[c].pc = "undo"
    /\ mem' = Restored(mem, call[c])
    /\ Goto(c, "release")
    /\ UNCHANGED <<file, holder, flag>>

\* Mutant: the caller ends without giving the lock back.
ReleaseForgotten(c) ==
    /\ call[c].pc = "release"
    /\ Goto(c, "idle")
    /\ UNCHANGED <<mem, file, holder, flag>>

Release(c) ==
    /\ call[c].pc = "release"
    /\ holder' = NoCaller
    /\ Goto(c, "idle")
    /\ UNCHANGED <<mem, file, flag>>

\* The process dies at any point and is started again, with or without the
\* flag; the operator may have deleted the file in between.
Restart(f) ==
    /\ file' \in {file, NoFile}
    /\ flag' = f
    /\ mem' = StartWith(f, file')
    /\ holder' = NoCaller
    /\ call' = [c \in Caller |-> Idle]

-----------------------------------------------------------------------------
Request(c) ==
    \E p \in Peer :
        \/ \E i \in Info : AllowPeer(c, p, i) \/ AcceptInvite(c, p, i)
        \/ RevokePeer(c, p)

Serve(c) == Recheck(c) \/ Acquire(c) \/ Update(c) \/ Write(c) \/ Undo(c)
            \/ Release(c)

Next == \/ \E c \in Caller : Request(c) \/ Serve(c)
        \/ \E f \in BOOLEAN : Restart(f)

\* A task that has begun goes on; nothing says which waiter gets the lock.
Fairness == \A c \in Caller : WF_vars(Serve(c))

Spec == Init /\ [][Next]_vars /\ Fairness

-----------------------------------------------------------------------------
(***************************************************************************)
(* Properties.                                                             *)
(***************************************************************************)
TypeOK ==
    /\ mem \in Lists
    /\ file \in Lists \cup {NoFile}
    /\ holder \in Caller \cup {NoCaller}
    /\ call \in [Caller -> Calls]
    /\ flag \in BOOLEAN

\* The steps of a task that holds persist_lock, and those of them between the
\* update in memory and its save or rollback.
Holding == {"update", "write", "undo", "release"}
Unsettled == {"write", "undo"}

\* With no save under way the list in memory is the one a restart without the
\* flag would load, unless the process was started open and has not saved yet:
\* neither an older snapshot written last nor a failed save parts them.
Durable ==
    holder = NoCaller =>
        mem = Load(file) \/ (flag /\ mem = OpenAll)

\* The list without the update whose save is still under way.
Committed ==
    IF \E c \in Caller : call[c].pc \in Unsettled
    THEN Restored(mem, call[CHOOSE c \in Caller : call[c].pc \in Unsettled])
    ELSE mem

\* Concurrent grants and revocations, failed saves and restarts look like
\* single changes of a list and of its stored copy at once.
Abstract == INSTANCE AllowListSpec WITH list <- Committed, stored <- Load(file)

Atomic == Abstract!Spec

\* Every save ends and gives persist_lock back, so no RPC waits for ever on one
\* whose save has failed.
LockReturns == \A c \in Caller : holder = c ~> holder # c
=============================================================================

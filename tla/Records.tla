------------------------------ MODULE Records ------------------------------
(***************************************************************************)
(* What a daemon keeps on record of the updates it has applied: the        *)
(* pending log, one file per update, and last_seen_at.  One receive loop   *)
(* writes the log while any number of RPC handlers read it.                *)
(*                                                                         *)
(* Time is counted in ticks, PerSecond of them to the second: received_at  *)
(* is in seconds, the last part of a file's name the tick in the second.   *)
(***************************************************************************)
EXTENDS Integers, FiniteSets

CONSTANTS
    Peer,       \* endpoint ids
    Path,       \* relative paths
    Caller,     \* tasks that serve RPCs
    PerSecond,  \* ticks in a second
    MaxTime     \* bound: ticks that pass

ASSUME TimeAssumption == PerSecond \in Nat \ {0} /\ MaxTime \in Nat

VARIABLES
    now,    \* the clock
    files,  \* the log's directory: what is in the file of each name
    loop,   \* the receive loop: the update at hand
    seen,   \* last_seen_at; 0 for a peer not seen yet
    scan    \* the listings under way: names to be met, names read

records == <<now, files, loop, seen, scan>>

Second(t) == t \div PerSecond

\* <received_at>-<peer8>-<rel_hash8>-<nanos9>.json
Name == [at : 0 .. Second(MaxTime), peer : Peer, path : Path,
         nanos : 0 .. (PerSecond - 1)]

Steps == {"idle", "handling", "temp", "mark"}

\* Mutant: the ticks are those since the clock began.
NameUncut(at, peer, path, t) ==
    [at |-> at, peer |-> peer, path |-> path, nanos |-> t]

\* Mutant: the name of an entry has no tick.
NameByPath(at, peer, path, t) ==
    [at |-> at, peer |-> peer, path |-> path, nanos |-> 0]

\* The second the handling began in, and the tick within the current second.
NameOf(at, peer, path, t) ==
    [at |-> at, peer |-> peer, path |-> path, nanos |-> t % PerSecond]

Present == {n \in Name : files[n] # "none"}

NoScan == [must |-> {}, got |-> {}]

RecordsInit ==
    /\ now = 0
    /\ files = [n \in Name |-> "none"]
    /\ loop = [pc |-> "idle", name |-> CHOOSE n \in Name : TRUE, since |-> 0, named |-> 0]
    /\ seen = [p \in Peer |-> 0]
    /\ scan = [r \in Caller |-> NoScan]

-----------------------------------------------------------------------------
Tick ==
    /\ now < MaxTime
    /\ now' = now + 1
    /\ UNCHANGED <<files, loop, seen, scan>>

\* dispatch_update takes the time, then fetches and applies the update.
Receive(peer, path) ==
    /\ loop.pc = "idle"
    /\ loop' = [pc |-> "handling", name |-> NameOf(Second(now), peer, path, 0),
                since |-> now, named |-> now]
    /\ UNCHANGED <<now, files, seen, scan>>

Goto(pc) == loop' = [loop EXCEPT !.pc = pc]

\* Skipped, or failed: nothing is recorded.
NotApplied ==
    /\ loop.pc = "handling"
    /\ Goto("idle")
    /\ UNCHANGED <<now, files, seen, scan>>

\* Mutant: the entry is written under its final name.
TempInPlace(name) == files' = [files EXCEPT ![name] = "torn"]

\* A temporary file has a dot in front and .tmp behind: no reader looks at it.
Temp(name) == UNCHANGED files

\* record_receive: the name is made, and the entry written to a temporary file,
\* which takes its time.
BeginRecord ==
    /\ loop.pc = "handling"
    /\ now < MaxTime
    /\ now' = now + 1
    /\ LET name == NameOf(loop.name.at, loop.name.peer, loop.name.path, now) IN
       /\ loop' = [loop EXCEPT !.pc = "temp", !.name = name, !.named = now]
       /\ Temp(name)
    /\ UNCHANGED <<seen, scan>>

Persist ==
    /\ loop.pc = "temp"
    /\ files' = [files EXCEPT ![loop.name] = "whole"]
    /\ Goto("mark")
    /\ UNCHANGED <<now, seen, scan>>

\* A failure is only logged, and the temporary file goes.
RecordFails ==
    /\ loop.pc \in {"handling", "temp"}
    /\ Goto("mark")
    /\ UNCHANGED <<now, files, seen, scan>>

\* Mutant: the last call wins.
SeenAtCall(p, t) == [seen EXCEPT ![p] = t]

\* mark_peer_seen
SeenAt(p, t) == [seen EXCEPT ![p] = IF t > @ THEN t ELSE @]

\* The receive loop reports the time at which the update came.
MarkSeen ==
    /\ loop.pc = "mark"
    /\ seen' = SeenAt(loop.name.peer, loop.name.at)
    /\ Goto("idle")
    /\ UNCHANGED <<now, files, scan>>

\* A connection that AllowlistBlobs has served ends at some time, which is noted
\* then or later.
Served(p) ==
    /\ \E t \in 0 .. Second(now) : seen' = SeenAt(p, t)
    /\ UNCHANGED <<now, files, loop, scan>>

\* The process ends and starts anew: files stay, temporary ones too.
RestartRecords ==
    /\ Goto("idle")
    /\ seen' = [p \in Peer |-> 0]
    /\ scan' = [r \in Caller |-> NoScan]
    /\ UNCHANGED <<now, files>>

-----------------------------------------------------------------------------
(***************************************************************************)
(* list_pending reads the directory entry by entry: a file that is there   *)
(* from the beginning is met, one that comes meanwhile may be.             *)
(***************************************************************************)
BeginScan(r) ==
    /\ scan' = [scan EXCEPT ![r] = [must |-> Present, got |-> {}]]
    /\ UNCHANGED <<now, files, loop, seen>>

ReadEntry(r, n) ==
    /\ n \in Present \ scan[r].got
    /\ scan' = [scan EXCEPT ![r].got = @ \cup {n}]
    /\ UNCHANGED <<now, files, loop, seen>>

ScanComplete(r) == scan[r].must \subseteq scan[r].got

\* What sorting by received_at, newest first, and truncating may leave.
Newest(S, limit) ==
    {T \in SUBSET S :
        /\ Cardinality(T) = IF Cardinality(S) < limit THEN Cardinality(S) ELSE limit
        /\ \A n \in T : \A m \in S \ T : n.at >= m.at}

RecordsTypeOK ==
    /\ now \in 0 .. MaxTime
    /\ files \in [Name -> {"none", "torn", "whole"}]
    /\ loop \in [pc : Steps, name : Name, since : 0 .. MaxTime, named : 0 .. MaxTime]
    /\ seen \in [Peer -> 0 .. Second(MaxTime)]
    /\ scan \in [Caller -> [must : SUBSET Name, got : SUBSET Name]]

-----------------------------------------------------------------------------
\* An entry is about to replace another only if its handling has gone on into
\* another second: the second of a name is that of the beginning, the rest that
\* of the end.
ReplacedOnlyAcrossSeconds ==
    loop.pc = "temp" /\ files[loop.name] = "whole" =>
        Second(loop.named) > Second(loop.since)
=============================================================================

------------------------------ MODULE SyncNode ------------------------------
(***************************************************************************)
(* One dirhive daemon that has joined (or is about to join) the mesh: the  *)
(* watched directory, the debounced watcher, the gate that holds back      *)
(* broadcasts until the first gossip neighbour, the two tasks that send    *)
(* (watcher loop and initial flush), the sequential receive loop, and the  *)
(* in-memory SyncState through which they suppress each other's echoes.    *)
(*                                                                         *)
(* A file content stands for itself and for its BLAKE3 hash.  The rest of  *)
(* the mesh is one variable, mesh: what the other peers were last told     *)
(* about each path.  Each step below is what one task does between two     *)
(* points at which another task can run: an await, or a mutex it releases. *)
(***************************************************************************)
EXTENDS Naturals, Sequences, FiniteSets

CONSTANTS
    Path,         \* relative paths under the watched directory
    Content,      \* file contents
    UserContent,  \* contents local users write
    PeerContent,  \* contents remote peers announce
    Oversize,     \* contents longer than MAX_FILE_SIZE
    Peer,         \* endpoint ids found in the from field of updates
    Allowed,      \* the peers the allowlist contains
    Absent,       \* no file at a path; no entry in a registry
    UserOps,      \* which of "write", "remove", "rename" users do
    Budget        \* bounds: how often each kind of environment step happens

Bounded == {"user", "remote", "fault", "crash", "dup"}

ASSUME ContentAssumption ==
    /\ UserContent \subseteq Content
    /\ PeerContent \subseteq Content
    /\ Oversize \subseteq Content
    /\ Absent \notin Content
ASSUME PathAssumption == Path # {}
ASSUME PeerAssumption == Peer # {} /\ Allowed \subseteq Peer
ASSUME BudgetAssumption == Budget \in [Bounded -> Nat]

VARIABLES
    fs,             \* the file at each path
    backup,         \* the <name>.conflict-local-<peer8> file of each path and peer
    blobs,          \* contents in the iroh blob store
    journal,        \* pending log: the updates recorded as received
    window,         \* raw events the debouncer still holds, per path
    queue,          \* the watcher's mpsc channel
    pendingWritten, lastWritten, lastRemoved, dedup,  \* SyncState
    joined,         \* gossip_joined
    initial,        \* pending_initial_broadcasts
    flushList,      \* paths the spawned flush task has yet to send
    snd,            \* the tasks that send
    rcv,            \* the receive loop
    seen,           \* peers with a last_seen_at entry
    linked,         \* a gossip neighbour is reachable
    mesh,           \* what the other peers were last told of each path
    left            \* what remains of Budget

disk  == <<fs, backup, blobs, journal>>
watch == <<window, queue>>
marks == <<pendingWritten, lastWritten, lastRemoved, dedup>>
gate  == <<joined, initial, flushList>>
env   == <<linked, mesh, left>>
vars  == <<disk, watch, marks, gate, snd, rcv, seen, env>>

MaybeContent == Content \cup {Absent}
Sender == {"watcher", "flush"}
Update == [kind : {"upsert", "tombstone"}, path : Path,
           hash : MaybeContent, from : Peer]

\* The steps of handle_upsert during which its PendingWriteGuard is alive.
Guarded == {"fetch", "check", "rename", "persist", "mark"}
\* The steps of a sender after the gate has let its path through.
Sending == {"dedup", "tell", "read", "publish", "record"}

Resting == [pc |-> "idle", path |-> CHOOSE p \in Path : TRUE,
            removal |-> FALSE, hash |-> Absent]
Listening == [pc |-> "idle",
              up |-> [kind |-> "tombstone", path |-> CHOOSE p \in Path : TRUE,
                      hash |-> Absent, from |-> CHOOSE q \in Peer : TRUE]]

Spend(what) == /\ left[what] > 0
               /\ left' = [left EXCEPT ![what] = @ - 1]

\* Mutant: a registry without the paths nothing is known of.
NoMarksPartial == [p \in {} |-> Absent]

(***************************************************************************)
(* SyncState::new and DaemonState::new: a fresh process knows nothing of   *)
(* what an earlier one was doing.  There is no scan of the directory.      *)
(***************************************************************************)
NoMarks == [p \in Path |-> Absent]

Init ==
    /\ fs \in [Path -> (UserContent \ Oversize) \cup {Absent}]
    /\ backup = [p \in Path |-> [q \in Peer |-> Absent]]
    /\ blobs = {}
    /\ journal = {}
    /\ window = [p \in Path |-> {}]
    /\ queue = <<>>
    /\ pendingWritten = NoMarks
    /\ lastWritten = NoMarks
    /\ lastRemoved = {}
    /\ dedup = {}
    /\ joined = FALSE
    /\ initial = {}
    /\ flushList = {}
    /\ snd = [t \in Sender |-> Resting]
    /\ rcv = Listening
    /\ seen = {}
    /\ linked = FALSE
    /\ mesh = fs
    /\ left = Budget

-----------------------------------------------------------------------------
(***************************************************************************)
(* The watched directory, as its users and the debouncer see it.  The      *)
(* debouncer keeps, per path, at most one creation or modification and one *)
(* removal before it; a removal cancels a creation it still holds.         *)
(***************************************************************************)
AfterWrite(w, existed) ==
    IF "create" \in w THEN w
    ELSE w \cup {IF existed THEN "modify" ELSE "create"}

AfterRemove(w) ==
    IF "create" \in w /\ "remove" \notin w THEN {} ELSE {"remove"}

UserWrite(p, c) ==
    /\ "write" \in UserOps
    /\ Spend("user")
    /\ fs' = [fs EXCEPT ![p] = c]
    /\ window' = [window EXCEPT ![p] = AfterWrite(@, fs[p] # Absent)]
    /\ UNCHANGED <<backup, blobs, journal, queue, marks, gate, snd, rcv, seen,
                   linked, mesh>>

UserRemove(p) ==
    /\ "remove" \in UserOps
    /\ fs[p] # Absent
    /\ Spend("user")
    /\ fs' = [fs EXCEPT ![p] = Absent]
    /\ window' = [window EXCEPT ![p] = AfterRemove(@)]
    /\ UNCHANGED <<backup, blobs, journal, queue, marks, gate, snd, rcv, seen,
                   linked, mesh>>

\* A rename inside the directory is one debounced event with both paths, the
\* old one first; watcher_loop looks at the first path only, so q gets none.
\* Only files with no event pending are renamed.
UserRename(p, q) ==
    /\ "rename" \in UserOps
    /\ p # q
    /\ fs[p] # Absent
    /\ window[p] = {}
    /\ window[q] = {}
    /\ Spend("user")
    /\ fs' = [fs EXCEPT ![p] = Absent, ![q] = fs[p]]
    /\ window' = [window EXCEPT ![p] = {"modify"}]
    /\ UNCHANGED <<backup, blobs, journal, queue, marks, gate, snd, rcv, seen,
                   linked, mesh>>

\* The debounce window of p closes: its oldest event goes to the channel.  One
\* change may yield a second event (at most Budget.dup times).
Debounce(p) ==
    /\ window[p] # {}
    /\ LET removal == "remove" \in window[p] IN
       /\ queue' = Append(queue, [path |-> p, removal |-> removal])
       /\ \/ /\ window' = [window EXCEPT ![p] = IF removal THEN @ \ {"remove"}
                                                ELSE {}]
             /\ UNCHANGED left
          \/ /\ Spend("dup")
             /\ UNCHANGED window
    /\ UNCHANGED <<disk, marks, gate, snd, rcv, seen, linked, mesh>>

-----------------------------------------------------------------------------
(***************************************************************************)
(* Sending: the closure the watcher loop runs for each event, and the task *)
(* the first NeighborUp spawns.  Both end in send_file (read, publish,     *)
(* record) or broadcast_tombstone (dedup, tell).                           *)
(***************************************************************************)
Goto(t, pc) == snd' = [snd EXCEPT ![t].pc = pc]

\* Mutant: the mark is only looked at, and survives a mismatch.
TakeEventKeepsMark ==
    /\ snd["watcher"].pc = "idle"
    /\ queue # <<>>
    /\ LET e == Head(queue) IN
       snd' = [snd EXCEPT !["watcher"] =
                 [pc |-> "compare", path |-> e.path, removal |-> e.removal,
                  hash |-> lastWritten[e.path]]]
    /\ queue' = Tail(queue)
    /\ UNCHANGED <<disk, window, marks, gate, rcv, seen, env>>

\* The closure starts by taking the last_written mark, whatever it is.
TakeEvent ==
    /\ snd["watcher"].pc = "idle"
    /\ queue # <<>>
    /\ LET e == Head(queue) IN
       /\ snd' = [snd EXCEPT !["watcher"] =
                    [pc |-> "compare", path |-> e.path, removal |-> e.removal,
                     hash |-> lastWritten[e.path]]]
       /\ lastWritten' = [lastWritten EXCEPT ![e.path] = Absent]
    /\ queue' = Tail(queue)
    /\ UNCHANGED <<disk, window, pendingWritten, lastRemoved, dedup, gate, rcv,
                   seen, env>>

\* A file that still has the content of the mark was written by this daemon.
CompareMark ==
    /\ snd["watcher"].pc = "compare"
    /\ LET w == snd["watcher"] IN
       Goto("watcher", IF w.hash # Absent /\ fs[w.path] = w.hash
                       THEN "idle" ELSE "decide")
    /\ UNCHANGED <<disk, watch, marks, gate, rcv, seen, env>>

\* Removal or change?  A removal consumes the mark handle_tombstone left.
Decide ==
    /\ snd["watcher"].pc = "decide"
    /\ LET w == snd["watcher"]
           gone == w.removal \/ fs[w.path] = Absent
       IN  IF gone /\ w.path \in lastRemoved
           THEN /\ lastRemoved' = lastRemoved \ {w.path}
                /\ Goto("watcher", "idle")
           ELSE /\ snd' = [snd EXCEPT !["watcher"].removal = gone,
                                      !["watcher"].pc = "gate"]
                /\ UNCHANGED lastRemoved
    /\ UNCHANGED <<disk, watch, pendingWritten, lastWritten, dedup, gate, rcv,
                   seen, env>>

\* Mutant: the flag is read before the lock is taken, and may have changed.
PassGateStaleFlag ==
    /\ snd["watcher"].pc = "gate"
    /\ \/ /\ joined
          /\ Goto("watcher", IF snd["watcher"].removal THEN "dedup" ELSE "read")
          /\ UNCHANGED initial
       \/ /\ initial' = initial \cup {snd["watcher"].path}
          /\ Goto("watcher", "idle")
    /\ UNCHANGED <<disk, watch, marks, joined, flushList, rcv, seen, env>>

\* Mutant: changes are broadcast without waiting for a neighbour.
PassGateOpen ==
    /\ snd["watcher"].pc = "gate"
    /\ Goto("watcher", IF snd["watcher"].removal THEN "dedup" ELSE "read")
    /\ UNCHANGED <<disk, watch, marks, gate, rcv, seen, env>>

\* enqueue_initial_broadcast: under the queue's lock, hold the path back while
\* no neighbour has ever been up.
PassGate ==
    /\ snd["watcher"].pc = "gate"
    /\ LET w == snd["watcher"] IN
       IF joined
       THEN /\ Goto("watcher", IF w.removal THEN "dedup" ELSE "read")
            /\ UNCHANGED initial
       ELSE /\ initial' = initial \cup {w.path}
            /\ Goto("watcher", "idle")
    /\ UNCHANGED <<disk, watch, marks, joined, flushList, rcv, seen, env>>

\* Mutant: the flush task does not take the path out of its list.
FlushNextAgain(p) ==
    /\ snd["flush"].pc = "idle"
    /\ p \in flushList
    /\ snd' = [snd EXCEPT !["flush"] =
                 [pc |-> IF fs[p] = Absent THEN "dedup" ELSE "read", path |-> p,
                  removal |-> fs[p] = Absent, hash |-> Absent]]
    /\ UNCHANGED <<disk, watch, marks, gate, rcv, seen, env>>

\* The flush task takes its next path and looks whether the file exists.
FlushNext(p) ==
    /\ snd["flush"].pc = "idle"
    /\ p \in flushList
    /\ flushList' = flushList \ {p}
    /\ snd' = [snd EXCEPT !["flush"] =
                 [pc |-> IF fs[p] = Absent THEN "dedup" ELSE "read", path |-> p,
                  removal |-> fs[p] = Absent, hash |-> Absent]]
    /\ UNCHANGED <<disk, watch, marks, joined, initial, rcv, seen, env>>

\* broadcast_tombstone records the path before it broadcasts.
CheckDedup(t) ==
    /\ snd[t].pc = "dedup"
    /\ IF snd[t].path \in dedup
       THEN Goto(t, "idle") /\ UNCHANGED dedup
       ELSE Goto(t, "tell") /\ dedup' = dedup \cup {snd[t].path}
    /\ UNCHANGED <<disk, watch, pendingWritten, lastWritten, lastRemoved, gate,
                   rcv, seen, env>>

\* A broadcast without a neighbour is dropped without an error.
Broadcast(p, c) == mesh' = IF linked THEN [mesh EXCEPT ![p] = c] ELSE mesh

TellTombstone(t) ==
    /\ snd[t].pc = "tell"
    /\ Broadcast(snd[t].path, Absent)
    /\ Goto(t, "idle")
    /\ UNCHANGED <<disk, watch, marks, gate, rcv, seen, linked, left>>

\* send_file refuses what is no file any more and what exceeds MAX_FILE_SIZE.
ReadFile(t) ==
    /\ snd[t].pc = "read"
    /\ LET c == fs[snd[t].path] IN
       IF c = Absent \/ c \in Oversize
       THEN Goto(t, "idle") /\ UNCHANGED blobs
       ELSE /\ snd' = [snd EXCEPT ![t].pc = "publish", ![t].hash = c]
            /\ blobs' = blobs \cup {c}
    /\ UNCHANGED <<fs, backup, journal, watch, marks, gate, rcv, seen, env>>

Publish(t) ==
    /\ snd[t].pc = "publish"
    /\ Broadcast(snd[t].path, snd[t].hash)
    /\ Goto(t, "record")
    /\ UNCHANGED <<disk, watch, marks, gate, rcv, seen, linked, left>>

\* Only after the broadcast does send_file mark the content as its own.
RecordSent(t) ==
    /\ snd[t].pc = "record"
    /\ lastWritten' = [lastWritten EXCEPT ![snd[t].path] = snd[t].hash]
    /\ Goto(t, "idle")
    /\ UNCHANGED <<disk, watch, pendingWritten, lastRemoved, dedup, gate, rcv,
                   seen, env>>

\* Reading, adding the blob or broadcasting fails: the caller logs a warning
\* and goes on to its next path.
SendFails(t) ==
    /\ snd[t].pc \in {"read", "publish", "tell"}
    /\ Spend("fault")
    /\ Goto(t, "idle")
    /\ UNCHANGED <<disk, watch, marks, gate, rcv, seen, linked, mesh>>

\* TOMBSTONE_DEDUP_TTL passes.
DedupExpires(p) ==
    /\ p \in dedup
    /\ dedup' = dedup \ {p}
    /\ UNCHANGED <<disk, watch, pendingWritten, lastWritten, lastRemoved, gate,
                   snd, rcv, seen, env>>

-----------------------------------------------------------------------------
(***************************************************************************)
(* The receive loop handles one gossip event at a time.  An update from a  *)
(* peer that is not allowed is skipped, and so is one with a bad version   *)
(* or an unsafe path.                                                      *)
(***************************************************************************)
Await(pc) == rcv' = [rcv EXCEPT !.pc = pc]

DropGuard == pendingWritten' = [pendingWritten EXCEPT ![rcv.up.path] = Absent]

\* Mutant: updates are applied whoever sent them.
ReceiveFromAnyone(u) ==
    /\ rcv.pc = "idle"
    /\ linked
    /\ Spend("remote")
    /\ mesh' = [mesh EXCEPT ![u.path] = u.hash]
    /\ IF u.kind = "upsert"
       THEN /\ pendingWritten' = [pendingWritten EXCEPT ![u.path] = u.hash]
            /\ rcv' = [pc |-> "fetch", up |-> u]
            /\ UNCHANGED lastRemoved
       ELSE /\ lastRemoved' = lastRemoved \cup {u.path}
            /\ rcv' = [pc |-> "unlink", up |-> u]
            /\ UNCHANGED pendingWritten
    /\ UNCHANGED <<disk, watch, lastWritten, dedup, gate, snd, seen, linked>>

Receive(u) ==
    /\ rcv.pc = "idle"
    /\ linked
    /\ Spend("remote")
    /\ IF u.from \notin Allowed
       THEN UNCHANGED <<rcv, pendingWritten, lastRemoved, mesh>>
       ELSE /\ mesh' = [mesh EXCEPT ![u.path] = u.hash]
            /\ IF u.kind = "upsert"
               THEN /\ pendingWritten' = [pendingWritten EXCEPT ![u.path] = u.hash]
                    /\ rcv' = [pc |-> "fetch", up |-> u]
                    /\ UNCHANGED lastRemoved
               ELSE /\ lastRemoved' = lastRemoved \cup {u.path}
                    /\ rcv' = [pc |-> "unlink", up |-> u]
                    /\ UNCHANGED pendingWritten
    /\ UNCHANGED <<disk, watch, lastWritten, dedup, gate, snd, seen, linked>>

\* The blob is in the store or comes from the peer that announced it; one that
\* is too large is dropped only once it is there.
Fetch ==
    /\ rcv.pc = "fetch"
    /\ blobs' = blobs \cup {rcv.up.hash}
    /\ IF rcv.up.hash \in Oversize
       THEN Await("idle") /\ DropGuard
       ELSE Await("check") /\ UNCHANGED pendingWritten
    /\ UNCHANGED <<fs, backup, journal, watch, lastWritten, lastRemoved, dedup,
                   gate, snd, seen, env>>

\* Mutant: the error path of the fetch keeps the pending_written mark.
FetchFailsLeaky ==
    /\ rcv.pc = "fetch"
    /\ rcv.up.hash \notin blobs
    /\ Spend("fault")
    /\ Await("idle")
    /\ UNCHANGED <<disk, watch, marks, gate, snd, seen, linked, mesh>>

FetchFails ==
    /\ rcv.pc = "fetch"
    /\ rcv.up.hash \notin blobs
    /\ Spend("fault")
    /\ Await("idle")
    /\ DropGuard
    /\ UNCHANGED <<disk, watch, lastWritten, lastRemoved, dedup, gate, snd,
                   seen, linked, mesh>>

\* compute_conflict_backup_path reads the file with an await.
CheckConflict ==
    /\ rcv.pc = "check"
    /\ Await(IF fs[rcv.up.path] \in {Absent, rcv.up.hash} THEN "persist"
             ELSE "rename")
    /\ UNCHANGED <<disk, watch, marks, gate, snd, seen, env>>

\* A local file that cannot be read counts as no conflict.
CheckUnreadable ==
    /\ rcv.pc = "check"
    /\ Spend("fault")
    /\ Await("persist")
    /\ UNCHANGED <<disk, watch, marks, gate, snd, seen, linked, mesh>>

\* fs::rename replaces an earlier backup of the same peer, and fails if the
\* file has gone.  The rename carries a skipped name, so it yields no event of
\* its own and may take pending events of the path with it.
RenameToBackup ==
    /\ rcv.pc = "rename"
    /\ LET p == rcv.up.path IN
       IF fs[p] = Absent
       THEN /\ Await("idle")
            /\ DropGuard
            /\ UNCHANGED <<fs, backup, window>>
       ELSE /\ backup' = [backup EXCEPT ![p][rcv.up.from] = fs[p]]
            /\ fs' = [fs EXCEPT ![p] = Absent]
            /\ window' \in {window, [window EXCEPT ![p] = {}]}
            /\ Await("persist")
            /\ UNCHANGED pendingWritten
    /\ UNCHANGED <<blobs, journal, queue, lastWritten, lastRemoved, dedup, gate,
                   snd, seen, env>>

\* The temporary file is renamed over the path.  Whether the debouncer turns
\* that into an event of the path depends on the platform.
Persist ==
    /\ rcv.pc = "persist"
    /\ fs' = [fs EXCEPT ![rcv.up.path] = rcv.up.hash]
    /\ window' \in {window,
                    [window EXCEPT ![rcv.up.path] = AfterWrite(@, FALSE)]}
    /\ Await("mark")
    /\ UNCHANGED <<backup, blobs, journal, queue, marks, gate, snd, seen, env>>

\* Reading the blob, renaming, creating the temporary file or persisting fails.
UpsertFails ==
    /\ rcv.pc \in {"check", "rename", "persist"}
    /\ Spend("fault")
    /\ Await("idle")
    /\ DropGuard
    /\ UNCHANGED <<disk, watch, lastWritten, lastRemoved, dedup, gate, snd,
                   seen, linked, mesh>>

CommitUpsert ==
    /\ rcv.pc = "mark"
    /\ pendingWritten' = [pendingWritten EXCEPT ![rcv.up.path] = Absent]
    /\ lastWritten' = [lastWritten EXCEPT ![rcv.up.path] = rcv.up.hash]
    /\ Await("journal")
    /\ UNCHANGED <<disk, watch, lastRemoved, dedup, gate, snd, seen, env>>

\* Mutant: the removal mark stays although there was no file.
UnlinkKeepsMark ==
    /\ rcv.pc = "unlink"
    /\ LET p == rcv.up.path IN
       /\ fs' = [fs EXCEPT ![p] = Absent]
       /\ window' = [window EXCEPT ![p] = IF fs[p] = Absent THEN @
                                          ELSE AfterRemove(@)]
    /\ Await("journal")
    /\ UNCHANGED <<backup, blobs, journal, queue, marks, gate, snd, seen, env>>

\* The removal mark is set before the unlink and withdrawn if there was
\* nothing to unlink.
Unlink ==
    /\ rcv.pc = "unlink"
    /\ LET p == rcv.up.path IN
       IF fs[p] = Absent
       THEN /\ lastRemoved' = lastRemoved \ {p}
            /\ UNCHANGED <<fs, window>>
       ELSE /\ fs' = [fs EXCEPT ![p] = Absent]
            /\ window' = [window EXCEPT ![p] = AfterRemove(@)]
            /\ UNCHANGED lastRemoved
    /\ Await("journal")
    /\ UNCHANGED <<backup, blobs, journal, queue, pendingWritten, lastWritten,
                   dedup, gate, snd, seen, env>>

UnlinkFails ==
    /\ rcv.pc = "unlink"
    /\ Spend("fault")
    /\ lastRemoved' = lastRemoved \ {rcv.up.path}
    /\ Await("idle")
    /\ UNCHANGED <<disk, watch, pendingWritten, lastWritten, dedup, gate, snd,
                   seen, linked, mesh>>

\* Applied: record_receive (whose failure is only logged) and on_peer_seen.
JournalApplied ==
    /\ rcv.pc = "journal"
    /\ \/ journal' = journal \cup {rcv.up} /\ UNCHANGED left
       \/ Spend("fault") /\ UNCHANGED journal
    /\ seen' = seen \cup {rcv.up.from}
    /\ Await("idle")
    /\ UNCHANGED <<fs, backup, blobs, watch, marks, gate, snd, linked, mesh>>

\* AllowlistBlobs::accept: an allowed peer that was served a blob counts as
\* seen; the connection of any other is closed and changes nothing.
ServeBlob(q) ==
    /\ q \in Allowed
    /\ blobs # {}
    /\ Spend("remote")
    /\ seen' = seen \cup {q}
    /\ UNCHANGED <<disk, watch, marks, gate, snd, rcv, linked, mesh>>

-----------------------------------------------------------------------------
(***************************************************************************)
(* Joining the mesh, losing it, and losing the process.                    *)
(***************************************************************************)
\* The callback wins mark_first_join's compare-exchange once per process...
NeighborUp ==
    /\ rcv.pc = "idle"
    /\ ~linked
    /\ linked' = TRUE
    /\ joined' = TRUE
    /\ IF joined THEN UNCHANGED rcv ELSE Await("drain")
    /\ UNCHANGED <<disk, watch, marks, initial, flushList, snd, seen, mesh, left>>

\* Mutant: the queue is cleared without a task that sends it.
DrainForgets ==
    /\ rcv.pc = "drain"
    /\ initial' = {}
    /\ Await("idle")
    /\ UNCHANGED <<disk, watch, marks, joined, flushList, snd, seen, env>>

\* ... and then drains the queue and hands it to a spawned task.
DrainInitial ==
    /\ rcv.pc = "drain"
    /\ flushList' = initial
    /\ initial' = {}
    /\ Await("idle")
    /\ UNCHANGED <<disk, watch, marks, joined, snd, seen, env>>

\* receive_loop only logs NeighborDown: gossip_joined stays true.
NeighborDown ==
    /\ linked
    /\ Spend("fault")
    /\ linked' = FALSE
    /\ UNCHANGED <<disk, watch, marks, gate, snd, rcv, seen, mesh>>

\* SIGKILL or a panic, and the restart by the service manager: the files stay,
\* every in-memory structure starts over.
Crash ==
    /\ Spend("crash")
    /\ window' = [p \in Path |-> {}]
    /\ queue' = <<>>
    /\ pendingWritten' = NoMarks
    /\ lastWritten' = NoMarks
    /\ lastRemoved' = {}
    /\ dedup' = {}
    /\ joined' = FALSE
    /\ initial' = {}
    /\ flushList' = {}
    /\ snd' = [t \in Sender |-> Resting]
    /\ rcv' = Listening
    /\ seen' = {}
    /\ linked' = FALSE
    /\ UNCHANGED <<disk, mesh>>

-----------------------------------------------------------------------------
User ==
    \/ \E p \in Path : \/ \E c \in UserContent : UserWrite(p, c)
                       \/ UserRemove(p)
                       \/ \E q \in Path : UserRename(p, q)

Wire == {u \in Update : IF u.kind = "upsert" THEN u.hash \in PeerContent
                        ELSE u.hash = Absent}

Remote == \E u \in Wire : Receive(u)

Serve == \E q \in Peer : ServeBlob(q)

Receiver ==
    \/ Fetch \/ CheckConflict \/ RenameToBackup \/ Persist \/ CommitUpsert
    \/ Unlink \/ JournalApplied \/ DrainInitial

Watcher == TakeEvent \/ CompareMark \/ Decide \/ PassGate

Send(t) == CheckDedup(t) \/ TellTombstone(t) \/ ReadFile(t) \/ Publish(t)
           \/ RecordSent(t)

Fault ==
    \/ \E t \in Sender : SendFails(t)
    \/ FetchFails \/ CheckUnreadable \/ UpsertFails \/ UnlinkFails
    \/ NeighborDown \/ Crash

\* What the daemon and the debouncer do on their own.
Internal ==
    \/ \E p \in Path : Debounce(p) \/ FlushNext(p) \/ DedupExpires(p)
    \/ \E t \in Sender : Send(t)
    \/ Watcher
    \/ Receiver

Next == User \/ Remote \/ Serve \/ NeighborUp \/ Fault \/ Internal

(***************************************************************************)
(* Every task is polled again once it can go on; the debouncer's timer and *)
(* the clock advance.  Nothing is assumed of users, peers and faults.  The *)
(* fairness of Receiver assumes that a fetch ends, one way or the other.   *)
(***************************************************************************)
Fairness ==
    /\ \A p \in Path : WF_vars(Debounce(p)) /\ WF_vars(FlushNext(p))
                       /\ WF_vars(DedupExpires(p))
    /\ \A t \in Sender : WF_vars(Send(t))
    /\ WF_vars(Watcher)
    /\ WF_vars(Receiver)

Spec == Init /\ [][Next]_vars /\ Fairness

-----------------------------------------------------------------------------
(***************************************************************************)
(* Properties.                                                             *)
(***************************************************************************)
Kind == {"create", "modify", "remove"}
SendPc == {"idle", "compare", "decide", "gate"} \cup Sending
RcvPc == {"idle", "drain", "unlink", "journal"} \cup Guarded

\* Every variable has its type.
TypeOK ==
    /\ fs \in [Path -> MaybeContent]
    /\ backup \in [Path -> [Peer -> MaybeContent]]
    /\ blobs \subseteq Content
    /\ journal \subseteq Update
    /\ window \in [Path -> SUBSET Kind]
    /\ queue \in Seq([path : Path, removal : BOOLEAN])
    /\ pendingWritten \in [Path -> MaybeContent]
    /\ lastWritten \in [Path -> MaybeContent]
    /\ lastRemoved \subseteq Path
    /\ dedup \subseteq Path
    /\ joined \in BOOLEAN
    /\ initial \subseteq Path
    /\ flushList \subseteq Path
    /\ snd \in [Sender -> [pc : SendPc, path : Path, removal : BOOLEAN,
                          hash : MaybeContent]]
    /\ rcv \in [pc : RcvPc, up : Update]
    /\ seen \subseteq Peer
    /\ linked \in BOOLEAN
    /\ mesh \in [Path -> MaybeContent]
    /\ left \in [Bounded -> Nat]

\* A path is marked as being written exactly while handle_upsert is between
\* its guard and its commit, with the hash it writes: no error path leaks the
\* mark (the leak PendingWriteGuard was introduced against).
PendingMarkScoped ==
    \A p \in Path :
        pendingWritten[p] = IF rcv.pc \in Guarded /\ rcv.up.path = p
                            THEN rcv.up.hash ELSE Absent

\* No path is left behind in pending_initial_broadcasts: once the callback of
\* the first NeighborUp has drained it, nothing is ever queued again, whatever
\* the watcher task was doing when the flag changed.
NoPathLeftBehind == joined /\ rcv.pc # "drain" => initial = {}

\* Before the first neighbour is up nothing is on its way out: a broadcast
\* would be dropped and the change never be announced.
NothingSentBeforeJoin ==
    ~joined => /\ flushList = {}
               /\ \A t \in Sender : snd[t].pc \notin Sending

\* A peer outside the allowlist leaves no trace in the journal or in
\* last_seen_at, and no announced content above MAX_FILE_SIZE reaches the
\* directory or a backup, however fetch, retry and restart interleave.
OnlyAllowedTraces ==
    /\ seen \subseteq Allowed
    /\ \A u \in journal : u.from \in Allowed /\ u.hash \notin Oversize
    /\ \A p \in Path :
           /\ fs[p] \in UserContent \cup (PeerContent \ Oversize) \cup {Absent}
           /\ \A q \in Peer : backup[p][q] # Absent =>
                  q \in Allowed /\ backup[p][q] \in UserContent \cup (PeerContent \ Oversize)

\* The receive loop and the senders are idle and no event is pending.
Quiet ==
    /\ rcv.pc = "idle"
    /\ \A t \in Sender : snd[t].pc = "idle"
    /\ flushList = {}
    /\ queue = <<>>
    /\ \A p \in Path : window[p] = {}
=============================================================================

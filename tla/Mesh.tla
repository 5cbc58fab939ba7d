-------------------------------- MODULE Mesh --------------------------------
(***************************************************************************)
(* Several dirhive daemons that share a folder: their directories with     *)
(* subdirectories and links, their blob stores and allowlists, and the     *)
(* updates gossip carries between them in any order.                       *)
(*                                                                         *)
(* Here a whole handler is one step: SyncNode has the interleavings inside *)
(* one daemon, this module has those between daemons.  The ghost variables *)
(* at the end of the list record what the properties speak of.             *)
(***************************************************************************)
EXTENDS Paths, Debouncer

CONSTANTS
    UserPath,  \* where users work
    Oversize,  \* contents longer than MAX_FILE_SIZE
    Trusting,  \* <<n, m>>: n starts with m in its allowlist
    UserOps,   \* which of "write", "remove", "link" users do
    Budget     \* bounds: how often each kind of environment step happens

Bounded == {"user", "rush", "event"}

ASSUME MeshAssumption == /\ Node # {}
                         /\ UserPath \subseteq Place
                         /\ Oversize \subseteq Content
                         /\ Trusting \subseteq Node \X Node
                         /\ Budget \in [Bounded -> Nat]
                         /\ \A p \in Place \ Skipped : \A n \in Node :
                                BackupPath(p, n) \in Place

VARIABLES
    tree,         \* the watched directory of each daemon
    blobs,        \* contents in its blob store
    window,       \* raw events its debouncer still holds, per path
    lastWritten, lastRemoved, dedup,  \* its SyncState
    joined,       \* gossip_joined
    initial,      \* pending_initial_broadcasts
    flush,        \* paths its flush task has yet to send
    allow,        \* its allowlist
    up,           \* the daemons in the gossip swarm
    net,          \* updates on their way to a daemon
    left,         \* what remains of Budget
    past,         \* how changes have met so far
    origin,       \* who changed a path last
    audience,     \* the daemons that could follow that change
    bonds,        \* pairs of daemons that have ever allowed each other
    wrote         \* <<n, c>>: a user of n wrote content c

disk  == <<tree, blobs>>
marks == <<lastWritten, lastRemoved, dedup>>
gate  == <<joined, initial, flush>>
mesh  == <<allow, up, net>>
ghost == <<past, origin, audience, bonds, wrote>>
vars  == <<disk, window, marks, gate, mesh, left, ghost>>

Update == [kind : {"upsert", "tombstone"}, path : Place,
           hash : Content \cup {Absent}, from : Node]

Spend(what) == /\ left[what] > 0
               /\ left' = [left EXCEPT ![what] = @ - 1]

\* Gossip reaches every other member of the swarm.
Linked(n) == n \in up /\ up # {n}
Mutual(n, m) == n \in allow[m] /\ m \in allow[n]

\* Nothing is on its way and no event is pending.
Quiet == \A n \in Node : /\ net[n] = {}
                         /\ flush[n] = {}
                         /\ \A p \in Place : window[n][p] = {}

\* Everybody is in, and no dedup window is open.
Together == \A n \in Node : n \in up /\ joined[n] /\ dedup[n] = {}

Init ==
    /\ tree = [n \in Node |-> [p \in Place |-> Absent]]
    /\ blobs = [n \in Node |-> {}]
    /\ window = [n \in Node |-> [p \in Place |-> {}]]
    /\ lastWritten = [n \in Node |-> [p \in Place |-> Absent]]
    /\ lastRemoved = [n \in Node |-> {}]
    /\ dedup = [n \in Node |-> {}]
    /\ joined = [n \in Node |-> FALSE]
    /\ initial = [n \in Node |-> {}]
    /\ flush = [n \in Node |-> {}]
    /\ allow = [n \in Node |-> {m \in Node : <<n, m>> \in Trusting}]
    /\ up = Node
    /\ net = [n \in Node |-> {}]
    /\ left = Budget
    /\ past = "serial"
    /\ origin = [p \in Place |-> CHOOSE n \in Node : TRUE]
    /\ audience = [p \in Place |-> {}]
    /\ bonds = {t \in Trusting : <<t[2], t[1]>> \in Trusting}
    /\ wrote = {}

-----------------------------------------------------------------------------
(***************************************************************************)
(* The users of a daemon's directory.  What they do yields events for the  *)
(* paths the watcher does not skip.                                        *)
(***************************************************************************)
\* Mutant: the watcher looks at every file.
EventsOfAll(n, t, written) ==
    [p \in Place |->
        IF t[p] # tree[n][p] \/ p \in written
        THEN AfterWrite(window[n][p], tree[n][p] # Absent)
        ELSE window[n][p]]

\* The events held once the tree of n is t and the path in written, if any, has
\* been saved anew.
Events(n, t, written) ==
    [p \in Place |->
        IF p \in Skipped THEN window[n][p]
        ELSE IF t[p] = Absent /\ tree[n][p] # Absent
        THEN AfterRemove(window[n][p])
        ELSE IF t[p] # tree[n][p] \/ p \in written
        THEN AfterWrite(window[n][p], tree[n][p] # Absent)
        ELSE window[n][p]]

\* An update of n is still on its way.
Announced(n) == \E m \in Node : \E u \in net[m] : u.from = n

\* "serial": each change was made when the one before it had reached everybody;
\* "crossing": some daemons changed something at the same time; "lost": one
\* changed something alone, or before its last update had arrived, or an update
\* got lost.
Timed(n) ==
    past' = IF Quiet /\ Together THEN past
            ELSE IF Together /\ ~Announced(n) /\ past # "lost" THEN "crossing"
            ELSE "lost"

\* At most Budget.rush changes are made while something is going on.
UserChange(n, t, written) ==
    /\ left["user"] > 0
    /\ left["rush"] > 0 \/ (Quiet /\ Together)
    /\ left' = [left EXCEPT !["user"] = @ - 1,
                           !["rush"] = IF Quiet /\ Together THEN @ ELSE @ - 1]
    /\ tree' = [tree EXCEPT ![n] = t]
    /\ window' = [window EXCEPT ![n] = Events(n, t, written)]
    /\ Timed(n)
    /\ UNCHANGED <<blobs, marks, gate, mesh, bonds>>

\* n has changed p, and followers could follow that.
Authored(n, p, followers) ==
    /\ origin' = [origin EXCEPT ![p] = n]
    /\ audience' = [audience EXCEPT ![p] = {m \in followers : Mutual(n, m)}]

\* n has saved p as it was.  The mark send_file left may hide that from everybody.
Resaved(n, p) ==
    /\ audience' = [audience EXCEPT ![p] = IF n \in @ \cup {origin[p]} THEN @ ELSE {}]
    /\ UNCHANGED origin

HasParent(t, p) == \A q \in Above[p] : t[q] = Dir

\* A user saves a file, in directories made for it where there are none.
\* Those can follow who have no directory where the file or its backup goes.
UserWrite(n, p, c) ==
    LET t == MakeDirs(tree[n], p)
        travels == ValidPath(p) /\ p \notin Skipped /\ c \notin Oversize
        open == {m \in Node : /\ Resolves(tree[m], p)
                              /\ Dir \notin {tree[m][p], tree[m][BackupPath(p, n)]}}
    IN
    /\ "write" \in UserOps
    /\ HasParent(t, p)
    /\ tree[n][p] \in Content \cup {Absent}
    /\ UserChange(n, [t EXCEPT ![p] = c], {p})
    /\ IF c = tree[n][p] THEN Resaved(n, p)
       ELSE Authored(n, p, IF travels THEN open ELSE {})
    /\ wrote' = wrote \cup {<<n, c>>}

\* A user removes a file, a link or an empty directory.
UserRemove(n, p) ==
    /\ "remove" \in UserOps
    /\ tree[n][p] # Absent
    /\ \A q \in Place : p \in Above[q] => tree[n][q] = Absent
    /\ UserChange(n, [tree[n] EXCEPT ![p] = Absent], {})
    /\ Authored(n, p, IF ValidPath(p) /\ p \notin Skipped THEN Node ELSE {})
    /\ UNCHANGED wrote

UserLink(n, p) ==
    /\ "link" \in UserOps
    /\ tree[n][p] = Absent
    /\ HasParent(tree[n], p)
    /\ UserChange(n, [tree[n] EXCEPT ![p] = Link], {})
    /\ Authored(n, p, {})
    /\ UNCHANGED wrote

-----------------------------------------------------------------------------
(***************************************************************************)
(* Announcing: the watcher's closure and the flush task.                   *)
(***************************************************************************)
Broadcast(n, kind, p, c) ==
    net' = [m \in Node |->
              IF Linked(n) /\ m \in up \ {n}
              THEN net[m] \cup {[kind |-> kind, path |-> p, hash |-> c, from |-> n]}
              ELSE net[m]]

\* Mutant: directories and links are read like files.
SendableEntry(n, p) == Resolves(tree[n], p) /\ tree[n][p] \notin Oversize

\* A regular file that is not too large.
Sendable(n, p) == Resolves(tree[n], p) /\ tree[n][p] \in Content \ Oversize

Mark(n, p, c) == lastWritten' = [lastWritten EXCEPT ![n][p] = c]

\* send_file; mark is the last_written mark the caller has left.
SendFile(n, p, mark) ==
    /\ IF Sendable(n, p)
       THEN /\ blobs' = [blobs EXCEPT ![n] = @ \cup {tree[n][p]}]
            /\ Broadcast(n, "upsert", p, tree[n][p])
            /\ Mark(n, p, tree[n][p])
       ELSE Mark(n, p, mark) /\ UNCHANGED <<blobs, net>>
    /\ UNCHANGED dedup

\* broadcast_tombstone, once per dedup window.
SendTombstone(n, p, mark) ==
    /\ IF ValidPath(p) /\ p \notin dedup[n]
       THEN /\ dedup' = [dedup EXCEPT ![n] = @ \cup {p}]
            /\ Broadcast(n, "tombstone", p, Absent)
       ELSE UNCHANGED <<dedup, net>>
    /\ Mark(n, p, mark)
    /\ UNCHANGED blobs

\* Mutant: the watcher does not compare the file with the mark.
OwnWriteUnknown(n, p) == FALSE

\* The file is still what this daemon has last written or announced.
OwnWrite(n, p) == lastWritten[n][p] # Absent /\ tree[n][p] = lastWritten[n][p]

\* The watcher takes the oldest event of p: the last_written mark is consumed,
\* an own write or removal is passed over, a daemon that has not joined keeps
\* the path for later.  One change may yield a second event.
Announce(n, p) ==
    LET removal == "remove" \in window[n][p]
        gone == removal \/ tree[n][p] = Absent
        ownRemoval == ~OwnWrite(n, p) /\ gone /\ p \in lastRemoved[n]
        passed == ~OwnWrite(n, p) /\ ~ownRemoval
    IN
    /\ window[n][p] # {}
    /\ \/ window' = [window EXCEPT ![n][p] = AfterEvent(@)] /\ UNCHANGED left
       \/ Spend("event") /\ UNCHANGED window
    /\ lastRemoved' = [lastRemoved EXCEPT ![n] = IF ownRemoval THEN @ \ {p} ELSE @]
    /\ initial' = [initial EXCEPT ![n] = IF passed /\ ~joined[n] THEN @ \cup {p} ELSE @]
    /\ IF passed /\ joined[n]
       THEN IF gone THEN SendTombstone(n, p, Absent) ELSE SendFile(n, p, Absent)
       ELSE Mark(n, p, Absent) /\ UNCHANGED <<blobs, dedup, net>>
    /\ UNCHANGED <<tree, joined, flush, allow, up, ghost>>

FlushNext(n, p) ==
    /\ p \in flush[n]
    /\ flush' = [flush EXCEPT ![n] = @ \ {p}]
    /\ IF tree[n][p] = Absent
       THEN SendTombstone(n, p, lastWritten[n][p])
       ELSE SendFile(n, p, lastWritten[n][p])
    /\ UNCHANGED <<tree, window, lastRemoved, joined, initial, allow, up, left,
                   ghost>>

DedupExpires(n, p) ==
    /\ p \in dedup[n]
    /\ dedup' = [dedup EXCEPT ![n] = @ \ {p}]
    /\ UNCHANGED <<disk, window, lastWritten, lastRemoved, gate, mesh, left, ghost>>

-----------------------------------------------------------------------------
(***************************************************************************)
(* Receiving: dispatch_update.                                             *)
(***************************************************************************)
Take(n, u) ==
    /\ joined[n]
    /\ u \in net[n]
    /\ net' = [net EXCEPT ![n] = @ \ {u}]

Admitted(n, u) == u.from \in allow[n] /\ Resolves(tree[n], u.path)

\* The sender is not allowed here, or the path is not safe here.
Refuse(n, u) ==
    /\ Take(n, u)
    /\ ~Admitted(n, u)
    /\ UNCHANGED <<disk, window, marks, gate, allow, up, left, ghost>>

\* A file is unlinked; a directory cannot be.
Unlinks(n, p) == tree[n][p] \in Content

\* Mutant: the mark stays although there was nothing to unlink.
RemovedMarksKept(n, p) == lastRemoved[n] \cup {p}

\* The mark is set before the unlink and withdrawn if that fails.
RemovedMarks(n, p) ==
    IF Unlinks(n, p) THEN lastRemoved[n] \cup {p} ELSE lastRemoved[n] \ {p}

ApplyTombstone(n, u) ==
    /\ Take(n, u)
    /\ Admitted(n, u)
    /\ u.kind = "tombstone"
    /\ lastRemoved' = [lastRemoved EXCEPT ![n] = RemovedMarks(n, u.path)]
    /\ LET t == [tree[n] EXCEPT ![u.path] = IF Unlinks(n, u.path) THEN Absent ELSE @] IN
       /\ tree' = [tree EXCEPT ![n] = t]
       /\ window' = [window EXCEPT ![n] = Events(n, t, {})]
    /\ UNCHANGED <<blobs, lastWritten, dedup, gate, allow, up, left, ghost>>

\* Mutant: blobs are served to anyone.
FetchableByAll(n, u) ==
    \/ u.hash \in blobs[n]
    \/ {n, u.from} \subseteq up /\ u.hash \in blobs[u.from]

\* AllowlistBlobs of the announcing daemon serves those it allows.
Fetchable(n, u) ==
    \/ u.hash \in blobs[n]
    \/ /\ {n, u.from} \subseteq up
       /\ n \in allow[u.from]
       /\ u.hash \in blobs[u.from]

FetchFails(n, u) ==
    /\ Take(n, u)
    /\ Admitted(n, u)
    /\ u.kind = "upsert"
    /\ \/ ~Fetchable(n, u) /\ UNCHANGED <<left, past>>
       \/ Fetchable(n, u) /\ u.hash \notin blobs[n] /\ Spend("event") /\ past' = "lost"
    /\ UNCHANGED <<disk, window, marks, gate, allow, up, origin, audience, bonds,
                   wrote>>

\* The directory of n after the upsert: another content is kept as a backup.
\* Neither the file nor the backup can take the place of a directory.
Stored(n, u) ==
    LET p == u.path
        t == MakeDirs(tree[n], p)
        kept == BackupPath(p, u.from)
    IN  IF t[p] \in {Absent, u.hash} THEN [t EXCEPT ![p] = u.hash]
        ELSE IF t[p] = Dir \/ t[kept] = Dir THEN t
        ELSE [t EXCEPT ![kept] = t[p], ![p] = u.hash]

\* handle_upsert.  The rename to the backup may take along what the debouncer
\* holds of the path; the rename of the temporary file may count as a creation.
ApplyUpsert(n, u) ==
    LET p == u.path
        fits == u.hash \notin Oversize
        t == IF fits THEN Stored(n, u) ELSE tree[n]
        persisted == fits /\ t[p] = u.hash
        moved == persisted /\ tree[n][p] \notin {Absent, u.hash}
        held == {window[n][p]} \cup IF moved THEN {{}} ELSE {}
        event == {AfterWrite(w, FALSE) : w \in held}
    IN
    /\ Take(n, u)
    /\ Admitted(n, u)
    /\ u.kind = "upsert"
    /\ Fetchable(n, u)
    /\ blobs' = [blobs EXCEPT ![n] = @ \cup {u.hash}]
    /\ tree' = [tree EXCEPT ![n] = t]
    /\ \E w \in held \cup IF persisted THEN event ELSE {} :
           window' = [window EXCEPT ![n] = [Events(n, t, {}) EXCEPT ![p] = w]]
    /\ Mark(n, p, IF persisted THEN u.hash ELSE lastWritten[n][p])
    /\ UNCHANGED <<lastRemoved, dedup, gate, allow, up, left, ghost>>

-----------------------------------------------------------------------------
(***************************************************************************)
(* The swarm, the allowlists, and the processes.                           *)
(***************************************************************************)
Join(n) ==
    /\ n \notin up
    /\ up' = up \cup {n}
    /\ UNCHANGED <<disk, window, marks, gate, allow, net, left, ghost>>

\* The first NeighborUp of a process hands the queue to the flush task.  In the
\* stream of gossip events it comes before the first update.
NeighborUp(n) ==
    /\ Linked(n) \/ net[n] # {}
    /\ ~joined[n]
    /\ joined' = [joined EXCEPT ![n] = TRUE]
    /\ flush' = [flush EXCEPT ![n] = initial[n]]
    /\ initial' = [initial EXCEPT ![n] = {}]
    /\ UNCHANGED <<disk, window, marks, mesh, left, ghost>>

Disturbed == /\ past' = IF Quiet THEN past ELSE "lost"
             /\ UNCHANGED <<origin, audience, wrote>>

\* The connection is lost; gossip_joined stays.
Leave(n) ==
    /\ n \in up
    /\ Spend("event")
    /\ up' = up \ {n}
    /\ Disturbed
    /\ UNCHANGED <<disk, window, marks, gate, allow, net, bonds>>

\* The stream lags, or the update is lost with a connection.
Lose(n, u) ==
    /\ u \in net[n]
    /\ Spend("event")
    /\ net' = [net EXCEPT ![n] = @ \ {u}]
    /\ past' = "lost"
    /\ UNCHANGED <<disk, window, marks, gate, allow, up, origin, audience, bonds,
                   wrote>>

\* The process ends and starts anew: files, blobs and the allowlist stay.
Crash(n) ==
    /\ Spend("event")
    /\ window' = [window EXCEPT ![n] = [p \in Place |-> {}]]
    /\ lastWritten' = [lastWritten EXCEPT ![n] = [p \in Place |-> Absent]]
    /\ lastRemoved' = [lastRemoved EXCEPT ![n] = {}]
    /\ dedup' = [dedup EXCEPT ![n] = {}]
    /\ joined' = [joined EXCEPT ![n] = FALSE]
    /\ initial' = [initial EXCEPT ![n] = {}]
    /\ flush' = [flush EXCEPT ![n] = {}]
    /\ up' = up \ {n}
    /\ net' = [net EXCEPT ![n] = {}]
    /\ Disturbed
    /\ UNCHANGED <<disk, allow, bonds>>

AllowPeer(n, m) ==
    /\ m \notin allow[n]
    /\ Spend("event")
    /\ allow' = [allow EXCEPT ![n] = @ \cup {m}]
    /\ bonds' = bonds \cup IF n \in allow'[m] THEN {<<n, m>>, <<m, n>>} ELSE {}
    /\ Disturbed
    /\ UNCHANGED <<disk, window, marks, gate, up, net>>

RevokePeer(n, m) ==
    /\ m \in allow[n]
    /\ Spend("event")
    /\ allow' = [allow EXCEPT ![n] = @ \ {m}]
    /\ Disturbed
    /\ UNCHANGED <<disk, window, marks, gate, up, net, bonds>>

-----------------------------------------------------------------------------
User(n) ==
    \E p \in UserPath : \/ \E c \in Content : UserWrite(n, p, c)
                        \/ UserRemove(n, p)
                        \/ UserLink(n, p)

Receive(n) ==
    \E u \in net[n] : \/ Refuse(n, u) \/ ApplyTombstone(n, u)
                      \/ FetchFails(n, u) \/ ApplyUpsert(n, u)

\* What a daemon does by itself.
Internal(n) ==
    \/ \E p \in Place : Announce(n, p) \/ FlushNext(n, p) \/ DedupExpires(n, p)
    \/ NeighborUp(n)
    \/ Receive(n)

Environment(n) ==
    \/ Join(n) \/ Leave(n) \/ Crash(n)
    \/ \E u \in net[n] : Lose(n, u)
    \/ \E m \in Node \ {n} : AllowPeer(n, m) \/ RevokePeer(n, m)

Next == \E n \in Node : User(n) \/ Internal(n) \/ Environment(n)

\* Some daemon goes on as long as one can; users, the swarm and faults are free.
Spec == Init /\ [][Next]_vars /\ WF_vars(\E n \in Node : Internal(n))

-----------------------------------------------------------------------------
(***************************************************************************)
(* Properties.                                                             *)
(***************************************************************************)
\* Every variable has its type.
TypeOK ==
    /\ tree \in [Node -> [Place -> Entry]]
    /\ blobs \in [Node -> SUBSET Content]
    /\ window \in [Node -> [Place -> SUBSET Kind]]
    /\ lastWritten \in [Node -> [Place -> Content \cup {Absent}]]
    /\ lastRemoved \in [Node -> SUBSET Place]
    /\ dedup \in [Node -> SUBSET Place]
    /\ joined \in [Node -> BOOLEAN]
    /\ initial \in [Node -> SUBSET Place]
    /\ flush \in [Node -> SUBSET Place]
    /\ allow \in [Node -> SUBSET Node]
    /\ up \subseteq Node
    /\ net \in [Node -> SUBSET Update]
    /\ left \in [Bounded -> Nat]
    /\ past \in {"serial", "crossing", "lost"}
    /\ origin \in [Place -> Node]
    /\ audience \in [Place -> SUBSET Node]
    /\ bonds \subseteq Node \X Node
    /\ wrote \subseteq Node \X Content

File(n, p) == IF tree[n][p] \in Content THEN tree[n][p] ELSE Absent

\* As long as changes are made one at a time by daemons that are together, all
\* who could follow the last change of a path have the file of its author, also
\* after restarts, revoked grants, second events and echoes, and whatever
\* directories, links and files are elsewhere in the trees.
Agreement ==
    past = "serial" /\ Quiet => \A p \in Place : \A m \in audience[p] : File(m, p) = File(origin[p], p)

Contents(n) == {tree[n][p] : p \in Place} \cap Content
Closed(S) == \A t \in bonds : t[1] \in S => t[2] \in S

\* Contents spread only along pairs of daemons that have allowed each other at
\* some time: what is in a directory or blob store was written by a user of a
\* daemon reachable over such pairs, whatever one-sided grants there were.
OnlyTrustCarries ==
    \A S \in SUBSET Node : Closed(S) =>
        \A n \in S : \A c \in Contents(n) \cup blobs[n] :
            \E m \in S : <<m, c>> \in wrote

\* No update is about a hidden file or a conflict backup: a backup that was
\* announced would be backed up by the next daemon, and so on.
BackupsStayHome ==
    \A n \in Node : \A u \in net[n] :
        \A i \in 1 .. Len(u.path) : u.path[i] \in Name \ Hidden

\* Nothing is written through a link or below a file, whatever the users of the
\* receiving daemon have put where an update wants a directory.
StaysInside == \A n \in Node : WellFormed(tree[n])

\* Updates do not echo for ever: the marks stop each daemon from announcing what
\* it has received.
Settles == <>[]Quiet

\* When everybody allows everybody, no update was lost and nothing is on its
\* way, the same files are everywhere: of two crossing changes, one wins.
LastWriterWins ==
    /\ Quiet
    /\ past # "lost"
    /\ \A n, m \in Node : n # m => Mutual(n, m)
    => \A p \in Place : p \in Skipped \/ \A n, m \in Node : File(n, p) = File(m, p)
=============================================================================

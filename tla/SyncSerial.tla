----------------------------- MODULE SyncSerial -----------------------------
(***************************************************************************)
(* SyncNode in an environment that does one thing at a time: a user or a   *)
(* remote peer changes something only when the daemon has finished with    *)
(* the previous change.  Every interleaving of the daemon's own tasks, of  *)
(* the debouncer and of the first NeighborUp stays possible.  This is the  *)
(* regime in which the daemon is to keep the directory and the mesh equal. *)
(***************************************************************************)
EXTENDS SyncNode

CONSTANT AwaitTTL  \* whether changes also keep TOMBSTONE_DEDUP_TTL apart

ASSUME AwaitTTLAssumption == AwaitTTL \in BOOLEAN

Calm == Quiet /\ (AwaitTTL => dedup = {})

SerialNext ==
    (Calm /\ (User \/ Remote)) \/ Serve \/ NeighborUp \/ Fault \/ Internal

SerialSpec == Init /\ [][SerialNext]_vars /\ Fairness

\* Whenever the daemon has come to rest, each file is what the mesh was last
\* told of its path, unless the change waits for the first neighbour or is too
\* large to be announced: no local change is swallowed as an echo, none is
\* announced out of date, and no update is lost between the tasks.
QuietAgreement ==
    Quiet => \A p \in Path :
        \/ fs[p] = mesh[p]
        \/ p \in initial
        \/ {fs[p], mesh[p]} \cap Oversize # {}

\* At rest no suppression mark is out of date: none is left for a removal, and
\* a last_written mark is the hash of the file as it is.  A mark that outlived
\* its file would suppress a later genuine change.
QuietMarksFresh ==
    Quiet => /\ lastRemoved = {}
             /\ \A p \in Path : lastWritten[p] \in {Absent, fs[p]}

\* Each change is worked off: the daemon always comes to rest again, so an
\* applied update never echoes for ever between its own tasks.
ComesToRest == []<>Quiet

\* Eventual agreement: once a neighbour has been up and a file stays as it is,
\* the mesh is told so and not told otherwise any more.
SettlesOnMesh ==
    \A p \in Path : \A c \in MaybeContent \ Oversize :
        <>[](joined /\ fs[p] = c) => <>[](mesh[p] = c)
=============================================================================

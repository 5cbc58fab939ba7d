# A verification of dirhive

dirhive keeps the files of one directory equal on a small group of machines. Each
machine runs one daemon; the daemons find each other through iroh, announce changes
over iroh-gossip and fetch contents over iroh-blobs. This directory holds TLA+ models
of that program, the TLC configurations that check them, and proofs of their main
safety properties checked by TLAPS. Paths below are relative to the repository.

1. [The system](#1-the-system)
2. [Modules and the code they model](#2-modules-and-the-code-they-model)
3. [Runs](#3-runs)
4. [Fairness](#4-fairness)
5. [Proofs](#5-proofs)
6. [Disagreements found](#6-disagreements-found)
7. [What is not modelled](#7-what-is-not-modelled)
8. [Plan](#8-plan)

How to run, in this directory: `tlc -workers 2 -config node_free.cfg MCSyncNode`,
`tlapm SyncNodeProofs.tla`. `PROJECT.json` lists, machine-readably, the runs, the
source lines of every definition, the mutations each property is tested with, the
hazards and the theorems.

## 1. The system

### Components, their state and their operations

| component | source | state it keeps | operations |
|---|---|---|---|
| watcher | `watcher.rs`, closure in `bin/dirhive.rs:331-441` | the debouncer's window per path, an mpsc channel of events | debounce, skip rules, take an event, suppress echoes, decide between change and removal, hand over to sending |
| senders | `send.rs`, `bin/dirhive.rs:249-301` | none of their own; two tasks run the same code: the watcher loop and the flush task of the first neighbour | `send_file`, `broadcast_tombstone` |
| receive loop | `receive.rs`, `conflict.rs` | one update at a time | allowlist check, `handle_upsert` (guard, fetch, conflict backup, temporary file, rename, marks), `handle_tombstone`, NeighborUp/Down callbacks |
| SyncState | `state.rs` | `pending_written`, `last_written`, `last_removed`, tombstone dedup table | set, take, clear; shared by the three parts above through short-lived mutexes |
| gate | `daemon/state.rs:170-262` | `gossip_joined`, `pending_initial_broadcasts`, `last_seen_at` | `mark_first_join`, `enqueue_initial_broadcast`, `drain_pending_initial`, `mark_peer_seen` |
| blob serving | `allowlist_blobs.rs` | none | accept a connection of an allowed peer, note it as seen |
| pending log | `pending_log.rs` | one JSON file per applied update | `record_receive`, `list_pending` |
| allowlist | `allowlist.rs`, `daemon/dispatch.rs` | list in memory (mutex `inner`), `allowlist.json`, `persist_lock` | load, `contains`, `add_and_save`, `remove_and_save`, both with rollback |
| group | `daemon/dispatch.rs`, `keystore.rs`, `bootstrap_peers.rs`, `runtime.rs` | `folder-secret.bin`, `bootstrap-peers.json`, RuntimeStatus, the subscribed topic | `invite`, `accept-invite`, `allow-peer`, `revoke`, restart |
| path rules | `message.rs:validate_relative_path`, `send.rs:resolve_safe_path`, `watcher.rs` skip rules, `conflict.rs` | none; they read the directory | accept a path, drop an event, name a backup, create parent directories |
| lifecycle | `bin/dirhive.rs` `main`, `daemon/listener.rs` | `daemon.lock` (flock), `daemon.sock`, the iroh stack, signal streams | start, stale-socket probe, bind, orderly shutdown, failed start |
| RPC listener and client | `daemon/listener.rs`, `daemon/client.rs` | a semaphore of 32 connections | accept, refuse, answer, the client's time-out |
| recent log | `daemon/dispatch.rs:286-420` | the daemon's log file | read the end of it, redact secrets |
| MCP server | `bin/dirhive-mcp.rs` | none | one RPC per tool |
| wire format, tickets | `message.rs` | none | encode, decode, validate |
| plugin, install and sandbox scripts | `plugin/`, `sandbox/` | none | install, smoke tests |
| keys, paths, health check | `keystore.rs`, `paths.rs`, `lib.rs` | the endpoint key | read, or made once at startup |

### How they interact

* **Shared memory.** The watcher closure, the flush task and the receive loop are tokio
  tasks of one process. They share `SyncState` and `DaemonState`: every access is a
  lock, one read or write, an unlock. What one of them read may be out of date at its
  next `.await`.
* **The directory.** The receive loop writes the directory the watcher watches. Every
  applied update may come back as an event, which the marks of `SyncState` are to
  recognise.
* **Callbacks.** The receive loop calls the daemon back on NeighborUp (the first one
  drains the gate and spawns the flush task) and after an applied update (last seen).
* **Messages.** Daemons exchange `Update`s, broadcast without acknowledgement and lost
  when no neighbour is up, and blobs, fetched from the peer that announced them.
* **RPCs.** Each connection gets a task of its own, so two handlers of one daemon run
  at once. They change the allowlist under `persist_lock`, the other files under no lock.
* **Processes.** Two runs of the binary meet in the flock, the socket file and the blob
  store.

### What is hard, and what makes each component correct

| component | hard behaviour | correctness |
|---|---|---|
| SyncNode (watcher, senders, receive loop, marks) | echoes of own writes; marks that outlive their event; two senders in parallel; a path that is missing between two renames; errors in the middle of `handle_upsert`; crash anywhere | at rest, directory and mesh agree; no mark is out of date; marks are cleared on every error path; the daemon comes to rest; nothing is lost that a backup was to keep |
| gate | the flag and the queue are two objects, read and written by two tasks | no path is left in the queue; nothing is broadcast before a neighbour is there |
| allowlist | memory changes before the file; a save can fail while others wait; readers see unsaved changes | memory and file agree whenever no save is under way; concurrent calls look like single changes; a failed save leaves no trace; the lock comes back |
| group | load-then-save without a lock; a restart makes a secret effective; partial failures; resets | a ticket stays valid; an accepted invitation is complete; both sides meet in one topic, or one of them asks for a restart |
| lifecycle | SIGKILL leaves a stale socket; a stopping process overlaps the next one; setup fails half way | who serves is reachable; a stale file blocks nobody; one process at a time has the iroh stack open, but for endings |
| several daemons | updates in flight when the next change is made; loss; restarts; one-sided grants; a file here where a directory is there; links | directories agree after changes that do not meet; contents stay with those who trust each other; echoes die out; nothing is written outside of the directory |
| listener | the limit on connections; a stop while requests are in flight; a client that has given up while its request is carried out | every connection gets an answer or an end, and its permit returns; an answer tells what has happened; an acknowledged change stands |
| pending log | read while it is written; names that may coincide; a crash while writing | a listing does not fail and misses nothing that was there; entries are not replaced |
| recent log | two passes whose patterns may overlap; runs of just the minimal length | exactly the secrets go |

The full list of hazards, each at its line with the properties that cover it, is
under `hazards` in `PROJECT.json`.

## 2. Modules and the code they model

| module | stands for |
|---|---|
| `SyncNode` | one daemon that synchronises its directory: users, debouncer, watcher closure, gate, both senders, receive loop, marks, pending log, blob serving, faults, crash |
| `SyncSerial` | `SyncNode` in an environment that makes one change at a time; the agreement properties |
| `MCSyncNode` | bounds for TLC |
| `AllowListSpec` | what the allowlist promises: a list and its stored copy that change together |
| `AllowList` | `allowlist.rs` and the RPC handlers that change it, lock by lock |
| `Group` | several daemons: invite, accept-invite, allow-peer, revoke, restart, reset |
| `Daemons` | several runs of the binary over one data directory, and the RPC connections |
| `Debouncer` | what notify-debouncer-full holds for one path; used by `SyncNode` and `Mesh` |
| `Paths` | the rules on paths, as operators over sequences of components and trees |
| `Mesh`, `MCMesh` | several daemons, their directories with subdirectories and links, and the updates in flight between them; extends `Paths` and `Debouncer` |
| `Records` | the pending log and `last_seen_at`: one writer, any number of readers |
| `Redaction` | `redact_secrets`, against a definition of what a secret is |
| `Control`, `MCControl` | RPCs from the client's connect to its answer; composes `AllowList` (as an instance), `Records` and `Redaction` |
| `SyncNodeProofs`, `SyncSerialProofs`, `AllowListProofs`, `GroupProofs`, `DaemonsProofs`, `PathsProofs`, `MeshProofs`, `ControlProofs` | theorems about the module they are named after |

Two modules stand for the synchronisation itself, at two grains. `SyncNode` is one daemon
whose tasks interleave step by step, against an environment that only receives;
`Mesh` is several daemons each of whose handlers is one step, with everything that can
happen between daemons. A bug that needs both at once is found by neither.

### SyncNode

A file content stands for itself and for its BLAKE3 hash. A step is what one task does
between two points at which another one can run: an `.await`, or the release of a mutex.

| variable | code |
|---|---|
| `fs`, `backup` | the files, and the `<name>.conflict-local-<peer8>` files |
| `blobs`, `journal` | the iroh blob store, the pending log |
| `window`, `queue` | the debouncer's state per path, the mpsc channel of `watcher.rs` |
| `pendingWritten`, `lastWritten`, `lastRemoved`, `dedup` | `SyncState` |
| `joined`, `initial`, `flushList` | `gossip_joined`, `pending_initial_broadcasts`, what the spawned flush task still has to send |
| `snd["watcher"]`, `snd["flush"]`, `rcv` | program counter and locals of the three tasks |
| `seen` | `last_seen_at` |
| `linked`, `mesh` | environment: a neighbour is there; what the other peers were last told of a path |
| `left` | what is left of the budget for user changes, updates, faults, crashes and double events |

The watcher closure is `TakeEvent` (the `last_written` mark is taken, whatever it is),
`CompareMark` (the file is hashed), `Decide` (removal or change, `last_removed`),
`PassGate`. From there a removal goes `CheckDedup`, `TellTombstone`, a change
`ReadFile`, `Publish`, `RecordSent`; the flush task (`FlushNext`) runs the same steps.
`handle_upsert` is `Fetch`, `CheckConflict`, perhaps `RenameToBackup`, `Persist`,
`CommitUpsert`, `JournalApplied`; `handle_tombstone` is `Unlink`, `JournalApplied`.
Each fallible call has its failing step: `SendFails`, `FetchFails`, `CheckUnreadable`,
`UpsertFails`, `UnlinkFails`, and the failing branch of `JournalApplied`. `Crash` may
come between any two steps and leaves the disk alone.

External, modelled from how the code uses it:

* *The debouncer* (notify-debouncer-full): per path at most one creation or
  modification and one removal before it; a removal cancels a creation still held; one
  change may yield two events (`dup`), which the comment at `send.rs:188` reports; a
  rename inside the directory is one event with both paths. Whether a rename *into* a
  path by the daemon itself yields an event depends on the platform, so both are possible.
* *The mesh*: a broadcast reaches everybody when a neighbour is there and nobody
  otherwise. `mesh` starts equal to `fs`: the program has no initial scan, so equal
  directories are what it presupposes.

`SyncSerial` lets a user or a remote peer act only when the daemon has come to rest
(`Calm`). For crossing changes the promise of `docs/design.md:12` ("last-writer-wins +
conflict backup") does not hold, as the run `crossing` shows, so the agreement
properties are claimed for changes that do not cross; every interleaving of the
daemon's own tasks, the debouncer and the first NeighborUp remains. The safety
properties of `SyncNode` are claimed for arbitrary crossing.

### Paths and Mesh

A path is the sequence of its components; `Unsafe` and `Hidden` are the components that
`validate_relative_path` and the skip rules name, and a backup's last component is the
pair of a name and a peer. A tree gives each path `Absent`, `Dir`, `Link` or a content.
`Resolves` is the loop of `resolve_safe_path`, component by component, up to the first
that is missing; `MakeDirs` is `create_dir_all` on the parent.

| variable of `Mesh` | code |
|---|---|
| `tree`, `blobs` | each daemon's directory and blob store |
| `window` | raw events its debouncer holds, per path |
| `lastWritten`, `lastRemoved`, `dedup` | its `SyncState` (`pending_written` is set and cleared within one step) |
| `joined`, `initial`, `flush` | as in `SyncNode` |
| `allow` | its allowlist |
| `up`, `net` | who is in the gossip swarm, and the updates on their way to each daemon, as a set: gossip drops duplicates, and any order is possible |
| `left` | what is left of the budgets: user changes, those made in a hurry, environment events |
| `past`, `origin`, `audience`, `bonds`, `wrote` | ghosts: how changes have met so far, who changed a path last and who could follow, which pairs have ever allowed each other, who wrote which content |

`Announce` is the watcher's closure with `send_file` or `broadcast_tombstone`;
`FlushNext`, `NeighborUp` are the gate; `Refuse`, `ApplyTombstone`, `FetchFails`,
`ApplyUpsert` are `dispatch_update` with what it calls. `Fetchable` is the accept check
of `AllowlistBlobs` at the announcing daemon. `Leave`, `Lose`, `Crash`, `AllowPeer`,
`RevokePeer` are the environment.

What `Agreement` counts in is said by the ghosts, and each exception is one of the code:

* `past = "serial"`: each change was made by a daemon that is in the swarm after the one
  before it had arrived everywhere. A change with no neighbour up is broadcast to nobody
  and never repeated (`receive.rs:140` keeps `gossip_joined`).
* `audience`: those who allow the author and are allowed by it, where the path resolves,
  and who have no directory where the file or its conflict backup goes: `handle_upsert`
  cannot rename over a directory, fails, and leaves the file as it is. A directory at the
  backup's path came to light in the proof of `Agreement`, not in a run: no path of the
  run is a backup with something below it.
  A deletion needs less in the code: its receiver allows the author. `docs/design.md:546`
  says that a one-sided allow stops both directions; deletions do pass.
* `Resaved`: a file saved again as it was. The mark that `send_file` leaves
  (`send.rs:175`) makes the watcher pass the next event over (`bin/dirhive.rs:361`), so a
  peer allowed in between does not get the file from such a save.
* A removed directory is announced as a tombstone (`bin/dirhive.rs:376`), which deletes a
  file of the same name at a peer, without a backup. A directory that is left over at a
  peer cannot be unlinked, and refuses files of its name later; it is then not in the
  audience.

### Records and Redaction

`Records` counts time in ticks, several to the second. `Receive` takes the time,
`BeginRecord` makes the file's name and the temporary file, `Persist` renames it,
`MarkSeen` is `mark_peer_seen` of the receive loop and `Served` that of a served
connection, which reports its end late. `list_pending` is `BeginScan`, `ReadEntry` per
file, and the cut in `Newest`. A name takes its second from the beginning of the handling
and its nanoseconds from the end (`pending_log.rs:86`): two entries for one path may get
one name, but only across a second boundary (`ReplacedOnlyAcrossSeconds`).

`Redaction` has a line as a sequence of tokens: a ticket prefix, a hex digit, a separator,
anything else. `WithoutTickets` is `redact_pattern` and `WithoutHex`, with `Flushed`, is
`redact_hex_token`, character by character. Each token that goes leaves a mark in its
place, where the code writes one `<redacted>` for all that go together: so
`RedactsSecrets` can compare what is shown with what is no secret, place by place.

### Control

A caller is one call: the client's side (`client`, `told`), the socket (`reply`) and the
daemon's side (`server`, `outcome`). `Connect`, `Send`, `GiveUp` (`RPC_TIMEOUT`), `Hear`
are `daemon/client.rs`; `Accept` with its permits, `ReadTimesOut`, `RejectRequest`,
`Dispatch`, `Answer` are `accept_loop`, `handle_one` and `dispatch`. `ChangeList` is a
step of `AllowList` taken for the call, and `Result` what `allow_peer` or `revoke` makes
of it. A client that gives up leaves its request in the socket: the daemon reads it and
carries it out. `done` counts the saves of a call; `calm` and `firm` record which change
has been acknowledged with no call to the contrary at any time since it began. That
condition is needed: a revoke whose client has given up may be carried out after a later
allow-peer has been acknowledged. `status`, `health-check` and `list-peers` only read.

### AllowList and AllowListSpec

`mem`, `file`, `holder`, `call`, `flag` are `AllowListInner`, `allowlist.json`, the owner
of `persist_lock`, the RPC tasks' locals, and `--allow-open-all`. `add_and_save` and
`remove_and_save` are `Acquire`, `Update` (under `inner`: remember, change, serialise),
`Write`, `Undo` after a failed write, `Release`. `AllowPeer` and `Recheck` are the two
separate looks of `allow_peer`. `Restart` may come anywhere, with or without the flag,
and with the file deleted. The refinement mapping takes for `list` the list without the
update whose save is still under way (`Committed`), so that `Write` is the abstract step
and a failed save is none.

### Group

A step is one load or save of a file. `files` are `folder-secret.bin`, the allowlist and
`bootstrap-peers.json` of each daemon; `topic` and `status` are the process's
subscription and RuntimeStatus; `call` are the RPC tasks. `invite` is `Invite`,
`PersistSecret`, `Enter`, `AnswerInvite`; `accept-invite` is `AcceptInvite`,
`PersistSecret`, `Enter`, `GrantInviter`, `LoadPeers`, `SavePeers`, `AnswerAccept`, with
the short way for a daemon that has the secret already. `tickets` and `accepted` record
what was answered, and forget it when the operator resets the daemon (`DeleteSecret`).
The allowlist changes in single steps here, which `AllowList` shows it does.

### Daemons

`pc` follows `main`: `lock`, `probe`, `stale`, `stack`, `bind`, `tasks`, `serve`, and then,
in the order of `main` and of `Drop for ListenerHandle`, `unlink`, `unlock`, `shutdown`,
`off`. The listener answers from `tasks` on, where the background tasks are spawned; if
`spawn_watcher` fails there, `main` leaves by `drop`, `dropped`, `abort` (`TasksFail`).
`bind_listener_with_lock` owns the lock file: if it fails the lock is free while the
stack is still open (`BindFails`). `stop` is the signal the streams keep. `conn`, `host`
are the connections as their clients see them. A run of the binary is used once; a
restart is another member of `Process`.

In every module definitions that begin with a comment "Mutant:" are deliberate
mutations of the definition below them. Nothing uses them in the specification; they
document what each property is able to catch.

## 3. Runs

| run | checks | instance | states |
|---|---|---|---|
| `node_free` | `TypeOK`, `PendingMarkScoped`, `NoPathLeftBehind`, `NothingSentBeforeJoin`, `OnlyAllowedTraces` | 2 paths, 3 contents of which one is too large, an allowed and a foreign peer; 2 user changes, 1 update or served blob, 1 fault, 1 crash, in any order | 6,667,916 |
| `node_serial` | `QuietAgreement`, `QuietMarksFresh`, `ComesToRest`, `SettlesOnMesh` | 1 path, 3 contents; 3 user changes and 2 updates, one at a time, one double event | 206,224 |
| `mesh` | `TypeOK`, `Agreement`, `OnlyTrustCarries`, `BackupsStayHome`, `StaysInside`, `Settles` | 2 daemons, one of which allows the other at first; the paths `x` and `x/y` and their backups, 2 contents, links; 4 changes of which 1 hurried, 1 environment event | 966,622 |
| `allowlist` | `TypeOK`, `Durable`, `Atomic`, `LockReturns` | 2 peers, 2 infos, 2 concurrent callers, unbounded failures and restarts | 142,012 |
| `group` | `TypeOK`, `RestartAsked`, `TicketsStayValid`, `AcceptedIsComplete`, `GroupMeets`, `TicketUsable` | 2 daemons, 2 secrets, 1 RPC at a time, 1 failed save, 1 reset | 435,688 |
| `daemons` | `TypeOK`, `ServingReachable`, `BindUnblocked`, `NothingLeft`, `OverlapOnlyAtEnd`, `ConnectionsEnd` | 3 processes, 2 connections, room for 1 | 377,688 |
| `control` | `TypeOK`, `AnswersTrue`, `AcknowledgedStays`, `ListingTrue`, `ReplacedOnlyAcrossSeconds`, `LogShowsNoSecrets`, `ListAtomic`, `SeenGrows`, `TasksEnd` | 3 callers with 2 permits in 4 scenarios (two grants and a revoke of one peer; a listing beside the receive loop over 5 ticks; every log line of up to 4 tokens; a silent and a broken client beside a revoke), 1 restart | 752,555 |
| `dedup_window` | `QuietAgreement`, violated | 1 path | see [6](#6-disagreements-found) |
| `crossing` | `LastWriterWins`, violated | 2 daemons that allow each other, 2 writes | |
| `accept_race` | `AcceptedIsComplete`, violated | 2 daemons, 2 RPCs at once | |
| `phantom_grant` | `AlreadyIn`, violated | two grants of one peer at once | |
| `two_stacks` | `OneDaemon`, violated | 2 processes | |

What the passing runs show:

* `node_free`: the suppression mark, the gate and the checks on incoming updates survive
  any interleaving, failure and restart.
* `node_serial`: with changes one at a time (and `TOMBSTONE_DEDUP_TTL` apart) every
  local change is announced, no applied update is announced back or echoed for ever, no
  mark is left to swallow a later change, and what is announced is the newest state,
  also while the flush task and the watcher loop send at once.
* `mesh`: changes that do not meet reach everybody who is to follow, also after a hurried
  change, a crash, a loss, a grant or a revocation has gone before; contents pass only
  between daemons that have allowed each other; no link leads an update out of the
  directory; and no exchange of updates goes on for ever, not even of crossing ones.
* `allowlist`: concurrent RPCs on the allowlist, with failed saves, are atomic.
* `group`: invitations lead both sides to one topic, whatever fails and restarts.
* `daemons`: start, stop and kill of several processes leave every serving daemon
  reachable and every client answered or disconnected.
* `control`: what a client is told is what has happened, also when calls race with saves
  that fail, a client gives up, or the daemon dies; the list changes by whole calls, as
  no handler ends with its client; a listing is complete although the
  receive loop adds entries; every log line loses its secrets and nothing else.

### The bounds, and why they suffice

* *Paths.* All marks, the dedup table and the queue entries are per path; paths interact
  in the order of `queue` and of `flushList` and in which of them `snd` and `rcv` work
  on, for which two paths suffice. The agreement properties speak about one path, and
  with one change at a time a second path adds only interleavings of independent steps:
  `node_serial` has one, and they are proved for any number. In `Mesh` paths interact when one is a directory on the way to
  another: `x` and `x/y` are such a pair.
* *Contents.* Old, new and one to restore are three; one above `MAX_FILE_SIZE` is needed
  for the refusals. `mesh` has two, and no hidden, unsafe or oversized ones: skipped
  paths occur there as backups, and the proofs leave those sets arbitrary.
* *Daemons.* `Agreement` relates the author of a change to one follower, and a third
  daemon receives the same broadcast as the second. In `OnlyTrustCarries` chains of
  daemons matter. All safety properties of `mesh` are proved for any number.
* *Changes.* A stale mark needs a change that leaves it, the one that invalidates it,
  and the one it wrongly suppresses: three user changes and two updates cover every
  mixture of them. `mesh` has four, after one of which the state is that of crossing or
  interrupted exchanges. `node_free` has fewer, as its properties are about one update
  and the changes around it; they are proved for all bounds as well.
* *Faults, crashes, events.* One of each, anywhere. What `node_free` checks, and the
  invariants of `mesh`, are proved for any number.
* *Callers, RPC tasks, processes.* Two callers race; a third only waits, or calls for the
  contrary. Two tasks are enough for the race of `accept_race`. Three processes are one
  that stops, one that serves and one that starts. All of these are arbitrary in the
  proofs.
* *Scenarios.* Calls interact through the allowlist, or through the permits: the
  scenarios of `control` keep independent ones apart. The handlers that change the
  list, and the permits, are arbitrary in the proofs.
* *Time, log lines.* Five ticks, two to the second, let a handling begin and end in
  different seconds, twice. With a minimum of two digits (32 in the code) four tokens
  hold a run below, at and above it, and one beside a ticket.
* `MaxInFlight = 1` and `Permits = 2` stand for 32: the limit is reached and exceeded.

Deadlock is not checked in the SyncNode, Mesh, Daemons and Control runs: budgets run out,
calls and processes end, and then the modelled world really stops. It is checked in
the AllowList and Group runs.

## 4. Fairness

* `SyncNode`: weak fairness of the watcher task, of each sender, of the receive loop
  (tokio polls a task that can go on), of each path's debounce timer, of the flush
  task's next path and of the expiry of a dedup entry (time passes). For the receive
  loop it also says that a fetch ends, with or without success; the code sets no limit
  of its own, so a source that never answers blocks the loop, which is listed as a
  hazard. Nothing is assumed of users, peers, neighbours, faults or crashes.
* `Mesh`: weak fairness of "some daemon goes on": while anything is pending somewhere,
  some handler runs. That a particular one runs is not assumed. Users, the swarm, faults
  and grants are free, but bounded in number: `Settles` says that a finite number of
  changes leads to finitely many updates.
* `Control`: weak fairness of accept and of the task of each connection. A handler reads
  with a time limit (`CONNECTION_READ_TIMEOUT`, `listener.rs:298-343`), so a client that
  sends nothing does not hold it up; clients are free. The answer is written without a
  time limit (`listener.rs:345`): the model takes for granted that the reader reads it or
  goes away.
* `AllowList`: weak fairness of each task that has begun. Nothing says which waiter gets
  `persist_lock`, and `LockReturns` needs none of that.
* `Daemons`: weak fairness of a shutdown whose signal has come, of accept and of answer
  (a handler has a time limit on reading, `listener.rs:298-343`). None of a start:
  `endpoint.online()` has no limit.
* `Group`: none; its properties are safety properties.

## 5. Proofs

All theorems hold for every value of the constants that satisfies the named
assumptions of the modules: contents exclude `Absent`, peers and paths exist, bounds are
naturals, the "nobody" values are none of the others. TLC evaluates these assumptions.

| module | theorems | inductive invariant, and why it is needed |
|---|---|---|
| `SyncNodeProofs` | `Typing` | the types, with `HashKnown`: while `handle_upsert` works, the announced hash is a content. Without it `Fetch` could add `Absent`, the hash of a tombstone, to the blob store |
| | `MarkScoped` | `PendingMarkScoped` is inductive by itself given the types |
| | `GateForgetsNothing`, `GateHoldsBack` | `GateInv`: both halves of the gate, and `rcv.pc = "drain" => joined`. The flag is set before the queue is drained; alone, neither half excludes a drain before a join |
| | `OnlyAllowedLeaveTraces` | `UpdateVetted`: the update at hand comes from an allowed peer, and past the fetch is not too large. The checks are made once, early; the invariant carries them to the steps that write |
| `SyncSerialProofs` | `MarksFresh` | assumes `Faultless`. `FreshInv`: every event on its way is true of the file as it is (`EventInv`), so is what a sender has read of it (`KnowsInv`), and a mark that is out of date has the event on its way that takes it (`WrittenFresh`, `RemovedFresh`). That holds for the reason `PhaseInv` gives: an update begins when the daemon rests, and what its writes set going comes after them. Crashes are allowed |
| | `RestAgrees` | assumes `Lossless`. `AgreeInv`, on top of the former: where directory and mesh differ somebody is about to see to it (`AccountedInv`), and whatever would make that one pass it over, a mark or the dedup table, is about something the mesh has already (`SentInv`, `DedupInv`) |
| `AllowListProofs` | `Typing`, `Durability`, `Refinement` | `LockInv` (a task is between acquire and release iff it holds the lock) and `UpdateInv` (between update and save the list in memory is what was serialised): so at most one update is unsettled, undoing it restores the committed list (`UpdateRestored`), and `Recorded` (the committed list is the stored one) is inductive. `Refinement` maps `Write` to `Grant`/`Revoke`, `Restart` to `Restart` and every other step to a stutter |
| `GroupProofs` | `Typing`, `RestartIsAsked` | `RestartAsked` is inductive with the types, for any number of concurrent RPCs |
| | `AnswersKept`, `TicketsStay`, `TicketsUsable`, `Meeting` | under `Serial` (one RPC task per daemon): `SerialInv` says what an RPC may rely on at each step (`Reliable`), for instance that the secret it has loaded is still the one on disk; `Untold` says that a secret saved but not yet noted has been told to nobody. `accept_race` shows that `Serial` cannot be dropped |
| `DaemonsProofs` | `Typing`, `LockAndSocket`, `Reachable`, `Unblocked`, `LeavesNothing`, `Overlap` | `LockHeld` (where a process is iff it holds the lock) and `SocketOwned` (where the owner of the socket file may be): the properties say something of one process, the invariant what the others cannot be doing meanwhile |
| `PathsProofs` | `ResolveExact`, `AcceptedStaysInside` | no invariant: in a tree where nothing is below a file or a link, `resolve_safe_path` accepts exactly the paths one would want, and writing at an accepted path keeps the tree so. `Resolves` stops at the first missing component; that the tree is well formed is needed to know that nothing is hidden behind it |
| `MeshProofs` | `Typing` | the types alone are inductive; `BackupPath` stays in `Place` by assumption |
| | `Inside` | `StaysInside` with the types, by the theorems on paths: user changes and updates alike keep a tree well formed |
| | `BackupsLocal` | `NoneSkipped`: neither the debouncer, nor the queue of the gate, nor the flush list, nor the network has a path to be skipped. The property speaks of the network only, where the rule is not applied any more |
| | `TrustCarries` | `Trusted`: the property with `BondsCover` (whoever allow each other now are a pair the ghost has recorded). A fetch needs the fetcher to allow the sender and the sender to allow it; the invariant turns these two checks at two daemons into one pair |
| | `Agree` | `SerialInv`, with the three above: as long as changes have been made one at a time, all that goes on is that one path has become one thing. Every update in flight says so, every pending event is about it or yields nothing (`FocusInv`); marks have the event that consumes them, or are about the file as it is (`MarksInv`); and whoever is to follow has the file, or has the author's update coming and nothing in the way of it, or the author has an event it is going to announce (`AccountedInv`). The property speaks of rest only; the invariant says at every step who still owes what to whom |
| `ControlProofs` | `Answers` | `CallsOK`: per call, how outcome, answer, task and number of saves go together. The property compares what the client was told with saves long past; the invariant carries that through dispatch, save, rollback, answer, time-out and restart |
| | `Acknowledged` | `ListInv` (as `LockInv`, `UpdateInv` and `Recorded` of `AllowListProofs`) and `FirmInv`: whatever was acknowledged, or has been saved for a call that nobody opposes, stands on disk, and no call against it is in flight (`Unopposed`). What a save under way may still undo is an update of the same kind, so memory agrees too |
| | `Typing`, `SeenNotBack` | the types are inductive, `SeenNotBack` follows from them: `mark_peer_seen` keeps the later of two times, in whatever order served connections and the receive loop report |
| | `ReplacedLate` | `LoopInv` and `LogInv`: every name on disk was made at some time in the past, before the name that is about to be used, with the nanoseconds of that time and a second no later than it. If the two are equal, the times differ by whole seconds, so that the later handling has crossed one |
| | `ListingWhole` | `ScansOK`: a listing has read finitely many entries and met no broken one, and one that has ended has read all that was there when it began and shows the newest of what it read. That no entry is ever broken is `LogInv`: a temporary file gets its name when it is whole |
| | `AtomicByCalls` | by composition: `ListSteps` shows that calls touch the list by steps of `AllowList` only, and a restart of `Control` is one of its restarts, so the refinement of `AllowListProofs` applies. With it the allowlist implements `AllowListSpec` also where clients leave in the middle of a save |
| | `LogRedacted` | no invariant but the types: `RedactionExact` says of every line that `Redact` removes exactly its secrets. It is an induction over the line; the library's induction takes an operator, which the prover cannot instantiate, so `PlaceInduction` says it of sets of places, from the well-foundedness of `<`. For each loop a closed form of what it has after place `i` is shown to satisfy the loop's equation, and then to be the only solution (`TicketsGo`, `HexGoes`) |

`AllowListProofs` proves its invariants for `Steps`, the specification without fairness,
so that `ControlProofs` can use them through an instance for `AtomicByCalls`. It has a
`ListInv` of its own all the same: `FirmInv` compares memory and disk peer by peer.

The two theorems of `SyncSerialProofs` are about less than all environments, and say
which. `Faultless`: no step fails, and no user renames within the directory. Both are
needed: when `handle_upsert` fails between the rename to the backup and the persist
(`receive.rs:361-382`), the file has gone without an event, and its mark stays; and of a
rename only one path is looked at.
`Lossless` adds that the daemon does not crash, as an event that has not been announced
is lost with the process, and that changes are further apart than
`TOMBSTONE_DEDUP_TTL`, which `dedup_window` shows to be needed. The run `node_serial` is
an instance of both, so neither is empty. `Agree` assumes nothing: what it
is not about is left out by the ghosts of `Mesh`, which see crashes, losses, grants and
crossing changes happen.

The inductive invariants of `MarksFresh`, `RestAgrees` and `Agree` were first checked by
TLC on small instances (`FreshInv` and `AgreeInv` with two paths, `FreshInv` with a crash,
`SerialInv` with two and with three daemons).

With that every safety property of a passing run is proved, the two of `node_serial`
and four of `group` under the hypotheses named above. Only model-checked are the liveness
properties `ComesToRest`, `SettlesOnMesh`, `Settles`, `LockReturns`, `ConnectionsEnd` and
`TasksEnd`: liveness under fairness is out of the prover's reach.

## 6. Disagreements found

Each is a run that TLC ends with a counterexample. `PROJECT.json` quotes the lines.

| run | what happens |
|---|---|
| `dedup_window` | A file is deleted, recreated and deleted again within 2 s: the second deletion is taken for a duplicate event of the first and is never announced. |
| `crossing` | Two daemons change one file at the same time: each takes the other's version, keeps a backup of its own, and announces nothing. The directories differ for good. |
| `accept_race` | Two concurrent accept-invites (or an invite and an accept-invite) both find no secret; one is answered with success and overwritten. |
| `phantom_grant` | `allow_peer` finds the entry another allow-peer has in memory before its save, and answers that the peer is in already; the save fails, the entry is rolled back. |
| `two_stacks` | An orderly shutdown unlinks the socket and frees the lock before the router is shut down: the next daemon opens the blob store and the endpoint meanwhile. `OverlapOnlyAtEnd` states what remains true. |

Met while modelling, in the models as the code does it, and without a run of their own:

* A file renamed inside the directory: only the first path of the event is used
  (`watcher.rs:182`), the old name is announced as removed and the new one never.
* An event with one path to be skipped is dropped whole (`watcher.rs:127`): a backup
  renamed back over its file, or an editor that renames a temporary file over its
  target, is not announced.
* A second conflict with the same peer renames over the first backup (`conflict.rs:32`).
* `docs/design.md:447` has the watcher look at `pending_written`; the code does not.
  Between the rename to the backup and the persist an event of the path is announced as
  a removal.
* `sync.revoke` under `--allow-open-all` saves `open_all: true` (`allowlist.rs:240`), so
  the next start without the flag is open; `docs/design.md:545` ties open to the flag.
* A crossing tombstone deletes a local edit without a backup: only upserts make one.
* A file of the pending log that cannot be read fails `list-pending` while `status`
  counts none; `plugin/commands/pending.md` says "since startup" of a log that persists.
* `last_seen_at` is set for every connection served without an error, also one that
  fetched nothing.

## 7. What is not modelled

* *Wire format and tickets* (`message.rs`) but for the path rules: encoding and decoding
  without state. The models start from updates that passed `from_bytes`. Whether gossip
  takes two equal updates for one (an update has no nonce) is iroh's matter; `net` is a
  set, and a broadcast of an update that is still on its way adds nothing.
* *Steps of two daemons' handlers inside each other*: `Mesh` has whole handlers. A link
  put in the way between `resolve_safe_path` and the rename of the same handler is
  therefore not seen.
* *Renames by users in `Mesh`*: `SyncNode` has them (`UserRename`).
* *Endpoint key, data paths, health check, logging*: read-only or made once.
* *MCP protocol*: the library's. The tools are the callers of `Control`; `sync.ping` is a
  constant. *Scripts*: no state of the daemon.
* *iroh* (gossip, blobs, relay): seen through broadcast, NeighborUp/Down and fetch.
* *The fields of an entry of the pending log* that `list-pending` only shows, and reading
  the end of the log file for `recent-log`.
* *Answers* of RPCs that only read.
* *invite and accept-invite as calls of `Control`*: their handlers are in `Group`,
  with answers; the client's time-out there is a client that does not hear.
* *Serialisation failure of the allowlist*: a failed save stands for it.
* *Offline start*: `endpoint.online()` may wait for ever, with the lock held; the models
  claim nothing about a start.
* *Handlers that write after the lock is free*: `Daemons` has handlers that outlive
  their listener and are cut off, not the files they write.

## 8. Plan

Done, in this order: `SyncNode`, `SyncSerial`, `AllowListSpec`, `AllowList`, `Group`,
`Daemons`, `Paths`, `Mesh`, `Records`, `Redaction`, `Control`, each with its runs; the
proofs of section 5.

What is left, most important first:

1. Handlers that outlive the lock: what they write while the next daemon loads it.
   Composes `Daemons` with `Control`.
2. `GroupMeets` without `Serial` but with the secret's load and save under one lock, to
   show that such a lock is a sufficient repair.
3. Two daemons at the grain of `SyncNode`: crossing changes inside a handler.

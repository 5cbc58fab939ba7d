-------------------------- MODULE SyncSerialProofs --------------------------
(***************************************************************************)
(* The serial regime, for any number of paths, contents, peers, changes    *)
(* and second events: at rest no mark is out of date, and the directory    *)
(* and the mesh agree.                                                     *)
(***************************************************************************)
EXTENDS SyncSerial, SyncNodeProofs

\* What the theorems assume of the environment.  An update that fails between
\* the rename to the backup and the persist leaves a mark without a file, and a
\* rename by a user reports only one of its paths; a crash loses what was to be
\* sent.
Faultless == Budget["fault"] = 0 /\ "rename" \notin UserOps
Lossless == Faultless /\ Budget["crash"] = 0 /\ AwaitTTL

(***************************************************************************)
(* The invariants of the first theorem.                                    *)
(***************************************************************************)
LimitsInv == left["fault"] = 0 /\ (Budget["crash"] = 0 => left["crash"] = 0)

Basis == Faultless /\ TypeOK /\ HashKnown /\ GateInv /\ LimitsInv

Queued == {queue[i] : i \in DOMAIN queue}

\* An event of path p has yet to reach the watcher loop.
Reported(p) == window[p] # {} \/ \E e \in Queued : e.path = p

\* The update the receive loop has at hand is of path p.
Here(p) == rcv.up.path = p

\* Steps of the receive loop at which all else is idle: in this regime an update
\* comes when the daemon rests, and what its writes set going comes after them.
Alone == {"unlink", "fetch", "check", "rename", "persist"}

PhaseInv ==
    /\ linked = joined
    /\ rcv.pc # "idle" => joined
    /\ rcv.pc \notin {"idle", "drain"} => flushList = {} /\ snd["flush"].pc = "idle"
    /\ snd["flush"].pc \in {"idle"} \cup Sending
    /\ rcv.pc \in Alone => /\ flushList = {}
                           /\ queue = <<>>
                           /\ \A t \in Sender : snd[t].pc = "idle"
                           /\ \A p \in Path : window[p] = {}

\* What is about to be marked is what the file has.
WrittenInv == rcv.pc = "mark" => fs[rcv.up.path] = rcv.up.hash

\* Every event on its way to the watcher loop is true of the file as it is.
EventInv ==
    /\ \A p \in Path :
           \/ window[p] = {}
           \/ window[p] = {"remove"} /\ fs[p] = Absent
           \/ "remove" \notin window[p] /\ fs[p] # Absent
    /\ \A e \in Queued : e.removal = (fs[e.path] = Absent)

\* What a sender knows of its file is still so.
Knows(s) ==
    /\ s.pc \in {"compare", "decide", "gate"} => s.removal = (fs[s.path] = Absent)
    /\ s.pc \in {"dedup", "tell"} => fs[s.path] = Absent
    /\ s.pc = "read" => fs[s.path] # Absent
    /\ s.pc \in {"publish", "record"} => s.hash = fs[s.path]

KnowsInv == \A t \in Sender : Knows(snd[t])

\* A mark of a write that is not the file's content any more has the event on
\* its way that will take it, or the loop is between the write and the mark.
WrittenFresh ==
    \A p \in Path : \/ lastWritten[p] \in {Absent, fs[p]}
                    \/ Reported(p)
                    \/ rcv.pc \in {"persist", "mark"} /\ Here(p)

\* A mark of a removal is set just before the removal, and waits for its event.
RemovedFresh ==
    \A p \in lastRemoved :
        \/ rcv.pc = "unlink" /\ Here(p)
        \/ /\ fs[p] = Absent
           /\ \/ Reported(p)
              \/ snd["watcher"].pc \in {"compare", "decide"} /\ snd["watcher"].path = p

FreshInv ==
    PhaseInv /\ WrittenInv /\ EventInv /\ KnowsInv /\ WrittenFresh /\ RemovedFresh

(***************************************************************************)
(* The invariants of the second.                                           *)
(***************************************************************************)
Ground == Basis /\ FreshInv /\ Lossless

\* The mesh has content c for path p, or had one too large to be fetched.
Told(p, c) == mesh[p] = c \/ mesh[p] \in Oversize

\* An update that is applied is what the mesh has.
ToldInv ==
    /\ rcv.pc \in Guarded => mesh[rcv.up.path] = rcv.up.hash
    /\ rcv.pc = "unlink" => mesh[rcv.up.path] = Absent
    /\ rcv.pc = "rename" => fs[rcv.up.path] # Absent
    /\ rcv.pc \in Alone => dedup = {}
    /\ rcv.pc = "drain" => flushList = {}

\* A tombstone is held back only while the removal it told still stands.
DedupInv ==
    \A p \in dedup : /\ fs[p] = Absent
                     /\ \/ mesh[p] = Absent
                        \/ \E t \in Sender : snd[t].pc = "tell" /\ snd[t].path = p

\* A mark that would suppress an announcement is of what the mesh has already.
SentInv ==
    /\ \A p \in lastRemoved : mesh[p] = Absent
    /\ \A t \in Sender : snd[t].pc = "record" => mesh[snd[t].path] = snd[t].hash
    /\ LET w == snd["watcher"] IN
       w.pc = "compare" /\ w.hash # Absent /\ w.hash = fs[w.path] =>
           Told(w.path, fs[w.path])
    /\ \A p \in Path : lastWritten[p] # Absent /\ lastWritten[p] = fs[p] =>
           Told(p, fs[p]) \/ (rcv.pc \in Alone /\ Here(p))

\* Sender t has yet to announce path p.
Underway(t, p) == snd[t].path = p /\ snd[t].pc \notin {"idle", "record"}

Settled(p) ==
    \/ fs[p] = mesh[p]
    \/ {fs[p], mesh[p]} \cap Oversize # {}
    \/ p \in initial

\* Where the directory and the mesh differ somebody is about to see to it.
Accounted(p) ==
    \/ Settled(p)
    \/ p \in flushList
    \/ Reported(p)
    \/ rcv.pc \in Alone /\ Here(p)
    \/ \E t \in Sender : Underway(t, p)

AccountedInv == \A p \in Path : Accounted(p)

AgreeInv == ToldInv /\ DedupInv /\ SentInv /\ AccountedInv

-----------------------------------------------------------------------------
(***************************************************************************)
(* Lemmas on queues and on the budget.                                     *)
(***************************************************************************)
LEMMA Enqueued ==
    ASSUME NEW S, NEW s \in Seq(S), NEW e \in S
    PROVE  {Append(s, e)[i] : i \in DOMAIN Append(s, e)}
               = {s[i] : i \in DOMAIN s} \cup {e}
  <1>1. /\ DOMAIN s = 1..Len(s) /\ Len(s) \in Nat
        /\ DOMAIN Append(s, e) = 1..(Len(s) + 1)
        /\ Append(s, e)[Len(s) + 1] = e
        /\ \A i \in 1..Len(s) : Append(s, e)[i] = s[i]
    OBVIOUS
  <1>2. 1..(Len(s) + 1) = (1..Len(s)) \cup {Len(s) + 1}
    BY <1>1
  <1>. QED BY <1>1, <1>2

LEMMA Dequeued ==
    ASSUME NEW S, NEW s \in Seq(S), s # <<>>
    PROVE  {s[i] : i \in DOMAIN s}
               = {Tail(s)[i] : i \in DOMAIN Tail(s)} \cup {Head(s)}
  <1>. DEFINE r == Tail(s)
  <1>1. /\ DOMAIN s = 1..Len(s) /\ Len(s) \in Nat \ {0}
        /\ DOMAIN r = 1..(Len(s) - 1)
        /\ Head(s) = s[1]
        /\ \A i \in 1..(Len(s) - 1) : r[i] = s[i + 1]
    OBVIOUS
  <1>. HIDE DEF r
  <1>2. ASSUME NEW i \in 1..Len(s)
        PROVE  s[i] \in {r[j] : j \in DOMAIN r} \cup {Head(s)}
    <2>1. CASE i = 1
      BY <1>1, <2>1
    <2>2. CASE i # 1
      <3>1. i - 1 \in 1..(Len(s) - 1) /\ r[i - 1] = s[i]
        BY <1>1, <2>2
      <3>. QED BY <1>1, <3>1
    <2>. QED BY <2>1, <2>2
  <1>3. ASSUME NEW j \in 1..(Len(s) - 1)
        PROVE  r[j] \in {s[i] : i \in DOMAIN s}
    <2>1. j + 1 \in 1..Len(s) /\ r[j] = s[j + 1]
      BY <1>1
    <2>. QED BY <1>1, <2>1
  <1>4. Head(s) \in {s[i] : i \in DOMAIN s}
    BY <1>1
  <1>. QED BY <1>1, <1>2, <1>3, <1>4 DEF r

LEMMA ElementsTyped ==
    ASSUME NEW S, NEW s \in Seq(S)
    PROVE  \A i \in DOMAIN s : s[i] \in S
  OBVIOUS

LEMMA SerialCases ==
    ASSUME Faultless, [SerialNext]_vars, LimitsInv
    PROVE  \/ /\ Calm
              /\ \E p \in Path : UserRemove(p) \/ \E c \in UserContent : UserWrite(p, c)
           \/ Calm /\ Remote
           \/ Serve \/ NeighborUp \/ Crash \/ Internal \/ UNCHANGED vars
  BY DEF Faultless, LimitsInv, SerialNext, Calm, User, UserRename, Fault,
         SendFails, FetchFails, CheckUnreadable, UpsertFails, UnlinkFails,
         NeighborDown, Spend

LEMMA LimitsStep ==
    ASSUME Faultless, TypeOK, LimitsInv, [SerialNext]_vars
    PROVE  LimitsInv'
  <1> DEFINE Kept == left' = left \/ \E what \in {"user", "remote", "dup", "crash"} : Spend(what)
  <1> SUFFICES Kept
    BY DEF LimitsInv, Spend, TypeOK, Bounded
  <1>1. CASE \E p \in Path : UserRemove(p) \/ \E c \in UserContent : UserWrite(p, c)
    BY <1>1 DEF UserRemove, UserWrite
  <1>2. CASE Remote \/ Serve
    BY <1>2 DEF Remote, Receive, Serve, ServeBlob
  <1>3. CASE NeighborUp \/ Crash \/ UNCHANGED vars
    BY <1>3 DEF NeighborUp, Crash, vars, env
  <1>4. CASE \E p \in Path : Debounce(p) \/ FlushNext(p) \/ DedupExpires(p)
    BY <1>4 DEF Debounce, FlushNext, DedupExpires, env
  <1>5. CASE \E t \in Sender : Send(t)
    BY <1>5 DEF Send, CheckDedup, TellTombstone, ReadFile, Publish, RecordSent, env
  <1>6. CASE Watcher
    BY <1>6 DEF Watcher, TakeEvent, CompareMark, Decide, PassGate, env
  <1>7. CASE Receiver
    <2>1. CASE JournalApplied
      BY <2>1 DEF JournalApplied, LimitsInv, Spend
    <2>2. CASE ~JournalApplied
      BY <1>7, <2>2 DEF Receiver, Fetch, CheckConflict, RenameToBackup, Persist,
                CommitUpsert, Unlink, DrainInitial, env
    <2>. QED BY <2>1, <2>2
  <1>. QED BY <1>1, <1>2, <1>3, <1>4, <1>5, <1>6, <1>7, SerialCases DEF Internal

LEMMA BasisTypes ==
    ASSUME TypeOK
    PROVE  /\ fs \in [Path -> MaybeContent]
           /\ window \in [Path -> SUBSET Kind]
           /\ queue \in Seq([path : Path, removal : BOOLEAN])
           /\ lastWritten \in [Path -> MaybeContent]
           /\ mesh \in [Path -> MaybeContent]
           /\ snd \in [Sender -> SenderState]
           /\ \A t \in Sender : snd[t].path \in Path
           /\ rcv \in [pc : RcvPc, up : Update]
           /\ rcv.up.path \in Path
           /\ \A e \in Queued : e \in [path : Path, removal : BOOLEAN]
  <1>1. \A e \in Queued : e \in [path : Path, removal : BOOLEAN]
    <2>1. queue \in Seq([path : Path, removal : BOOLEAN])
      BY DEF TypeOK
    <2>2. \A i \in DOMAIN queue : queue[i] \in [path : Path, removal : BOOLEAN]
      BY <2>1, ElementsTyped
    <2>. QED BY <2>2 DEF Queued
  <1>. QED BY <1>1 DEF TypeOK, SenderState, Update

-----------------------------------------------------------------------------
(***************************************************************************)
(* The marks.                                                              *)
(***************************************************************************)
\* What one sender's step leaves to show.
LEMMA FreshSender ==
    ASSUME Basis, FreshInv, NEW t \in Sender,
           \/ snd[t].pc # "idle"
           \/ t = "flush" /\ flushList # {}
           \/ t = "watcher" /\ queue # <<>>,
           snd' \in [Sender -> SenderState],
           \A u \in Sender \ {t} : snd'[u] = snd[u],
           t = "flush" => snd'[t].pc \in {"idle"} \cup Sending,
           UNCHANGED <<fs, window, joined, linked, rcv>>,
           flushList' \subseteq flushList, Queued' \subseteq Queued,
           Knows(snd[t])'
    PROVE  PhaseInv' /\ WrittenInv' /\ EventInv' /\ KnowsInv'
  <1>. USE BasisTypes DEF Basis
  <1>1. rcv.pc \notin Alone /\ (t = "flush" => rcv.pc \in {"idle", "drain"})
    BY DEF FreshInv, PhaseInv, Sender
  <1>2. PhaseInv'
    BY <1>1 DEF FreshInv, PhaseInv, Sender, Alone
  <1>3. WrittenInv'
    BY DEF FreshInv, WrittenInv
  <1>4. EventInv'
    BY DEF FreshInv, EventInv
  <1>5. KnowsInv'
    BY DEF FreshInv, KnowsInv, Knows
  <1>. QED BY <1>2, <1>3, <1>4, <1>5

\* Sending leaves events and marks alone until it ends.
LEMMA FreshMarksKept ==
    ASSUME FreshInv,
           UNCHANGED <<fs, window, queue, rcv, lastWritten, lastRemoved>>,
           \/ snd'["watcher"] = snd["watcher"]
           \/ snd["watcher"].pc \notin {"compare", "decide"}
           \/ /\ snd'["watcher"].pc = "decide"
              /\ snd'["watcher"].path = snd["watcher"].path
    PROVE  WrittenFresh' /\ RemovedFresh'
  <1>1. Queued' = Queued
    BY DEF Queued
  <1>. QED BY <1>1 DEF FreshInv, WrittenFresh, RemovedFresh, Reported, Here

\* A sender moves on within its work, or gives it up.
LEMMA FreshGoto ==
    ASSUME Basis, FreshInv, NEW t \in Sender, NEW pc \in {"idle"} \cup Sending,
           Goto(t, pc), snd[t].pc \notin {"idle", "compare", "decide"},
           UNCHANGED <<fs, watch, lastWritten, lastRemoved, joined,
                       linked, flushList, rcv>>,
           pc \in {"dedup", "tell"} => fs[snd[t].path] = Absent,
           pc = "read" => fs[snd[t].path] # Absent,
           pc \in {"publish", "record"} => snd[t].hash = fs[snd[t].path]
    PROVE  FreshInv'
  <1>1. /\ snd' \in [Sender -> SenderState]
        /\ \A u \in Sender \ {t} : snd'[u] = snd[u]
        /\ snd'[t].pc = pc /\ snd'[t].path = snd[t].path /\ snd'[t].hash = snd[t].hash
    BY BasisTypes, GotoTyped DEF Basis, Goto, SenderState, SendPc, Sending
  <1>2. Knows(snd[t])'
    BY <1>1 DEF Knows, Sending
  <1>3. Queued' = Queued /\ UNCHANGED <<window, queue>>
    BY DEF Queued, watch
  <1>4. PhaseInv' /\ WrittenInv' /\ EventInv' /\ KnowsInv'
    BY <1>1, <1>2, <1>3, FreshSender
  <1>5. \/ snd'["watcher"] = snd["watcher"]
        \/ snd["watcher"].pc \notin {"compare", "decide"}
    BY <1>1 DEF Sender
  <1>. QED BY <1>3, <1>4, <1>5, FreshMarksKept DEF FreshInv

\* The closure of the watcher loop.
LEMMA FreshTakeEvent == Basis /\ FreshInv /\ TakeEvent => FreshInv'
  <1>. SUFFICES ASSUME Basis, FreshInv, TakeEvent PROVE FreshInv'
    OBVIOUS
  <1>. DEFINE e == Head(queue)
  <1>1. queue \in Seq([path : Path, removal : BOOLEAN]) /\ queue # <<>>
    BY BasisTypes DEF Basis, TakeEvent
  <1>2. Queued = Queued' \cup {e} /\ e \in [path : Path, removal : BOOLEAN]
    BY <1>1, Dequeued, QueueTyped DEF TakeEvent, Queued
  <1>3. /\ snd' = [snd EXCEPT !["watcher"] =
                     [pc |-> "compare", path |-> e.path, removal |-> e.removal,
                      hash |-> lastWritten[e.path]]]
        /\ lastWritten' = [lastWritten EXCEPT ![e.path] = Absent]
        /\ UNCHANGED <<fs, window, joined, linked, rcv, flushList, lastRemoved>>
    BY DEF TakeEvent, disk, gate, env
  <1>. HIDE DEF e
  <1>4. /\ snd' \in [Sender -> SenderState]
        /\ \A u \in Sender \ {"watcher"} : snd'[u] = snd[u]
        /\ snd'["watcher"].pc = "compare" /\ snd'["watcher"].path = e.path
        /\ snd'["watcher"].removal = e.removal
    BY <1>2, <1>3, BasisTypes DEF Basis, SenderState, SendPc, Sender
  <1>5. Knows(snd["watcher"])'
    BY <1>2, <1>3, <1>4 DEF Knows, FreshInv, EventInv
  <1>6. PhaseInv' /\ WrittenInv' /\ EventInv' /\ KnowsInv'
    BY <1>1, <1>2, <1>3, <1>4, <1>5, FreshSender DEF Sender
  <1>7. WrittenFresh'
    BY <1>2, <1>3, BasisTypes DEF Basis, FreshInv, WrittenFresh, Reported, Here
  <1>8. RemovedFresh'
    <2>1. snd["watcher"].pc = "idle"
      BY DEF TakeEvent
    <2>. QED BY <2>1, <1>2, <1>3, <1>4 DEF FreshInv, RemovedFresh, Reported, Here
  <1>. QED BY <1>6, <1>7, <1>8 DEF FreshInv

LEMMA FreshCompareMark == Basis /\ FreshInv /\ CompareMark => FreshInv'
  <1>. SUFFICES ASSUME Basis, FreshInv, CompareMark PROVE FreshInv'
    OBVIOUS
  <1>. DEFINE w == snd["watcher"]
  <1>1. PICK pc \in {"idle", "decide"} :
           /\ Goto("watcher", pc)
           /\ pc = "idle" => fs[w.path] # Absent
    BY DEF CompareMark
  <1>2. /\ UNCHANGED <<fs, window, queue, joined, linked, rcv, flushList, lastWritten,
                       lastRemoved>>
        /\ w.pc = "compare"
    BY DEF CompareMark, disk, watch, gate, marks, env
  <1>3. Queued' = Queued
    BY <1>2 DEF Queued
  <1>4. /\ snd' \in [Sender -> SenderState]
        /\ \A u \in Sender \ {"watcher"} : snd'[u] = snd[u]
        /\ snd'["watcher"].pc = pc /\ snd'["watcher"].path = w.path
        /\ snd'["watcher"].removal = w.removal
    BY <1>1, BasisTypes, GotoTyped DEF Basis, Goto, Sender, SenderState, SendPc
  <1>5. Knows(snd["watcher"])'
    BY <1>2, <1>4 DEF Knows, FreshInv, KnowsInv, Sender
  <1>6. PhaseInv' /\ WrittenInv' /\ EventInv' /\ KnowsInv'
    BY <1>2, <1>3, <1>4, <1>5, FreshSender DEF Sender
  <1>7. WrittenFresh' /\ RemovedFresh'
    <2>1. CASE pc = "decide"
      BY <1>2, <1>4, <2>1, FreshMarksKept
    <2>2. CASE pc = "idle"
      BY <1>1, <1>2, <1>3, <1>4, <2>2
         DEF FreshInv, WrittenFresh, RemovedFresh, Reported, Here
    <2>. QED BY <2>1, <2>2
  <1>. QED BY <1>6, <1>7 DEF FreshInv

LEMMA FreshDecide == Basis /\ FreshInv /\ Decide => FreshInv'
  <1>. SUFFICES ASSUME Basis, FreshInv, Decide PROVE FreshInv'
    OBVIOUS
  <1>. DEFINE w == snd["watcher"]
              gone == w.removal \/ fs[w.path] = Absent
  <1>1. /\ UNCHANGED <<fs, window, queue, joined, linked, rcv, flushList, lastWritten>>
        /\ w.pc = "decide"
    BY DEF Decide, disk, watch, gate, env
  <1>2. Queued' = Queued
    BY <1>1 DEF Queued
  <1>3. gone = (fs[w.path] = Absent)
    BY <1>1 DEF FreshInv, KnowsInv, Knows, Sender
  <1>4. /\ snd' \in [Sender -> SenderState]
        /\ \A u \in Sender \ {"watcher"} : snd'[u] = snd[u]
        /\ snd'["watcher"].path = w.path
        /\ \/ snd'["watcher"].pc = "idle" /\ lastRemoved' = lastRemoved \ {w.path}
           \/ /\ snd'["watcher"].pc = "gate"
              /\ snd'["watcher"].removal = gone
              /\ lastRemoved' = lastRemoved
              /\ ~(gone /\ w.path \in lastRemoved)
    BY BasisTypes DEF Basis, Decide, Goto, Sender, SenderState, SendPc
  <1>5. Knows(snd["watcher"])'
    BY <1>1, <1>3, <1>4 DEF Knows
  <1>6. PhaseInv' /\ WrittenInv' /\ EventInv' /\ KnowsInv'
    BY <1>1, <1>2, <1>4, <1>5, FreshSender DEF Sender
  <1>7. WrittenFresh' /\ RemovedFresh'
    BY <1>1, <1>2, <1>3, <1>4
       DEF FreshInv, WrittenFresh, RemovedFresh, Reported, Here
  <1>. QED BY <1>6, <1>7 DEF FreshInv

LEMMA FreshPassGate == Basis /\ FreshInv /\ PassGate => FreshInv'
  <1>. SUFFICES ASSUME Basis, FreshInv, PassGate PROVE FreshInv'
    OBVIOUS
  <1>1. Knows(snd["watcher"]) /\ snd["watcher"].pc = "gate"
    BY DEF FreshInv, KnowsInv, Sender, PassGate
  <1>2. PICK pc \in {"idle", "dedup", "read"} :
           /\ Goto("watcher", pc)
           /\ pc = "dedup" => snd["watcher"].removal
           /\ pc = "read" => ~snd["watcher"].removal
    BY DEF PassGate
  <1>3. UNCHANGED <<fs, watch, lastWritten, lastRemoved, joined, linked,
                    flushList, rcv>>
    BY DEF PassGate, disk, marks, env
  <1>. QED BY <1>1, <1>2, <1>3, FreshGoto DEF Knows, Sending, Sender

LEMMA FreshSend ==
    ASSUME Basis, FreshInv, NEW t \in Sender, Send(t)
    PROVE  FreshInv'
  <1>. USE DEF disk, marks, gate, env
  <1>1. Knows(snd[t])
    BY DEF FreshInv, KnowsInv
  <1>2. CASE CheckDedup(t)
    <2>1. PICK pc \in {"idle", "tell"} : Goto(t, pc)
      BY <1>2 DEF CheckDedup
    <2>. QED BY <1>1, <1>2, <2>1, FreshGoto DEF CheckDedup, Knows, Sending
  <1>3. CASE TellTombstone(t)
    BY <1>3, FreshGoto DEF TellTombstone, Sending
  <1>4. CASE Publish(t)
    BY <1>1, <1>4, FreshGoto DEF Publish, Knows, Sending
  <1>5. CASE ReadFile(t)
    <2>1. CASE Goto(t, "idle")
      BY <1>5, <2>1, FreshGoto DEF ReadFile, Sending
    <2>2. CASE ~Goto(t, "idle")
      <3>1. /\ snd[t].pc = "read"
            /\ snd' = [snd EXCEPT ![t].pc = "publish", ![t].hash = fs[snd[t].path]]
            /\ UNCHANGED <<fs, window, queue, joined, linked, rcv, flushList,
                           lastWritten, lastRemoved>>
        BY <1>5, <2>2 DEF ReadFile, watch
      <3>2. /\ snd' \in [Sender -> SenderState]
            /\ \A u \in Sender \ {t} : snd'[u] = snd[u]
            /\ snd'[t].pc = "publish" /\ snd'[t].path = snd[t].path
            /\ snd'[t].hash = fs[snd[t].path]
        <4>. DEFINE k == [snd[t] EXCEPT !.pc = "publish", !.hash = fs[snd[t].path]]
        <4>1. snd' = [snd EXCEPT ![t] = k]
          BY <3>1
        <4>2. /\ k \in SenderState
              /\ k.pc = "publish" /\ k.path = snd[t].path
              /\ k.hash = fs[snd[t].path]
          BY BasisTypes DEF Basis, SenderState, SendPc, Sending
        <4>. HIDE DEF k
        <4>. QED BY <4>1, <4>2, BasisTypes DEF Basis
      <3>3. Knows(snd[t])' /\ Queued' = Queued
        BY <3>1, <3>2 DEF Knows, Queued
      <3>4. PhaseInv' /\ WrittenInv' /\ EventInv' /\ KnowsInv'
        BY <3>1, <3>2, <3>3, FreshSender DEF Sending
      <3>. QED BY <3>1, <3>2, <3>4, FreshMarksKept DEF FreshInv, Sender
    <2>. QED BY <2>1, <2>2
  <1>6. CASE RecordSent(t)
    <2>1. /\ snd[t].pc = "record"
          /\ Goto(t, "idle")
          /\ lastWritten' = [lastWritten EXCEPT ![snd[t].path] = fs[snd[t].path]]
          /\ UNCHANGED <<fs, window, queue, joined, linked, rcv, flushList,
                         lastRemoved>>
      BY <1>1, <1>6 DEF RecordSent, watch, Knows
    <2>2. /\ snd' \in [Sender -> SenderState]
          /\ \A u \in Sender \ {t} : snd'[u] = snd[u]
          /\ snd'[t].pc = "idle"
      <3>1. snd' \in [Sender -> SenderState]
        BY <2>1, GotoTyped DEF Basis, SendPc
      <3>. QED BY <2>1, <3>1, BasisTypes DEF Basis, Goto, SenderState
    <2>3. Knows(snd[t])' /\ Queued' = Queued
      BY <2>1, <2>2 DEF Knows, Queued
    <2>4. PhaseInv' /\ WrittenInv' /\ EventInv' /\ KnowsInv'
      BY <2>1, <2>2, <2>3, FreshSender DEF Sending
    <2>5. WrittenFresh'
      BY <2>1, <2>3, BasisTypes DEF Basis, FreshInv, WrittenFresh, Reported, Here
    <2>6. RemovedFresh'
      BY <2>1, <2>2, <2>3 DEF FreshInv, RemovedFresh, Reported, Here, Sender
    <2>. QED BY <2>4, <2>5, <2>6 DEF FreshInv
  <1>. QED BY <1>2, <1>3, <1>4, <1>5, <1>6 DEF Send

LEMMA FreshFlushNext ==
    ASSUME Basis, FreshInv, NEW p \in Path, FlushNext(p)
    PROVE  FreshInv'
  <1>1. /\ UNCHANGED <<fs, window, queue, joined, linked, rcv, lastWritten,
                       lastRemoved>>
        /\ flushList' \subseteq flushList /\ flushList # {}
        /\ Queued' = Queued
    BY DEF FlushNext, disk, watch, marks, env, Queued
  <1>2. /\ snd' \in [Sender -> SenderState]
        /\ \A u \in Sender \ {"flush"} : snd'[u] = snd[u]
        /\ snd'["flush"].path = p
        /\ snd'["flush"].pc = IF fs[p] = Absent THEN "dedup" ELSE "read"
    BY BasisTypes
       DEF Basis, FlushNext, SenderState, SendPc, Sending, Sender, MaybeContent
  <1>3. Knows(snd["flush"])'
    BY <1>1, <1>2 DEF Knows
  <1>4. PhaseInv' /\ WrittenInv' /\ EventInv' /\ KnowsInv'
    BY <1>1, <1>2, <1>3, FreshSender DEF Sender, Sending
  <1>. QED BY <1>1, <1>2, <1>4, FreshMarksKept DEF FreshInv, Sender

LEMMA FreshDebounce ==
    ASSUME Basis, FreshInv, NEW p \in Path, Debounce(p)
    PROVE  FreshInv'
  <1>. DEFINE removal == "remove" \in window[p]
              e == [path |-> p, removal |-> removal]
  <1>1. /\ e \in [path : Path, removal : BOOLEAN]
        /\ queue \in Seq([path : Path, removal : BOOLEAN])
        /\ e.path = p /\ e.removal = removal
    BY BasisTypes DEF Basis
  <1>2. Queued' = Queued \cup {e}
    <2>1. queue' = Append(queue, e)
      BY DEF Debounce
    <2>. HIDE DEF e
    <2>. QED BY <1>1, <2>1, Enqueued DEF Queued
  <1>3. UNCHANGED <<fs, snd, joined, linked, rcv, flushList, lastWritten,
                    lastRemoved>>
    BY DEF Debounce, disk, marks, gate
  <1>4. /\ window[p] # {}
        /\ \A q \in Path \ {p} : window'[q] = window[q]
        /\ window'[p] \in {window[p], {}}
    <2>1. window[p] \subseteq {"remove"} \/ "remove" \notin window[p]
      BY DEF FreshInv, EventInv
    <2>. QED BY <2>1, BasisTypes DEF Basis, Debounce
  <1>5. removal = (fs[p] = Absent)
    BY <1>4 DEF FreshInv, EventInv
  <1>. HIDE DEF e, removal
  <1>6. rcv.pc \notin Alone
    BY <1>4 DEF FreshInv, PhaseInv
  <1>7. PhaseInv' /\ WrittenInv' /\ KnowsInv'
    BY <1>3, <1>6 DEF FreshInv, PhaseInv, WrittenInv, KnowsInv, Knows
  <1>8. EventInv'
    BY <1>1, <1>2, <1>3, <1>4, <1>5 DEF FreshInv, EventInv
  <1>9. \A q \in Path : Reported(q) => Reported(q)'
    BY <1>1, <1>2, <1>4 DEF Reported
  <1>10. WrittenFresh' /\ RemovedFresh'
    BY <1>3, <1>9 DEF FreshInv, WrittenFresh, RemovedFresh, Here, Basis, TypeOK
  <1>. QED BY <1>7, <1>8, <1>10 DEF FreshInv

\* What changes neither files nor events nor marks nor tasks.
LEMMA FreshFrame ==
    ASSUME FreshInv,
           UNCHANGED <<fs, window, queue, lastWritten, lastRemoved, joined,
                       linked, flushList, snd, rcv>>
    PROVE  FreshInv'
  <1>1. Queued' = Queued
    BY DEF Queued
  <1>. QED BY <1>1 DEF FreshInv, PhaseInv, WrittenInv, EventInv, KnowsInv, Knows,
                       WrittenFresh, RemovedFresh, Reported, Here

\* The receive loop moves on without touching a file, an event or a mark.
LEMMA FreshAwait ==
    ASSUME Basis, FreshInv, NEW pc \in RcvPc, Await(pc),
           UNCHANGED <<fs, window, queue, lastWritten, lastRemoved, joined,
                       linked, flushList, snd>>,
           rcv.pc \notin {"unlink", "persist", "mark", "idle", "drain"},
           pc \notin {"unlink", "mark"},
           pc \in Alone => rcv.pc \in Alone
    PROVE  FreshInv'
  <1>. USE BasisTypes DEF Basis
  <1>1. Queued' = Queued
    BY DEF Queued
  <1>2. rcv'.pc = pc /\ rcv'.up = rcv.up
    BY DEF Await
  <1>3. PhaseInv'
    BY <1>2 DEF FreshInv, PhaseInv, Alone
  <1>4. WrittenInv' /\ EventInv' /\ KnowsInv'
    BY <1>1, <1>2 DEF FreshInv, WrittenInv, EventInv, KnowsInv, Knows
  <1>5. WrittenFresh' /\ RemovedFresh'
    BY <1>1, <1>2 DEF FreshInv, WrittenFresh, RemovedFresh, Reported, Here
  <1>. QED BY <1>3, <1>4, <1>5 DEF FreshInv

\* A file changes while every sender rests and no event is pending.
LEMMA FreshWrites ==
    ASSUME FreshInv, NEW p \in Path,
           queue = <<>>, UNCHANGED <<queue, snd, joined, linked, flushList>>,
           \A t \in Sender : snd[t].pc = "idle",
           \A q \in Path : window[q] = {},
           \A q \in Path \ {p} : fs'[q] = fs[q] /\ window'[q] = window[q],
           \/ window'[p] = {}
           \/ window'[p] = {"remove"} /\ fs'[p] = Absent
           \/ "remove" \notin window'[p] /\ fs'[p] # Absent,
           rcv'.pc # "idle" => joined /\ flushList = {},
           rcv'.pc \in Alone => flushList = {} /\ window'[p] = {},
           rcv'.pc = "mark" => rcv'.up.path = p /\ fs'[p] = rcv'.up.hash
    PROVE  PhaseInv' /\ WrittenInv' /\ EventInv' /\ KnowsInv'
  <1>1. Queued = {} /\ Queued' = {}
    BY DEF Queued
  <1>2. PhaseInv'
    BY DEF FreshInv, PhaseInv, Sender, Alone
  <1>3. WrittenInv' /\ KnowsInv'
    BY DEF WrittenInv, KnowsInv, Knows
  <1>4. EventInv'
    BY <1>1 DEF EventInv
  <1>. QED BY <1>2, <1>3, <1>4

\* While the senders rest and no event is pending, only the receive loop is the
\* reason of a mark.
LEMMA StillMarks ==
    ASSUME FreshInv, queue = <<>>, \A t \in Sender : snd[t].pc = "idle",
           \A q \in Path : window[q] = {}, lastRemoved \subseteq Path
    PROVE  /\ \A q \in Path :
                  \/ lastWritten[q] \in {Absent, fs[q]}
                  \/ rcv.pc \in {"persist", "mark"} /\ rcv.up.path = q
           /\ \A q \in lastRemoved : rcv.pc = "unlink" /\ rcv.up.path = q
  <1>1. Queued = {}
    BY DEF Queued
  <1>2. \A q \in Path : ~Reported(q)
    BY <1>1 DEF Reported
  <1>3. \A q \in Path :
           \/ lastWritten[q] \in {Absent, fs[q]}
           \/ rcv.pc \in {"persist", "mark"} /\ rcv.up.path = q
    BY <1>2 DEF FreshInv, WrittenFresh, Here
  <1>4. snd["watcher"].pc = "idle"
    BY DEF Sender
  <1>5. \A q \in lastRemoved : rcv.pc = "unlink" /\ rcv.up.path = q
    BY <1>2, <1>4 DEF FreshInv, RemovedFresh, Here
  <1>. QED BY <1>3, <1>5

LEMMA FreshReceiver == Basis /\ FreshInv /\ Receiver => FreshInv'
  <1>. SUFFICES ASSUME Basis, FreshInv, Receiver PROVE FreshInv'
    OBVIOUS
  <1>. DEFINE p == rcv.up.path
  <1>. USE DEF disk, watch, marks, gate, env
  <1>0. /\ p \in Path
        /\ rcv.pc \in Guarded => rcv.up.hash \in Content
        /\ rcv.pc \in Alone => /\ queue = <<>> /\ flushList = {} /\ joined
                               /\ \A t \in Sender : snd[t].pc = "idle"
                               /\ \A q \in Path : window[q] = {}
        /\ lastRemoved \subseteq Path
    BY BasisTypes DEF Basis, HashKnown, FreshInv, PhaseInv, Alone, TypeOK
  <1>1. CASE Fetch
    BY <1>1, FreshAwait DEF Fetch, RcvPc, Guarded, Alone
  <1>2. CASE CheckConflict
    BY <1>2, FreshAwait DEF CheckConflict, RcvPc, Guarded, Alone
  <1>3. CASE RenameToBackup
    <2>1. CASE fs[p] = Absent
      BY <1>3, <2>1, FreshAwait DEF RenameToBackup, RcvPc, Guarded, Alone
    <2>2. CASE fs[p] # Absent
      <3>1. /\ rcv.pc = "rename" /\ rcv'.pc = "persist" /\ rcv'.up = rcv.up
            /\ fs' = [fs EXCEPT ![p] = Absent]
            /\ window' \in {window, [window EXCEPT ![p] = {}]}
            /\ UNCHANGED <<queue, lastWritten, lastRemoved, snd, joined, linked,
                           flushList>>
        BY <1>3, <2>2, BasisTypes DEF Basis, RenameToBackup, Await
      <3>2. /\ window'[p] = {}
            /\ \A q \in Path \ {p} : fs'[q] = fs[q] /\ window'[q] = window[q]
        BY <1>0, <3>1, BasisTypes DEF Basis, Alone
      <3>3. PhaseInv' /\ WrittenInv' /\ EventInv' /\ KnowsInv'
        BY <1>0, <3>1, <3>2, FreshWrites DEF Alone
      <3>5. WrittenFresh' /\ RemovedFresh'
        BY <1>0, <3>1, <3>2, StillMarks DEF WrittenFresh, RemovedFresh, Here, Alone
      <3>. QED BY <3>3, <3>5 DEF FreshInv
    <2>. QED BY <2>1, <2>2
  <1>4. CASE Persist
    <2>1. /\ rcv.pc = "persist" /\ rcv'.pc = "mark" /\ rcv'.up = rcv.up
          /\ fs' = [fs EXCEPT ![p] = rcv.up.hash]
          /\ \/ window' = window
             \/ window' = [window EXCEPT ![p] = AfterWrite(@, FALSE)]
          /\ UNCHANGED <<queue, lastWritten, lastRemoved, snd, joined, linked,
                         flushList>>
      BY <1>4, BasisTypes DEF Basis, Persist, Await
    <2>2. /\ window'[p] = {} \/ window'[p] = {"create"}
          /\ \A q \in Path \ {p} : fs'[q] = fs[q] /\ window'[q] = window[q]
      BY <1>0, <2>1, BasisTypes DEF Basis, AfterWrite, Alone
    <2>3. fs'[p] = rcv.up.hash /\ fs'[p] # Absent
      BY <1>0, <2>1, BasisTypes, ContentAssumption DEF Basis, Guarded
    <2>4. PhaseInv' /\ WrittenInv' /\ EventInv' /\ KnowsInv'
      BY <1>0, <2>1, <2>2, <2>3, FreshWrites DEF Alone
    <2>6. WrittenFresh' /\ RemovedFresh'
      BY <1>0, <2>1, <2>2, StillMarks DEF WrittenFresh, RemovedFresh, Here, Alone
    <2>. QED BY <2>4, <2>6 DEF FreshInv
  <1>5. CASE CommitUpsert
    <2>1. /\ rcv.pc = "mark" /\ rcv'.pc = "journal" /\ rcv'.up = rcv.up
          /\ lastWritten' = [lastWritten EXCEPT ![p] = rcv.up.hash]
          /\ UNCHANGED <<fs, window, queue, lastRemoved, snd, joined, linked, flushList>>
          /\ Queued' = Queued
      BY <1>5, BasisTypes DEF Basis, CommitUpsert, Await, Queued
    <2>2. fs[p] = rcv.up.hash
      BY <2>1 DEF FreshInv, WrittenInv
    <2>3. PhaseInv' /\ WrittenInv' /\ EventInv' /\ KnowsInv'
      BY <2>1 DEF FreshInv, PhaseInv, WrittenInv, EventInv, KnowsInv, Knows, Alone
    <2>4. WrittenFresh' /\ RemovedFresh'
      BY <1>0, <2>1, <2>2, BasisTypes
         DEF Basis, FreshInv, WrittenFresh, RemovedFresh, Reported, Here
    <2>. QED BY <2>3, <2>4 DEF FreshInv
  <1>6. CASE Unlink
    <2>1. /\ rcv.pc = "unlink" /\ rcv'.pc = "journal" /\ rcv'.up = rcv.up
          /\ UNCHANGED <<queue, lastWritten, snd, joined, linked, flushList>>
          /\ \A q \in Path \ {p} : fs'[q] = fs[q] /\ window'[q] = window[q]
          /\ fs'[p] = Absent
          /\ \/ /\ fs[p] = Absent /\ window'[p] = {}
                /\ lastRemoved' = lastRemoved \ {p}
             \/ window'[p] = {"remove"} /\ lastRemoved' = lastRemoved
      BY <1>0, <1>6, BasisTypes DEF Basis, Unlink, Await, AfterRemove, Alone
    <2>2. PhaseInv' /\ WrittenInv' /\ EventInv' /\ KnowsInv'
      BY <1>0, <2>1, FreshWrites DEF Alone
    <2>4. WrittenFresh' /\ RemovedFresh'
      BY <1>0, <2>1, StillMarks
         DEF WrittenFresh, RemovedFresh, Reported, Here, Alone
    <2>. QED BY <2>2, <2>4 DEF FreshInv
  <1>7. CASE JournalApplied
    BY <1>7, FreshAwait DEF JournalApplied, RcvPc, Alone
  <1>8. CASE DrainInitial
    <2>1. /\ rcv.pc = "drain" /\ rcv'.pc = "idle" /\ rcv'.up = rcv.up
          /\ UNCHANGED <<fs, window, queue, lastWritten, lastRemoved, snd, joined,
                         linked>>
          /\ Queued' = Queued
      BY <1>8, BasisTypes DEF Basis, DrainInitial, Await, Queued
    <2>. QED BY <2>1 DEF FreshInv, PhaseInv, WrittenInv, EventInv, KnowsInv, Knows,
                         WrittenFresh, RemovedFresh, Reported, Here, Alone
  <1>. QED BY <1>1, <1>2, <1>3, <1>4, <1>5, <1>6, <1>7, <1>8 DEF Receiver

LEMMA FreshUser ==
    ASSUME Basis, FreshInv, Quiet, NEW p \in Path,
           UserRemove(p) \/ \E c \in UserContent : UserWrite(p, c)
    PROVE  FreshInv'
  <1>0. /\ queue = <<>> /\ flushList = {} /\ rcv.pc = "idle"
        /\ \A t \in Sender : snd[t].pc = "idle"
        /\ \A q \in Path : window[q] = {}
        /\ lastRemoved \subseteq Path
    BY DEF Quiet, Basis, TypeOK
  <1>1. /\ UNCHANGED <<queue, lastWritten, lastRemoved, snd, rcv, joined, linked,
                       flushList>>
        /\ \A q \in Path \ {p} : fs'[q] = fs[q] /\ window'[q] = window[q]
    BY BasisTypes DEF Basis, UserRemove, UserWrite, marks, gate
  <1>2. \/ window'[p] = {"remove"} /\ fs'[p] = Absent
        \/ "remove" \notin window'[p] /\ window'[p] # {} /\ fs'[p] # Absent
    <2>1. CASE UserRemove(p)
      BY <1>0, <2>1, BasisTypes DEF Basis, UserRemove, AfterRemove
    <2>2. ASSUME NEW c \in UserContent, UserWrite(p, c)
          PROVE  "remove" \notin window'[p] /\ window'[p] # {} /\ fs'[p] # Absent
      BY <1>0, <2>2, BasisTypes, ContentAssumption DEF Basis, UserWrite, AfterWrite
    <2>. QED BY <2>1, <2>2
  <1>3. PhaseInv' /\ WrittenInv' /\ EventInv' /\ KnowsInv'
    BY <1>0, <1>1, <1>2, FreshWrites DEF Alone
  <1>5. WrittenFresh' /\ RemovedFresh'
    BY <1>0, <1>1, <1>2, StillMarks
       DEF WrittenFresh, RemovedFresh, Reported, Here
  <1>. QED BY <1>3, <1>5 DEF FreshInv

LEMMA FreshReceive ==
    ASSUME Basis, FreshInv, Quiet, NEW u \in Wire, Receive(u)
    PROVE  FreshInv'
  <1>0. /\ queue = <<>> /\ flushList = {} /\ rcv.pc = "idle"
        /\ \A t \in Sender : snd[t].pc = "idle"
        /\ \A q \in Path : window[q] = {}
        /\ linked /\ lastRemoved \subseteq Path
    BY DEF Quiet, Receive, Basis, TypeOK
  <1>1. /\ UNCHANGED <<fs, window, queue, lastWritten, snd, joined, linked, flushList>>
        /\ Queued' = Queued
    BY DEF Receive, disk, watch, gate, Queued
  <1>2. u.path \in Path
    BY DEF Wire, Update
  <1>3. \/ rcv' = rcv /\ lastRemoved' = lastRemoved
        \/ rcv' = [pc |-> "fetch", up |-> u] /\ lastRemoved' = lastRemoved
        \/ /\ rcv' = [pc |-> "unlink", up |-> u]
           /\ lastRemoved' = lastRemoved \cup {u.path}
    BY DEF Receive
  <1>4. PhaseInv'
    BY <1>0, <1>1, <1>3 DEF FreshInv, PhaseInv, Sender
  <1>5. WrittenInv' /\ EventInv' /\ KnowsInv'
    BY <1>0, <1>1, <1>3 DEF FreshInv, WrittenInv, EventInv, KnowsInv, Knows
  <1>6. WrittenFresh' /\ RemovedFresh'
    BY <1>0, <1>1, <1>3, StillMarks DEF WrittenFresh, RemovedFresh, Here
  <1>. QED BY <1>4, <1>5, <1>6 DEF FreshInv

LEMMA FreshNeighborUp == Basis /\ FreshInv /\ NeighborUp => FreshInv'
  <1>. SUFFICES ASSUME Basis, FreshInv, NeighborUp PROVE FreshInv'
    OBVIOUS
  <1>1. /\ rcv.pc = "idle" /\ rcv'.pc = "drain" /\ linked' /\ joined'
        /\ linked' = joined'
        /\ UNCHANGED <<fs, window, queue, lastWritten, lastRemoved, snd, flushList>>
        /\ Queued' = Queued
    BY BasisTypes
       DEF Basis, NeighborUp, Await, disk, watch, marks, Queued, FreshInv, PhaseInv
  <1>. QED BY <1>1 DEF FreshInv, PhaseInv, WrittenInv, EventInv, KnowsInv, Knows,
                       WrittenFresh, RemovedFresh, Reported, Here, Alone

LEMMA FreshCrash == Crash => FreshInv'
  <1>. SUFFICES ASSUME Crash PROVE FreshInv'
    OBVIOUS
  <1>1. Queued' = {}
    BY DEF Crash, Queued
  <1>2. PhaseInv' /\ WrittenInv' /\ EventInv' /\ KnowsInv'
    BY <1>1 DEF Crash, PhaseInv, WrittenInv, EventInv, KnowsInv, Knows, Listening,
                Resting, Alone, Sender
  <1>3. WrittenFresh' /\ RemovedFresh'
    BY DEF Crash, WrittenFresh, RemovedFresh, NoMarks
  <1>. QED BY <1>2, <1>3 DEF FreshInv

LEMMA FreshStep ==
    Basis /\ FreshInv /\ [SerialNext]_vars => FreshInv'
  <1>. SUFFICES ASSUME Basis, FreshInv, [SerialNext]_vars
                PROVE  FreshInv'
    OBVIOUS
  <1>1. ASSUME Calm, NEW p \in Path,
               UserRemove(p) \/ \E c \in UserContent : UserWrite(p, c)
        PROVE  FreshInv'
    BY <1>1, FreshUser DEF Calm
  <1>2. CASE Calm /\ Remote
    BY <1>2, FreshReceive DEF Remote, Calm
  <1>3. CASE Serve \/ UNCHANGED vars \/ \E p \in Path : DedupExpires(p)
    BY <1>3, FreshFrame
       DEF Serve, ServeBlob, vars, DedupExpires, disk, watch, marks, gate, env
  <1>4. CASE Watcher
    BY <1>4, FreshTakeEvent, FreshCompareMark, FreshDecide, FreshPassGate DEF Watcher
  <1>. QED
    BY <1>1, <1>2, <1>3, <1>4, FreshNeighborUp, FreshCrash, FreshDebounce,
       FreshFlushNext, FreshSend, FreshReceiver, SerialCases DEF Basis, Internal

LEMMA FreshInit == Init => FreshInv
  <1>. SUFFICES ASSUME Init PROVE FreshInv
    OBVIOUS
  <1>1. Queued = {}
    BY DEF Init, Queued
  <1>2. PhaseInv /\ WrittenInv /\ EventInv /\ KnowsInv
    BY <1>1 DEF Init, PhaseInv, WrittenInv, EventInv, KnowsInv, Knows, Listening,
                Resting, Alone, Sender
  <1>3. WrittenFresh /\ RemovedFresh
    BY DEF Init, WrittenFresh, RemovedFresh, NoMarks
  <1>. QED BY <1>2, <1>3 DEF FreshInv

LEMMA SerialStep == [SerialNext]_vars => [Next]_vars
  BY DEF SerialNext, Next

LEMMA BasisStep ==
    Basis /\ [SerialNext]_vars => Basis'
  BY SerialStep, TypeStep, HashStep, GateStep, LimitsStep DEF Basis, Faultless

LEMMA BasisInit == Faultless /\ Init => Basis
  <1>1. Init => GateInv /\ HashKnown
    BY DEF Init, GateInv, NoPathLeftBehind, NothingSentBeforeJoin, Listening,
           Resting, Sending, HashKnown, Guarded
  <1>. QED BY <1>1, TypeInit DEF Basis, Init, LimitsInv, Faultless

LEMMA FreshQuiet == Basis /\ FreshInv => QuietMarksFresh
  BY StillMarks DEF QuietMarksFresh, Quiet, Basis, TypeOK

\* No suppression mark outlives the change it was set for.
THEOREM MarksFresh == Faultless /\ SerialSpec => []QuietMarksFresh
  <1>1. Faultless /\ Init => Basis /\ FreshInv
    BY BasisInit, FreshInit
  <1>2. Basis /\ FreshInv /\ [SerialNext]_vars => (Basis /\ FreshInv)'
    BY BasisStep, FreshStep
  <1>. QED BY <1>1, <1>2, FreshQuiet, PTL DEF SerialSpec

-----------------------------------------------------------------------------
(***************************************************************************)
(* The directory and the mesh.                                             *)
(***************************************************************************)
\* What a sender announces is the file as it is, and a neighbour hears it.
LEMMA Announces ==
    ASSUME Ground, NEW t \in Sender, TellTombstone(t) \/ Publish(t)
    PROVE  mesh' = [mesh EXCEPT ![snd[t].path] = fs[snd[t].path]]
  <1>1. linked /\ Knows(snd[t])
    BY DEF Ground, Basis, GateInv, NothingSentBeforeJoin, TellTombstone, Publish,
           Sending, FreshInv, PhaseInv, KnowsInv
  <1>. QED BY <1>1 DEF TellTombstone, Publish, Broadcast, Knows

\* The shape of a sender's step: one task moves on, on one path, while the
\* receive loop is not at a step it takes alone.
SenderMoves(t) ==
    /\ snd' \in [Sender -> SenderState]
    /\ \A u \in Sender \ {t} : snd'[u] = snd[u]
    /\ snd[t].pc \in {"idle", "record"} \/ snd'[t].path = snd[t].path
    /\ rcv.pc \notin Alone
    /\ UNCHANGED <<fs, window, rcv, joined, linked>>
    /\ \A p \in Path : mesh'[p] \in {mesh[p], fs[p]}
    /\ initial \subseteq initial'
    /\ flushList \ {snd'[t].path} \subseteq flushList' /\ flushList' \subseteq flushList
    /\ \A e \in Queued : e \in Queued' \/ e.path = snd'[t].path

LEMMA SenderAccounts ==
    ASSUME Ground, AccountedInv, NEW t \in Sender, SenderMoves(t),
           \A p \in Path : p = snd'[t].path => Accounted(p)'
    PROVE  AccountedInv'
  <1>. SUFFICES ASSUME NEW p \in Path, p # snd'[t].path PROVE Accounted(p)'
    BY DEF AccountedInv
  <1>1. Accounted(p)
    BY DEF AccountedInv
  <1>2. Settled(p) => Settled(p)'
    BY DEF Settled, SenderMoves
  <1>3. Reported(p) => Reported(p)'
    BY DEF Reported, SenderMoves
  <1>4. \A u \in Sender : Underway(u, p) => Underway(u, p)'
    BY DEF Underway, SenderMoves
  <1>. QED BY <1>1, <1>2, <1>3, <1>4 DEF Accounted, SenderMoves

LEMMA SenderTells ==
    ASSUME Ground, ToldInv, NEW t \in Sender, SenderMoves(t),
           dedup' \subseteq dedup \/ rcv.pc \notin Alone
    PROVE  ToldInv'
  <1>1. rcv.pc = "mark" => fs[rcv.up.path] = rcv.up.hash
    BY DEF Ground, FreshInv, WrittenInv
  <1>2. rcv.up.path \in Path
    BY BasisTypes DEF Ground, Basis
  <1>. QED BY <1>1, <1>2 DEF ToldInv, SenderMoves, Guarded, Alone

LEMMA SenderSent ==
    ASSUME Ground, SentInv, NEW t \in Sender, SenderMoves(t),
           lastRemoved' \subseteq lastRemoved,
           \A p \in Path : \/ lastWritten'[p] = lastWritten[p]
                           \/ lastWritten'[p] = Absent
                           \/ mesh'[p] = fs[p],
           snd'[t].pc = "record" => mesh'[snd[t].path] = snd'[t].hash /\ snd'[t].path = snd[t].path,
           t = "watcher" /\ snd'[t].pc = "compare" /\ snd'[t].hash # Absent
               /\ snd'[t].hash = fs[snd'[t].path] =>
                   mesh'[snd'[t].path] \in {fs[snd'[t].path]} \cup Oversize
    PROVE  SentInv'
  <1>0. /\ lastRemoved \subseteq Path /\ \A u \in Sender : snd[u].path \in Path
        /\ Sender = {"watcher", "flush"}
    BY BasisTypes DEF Ground, Basis, TypeOK, Sender
  <1>1. \A p \in lastRemoved' : mesh'[p] = Absent
    BY <1>0 DEF SentInv, SenderMoves, Ground, FreshInv, RemovedFresh, Alone
  <1>2. \A u \in Sender : snd'[u].pc = "record" => mesh'[snd'[u].path] = snd'[u].hash
    BY <1>0 DEF SentInv, SenderMoves, Ground, FreshInv, KnowsInv, Knows
  <1>3. ASSUME snd'["watcher"].pc = "compare", snd'["watcher"].hash # Absent,
               snd'["watcher"].hash = fs[snd'["watcher"].path]
        PROVE  Told(snd["watcher"].path, fs[snd["watcher"].path])'
    BY <1>0, <1>3 DEF SentInv, SenderMoves, Told
  <1>4. ASSUME NEW p \in Path, lastWritten'[p] # Absent, lastWritten'[p] = fs[p]
        PROVE  Told(p, fs[p])'
    BY <1>0, <1>4 DEF SentInv, SenderMoves, Told
  <1>. QED BY <1>1, <1>2, <1>3, <1>4 DEF SentInv, SenderMoves

LEMMA SenderDedup ==
    ASSUME Ground, DedupInv, NEW t \in Sender, SenderMoves(t),
           dedup \subseteq Path,
           \A p \in dedup' \ dedup : /\ p \in Path /\ fs[p] = Absent
                                     /\ snd'[t].pc = "tell" /\ snd'[t].path = p,
           snd[t].pc = "tell" => mesh'[snd[t].path] = Absent
    PROVE  DedupInv'
  <1>. SUFFICES ASSUME NEW p \in dedup'
                PROVE  /\ fs[p] = Absent
                       /\ \/ mesh'[p] = Absent
                          \/ \E u \in Sender : snd'[u].pc = "tell" /\ snd'[u].path = p
    BY DEF DedupInv, SenderMoves
  <1>1. CASE p \notin dedup
    BY <1>1
  <1>2. CASE p \in dedup
    <2>1. fs[p] = Absent
      BY <1>2 DEF DedupInv
    <2>2. CASE mesh[p] = Absent
      BY <1>2, <2>1, <2>2 DEF SenderMoves
    <2>3. ASSUME NEW u \in Sender, snd[u].pc = "tell", snd[u].path = p
          PROVE  \/ mesh'[p] = Absent
                 \/ \E v \in Sender : snd'[v].pc = "tell" /\ snd'[v].path = p
      BY <2>3 DEF SenderMoves
    <2>. QED BY <1>2, <2>1, <2>2, <2>3 DEF DedupInv
  <1>. QED BY <1>1, <1>2

\* The four together, for a step that leaves dedup and the marks alone.
LEMMA SenderAgrees ==
    ASSUME Ground, AgreeInv, NEW t \in Sender, SenderMoves(t),
           UNCHANGED <<lastWritten, dedup>>, lastRemoved' \subseteq lastRemoved,
           \A p \in Path : p = snd'[t].path => Accounted(p)',
           snd'[t].pc = "record" => /\ snd'[t].path = snd[t].path
                                    /\ mesh'[snd[t].path] = snd'[t].hash,
           snd'[t].pc # "compare",
           snd[t].pc = "tell" => mesh'[snd[t].path] = Absent
    PROVE  AgreeInv'
  <1>1. dedup \subseteq Path
    BY DEF Ground, Basis, TypeOK
  <1>2. ToldInv'
    BY SenderTells DEF AgreeInv
  <1>3. DedupInv'
    BY <1>1, SenderDedup DEF AgreeInv
  <1>4. SentInv'
    BY SenderSent DEF AgreeInv
  <1>5. AccountedInv'
    BY SenderAccounts DEF AgreeInv
  <1>. QED BY <1>2, <1>3, <1>4, <1>5 DEF AgreeInv

\* A sender works only while the receive loop is not at a step it takes alone.
LEMMA Accompanied ==
    ASSUME Ground, NEW t \in Sender,
           snd[t].pc # "idle" \/ flushList # {} \/ queue # <<>>
    PROVE  rcv.pc \notin Alone
  BY DEF Ground, FreshInv, PhaseInv

LEMMA GotoMoves ==
    ASSUME Ground, NEW t \in Sender, NEW pc \in SendPc, Goto(t, pc),
           snd[t].pc # "idle", UNCHANGED <<fs, watch, rcv, joined, linked, flushList>>,
           \A p \in Path : mesh'[p] \in {mesh[p], fs[p]},
           initial \subseteq initial'
    PROVE  /\ SenderMoves(t)
           /\ snd'[t].pc = pc /\ snd'[t].path = snd[t].path
           /\ snd'[t].hash = snd[t].hash
  <1>1. snd' \in [Sender -> SenderState]
    BY GotoTyped DEF Ground, Basis
  <1>2. snd \in [Sender -> SenderState]
    BY BasisTypes DEF Ground, Basis
  <1>3. rcv.pc \notin Alone
    BY Accompanied
  <1>4. /\ \A u \in Sender \ {t} : snd'[u] = snd[u]
        /\ snd'[t].pc = pc /\ snd'[t].path = snd[t].path /\ snd'[t].hash = snd[t].hash
    BY <1>2 DEF Goto, SenderState
  <1>5. Queued' = Queued
    BY DEF Queued, watch
  <1>. QED BY <1>1, <1>3, <1>4, <1>5 DEF SenderMoves, watch

LEMMA AgreeTakeEvent == Ground /\ AgreeInv /\ TakeEvent => AgreeInv'
  <1>. SUFFICES ASSUME Ground, AgreeInv, TakeEvent PROVE AgreeInv'
    OBVIOUS
  <1>. DEFINE e == Head(queue)
  <1>1. queue \in Seq([path : Path, removal : BOOLEAN]) /\ queue # <<>>
    BY BasisTypes DEF Ground, Basis, TakeEvent
  <1>2. Queued = Queued' \cup {e} /\ e \in [path : Path, removal : BOOLEAN]
    BY <1>1, Dequeued, QueueTyped DEF TakeEvent, Queued
  <1>3. /\ snd' = [snd EXCEPT !["watcher"] =
                     [pc |-> "compare", path |-> e.path, removal |-> e.removal,
                      hash |-> lastWritten[e.path]]]
        /\ lastWritten' = [lastWritten EXCEPT ![e.path] = Absent]
        /\ UNCHANGED <<fs, window, joined, linked, rcv, flushList, lastRemoved, dedup,
                       mesh, initial>>
        /\ snd["watcher"].pc = "idle"
    BY DEF TakeEvent, disk, gate, env
  <1>. HIDE DEF e
  <1>4. /\ snd' \in [Sender -> SenderState]
        /\ \A u \in Sender \ {"watcher"} : snd'[u] = snd[u]
        /\ snd'["watcher"].pc = "compare" /\ snd'["watcher"].path = e.path
        /\ snd'["watcher"].hash = lastWritten[e.path]
        /\ "watcher" \in Sender
    BY <1>2, <1>3, BasisTypes DEF Ground, Basis, SenderState, SendPc, Sender
  <1>5. rcv.pc \notin Alone
    BY <1>1, <1>4, Accompanied
  <1>6. SenderMoves("watcher")
    BY <1>2, <1>3, <1>4, <1>5 DEF SenderMoves
  <1>7. ToldInv'
    BY <1>3, <1>4, <1>6, SenderTells DEF AgreeInv
  <1>8. DedupInv'
    BY <1>3, <1>4, <1>6, SenderDedup DEF AgreeInv, Ground, Basis, TypeOK
  <1>9. SentInv'
    <2>1. snd'["watcher"].hash # Absent /\ snd'["watcher"].hash = fs[e.path]
              => mesh[e.path] \in {fs[e.path]} \cup Oversize
      BY <1>2, <1>4, <1>5 DEF AgreeInv, SentInv, Told
    <2>2. \A p \in Path : lastWritten'[p] = lastWritten[p] \/ lastWritten'[p] = Absent
      BY <1>2, <1>3, BasisTypes DEF Ground, Basis
    <2>. QED BY <1>3, <1>4, <1>6, <2>1, <2>2, SenderSent DEF AgreeInv
  <1>10. AccountedInv'
    BY <1>3, <1>4, <1>6, SenderAccounts DEF AgreeInv, Accounted, Underway
  <1>. QED BY <1>7, <1>8, <1>9, <1>10 DEF AgreeInv

LEMMA AgreeCompareMark == Ground /\ AgreeInv /\ CompareMark => AgreeInv'
  <1>. SUFFICES ASSUME Ground, AgreeInv, CompareMark PROVE AgreeInv'
    OBVIOUS
  <1>. DEFINE w == snd["watcher"]
  <1>1. PICK pc \in {"idle", "decide"} :
           /\ Goto("watcher", pc)
           /\ pc = "idle" => w.hash # Absent /\ fs[w.path] = w.hash
    BY DEF CompareMark
  <1>2. /\ UNCHANGED <<fs, watch, joined, linked, rcv, flushList, mesh, initial,
                       dedup, lastWritten, lastRemoved>>
        /\ w.pc = "compare" /\ "watcher" \in Sender
    BY DEF CompareMark, disk, gate, marks, env, Sender
  <1>3. /\ SenderMoves("watcher")
        /\ snd'["watcher"].pc = pc /\ snd'["watcher"].path = w.path
    BY <1>1, <1>2, GotoMoves DEF SendPc
  <1>4. ASSUME NEW p \in Path, p = w.path PROVE Accounted(p)'
    <2>1. CASE pc = "decide"
      BY <1>2, <1>3, <1>4, <2>1 DEF Accounted, Underway
    <2>2. CASE pc = "idle"
      <3>1. Told(w.path, fs[w.path])
        BY <1>1, <1>2, <2>2 DEF AgreeInv, SentInv
      <3>. QED BY <1>2, <1>4, <3>1 DEF Told, Accounted, Settled
    <2>. QED BY <2>1, <2>2
  <1>. QED BY <1>2, <1>3, <1>4, SenderAgrees

LEMMA AgreeDecide == Ground /\ AgreeInv /\ Decide => AgreeInv'
  <1>. SUFFICES ASSUME Ground, AgreeInv, Decide PROVE AgreeInv'
    OBVIOUS
  <1>. DEFINE w == snd["watcher"]
              gone == w.removal \/ fs[w.path] = Absent
  <1>1. /\ UNCHANGED <<fs, watch, joined, linked, rcv, flushList, mesh, initial,
                       dedup, lastWritten>>
        /\ w.pc = "decide" /\ "watcher" \in Sender
        /\ Queued' = Queued
    BY DEF Decide, disk, gate, env, Sender, Queued, watch
  <1>2. gone = (fs[w.path] = Absent)
    BY <1>1 DEF Ground, FreshInv, KnowsInv, Knows, Sender
  <1>3. /\ snd' \in [Sender -> SenderState]
        /\ \A u \in Sender \ {"watcher"} : snd'[u] = snd[u]
        /\ snd'["watcher"].path = w.path
        /\ lastRemoved' \subseteq lastRemoved
        /\ \/ snd'["watcher"].pc = "idle" /\ gone /\ w.path \in lastRemoved
           \/ snd'["watcher"].pc = "gate"
    BY BasisTypes DEF Ground, Basis, Decide, Goto, Sender, SenderState, SendPc
  <1>4. rcv.pc \notin Alone
    BY <1>1, Accompanied
  <1>5. SenderMoves("watcher")
    BY <1>1, <1>3, <1>4 DEF SenderMoves, watch
  <1>6. ASSUME NEW p \in Path, p = w.path PROVE Accounted(p)'
    BY <1>1, <1>2, <1>3, <1>6 DEF Accounted, Underway, Settled, AgreeInv, SentInv
  <1>. QED BY <1>1, <1>3, <1>5, <1>6, SenderAgrees

LEMMA AgreePassGate == Ground /\ AgreeInv /\ PassGate => AgreeInv'
  <1>. SUFFICES ASSUME Ground, AgreeInv, PassGate PROVE AgreeInv'
    OBVIOUS
  <1>1. PICK pc \in {"idle", "dedup", "read"} :
           /\ Goto("watcher", pc)
           /\ pc = "idle" => initial' = initial \cup {snd["watcher"].path}
    BY DEF PassGate
  <1>2. /\ UNCHANGED <<fs, watch, joined, linked, rcv, flushList, mesh, dedup,
                       lastWritten, lastRemoved>>
        /\ initial \subseteq initial'
        /\ snd["watcher"].pc = "gate" /\ "watcher" \in Sender
    BY DEF PassGate, disk, marks, env, Sender
  <1>3. /\ SenderMoves("watcher")
        /\ snd'["watcher"].pc = pc /\ snd'["watcher"].path = snd["watcher"].path
    BY <1>1, <1>2, GotoMoves DEF SendPc, Sending
  <1>4. ASSUME NEW p \in Path, p = snd["watcher"].path PROVE Accounted(p)'
    BY <1>1, <1>2, <1>3, <1>4 DEF Accounted, Underway, Settled
  <1>. QED BY <1>2, <1>3, <1>4, SenderAgrees

LEMMA AgreeCheckDedup ==
    ASSUME Ground, AgreeInv, NEW t \in Sender, CheckDedup(t)
    PROVE  AgreeInv'
  <1>. DEFINE p == snd[t].path
  <1>1. PICK pc \in {"idle", "tell"} :
           /\ Goto(t, pc)
           /\ pc = "idle" => p \in dedup /\ dedup' = dedup
           /\ pc = "tell" => dedup' = dedup \cup {p}
    BY DEF CheckDedup
  <1>2. /\ UNCHANGED <<fs, watch, joined, linked, rcv, flushList, mesh, initial,
                       lastWritten, lastRemoved>>
        /\ snd[t].pc = "dedup" /\ fs[p] = Absent /\ p \in Path
        /\ dedup \subseteq Path
    BY BasisTypes DEF CheckDedup, disk, gate, env, Ground, Basis, TypeOK, FreshInv,
       KnowsInv, Knows
  <1>3. SenderMoves(t) /\ snd'[t].pc = pc /\ snd'[t].path = p
    BY <1>1, <1>2, GotoMoves DEF SendPc, Sending
  <1>4. ToldInv'
    BY <1>3, SenderTells DEF AgreeInv, SenderMoves
  <1>5. DedupInv'
    BY <1>1, <1>2, <1>3, SenderDedup DEF AgreeInv
  <1>6. SentInv'
    BY <1>1, <1>2, <1>3, SenderSent DEF AgreeInv
  <1>7. ASSUME NEW q \in Path, q = p PROVE Accounted(q)'
    <2>1. CASE pc = "tell"
      BY <1>3, <1>7, <2>1 DEF Accounted, Underway
    <2>2. CASE pc = "idle"
      <3>1. CASE mesh[p] = Absent
        BY <1>2, <1>7, <3>1 DEF Accounted, Settled
      <3>2. ASSUME NEW u \in Sender, snd[u].pc = "tell", snd[u].path = p
            PROVE  Accounted(q)'
        BY <1>2, <1>3, <1>7, <3>2 DEF Accounted, Underway, SenderMoves
      <3>. QED BY <1>1, <2>2, <3>1, <3>2 DEF AgreeInv, DedupInv
    <2>. QED BY <2>1, <2>2
  <1>8. AccountedInv'
    BY <1>3, <1>7, SenderAccounts DEF AgreeInv
  <1>. QED BY <1>4, <1>5, <1>6, <1>8 DEF AgreeInv

LEMMA AgreeAnnounce ==
    ASSUME Ground, AgreeInv, NEW t \in Sender, TellTombstone(t) \/ Publish(t)
    PROVE  AgreeInv'
  <1>. DEFINE p == snd[t].path
  <1>1. PICK pc \in {"idle", "record"} :
           /\ Goto(t, pc)
           /\ pc = "record" => snd[t].pc = "publish"
    BY DEF TellTombstone, Publish
  <1>2. /\ UNCHANGED <<fs, watch, joined, linked, rcv, flushList, dedup, initial,
                       lastWritten, lastRemoved>>
        /\ snd[t].pc \in {"tell", "publish"} /\ p \in Path
        /\ snd[t].pc = "tell" => fs[p] = Absent
        /\ snd[t].pc = "publish" => snd[t].hash = fs[p]
    BY BasisTypes
       DEF TellTombstone, Publish, disk, marks, gate, Ground, Basis, FreshInv,
           KnowsInv, Knows
  <1>3. /\ mesh'[p] = fs[p]
        /\ \A q \in Path : mesh'[q] \in {mesh[q], fs[q]}
    BY <1>2, Announces, BasisTypes DEF Ground, Basis
  <1>4. /\ SenderMoves(t) /\ snd'[t].pc = pc /\ snd'[t].path = p
        /\ snd'[t].hash = snd[t].hash
    BY <1>1, <1>2, <1>3, GotoMoves DEF SendPc, Sending
  <1>5. ASSUME NEW q \in Path, q = p PROVE Accounted(q)'
    BY <1>2, <1>3, <1>5 DEF Accounted, Settled
  <1>. QED BY <1>1, <1>2, <1>3, <1>4, <1>5, SenderAgrees

LEMMA AgreeReadFile ==
    ASSUME Ground, AgreeInv, NEW t \in Sender, ReadFile(t)
    PROVE  AgreeInv'
  <1>. DEFINE p == snd[t].path
  <1>1. /\ UNCHANGED <<fs, watch, joined, linked, rcv, flushList, mesh, dedup,
                       initial, lastWritten, lastRemoved>>
        /\ snd[t].pc = "read" /\ p \in Path /\ fs[p] # Absent
        /\ Queued' = Queued
    BY BasisTypes
       DEF ReadFile, watch, marks, gate, env, Ground, Basis, FreshInv, KnowsInv,
           Knows, Queued
  <1>2. /\ snd' \in [Sender -> SenderState]
        /\ \A u \in Sender \ {t} : snd'[u] = snd[u]
        /\ snd'[t].path = p
        /\ \/ snd'[t].pc = "idle" /\ fs[p] \in Oversize
           \/ snd'[t].pc = "publish"
    <2>1. CASE fs[p] \in Oversize
      <3>1. Goto(t, "idle")
        BY <2>1 DEF ReadFile
      <3>2. snd' \in [Sender -> SenderState]
        BY <3>1, GotoTyped DEF Ground, Basis, SendPc
      <3>. QED BY <2>1, <3>1, <3>2, BasisTypes DEF Ground, Basis, Goto, SenderState
    <2>2. CASE fs[p] \notin Oversize
      <3>. DEFINE k == [snd[t] EXCEPT !.pc = "publish", !.hash = fs[p]]
      <3>1. snd' = [snd EXCEPT ![t] = k]
        BY <1>1, <2>2 DEF ReadFile
      <3>2. k \in SenderState /\ k.pc = "publish" /\ k.path = p
        BY <1>1, BasisTypes DEF Ground, Basis, SenderState, SendPc, Sending
      <3>. HIDE DEF k
      <3>. QED BY <3>1, <3>2, BasisTypes DEF Ground, Basis
    <2>. QED BY <2>1, <2>2
  <1>3. rcv.pc \notin Alone
    BY <1>1, Accompanied
  <1>4. SenderMoves(t)
    BY <1>1, <1>2, <1>3 DEF SenderMoves, watch
  <1>5. ASSUME NEW q \in Path, q = p PROVE Accounted(q)'
    BY <1>1, <1>2, <1>5 DEF Accounted, Underway, Settled
  <1>. QED BY <1>1, <1>2, <1>4, <1>5, SenderAgrees

LEMMA AgreeRecordSent ==
    ASSUME Ground, AgreeInv, NEW t \in Sender, RecordSent(t)
    PROVE  AgreeInv'
  <1>. DEFINE p == snd[t].path
  <1>1. /\ UNCHANGED <<fs, watch, joined, linked, rcv, flushList, mesh, dedup,
                       initial, lastRemoved>>
        /\ Goto(t, "idle")
        /\ lastWritten' = [lastWritten EXCEPT ![p] = snd[t].hash]
        /\ snd[t].pc = "record" /\ p \in Path
        /\ mesh[p] = fs[p]
        /\ dedup \subseteq Path
    BY BasisTypes
       DEF RecordSent, disk, watch, gate, env, Ground, Basis, TypeOK, FreshInv,
           KnowsInv, Knows, AgreeInv, SentInv
  <1>2. SenderMoves(t) /\ snd'[t].pc = "idle" /\ snd'[t].path = p
    BY <1>1, GotoMoves DEF SendPc
  <1>3. \A q \in Path : lastWritten'[q] = lastWritten[q] \/ mesh'[q] = fs[q]
    BY <1>1, BasisTypes DEF Ground, Basis
  <1>4. ToldInv'
    BY <1>1, <1>2, SenderTells DEF AgreeInv
  <1>5. DedupInv'
    BY <1>1, <1>2, SenderDedup DEF AgreeInv
  <1>6. SentInv'
    BY <1>1, <1>2, <1>3, SenderSent DEF AgreeInv
  <1>7. ASSUME NEW q \in Path, q = p PROVE Accounted(q)'
    BY <1>1, <1>7 DEF Accounted, Settled
  <1>8. AccountedInv'
    BY <1>2, <1>7, SenderAccounts DEF AgreeInv
  <1>. QED BY <1>4, <1>5, <1>6, <1>8 DEF AgreeInv

LEMMA AgreeFlushNext ==
    ASSUME Ground, AgreeInv, NEW p \in Path, FlushNext(p)
    PROVE  AgreeInv'
  <1>1. /\ UNCHANGED <<fs, watch, joined, linked, rcv, mesh, dedup, initial,
                       lastWritten, lastRemoved>>
        /\ flushList' = flushList \ {p} /\ flushList # {}
        /\ snd["flush"].pc = "idle" /\ "flush" \in Sender
        /\ Queued' = Queued
    BY DEF FlushNext, disk, watch, marks, env, Queued, Sender
  <1>2. /\ snd' \in [Sender -> SenderState]
        /\ \A u \in Sender \ {"flush"} : snd'[u] = snd[u]
        /\ snd'["flush"].path = p
        /\ snd'["flush"].pc \in {"dedup", "read"}
    BY BasisTypes
       DEF Ground, Basis, FlushNext, SenderState, SendPc, Sending, Sender,
           MaybeContent
  <1>3. rcv.pc \notin Alone
    BY <1>1, Accompanied
  <1>4. SenderMoves("flush")
    BY <1>1, <1>2, <1>3 DEF SenderMoves, watch
  <1>5. ASSUME NEW q \in Path, q = p PROVE Accounted(q)'
    BY <1>1, <1>2, <1>5 DEF Accounted, Underway
  <1>. QED BY <1>1, <1>2, <1>4, <1>5, SenderAgrees

LEMMA AgreeDebounce ==
    ASSUME Ground, AgreeInv, NEW p \in Path, Debounce(p)
    PROVE  AgreeInv'
  <1>. DEFINE e == [path |-> p, removal |-> "remove" \in window[p]]
  <1>1. UNCHANGED <<fs, snd, joined, linked, rcv, flushList, lastWritten, lastRemoved,
                    dedup, mesh, initial>>
    BY DEF Debounce, disk, marks, gate
  <1>2. Queued' = Queued \cup {e} /\ e.path = p
    <2>1. /\ queue' = Append(queue, e)
          /\ queue \in Seq([path : Path, removal : BOOLEAN])
          /\ e \in [path : Path, removal : BOOLEAN] /\ e.path = p
      BY BasisTypes DEF Debounce, Ground, Basis
    <2>. HIDE DEF e
    <2>. QED BY <2>1, Enqueued DEF Queued
  <1>3. \A q \in Path \ {p} : window'[q] = window[q]
    BY BasisTypes DEF Ground, Basis, Debounce
  <1>. HIDE DEF e
  <1>4. \A q \in Path : Reported(q) => Reported(q)'
    BY <1>2, <1>3 DEF Reported
  <1>5. ToldInv' /\ DedupInv' /\ SentInv'
    BY <1>1 DEF AgreeInv, ToldInv, DedupInv, SentInv, Told, Here
  <1>6. AccountedInv'
    BY <1>1, <1>4
       DEF AgreeInv, AccountedInv, Accounted, Settled, Underway, Here
  <1>. QED BY <1>5, <1>6 DEF AgreeInv

\* What at most lets a dedup entry expire.
LEMMA AgreeFrame ==
    ASSUME AgreeInv,
           UNCHANGED <<fs, window, queue, lastWritten, lastRemoved, initial,
                       flushList, snd, rcv, mesh>>,
           dedup' \subseteq dedup
    PROVE  AgreeInv'
  <1>1. Queued' = Queued
    BY DEF Queued
  <1>2. ToldInv' /\ DedupInv'
    BY DEF AgreeInv, ToldInv, DedupInv
  <1>3. SentInv'
    BY DEF AgreeInv, SentInv, Told, Here
  <1>4. AccountedInv'
    BY <1>1 DEF AgreeInv, AccountedInv, Accounted, Settled, Underway, Reported, Here
  <1>. QED BY <1>2, <1>3, <1>4 DEF AgreeInv

\* A change while the senders rest and nothing waits for a dedup entry: what is
\* left to show is why each path is accounted for.
LEMMA StillAgrees ==
    ASSUME \A t \in Sender : snd'[t].pc = "idle", dedup' = {},
           ToldInv', AccountedInv',
           \A p \in lastRemoved' : mesh'[p] = Absent,
           \A p \in Path : lastWritten'[p] # Absent /\ lastWritten'[p] = fs'[p] =>
               \/ mesh'[p] \in {fs'[p]} \cup Oversize
               \/ rcv'.pc \in Alone /\ rcv'.up.path = p
    PROVE  AgreeInv'
  <1>1. DedupInv'
    BY DEF DedupInv
  <1>2. SentInv'
    BY DEF SentInv, Told, Here, Sender
  <1>. QED BY <1>1, <1>2 DEF AgreeInv

LEMMA AgreeUser ==
    ASSUME Ground, AgreeInv, Calm, NEW p \in Path,
           UserRemove(p) \/ \E c \in UserContent : UserWrite(p, c)
    PROVE  AgreeInv'
  <1>0. /\ queue = <<>> /\ flushList = {} /\ rcv.pc = "idle" /\ dedup = {}
        /\ \A t \in Sender : snd[t].pc = "idle"
        /\ \A q \in Path : window[q] = {}
        /\ lastRemoved \subseteq Path
    BY DEF Calm, Quiet, Ground, Lossless, Basis, TypeOK
  <1>1. /\ UNCHANGED <<queue, lastWritten, lastRemoved, snd, rcv, initial, flushList,
                       mesh, dedup>>
        /\ \A q \in Path \ {p} : fs'[q] = fs[q] /\ window'[q] = window[q]
    BY BasisTypes DEF Ground, Basis, UserRemove, UserWrite, marks, gate
  <1>2. window'[p] # {}
    <2>1. window \in [Path -> SUBSET Kind] /\ window[p] = {}
      BY <1>0, BasisTypes DEF Ground, Basis
    <2>2. CASE UserRemove(p)
      BY <2>1, <2>2 DEF UserRemove, AfterRemove
    <2>3. ASSUME NEW c \in UserContent, UserWrite(p, c) PROVE window'[p] # {}
      BY <2>1, <2>3 DEF UserWrite, AfterWrite
    <2>. QED BY <2>2, <2>3
  <1>3. ToldInv'
    BY <1>0, <1>1 DEF ToldInv, Guarded, Alone
  <1>4. AccountedInv'
    <2>. SUFFICES ASSUME NEW q \in Path PROVE Accounted(q)'
      BY DEF AccountedInv
    <2>1. CASE q = p
      BY <1>2, <2>1 DEF Accounted, Reported
    <2>2. CASE q # p
      <3>1. Queued = {} /\ ~Reported(q)
        BY <1>0 DEF Queued, Reported
      <3>2. Settled(q)
        BY <1>0, <3>1 DEF AgreeInv, AccountedInv, Accounted, Underway, Alone
      <3>. QED BY <1>1, <2>2, <3>2 DEF Accounted, Settled
    <2>. QED BY <2>1, <2>2
  <1>5. \A q \in lastRemoved' : mesh'[q] = Absent
    BY <1>1 DEF AgreeInv, SentInv
  <1>6. ASSUME NEW q \in Path, lastWritten'[q] # Absent, lastWritten'[q] = fs'[q]
        PROVE  mesh'[q] \in {fs'[q]} \cup Oversize
    <2>1. lastWritten[q] = fs[q]
      BY <1>0, <1>1, <1>6, StillMarks DEF Ground
    <2>. QED BY <1>0, <1>1, <1>6, <2>1 DEF AgreeInv, SentInv, Told, Alone
  <1>. QED BY <1>0, <1>1, <1>3, <1>4, <1>5, <1>6, StillAgrees

LEMMA AgreeReceive ==
    ASSUME Ground, AgreeInv, Calm, NEW u \in Wire, Receive(u)
    PROVE  AgreeInv'
  <1>0. /\ queue = <<>> /\ flushList = {} /\ rcv.pc = "idle" /\ dedup = {}
        /\ \A t \in Sender : snd[t].pc = "idle"
        /\ \A q \in Path : window[q] = {}
        /\ lastRemoved = {}
    BY StillMarks DEF Calm, Quiet, Ground, Lossless, Basis, TypeOK
  <1>1. UNCHANGED <<fs, window, queue, lastWritten, snd, initial, flushList, dedup>>
    BY DEF Receive, disk, watch, gate
  <1>2. u.path \in Path /\ (u.kind = "tombstone" => u.hash = Absent)
        /\ u.kind \in {"upsert", "tombstone"}
    BY DEF Wire, Update
  <1>3. CASE u.from \notin Allowed
    BY <1>1, <1>3, AgreeFrame DEF Receive
  <1>4. CASE u.from \in Allowed
    <2>1. /\ mesh' = [mesh EXCEPT ![u.path] = u.hash]
          /\ rcv'.up = u
          /\ \/ rcv'.pc = "fetch" /\ lastRemoved' = {}
             \/ /\ rcv'.pc = "unlink" /\ u.hash = Absent
                /\ lastRemoved' = {u.path}
      BY <1>0, <1>2, <1>4 DEF Receive
    <2>2. mesh'[u.path] = u.hash /\ \A q \in Path \ {u.path} : mesh'[q] = mesh[q]
      BY <1>2, <2>1, BasisTypes DEF Ground, Basis
    <2>3. ToldInv'
      BY <1>0, <1>1, <2>1, <2>2 DEF ToldInv, Guarded
    <2>4. AccountedInv'
      <3>. SUFFICES ASSUME NEW q \in Path PROVE Accounted(q)'
        BY DEF AccountedInv
      <3>1. CASE q = u.path
        BY <2>1, <3>1 DEF Accounted, Here, Alone
      <3>2. CASE q # u.path
        <4>1. Queued = {} /\ ~Reported(q)
          BY <1>0 DEF Queued, Reported
        <4>2. Settled(q)
          BY <1>0, <4>1 DEF AgreeInv, AccountedInv, Accounted, Underway, Alone
        <4>. QED BY <1>1, <2>2, <3>2, <4>2 DEF Accounted, Settled
      <3>. QED BY <3>1, <3>2
    <2>5. \A q \in lastRemoved' : mesh'[q] = Absent
      BY <2>1, <2>2
    <2>6. ASSUME NEW q \in Path, lastWritten'[q] # Absent, lastWritten'[q] = fs'[q]
          PROVE  \/ mesh'[q] \in {fs'[q]} \cup Oversize
                 \/ rcv'.pc \in Alone /\ rcv'.up.path = q
      BY <1>0, <1>1, <2>1, <2>2, <2>6 DEF AgreeInv, SentInv, Told, Alone
    <2>. QED BY <1>0, <1>1, <2>3, <2>4, <2>5, <2>6, StillAgrees
  <1>. QED BY <1>3, <1>4

LEMMA AgreeNeighborUp == Ground /\ AgreeInv /\ NeighborUp => AgreeInv'
  <1>. SUFFICES ASSUME Ground, AgreeInv, NeighborUp PROVE AgreeInv'
    OBVIOUS
  <1>1. /\ rcv.pc = "idle" /\ rcv'.pc = "drain"
        /\ UNCHANGED <<fs, window, queue, lastWritten, lastRemoved, dedup, snd,
                       initial, flushList, mesh>>
        /\ Queued' = Queued /\ flushList = {}
    BY BasisTypes
       DEF Ground, Basis, GateInv, NothingSentBeforeJoin, NeighborUp, Await, disk,
           watch, marks, Queued, FreshInv, PhaseInv
  <1>2. ToldInv' /\ DedupInv'
    BY <1>1 DEF AgreeInv, ToldInv, DedupInv, Guarded, Alone
  <1>3. SentInv'
    BY <1>1 DEF AgreeInv, SentInv, Told, Here, Alone
  <1>4. AccountedInv'
    BY <1>1 DEF AgreeInv, AccountedInv, Accounted, Settled, Underway, Reported,
                Here, Alone
  <1>. QED BY <1>2, <1>3, <1>4 DEF AgreeInv

LEMMA AgreeReceiver == Ground /\ AgreeInv /\ Receiver => AgreeInv'
  <1>. SUFFICES ASSUME Ground, AgreeInv, Receiver PROVE AgreeInv'
    OBVIOUS
  <1>. DEFINE p == rcv.up.path
  <1>0. /\ p \in Path
        /\ rcv.pc \in Alone => /\ queue = <<>> /\ flushList = {} /\ dedup = {}
                               /\ \A t \in Sender : snd[t].pc = "idle"
                               /\ \A q \in Path : window[q] = {}
        /\ lastRemoved \subseteq Path
    BY BasisTypes DEF Ground, Basis, FreshInv, PhaseInv, AgreeInv, ToldInv, TypeOK
  <1>1. CASE rcv.pc \in Alone
    <2>1. ASSUME NEW q \in Path, q # p PROVE Settled(q)
      <3>1. Queued = {} /\ ~Reported(q)
        BY <1>0, <1>1 DEF Queued, Reported
      <3>. QED BY <1>0, <1>1, <2>1, <3>1
           DEF AgreeInv, AccountedInv, Accounted, Underway, Here
    <2>2. /\ Fetch \/ CheckConflict \/ RenameToBackup \/ Persist \/ Unlink
          /\ UNCHANGED <<lastWritten, dedup, mesh, initial, snd, flushList>>
          /\ lastRemoved' \subseteq lastRemoved
          /\ rcv'.up = rcv.up
          /\ rcv'.pc \notin {"drain", "unlink"}
      BY <1>1, BasisTypes
         DEF Alone, Ground, Basis, Receiver, Fetch, CheckConflict, RenameToBackup,
             Persist, CommitUpsert, Unlink, JournalApplied, DrainInitial, Await,
             disk, marks, gate, env
    <2>3. /\ \A q \in Path \ {p} : fs'[q] = fs[q]
          /\ \/ rcv'.pc \in {"check", "rename", "persist"} /\ rcv.pc \in Guarded
             \/ rcv'.pc = "mark" /\ mesh[p] = fs'[p] /\ rcv.pc \in Guarded
             \/ rcv'.pc \in {"idle", "journal"}
                /\ (mesh[p] = fs'[p] \/ mesh[p] \in Oversize)
          /\ rcv'.pc = "rename" => fs'[p] # Absent
      <3>1. CASE Fetch
        BY <3>1, <2>2, BasisTypes
           DEF Ground, Basis, Fetch, Await, Guarded, AgreeInv, ToldInv
      <3>2. CASE CheckConflict
        BY <3>2, <2>2, BasisTypes
           DEF Ground, Basis, CheckConflict, Await, Guarded, disk
      <3>3. CASE RenameToBackup
        BY <1>0, <3>3, <2>2, BasisTypes
           DEF Ground, Basis, RenameToBackup, Await, Guarded, AgreeInv, ToldInv
      <3>4. CASE Persist
        BY <1>0, <3>4, <2>2, BasisTypes
           DEF Ground, Basis, Persist, Await, Guarded, AgreeInv, ToldInv
      <3>5. CASE Unlink
        BY <1>0, <3>5, <2>2, BasisTypes
           DEF Ground, Basis, Unlink, Await, AgreeInv, ToldInv
      <3>. QED BY <2>2, <3>1, <3>2, <3>3, <3>4, <3>5
    <2>4. ToldInv'
      BY <1>0, <1>1, <2>2, <2>3 DEF AgreeInv, ToldInv, Guarded
    <2>5. AccountedInv'
      <3>. SUFFICES ASSUME NEW q \in Path PROVE Accounted(q)'
        BY DEF AccountedInv
      <3>1. CASE q = p
        BY <2>2, <2>3, <3>1 DEF Accounted, Settled, Here, Alone
      <3>2. CASE q # p
        BY <2>1, <2>2, <2>3, <3>2 DEF Accounted, Settled
      <3>. QED BY <3>1, <3>2
    <2>6. \A q \in lastRemoved' : mesh'[q] = Absent
      BY <2>2 DEF AgreeInv, SentInv
    <2>7. ASSUME NEW q \in Path, lastWritten'[q] # Absent, lastWritten'[q] = fs'[q]
          PROVE  \/ mesh'[q] \in {fs'[q]} \cup Oversize
                 \/ rcv'.pc \in Alone /\ rcv'.up.path = q
      <3>1. CASE q = p
        BY <2>2, <2>3, <3>1 DEF Alone
      <3>2. CASE q # p
        BY <2>2, <2>3, <2>7, <3>2 DEF AgreeInv, SentInv, Told, Here
      <3>. QED BY <3>1, <3>2
    <2>. QED BY <1>0, <1>1, <2>2, <2>4, <2>5, <2>6, <2>7, StillAgrees
  <1>2. CASE CommitUpsert
    <2>1. /\ rcv.pc = "mark" /\ rcv'.pc = "journal" /\ rcv'.up = rcv.up
          /\ lastWritten' = [lastWritten EXCEPT ![p] = rcv.up.hash]
          /\ UNCHANGED <<fs, window, queue, lastRemoved, dedup, snd, initial, mesh,
                         flushList>>
          /\ Queued' = Queued
      BY <1>2, BasisTypes
         DEF Ground, Basis, CommitUpsert, Await, Queued, disk, watch, gate, env
    <2>2. fs[p] = rcv.up.hash /\ mesh[p] = rcv.up.hash
      BY <2>1 DEF Ground, FreshInv, WrittenInv, AgreeInv, ToldInv, Guarded
    <2>3. ToldInv' /\ DedupInv'
      BY <2>1 DEF AgreeInv, ToldInv, DedupInv, Guarded, Alone
    <2>4. \A q \in Path : lastWritten'[q] = lastWritten[q] \/ mesh[q] = fs[q]
      BY <1>0, <2>1, <2>2, BasisTypes DEF Ground, Basis
    <2>5. SentInv'
      BY <2>1, <2>4 DEF AgreeInv, SentInv, Told, Here, Alone
    <2>6. AccountedInv'
      BY <2>1 DEF AgreeInv, AccountedInv, Accounted, Settled, Underway, Reported,
                  Here, Alone
    <2>. QED BY <2>3, <2>5, <2>6 DEF AgreeInv
  <1>3. CASE JournalApplied
    <2>1. /\ rcv.pc = "journal" /\ rcv'.pc = "idle" /\ rcv'.up = rcv.up
          /\ UNCHANGED <<fs, window, queue, lastWritten, lastRemoved, dedup, snd,
                         initial, mesh, flushList>>
          /\ Queued' = Queued
      BY <1>3, BasisTypes
         DEF Ground, Basis, JournalApplied, Await, Queued, watch, marks, gate
    <2>2. ToldInv' /\ DedupInv'
      BY <2>1 DEF AgreeInv, ToldInv, DedupInv, Guarded, Alone
    <2>3. SentInv'
      BY <2>1 DEF AgreeInv, SentInv, Told, Here, Alone
    <2>4. AccountedInv'
      BY <2>1 DEF AgreeInv, AccountedInv, Accounted, Settled, Underway, Reported,
                  Here, Alone
    <2>. QED BY <2>2, <2>3, <2>4 DEF AgreeInv
  <1>4. CASE DrainInitial
    <2>1. /\ rcv.pc = "drain" /\ rcv'.pc = "idle" /\ rcv'.up = rcv.up
          /\ flushList' = initial /\ initial' = {}
          /\ UNCHANGED <<fs, window, queue, lastWritten, lastRemoved, dedup, snd, mesh>>
          /\ Queued' = Queued
      BY <1>4, BasisTypes
         DEF Ground, Basis, DrainInitial, Await, Queued, disk, watch, marks, env
    <2>2. flushList = {}
      BY <2>1 DEF AgreeInv, ToldInv
    <2>3. ToldInv' /\ DedupInv'
      BY <2>1 DEF AgreeInv, ToldInv, DedupInv, Guarded, Alone
    <2>4. SentInv'
      BY <2>1 DEF AgreeInv, SentInv, Told, Here, Alone
    <2>5. AccountedInv'
      BY <2>1, <2>2 DEF AgreeInv, AccountedInv, Accounted, Settled, Underway,
                        Reported, Here, Alone
    <2>. QED BY <2>3, <2>4, <2>5 DEF AgreeInv
  <1>. QED BY <1>1, <1>2, <1>3, <1>4
       DEF Receiver, Fetch, CheckConflict, RenameToBackup, Persist, Unlink, Alone

LEMMA AgreeStep ==
    Ground /\ AgreeInv /\ [SerialNext]_vars => AgreeInv'
  <1>. SUFFICES ASSUME Ground, AgreeInv, [SerialNext]_vars PROVE AgreeInv'
    OBVIOUS
  <1>1. ASSUME Calm, NEW p \in Path,
               UserRemove(p) \/ \E c \in UserContent : UserWrite(p, c)
        PROVE  AgreeInv'
    BY <1>1, AgreeUser
  <1>2. CASE Calm /\ Remote
    BY <1>2, AgreeReceive DEF Remote
  <1>3. CASE Serve \/ UNCHANGED vars \/ \E p \in Path : DedupExpires(p)
    BY <1>3, AgreeFrame
       DEF Serve, ServeBlob, vars, DedupExpires, disk, watch, marks, gate, env
  <1>4. CASE Watcher
    BY <1>4, AgreeTakeEvent, AgreeCompareMark, AgreeDecide, AgreePassGate DEF Watcher
  <1>5. ASSUME NEW t \in Sender, Send(t) PROVE AgreeInv'
    BY <1>5, AgreeCheckDedup, AgreeAnnounce, AgreeReadFile, AgreeRecordSent DEF Send
  <1>6. ~Crash
    BY DEF Crash, Spend, Ground, Basis, LimitsInv, Lossless
  <1>. QED
    BY <1>1, <1>2, <1>3, <1>4, <1>5, <1>6, AgreeNeighborUp, AgreeDebounce,
       AgreeFlushNext, AgreeReceiver, SerialCases DEF Ground, Basis, Internal

LEMMA AgreeInit == Init => AgreeInv
  <1>. SUFFICES ASSUME Init PROVE AgreeInv
    OBVIOUS
  <1>1. ToldInv /\ DedupInv
    BY DEF Init, ToldInv, DedupInv, Listening, Guarded, Alone
  <1>2. SentInv
    BY DEF Init, SentInv, NoMarks, Resting, Sender
  <1>3. AccountedInv
    BY DEF Init, AccountedInv, Accounted, Settled
  <1>. QED BY <1>1, <1>2, <1>3 DEF AgreeInv

LEMMA AgreeQuiet == AgreeInv => QuietAgreement
  <1>. SUFFICES ASSUME AgreeInv, Quiet, NEW p \in Path PROVE Settled(p)
    BY DEF QuietAgreement, Settled
  <1>1. Queued = {} /\ ~Reported(p)
    BY DEF Quiet, Queued, Reported
  <1>. QED BY <1>1 DEF AgreeInv, AccountedInv, Accounted, Underway, Quiet, Alone

\* Whenever the daemon is at rest, the directory and the mesh agree.
THEOREM RestAgrees == Lossless /\ SerialSpec => []QuietAgreement
  <1>1. Lossless /\ Init => Ground /\ AgreeInv
    BY BasisInit, FreshInit, AgreeInit DEF Ground, Lossless
  <1>2. Ground /\ AgreeInv /\ [SerialNext]_vars => (Ground /\ AgreeInv)'
    <2>1. Ground /\ [SerialNext]_vars => Ground'
      BY BasisStep, FreshStep DEF Ground, Lossless, Faultless
    <2>. QED BY <2>1, AgreeStep
  <1>. QED BY <1>1, <1>2, AgreeQuiet, PTL DEF SerialSpec
=============================================================================

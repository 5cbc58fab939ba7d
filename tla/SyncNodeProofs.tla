--------------------------- MODULE SyncNodeProofs ---------------------------
(***************************************************************************)
(* Safety of SyncNode for every value of its constants: any number of      *)
(* paths, peers, contents, faults and crashes.                             *)
(***************************************************************************)
EXTENDS SyncNode, TLAPS

\* The registers of the idle tasks hold values of the right kind.
LEMMA RegistersTyped ==
    /\ Resting \in [pc : SendPc, path : Path, removal : BOOLEAN, hash : MaybeContent]
    /\ Listening \in [pc : RcvPc, up : Update]
  BY PathAssumption, PeerAssumption
     DEF Resting, Listening, SendPc, RcvPc, Sending, Guarded, Update, MaybeContent

SenderState == [pc : SendPc, path : Path, removal : BOOLEAN, hash : MaybeContent]

\* What spends a bound, moves a sender on, or moves the receive loop on.
LEMMA SpendTyped ==
    ASSUME TypeOK, NEW what \in Bounded, Spend(what)
    PROVE  left' \in [Bounded -> Nat]
  BY DEF TypeOK, Spend

LEMMA GotoTyped ==
    ASSUME TypeOK, NEW t \in Sender, NEW pc \in SendPc, Goto(t, pc)
    PROVE  snd' \in [Sender -> SenderState]
  <1> DEFINE k == [snd[t] EXCEPT !.pc = pc]
  <1>1. snd \in [Sender -> SenderState]
    BY DEF TypeOK, SenderState
  <1>2. k \in SenderState
    BY <1>1 DEF SenderState
  <1>3. snd' = [snd EXCEPT ![t] = k]
    BY DEF Goto
  <1> HIDE DEF k
  <1>. QED BY <1>1, <1>2, <1>3

LEMMA AwaitTyped ==
    ASSUME TypeOK, NEW pc \in RcvPc, Await(pc)
    PROVE  rcv' \in [pc : RcvPc, up : Update]
  BY DEF TypeOK, Await

LEMMA QueueTyped ==
    ASSUME NEW S, NEW s \in Seq(S), s # <<>>
    PROVE  Head(s) \in S /\ Tail(s) \in Seq(S)
  OBVIOUS

LEMMA SenderTyped ==
    ASSUME TypeOK, NEW t \in Sender, NEW state \in SenderState
    PROVE  [snd EXCEPT ![t] = state] \in [Sender -> SenderState]
  BY DEF TypeOK, SenderState

LEMMA EventsTyped ==
    ASSUME NEW w \in SUBSET Kind
    PROVE  /\ AfterRemove(w) \in SUBSET Kind
           /\ \A existed \in BOOLEAN : AfterWrite(w, existed) \in SUBSET Kind
  BY DEF AfterRemove, AfterWrite, Kind

LEMMA WindowTyped ==
    ASSUME TypeOK, NEW p \in Path, NEW w \in SUBSET Kind
    PROVE  [window EXCEPT ![p] = w] \in [Path -> SUBSET Kind]
  BY DEF TypeOK

LEMMA BackupTyped ==
    ASSUME TypeOK, NEW p \in Path, NEW q \in Peer, NEW c \in MaybeContent
    PROVE  [backup EXCEPT ![p][q] = c] \in [Path -> [Peer -> MaybeContent]]
  BY DEF TypeOK

LEMMA TypeInit == Init => TypeOK
  <1> SUFFICES ASSUME Init PROVE TypeOK
    OBVIOUS
  <1>1. /\ fs \in [Path -> MaybeContent]
        /\ mesh \in [Path -> MaybeContent]
        /\ left \in [Bounded -> Nat]
    BY ContentAssumption, BudgetAssumption DEF Init, MaybeContent
  <1>2. /\ snd \in [Sender -> [pc : SendPc, path : Path, removal : BOOLEAN,
                              hash : MaybeContent]]
        /\ rcv \in [pc : RcvPc, up : Update]
    BY RegistersTyped DEF Init
  <1>3. /\ backup \in [Path -> [Peer -> MaybeContent]]
        /\ pendingWritten \in [Path -> MaybeContent]
        /\ lastWritten \in [Path -> MaybeContent]
        /\ window \in [Path -> SUBSET Kind]
        /\ queue \in Seq([path : Path, removal : BOOLEAN])
    BY DEF Init, NoMarks, MaybeContent
  <1>. QED BY <1>1, <1>2, <1>3 DEF Init, TypeOK

\* What the receive loop writes is a content, not the absence of one: without
\* this TypeOK would not carry over a fetch.
HashKnown == rcv.pc \in Guarded => rcv.up.hash \in Content

\* One step per action; what an action leaves alone keeps its type.
LEMMA TypeStep == TypeOK /\ HashKnown /\ [Next]_vars => TypeOK'
  <1> SUFFICES ASSUME TypeOK, HashKnown, [Next]_vars PROVE TypeOK'
    OBVIOUS
  <1> USE DEF TypeOK, disk, watch, marks, gate, env
  <1>1. ASSUME NEW p \in Path, NEW c \in UserContent, UserWrite(p, c)
        PROVE  TypeOK'
    BY <1>1, ContentAssumption, SpendTyped
       DEF UserWrite, AfterWrite, Kind, MaybeContent, Bounded
  <1>2. ASSUME NEW p \in Path, UserRemove(p) PROVE TypeOK'
    BY <1>2, SpendTyped
       DEF UserRemove, AfterRemove, Kind, MaybeContent, Bounded
  <1>3. ASSUME NEW p \in Path, NEW q \in Path, UserRename(p, q) PROVE TypeOK'
    BY <1>3, SpendTyped DEF UserRename, Kind, MaybeContent, Bounded
  <1>4. ASSUME NEW u \in Wire, Receive(u) PROVE TypeOK'
    <2>1. u \in Update /\ u.path \in Path /\ u.hash \in MaybeContent
      BY DEF Wire, Update
    <2>2. rcv' \in [pc : RcvPc, up : Update]
      BY <1>4, <2>1 DEF Receive, RcvPc, Guarded
    <2>3. /\ pendingWritten' \in [Path -> MaybeContent]
          /\ mesh' \in [Path -> MaybeContent]
          /\ lastRemoved' \subseteq Path
      BY <1>4, <2>1 DEF Receive
    <2>4. left' \in [Bounded -> Nat]
      BY <1>4, SpendTyped DEF Receive, Bounded
    <2>. QED BY <1>4, <2>2, <2>3, <2>4 DEF Receive
  <1>14. ASSUME NEW q \in Peer, ServeBlob(q) PROVE TypeOK'
    BY <1>14, SpendTyped, PeerAssumption DEF ServeBlob, Bounded
  <1>5. CASE NeighborUp
    BY <1>5, AwaitTyped DEF NeighborUp, RcvPc
  <1>6. ASSUME NEW p \in Path, Debounce(p) PROVE TypeOK'
    <2>1. queue' \in Seq([path : Path, removal : BOOLEAN])
      BY <1>6 DEF Debounce
    <2>2. window' \in [Path -> SUBSET Kind]
      <3>1. window[p] \ {"remove"} \in SUBSET Kind /\ {} \in SUBSET Kind
        OBVIOUS
      <3>2. \/ window' = window
            \/ \E w \in SUBSET Kind : window' = [window EXCEPT ![p] = w]
        BY <1>6, <3>1 DEF Debounce
      <3>. QED BY <3>2, WindowTyped
    <2>3. left' \in [Bounded -> Nat]
      BY <1>6, SpendTyped DEF Debounce, Bounded
    <2>. QED BY <1>6, <2>1, <2>2, <2>3 DEF Debounce
  <1>7. ASSUME NEW p \in Path, FlushNext(p) PROVE TypeOK'
    BY <1>7 DEF FlushNext, Sender, SendPc, Sending, MaybeContent
  <1>8. ASSUME NEW p \in Path, DedupExpires(p) PROVE TypeOK'
    BY <1>8 DEF DedupExpires
  <1>9. CASE Watcher
    <2>1. CASE TakeEvent
      <3>. DEFINE E == [path : Path, removal : BOOLEAN]
      <3>1. queue \in Seq(E) /\ queue # <<>>
        BY <2>1 DEF TakeEvent
      <3>2. Head(queue) \in E /\ Tail(queue) \in Seq(E)
        BY <3>1, QueueTyped
      <3>3. snd' \in [Sender -> SenderState]
        BY <2>1, <3>2 DEF TakeEvent, SenderState, SendPc
      <3>4. lastWritten' \in [Path -> MaybeContent]
        BY <2>1, <3>2 DEF TakeEvent, MaybeContent
      <3>. QED BY <2>1, <3>2, <3>3, <3>4 DEF TakeEvent, SenderState
    <2>2. CASE CompareMark
      BY <2>2, GotoTyped DEF CompareMark, Sender, SendPc, Sending, SenderState
    <2>3. CASE Decide
      <3>. DEFINE w == snd["watcher"]
                  gone == w.removal \/ fs[w.path] = Absent
      <3>1. CASE gone /\ w.path \in lastRemoved
        BY <2>3, <3>1, GotoTyped DEF Decide, Sender, SendPc, SenderState
      <3>2. CASE ~(gone /\ w.path \in lastRemoved)
        <4>1. [w EXCEPT !.removal = gone, !.pc = "gate"] \in SenderState
          BY DEF Sender, SenderState, SendPc
        <4>2. snd' = [snd EXCEPT !["watcher"] =
                        [w EXCEPT !.removal = gone, !.pc = "gate"]]
          BY <2>3, <3>2 DEF Decide, Sender
        <4>3. snd' \in [Sender -> SenderState]
          BY <4>1, <4>2, SenderTyped DEF Sender
        <4>. QED BY <2>3, <3>2, <4>3 DEF Decide, SenderState
      <3>. QED BY <3>1, <3>2
    <2>4. CASE PassGate
      BY <2>4, GotoTyped DEF PassGate, Sender, SendPc, Sending, SenderState
    <2>. QED BY <1>9, <2>1, <2>2, <2>3, <2>4 DEF Watcher
  <1>10. ASSUME NEW t \in Sender, Send(t) PROVE TypeOK'
    <2>1. CASE CheckDedup(t)
      BY <2>1, GotoTyped DEF CheckDedup, SendPc, Sending, SenderState, Sender
    <2>2. CASE TellTombstone(t)
      BY <2>2, GotoTyped
         DEF TellTombstone, Broadcast, SendPc, MaybeContent, SenderState,
             Sender
    <2>3. CASE ReadFile(t)
      <3>. DEFINE c == fs[snd[t].path]
      <3>1. c \in MaybeContent /\ "idle" \in SendPc /\ "publish" \in SendPc
        BY DEF SendPc, Sending
      <3>2. snd' \in [Sender -> SenderState]
        <4>1. CASE c = Absent \/ c \in Oversize
          BY <2>3, <3>1, <4>1, GotoTyped DEF ReadFile
        <4>2. CASE ~(c = Absent \/ c \in Oversize)
          <5>1. [snd[t] EXCEPT !.pc = "publish", !.hash = c] \in SenderState
            BY <3>1 DEF SenderState
          <5>2. snd' = [snd EXCEPT ![t] =
                          [snd[t] EXCEPT !.pc = "publish", !.hash = c]]
            BY <2>3, <4>2 DEF ReadFile
          <5>. QED BY <5>1, <5>2, SenderTyped
        <4>. QED BY <4>1, <4>2
      <3>3. blobs' \subseteq Content
        BY <2>3, <3>1 DEF ReadFile, MaybeContent
      <3>. QED BY <2>3, <3>2, <3>3 DEF ReadFile, SenderState
    <2>4. CASE Publish(t)
      BY <2>4, GotoTyped
         DEF Publish, Broadcast, SendPc, Sending, SenderState, Sender
    <2>5. CASE RecordSent(t)
      BY <2>5, GotoTyped DEF RecordSent, SendPc, SenderState, Sender
    <2>. QED BY <1>10, <2>1, <2>2, <2>3, <2>4, <2>5 DEF Send
  <1>11. CASE Receiver
    <2>1. CASE Fetch
      <3>1. rcv.up.path \in Path /\ rcv.up.hash \in Content
        BY <2>1 DEF Fetch, Guarded, HashKnown, Update
      <3>2. blobs' \subseteq Content
        BY <2>1, <3>1 DEF Fetch
      <3>. QED BY <2>1, <3>2, AwaitTyped
           DEF Fetch, DropGuard, RcvPc, Guarded, MaybeContent
    <2>2. CASE CheckConflict
      BY <2>2, AwaitTyped DEF CheckConflict, RcvPc, Guarded
    <2>3. CASE RenameToBackup
      <3>1. rcv.up.path \in Path /\ rcv.up.from \in Peer
        BY DEF Update
      <3>2. /\ fs' \in [Path -> MaybeContent]
            /\ pendingWritten' \in [Path -> MaybeContent]
        <4>1. Absent \in MaybeContent
          BY DEF MaybeContent
        <4>2. CASE fs[rcv.up.path] = Absent
          BY <2>3, <3>1, <4>1, <4>2 DEF RenameToBackup, DropGuard
        <4>3. CASE fs[rcv.up.path] # Absent
          BY <2>3, <3>1, <4>1, <4>3 DEF RenameToBackup
        <4>. QED BY <4>2, <4>3
      <3>3. backup' \in [Path -> [Peer -> MaybeContent]]
        <4>1. fs[rcv.up.path] \in MaybeContent
          BY <3>1
        <4>2. \/ backup' = backup
              \/ backup' = [backup EXCEPT ![rcv.up.path][rcv.up.from] =
                              fs[rcv.up.path]]
          BY <2>3 DEF RenameToBackup
        <4>3. [backup EXCEPT ![rcv.up.path][rcv.up.from] = fs[rcv.up.path]]
                \in [Path -> [Peer -> MaybeContent]]
          <5>. HIDE DEF TypeOK
          <5>. QED BY <3>1, <4>1, BackupTyped
        <4>. QED BY <4>2, <4>3
      <3>4. window' \in [Path -> SUBSET Kind]
        BY <2>3, <3>1, WindowTyped DEF RenameToBackup
      <3>5. rcv' \in [pc : RcvPc, up : Update]
        BY <2>3, AwaitTyped DEF RenameToBackup, RcvPc, Guarded
      <3>. QED BY <2>3, <3>2, <3>3, <3>4, <3>5 DEF RenameToBackup
    <2>4. CASE Persist
      <3>1. rcv.up.path \in Path /\ rcv.up.hash \in MaybeContent
        BY DEF Update
      <3>2. fs' \in [Path -> MaybeContent]
        BY <2>4, <3>1 DEF Persist
      <3>3. window' \in [Path -> SUBSET Kind]
        <4>1. AfterWrite(window[rcv.up.path], FALSE) \in SUBSET Kind
          BY <3>1, EventsTyped
        <4>2. \/ window' = window
              \/ window' = [window EXCEPT ![rcv.up.path] =
                              AfterWrite(window[rcv.up.path], FALSE)]
          BY <2>4 DEF Persist
        <4>3. PICK p \in Path, w \in SUBSET Kind :
                  window' = window \/ window' = [window EXCEPT ![p] = w]
          BY <3>1, <4>1, <4>2
        <4>4. /\ window \in [Path -> SUBSET Kind]
              /\ [window EXCEPT ![p] = w] \in [Path -> SUBSET Kind]
          BY WindowTyped DEF TypeOK
        <4>. QED BY <4>3, <4>4
      <3>4. rcv' \in [pc : RcvPc, up : Update]
        BY <2>4, AwaitTyped DEF Persist, RcvPc, Guarded
      <3>. QED BY <2>4, <3>2, <3>3, <3>4 DEF Persist
    <2>5. CASE CommitUpsert
      BY <2>5, AwaitTyped DEF CommitUpsert, RcvPc, Update, MaybeContent
    <2>6. CASE Unlink
      <3>1. rcv.up.path \in Path
        BY DEF Update
      <3>2. fs' \in [Path -> MaybeContent] /\ lastRemoved' \subseteq Path
        BY <2>6, <3>1 DEF Unlink, MaybeContent
      <3>3. window' \in [Path -> SUBSET Kind]
        <4>1. AfterRemove(window[rcv.up.path]) \in SUBSET Kind
          BY <3>1, EventsTyped
        <4>2. \/ window' = window
              \/ window' = [window EXCEPT ![rcv.up.path] =
                              AfterRemove(window[rcv.up.path])]
          BY <2>6 DEF Unlink
        <4>3. PICK p \in Path, w \in SUBSET Kind :
                  window' = window \/ window' = [window EXCEPT ![p] = w]
          BY <3>1, <4>1, <4>2
        <4>4. /\ window \in [Path -> SUBSET Kind]
              /\ [window EXCEPT ![p] = w] \in [Path -> SUBSET Kind]
          BY WindowTyped DEF TypeOK
        <4>. QED BY <4>3, <4>4
      <3>4. rcv' \in [pc : RcvPc, up : Update]
        BY <2>6, AwaitTyped DEF Unlink, RcvPc
      <3>. QED BY <2>6, <3>2, <3>3, <3>4 DEF Unlink
    <2>7. CASE JournalApplied
      BY <2>7, SpendTyped, AwaitTyped
         DEF JournalApplied, RcvPc, Update, Bounded
    <2>8. CASE DrainInitial
      BY <2>8, AwaitTyped DEF DrainInitial, RcvPc
    <2>. QED BY <1>11, <2>1, <2>2, <2>3, <2>4, <2>5, <2>6, <2>7, <2>8 DEF Receiver
  <1>12. CASE Fault
    <2>1. ASSUME NEW t \in Sender, SendFails(t) PROVE TypeOK'
      BY <2>1, SpendTyped, GotoTyped
         DEF SendFails, SendPc, Bounded, SenderState, Sender
    <2>2. CASE FetchFails
      BY <2>2, SpendTyped, AwaitTyped
         DEF FetchFails, DropGuard, RcvPc, MaybeContent, Bounded
    <2>3. CASE CheckUnreadable
      BY <2>3, SpendTyped, AwaitTyped
         DEF CheckUnreadable, RcvPc, Guarded, Bounded
    <2>4. CASE UpsertFails
      BY <2>4, SpendTyped, AwaitTyped
         DEF UpsertFails, DropGuard, RcvPc, MaybeContent, Bounded
    <2>5. CASE UnlinkFails
      BY <2>5, SpendTyped, AwaitTyped DEF UnlinkFails, RcvPc, Bounded
    <2>6. CASE NeighborDown
      BY <2>6, SpendTyped DEF NeighborDown, Bounded
    <2>7. CASE Crash
      <3>1. /\ snd' \in [Sender -> SenderState]
            /\ rcv' \in [pc : RcvPc, up : Update]
        BY <2>7, RegistersTyped DEF Crash, SenderState
      <3>2. /\ pendingWritten' \in [Path -> MaybeContent]
            /\ lastWritten' \in [Path -> MaybeContent]
            /\ window' \in [Path -> SUBSET Kind]
            /\ queue' \in Seq([path : Path, removal : BOOLEAN])
        BY <2>7 DEF Crash, NoMarks, MaybeContent
      <3>3. left' \in [Bounded -> Nat]
        BY <2>7, SpendTyped DEF Crash, Bounded
      <3>. QED BY <2>7, <3>1, <3>2, <3>3 DEF Crash, SenderState
    <2>. QED BY <1>12, <2>1, <2>2, <2>3, <2>4, <2>5, <2>6, <2>7 DEF Fault
  <1>13. CASE UNCHANGED vars
    BY <1>13 DEF vars
  <1>. QED
    BY <1>1, <1>2, <1>3, <1>4, <1>5, <1>6, <1>7, <1>8, <1>9, <1>10, <1>11,
       <1>12, <1>13, <1>14
       DEF Next, User, Remote, Serve, Internal

\* The receive loop is moved on by these steps only.
LEMMA OthersKeepRcv ==
    ASSUME [Next]_vars
    PROVE  \/ rcv' = rcv
           \/ Remote \/ NeighborUp \/ Receiver
           \/ FetchFails \/ CheckUnreadable \/ UpsertFails \/ UnlinkFails \/ Crash
  BY DEF Next, vars, Serve, ServeBlob, User, UserWrite, UserRemove, UserRename,
         Fault, SendFails,
         NeighborDown, Internal, Debounce, FlushNext, DedupExpires, Send,
         CheckDedup, TellTombstone, ReadFile, Publish, RecordSent, Watcher,
         TakeEvent, CompareMark, Decide, PassGate

LEMMA HashStep == TypeOK /\ HashKnown /\ [Next]_vars => HashKnown'
  <1> SUFFICES ASSUME TypeOK, HashKnown, [Next]_vars PROVE HashKnown'
    OBVIOUS
  <1> USE DEF HashKnown, Guarded
  <1>1. CASE rcv' = rcv
    BY <1>1
  <1>2. ASSUME NEW u \in Wire, Receive(u) PROVE HashKnown'
    BY <1>2, ContentAssumption DEF Receive, Wire
  <1>3. CASE NeighborUp
    BY <1>3 DEF NeighborUp, Await, TypeOK
  <1>4. CASE Receiver
    BY <1>4 DEF Receiver, Fetch, CheckConflict, RenameToBackup, Persist,
                CommitUpsert, Unlink, JournalApplied, DrainInitial, Await, TypeOK
  <1>5. CASE FetchFails \/ CheckUnreadable \/ UpsertFails \/ UnlinkFails
    BY <1>5 DEF FetchFails, CheckUnreadable, UpsertFails, UnlinkFails, Await, TypeOK
  <1>6. CASE Crash
    BY <1>6 DEF Crash, Listening
  <1>. QED
    BY <1>1, <1>2, <1>3, <1>4, <1>5, <1>6, OthersKeepRcv
       DEF Remote

\* Every variable of the daemon keeps its type in every run.
THEOREM Typing == Spec => []TypeOK
  <1>1. Init => TypeOK /\ HashKnown
    BY TypeInit DEF Init, HashKnown, Guarded, Listening
  <1>2. TypeOK /\ HashKnown /\ [Next]_vars => (TypeOK /\ HashKnown)'
    BY TypeStep, HashStep
  <1>. QED BY <1>1, <1>2, PTL DEF Spec
-----------------------------------------------------------------------------
(***************************************************************************)
(* The mark.                                                               *)
(***************************************************************************)
\* Only these steps touch pending_written.
LEMMA OthersKeepMark ==
    ASSUME [Next]_vars
    PROVE  \/ UNCHANGED <<rcv, pendingWritten>>
           \/ Remote \/ NeighborUp \/ Receiver
           \/ FetchFails \/ CheckUnreadable \/ UpsertFails \/ UnlinkFails \/ Crash
  BY DEF Next, vars, marks, Serve, ServeBlob, User, UserWrite, UserRemove, UserRename, Fault,
         SendFails, NeighborDown, Internal, Debounce, FlushNext, DedupExpires,
         Send, CheckDedup, TellTombstone, ReadFile, Publish, RecordSent, Watcher,
         TakeEvent, CompareMark, Decide, PassGate

\* The receive loop works on one update, so at most one path carries a mark:
\* each step either keeps both, or sets both, or clears both.
LEMMA MarkStep == TypeOK /\ PendingMarkScoped /\ [Next]_vars => PendingMarkScoped'
  <1> SUFFICES ASSUME TypeOK, PendingMarkScoped, [Next]_vars
               PROVE  PendingMarkScoped'
    OBVIOUS
  <1> USE DEF PendingMarkScoped, Guarded
  <1>0. rcv.up.path \in Path /\ pendingWritten \in [Path -> MaybeContent]
    BY DEF TypeOK, Update
  <1>1. CASE UNCHANGED <<rcv, pendingWritten>>
    BY <1>1
  <1>2. ASSUME NEW u \in Wire, Receive(u) PROVE PendingMarkScoped'
    BY <1>0, <1>2 DEF Receive, Wire, Update
  <1>3. CASE NeighborUp
    BY <1>3 DEF NeighborUp, Await, marks, TypeOK
  <1>4. CASE Fetch
    BY <1>0, <1>4 DEF Fetch, Await, DropGuard, TypeOK
  <1>5. CASE CheckConflict \/ CheckUnreadable \/ Persist
    BY <1>5 DEF CheckConflict, CheckUnreadable, Persist, Await, marks, TypeOK
  <1>6. CASE RenameToBackup
    BY <1>0, <1>6 DEF RenameToBackup, Await, DropGuard, TypeOK
  <1>7. CASE CommitUpsert
    BY <1>0, <1>7 DEF CommitUpsert, Await, TypeOK
  <1>8. CASE FetchFails \/ UpsertFails
    BY <1>0, <1>8 DEF FetchFails, UpsertFails, Await, DropGuard, TypeOK
  <1>9. CASE Unlink \/ UnlinkFails \/ JournalApplied \/ DrainInitial
    BY <1>9 DEF Unlink, UnlinkFails, JournalApplied, DrainInitial, Await, marks,
                TypeOK
  <1>10. CASE Crash
    BY <1>10 DEF Crash, NoMarks, Listening
  <1>. QED
    BY <1>1, <1>2, <1>3, <1>4, <1>5, <1>6, <1>7, <1>8, <1>9, <1>10,
       OthersKeepMark DEF Remote, Receiver

\* pending_written holds a path exactly while handle_upsert writes it: the
\* guard is dropped on every way out, whatever fails and whenever.
THEOREM MarkScoped == Spec => []PendingMarkScoped
  <1>1. Init => PendingMarkScoped
    BY DEF Init, PendingMarkScoped, NoMarks, Listening, Guarded
  <1>. QED BY <1>1, MarkStep, Typing, PTL DEF Spec

(***************************************************************************)
(* The gate.  gossip_joined is set before the queue is drained, and the    *)
(* watcher reads it under the queue's lock; so the two halves of the gate  *)
(* are inductive together with the fact that draining follows joining.     *)
(***************************************************************************)
GateInv ==
    /\ NoPathLeftBehind
    /\ NothingSentBeforeJoin
    /\ rcv.pc = "drain" => joined

\* What neither lets a path through the gate nor moves the receive loop.
LEMMA OthersKeepGate ==
    ASSUME [Next]_vars
    PROVE  \/ UNCHANGED <<rcv, snd, joined, initial, flushList>>
           \/ Remote \/ NeighborUp \/ Receiver \/ Watcher
           \/ \E p \in Path : FlushNext(p)
           \/ \E t \in Sender : Send(t) \/ SendFails(t)
           \/ FetchFails \/ CheckUnreadable \/ UpsertFails \/ UnlinkFails \/ Crash
  BY DEF Next, vars, gate, Serve, ServeBlob, User, UserWrite, UserRemove, UserRename, Fault,
         NeighborDown, Internal, Debounce, DedupExpires

\* What moves the receive loop only, and not to the drain.
LEMMA RcvOnlyKeepsGate ==
    ASSUME GateInv, UNCHANGED <<snd, joined, initial, flushList>>,
           rcv.pc # "drain", rcv'.pc # "drain"
    PROVE  GateInv'
  BY DEF GateInv, NoPathLeftBehind, NothingSentBeforeJoin

LEMMA GateStep == TypeOK /\ GateInv /\ [Next]_vars => GateInv'
  <1> SUFFICES ASSUME TypeOK, GateInv, [Next]_vars PROVE GateInv'
    OBVIOUS
  <1> USE DEF GateInv, NoPathLeftBehind, NothingSentBeforeJoin, gate
  <1>0. /\ rcv \in [pc : RcvPc, up : Update]
        /\ snd \in [Sender -> [pc : SendPc, path : Path, removal : BOOLEAN,
                              hash : MaybeContent]]
    BY DEF TypeOK
  <1>1. CASE UNCHANGED <<rcv, snd, joined, initial, flushList>>
    BY <1>1
  <1>2. ASSUME NEW u \in Wire, Receive(u) PROVE GateInv'
    BY <1>2 DEF Receive
  <1>3. CASE NeighborUp
    BY <1>0, <1>3 DEF NeighborUp, Await
  <1>4. CASE DrainInitial
    BY <1>0, <1>4 DEF DrainInitial, Await
  <1>5. CASE \/ Fetch \/ CheckConflict \/ RenameToBackup \/ Persist
             \/ CommitUpsert \/ Unlink \/ JournalApplied
             \/ FetchFails \/ CheckUnreadable \/ UpsertFails \/ UnlinkFails
    <2>1. /\ UNCHANGED <<snd, joined, initial, flushList>>
          /\ rcv.pc # "drain" /\ rcv'.pc # "drain"
      BY <1>0, <1>5
         DEF Fetch, CheckConflict, RenameToBackup, Persist, CommitUpsert, Unlink,
             JournalApplied, FetchFails, CheckUnreadable, UpsertFails,
             UnlinkFails, Await
    <2>. QED BY <2>1, RcvOnlyKeepsGate
  <1>6. CASE TakeEvent \/ CompareMark \/ Decide
    BY <1>0, <1>6 DEF TakeEvent, CompareMark, Decide, Goto, Sending, Sender
  <1>7. CASE PassGate
    BY <1>0, <1>7 DEF PassGate, Goto, Sending, Sender
  <1>8. ASSUME NEW p \in Path, FlushNext(p) PROVE GateInv'
    \* Its list is not empty, so a neighbour has been up.
    BY <1>0, <1>8 DEF FlushNext
  <1>9. ASSUME NEW t \in Sender, Send(t) \/ SendFails(t) PROVE GateInv'
    \* The task is past the gate, so a neighbour has been up.
    <2>1. /\ snd[t].pc \in Sending
          /\ UNCHANGED <<rcv, joined, initial, flushList>>
      BY <1>9 DEF Send, SendFails, CheckDedup, TellTombstone, ReadFile, Publish,
                  RecordSent, Sending
    <2>. QED BY <2>1
  <1>10. CASE Crash
    BY <1>10 DEF Crash, Listening, Resting, Sending
  <1>. QED
    BY <1>1, <1>2, <1>3, <1>4, <1>5, <1>6, <1>7, <1>8, <1>9, <1>10,
       OthersKeepGate DEF Remote, Receiver, Watcher

LEMMA GateHolds == Spec => []GateInv
  <1>1. Init => GateInv
    BY DEF Init, GateInv, NoPathLeftBehind, NothingSentBeforeJoin, Listening,
           Resting, Sending
  <1>. QED BY <1>1, GateStep, Typing, PTL DEF Spec

\* No path waits for a drain that has already happened.
THEOREM GateForgetsNothing == Spec => []NoPathLeftBehind
  <1>1. GateInv => NoPathLeftBehind
    BY DEF GateInv
  <1>. QED BY <1>1, GateHolds, PTL

\* Nothing is broadcast before a neighbour has been up.
THEOREM GateHoldsBack == Spec => []NothingSentBeforeJoin
  <1>1. GateInv => NothingSentBeforeJoin
    BY DEF GateInv
  <1>. QED BY <1>1, GateHolds, PTL

(***************************************************************************)
(* Provenance: the checks on the way in protect every later step, because  *)
(* the update at hand has passed them.                                     *)
(***************************************************************************)
UpdateVetted ==
    /\ rcv.pc \notin {"idle", "drain"} => rcv.up.from \in Allowed
    /\ rcv.pc \in Guarded => rcv.up.hash \in PeerContent
    /\ rcv.pc \notin {"idle", "drain", "fetch"} => rcv.up.hash \notin Oversize

LEMMA VettedStep == TypeOK /\ UpdateVetted /\ [Next]_vars => UpdateVetted'
  <1> SUFFICES ASSUME TypeOK, UpdateVetted, [Next]_vars PROVE UpdateVetted'
    OBVIOUS
  <1> USE DEF UpdateVetted, Guarded
  <1>0. rcv \in [pc : RcvPc, up : Update]
    BY DEF TypeOK
  <1>1. CASE rcv' = rcv
    BY <1>1
  <1>2. ASSUME NEW u \in Wire, Receive(u) PROVE UpdateVetted'
    BY <1>2, ContentAssumption DEF Receive, Wire, Update
  <1>3. CASE NeighborUp
    BY <1>0, <1>3 DEF NeighborUp, Await
  <1>4. CASE Receiver
    BY <1>0, <1>4
       DEF Receiver, Fetch, CheckConflict, RenameToBackup, Persist, CommitUpsert,
           Unlink, JournalApplied, DrainInitial, Await
  <1>5. CASE FetchFails \/ CheckUnreadable \/ UpsertFails \/ UnlinkFails
    BY <1>0, <1>5 DEF FetchFails, CheckUnreadable, UpsertFails, UnlinkFails, Await
  <1>6. CASE Crash
    BY <1>6 DEF Crash, Listening
  <1>. QED
    BY <1>1, <1>2, <1>3, <1>4, <1>5, <1>6, OthersKeepRcv DEF Remote

\* What writes a file, a backup, the journal or last_seen_at.
LEMMA OthersLeaveNoTrace ==
    ASSUME [Next]_vars
    PROVE  \/ UNCHANGED <<fs, backup, journal, seen>>
           \/ User \/ Serve \/ RenameToBackup \/ Persist \/ Unlink
           \/ JournalApplied \/ Crash
  BY DEF Next, vars, disk, Remote, Receive, NeighborUp, Receiver, Fetch,
         CheckConflict, CommitUpsert, DrainInitial, Fault, FetchFails,
         CheckUnreadable, UpsertFails, UnlinkFails, SendFails, NeighborDown,
         Internal, Debounce, FlushNext, DedupExpires, Send, CheckDedup,
         TellTombstone, ReadFile, Publish, RecordSent, Watcher, TakeEvent,
         CompareMark, Decide, PassGate

LEMMA TraceStep ==
    TypeOK /\ UpdateVetted /\ OnlyAllowedTraces /\ [Next]_vars => OnlyAllowedTraces'
  <1> SUFFICES ASSUME TypeOK, UpdateVetted, OnlyAllowedTraces, [Next]_vars
               PROVE  OnlyAllowedTraces'
    OBVIOUS
  <1>0. /\ fs \in [Path -> MaybeContent]
        /\ backup \in [Path -> [Peer -> MaybeContent]]
        /\ rcv.up.path \in Path /\ rcv.up.from \in Peer
    BY DEF TypeOK, Update
  <1> USE DEF OnlyAllowedTraces, disk
  <1>1. CASE UNCHANGED <<fs, backup, journal, seen>>
    BY <1>1
  <1>2. ASSUME NEW p \in Path, NEW c \in UserContent, UserWrite(p, c)
        PROVE  OnlyAllowedTraces'
    BY <1>0, <1>2 DEF UserWrite
  <1>3. ASSUME NEW p \in Path, UserRemove(p) PROVE OnlyAllowedTraces'
    BY <1>0, <1>3 DEF UserRemove
  <1>4. ASSUME NEW p \in Path, NEW q \in Path, UserRename(p, q)
        PROVE  OnlyAllowedTraces'
    BY <1>0, <1>4 DEF UserRename
  <1>5. CASE RenameToBackup
    <2>1. rcv.up.from \in Allowed
      BY <1>5 DEF RenameToBackup, UpdateVetted
    <2>2. CASE fs[rcv.up.path] = Absent
      BY <1>5, <2>2 DEF RenameToBackup
    <2>3. CASE fs[rcv.up.path] # Absent
      <3>1. /\ backup' = [backup EXCEPT ![rcv.up.path][rcv.up.from] =
                            fs[rcv.up.path]]
            /\ fs' = [fs EXCEPT ![rcv.up.path] = Absent]
            /\ UNCHANGED <<journal, seen>>
        BY <1>5, <2>3 DEF RenameToBackup
      <3>2. fs[rcv.up.path] \in UserContent \cup (PeerContent \ Oversize)
        BY <1>0, <2>3
      <3>3. \A p \in Path : \A q \in Peer : backup'[p][q] # Absent =>
                /\ q \in Allowed
                /\ backup'[p][q] \in UserContent \cup (PeerContent \ Oversize)
        BY <1>0, <2>1, <3>1, <3>2
      <3>4. \A p \in Path : fs'[p] \in UserContent \cup (PeerContent \ Oversize)
                                      \cup {Absent}
        BY <1>0, <3>1
      <3>. QED BY <3>1, <3>3, <3>4
    <2>. QED BY <2>2, <2>3
  <1>6. CASE Persist
    <2>1. rcv.up.hash \in PeerContent \ Oversize
      BY <1>6 DEF Persist, UpdateVetted, Guarded
    <2>. QED BY <1>0, <1>6, <2>1 DEF Persist
  <1>7. CASE Unlink
    BY <1>0, <1>7 DEF Unlink
  <1>8. CASE JournalApplied
    BY <1>8 DEF JournalApplied, UpdateVetted
  <1>9. CASE Crash
    BY <1>9 DEF Crash
  <1>10. ASSUME NEW q \in Peer, ServeBlob(q) PROVE OnlyAllowedTraces'
    BY <1>10 DEF ServeBlob
  <1>. QED
    BY <1>1, <1>2, <1>3, <1>4, <1>5, <1>6, <1>7, <1>8, <1>9, <1>10,
       OthersLeaveNoTrace DEF User, Serve

\* A peer outside the allowlist leaves no trace, and content above the limit
\* reaches no file, in any interleaving with failures, crashes and users.
THEOREM OnlyAllowedLeaveTraces == Spec => []OnlyAllowedTraces
  <1>1. Init => UpdateVetted /\ OnlyAllowedTraces
    BY DEF Init, UpdateVetted, OnlyAllowedTraces, Listening, Guarded
  <1>2. TypeOK /\ UpdateVetted /\ OnlyAllowedTraces /\ [Next]_vars
          => (UpdateVetted /\ OnlyAllowedTraces)'
    BY VettedStep, TraceStep
  <1>. QED BY <1>1, <1>2, Typing, PTL DEF Spec
=============================================================================

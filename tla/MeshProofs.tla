----------------------------- MODULE MeshProofs -----------------------------
(***************************************************************************)
(* The safety of Mesh for any number of daemons, any tree of paths and any *)
(* contents: types, trees that stay inside the watched directory, updates  *)
(* that are never about skipped names, contents that spread only along     *)
(* mutual trust, and directories that agree when changes are made one at a *)
(* time.                                                                   *)
(***************************************************************************)
EXTENDS Mesh, PathsProofs

LEMMA WindowTyped ==
    /\ \A w \in SUBSET Kind : AfterRemove(w) \in SUBSET Kind /\ AfterEvent(w) \in SUBSET Kind
    /\ \A w \in SUBSET Kind, e \in BOOLEAN : AfterWrite(w, e) \in SUBSET Kind
  BY DEF Kind, AfterRemove, AfterEvent, AfterWrite

LEMMA EventsTyped ==
    ASSUME TypeOK, NEW n \in Node, NEW t, NEW written
    PROVE  Events(n, t, written) \in [Place -> SUBSET Kind]
  <1>1. \A p \in Place : window[n][p] \in SUBSET Kind
    BY DEF TypeOK
  <1> QED
    BY <1>1, WindowTyped DEF Events

LEMMA UserChangeTyped ==
    ASSUME TypeOK, NEW n \in Node, NEW t \in Trees, NEW written,
           UserChange(n, t, written)
    PROVE  /\ tree' \in [Node -> [Place -> Entry]]
           /\ window' \in [Node -> [Place -> SUBSET Kind]]
           /\ left' \in [Bounded -> Nat]
           /\ past' \in {"serial", "crossing", "lost"}
           /\ UNCHANGED <<blobs, marks, gate, mesh, bonds>>
  <1>1. tree' \in [Node -> [Place -> Entry]]
    BY DEF TypeOK, UserChange, Trees
  <1>2. window' \in [Node -> [Place -> SUBSET Kind]]
    BY EventsTyped DEF TypeOK, UserChange
  <1>3. left' \in [Bounded -> Nat]
    BY DEF TypeOK, UserChange, Bounded
  <1>4. past' \in {"serial", "crossing", "lost"}
    BY DEF TypeOK, UserChange, Timed
  <1> QED
    BY <1>1, <1>2, <1>3, <1>4 DEF UserChange

LEMMA AudienceTyped ==
    ASSUME TypeOK, NEW n \in Node, NEW p \in Place, NEW followers \in SUBSET Node,
           Authored(n, p, followers) \/ Resaved(n, p)
    PROVE  origin' \in [Place -> Node] /\ audience' \in [Place -> SUBSET Node]
  <1>1. ASSUME NEW A, A \in SUBSET Node
        PROVE  [audience EXCEPT ![p] = A] \in [Place -> SUBSET Node]
    BY <1>1 DEF TypeOK
  <1>2. CASE Authored(n, p, followers)
    <2> DEFINE A == {m \in followers : Mutual(n, m)}
    <2>1. A \in SUBSET Node
      OBVIOUS
    <2>2. audience' = [audience EXCEPT ![p] = A]
      BY <1>2 DEF Authored
    <2> HIDE DEF A
    <2>3. audience' \in [Place -> SUBSET Node]
      BY <1>1, <2>1, <2>2
    <2>4. origin' \in [Place -> Node]
      BY <1>2 DEF Authored, TypeOK
    <2> QED
      BY <2>3, <2>4
  <1>3. CASE Resaved(n, p)
    <2> DEFINE A == IF n \in audience[p] \cup {origin[p]} THEN audience[p] ELSE {}
    <2>1. A \in SUBSET Node
      BY DEF TypeOK
    <2>2. audience' = [audience EXCEPT ![p] = A]
      BY <1>3 DEF Resaved
    <2> HIDE DEF A
    <2>3. audience' \in [Place -> SUBSET Node]
      BY <1>1, <2>1, <2>2
    <2>4. origin' \in [Place -> Node]
      BY <1>3 DEF Resaved, TypeOK
    <2> QED
      BY <2>3, <2>4
  <1> QED
    BY <1>2, <1>3

LEMMA BroadcastTyped ==
    ASSUME TypeOK, NEW n \in Node, NEW kind \in {"upsert", "tombstone"},
           NEW p \in Place, NEW c \in Content \cup {Absent}, Broadcast(n, kind, p, c)
    PROVE  net' \in [Node -> SUBSET Update]
  <1>1. [kind |-> kind, path |-> p, hash |-> c, from |-> n] \in Update
    BY DEF Update
  <1> QED
    BY <1>1 DEF TypeOK, Broadcast

SendVars == <<blobs, net, dedup, lastWritten>>

SendTyped == /\ blobs \in [Node -> SUBSET Content]
             /\ net \in [Node -> SUBSET Update]
             /\ dedup \in [Node -> SUBSET Place]
             /\ lastWritten \in [Node -> [Place -> Content \cup {Absent}]]

LEMMA SendKeepsTypes ==
    ASSUME TypeOK, NEW n \in Node, NEW p \in Place, NEW mark \in Content \cup {Absent},
           SendFile(n, p, mark) \/ SendTombstone(n, p, mark)
    PROVE  SendTyped'
  <1>1. CASE SendFile(n, p, mark) /\ Sendable(n, p)
    <2>1. PICK c \in Content : c = tree[n][p]
      BY <1>1 DEF Sendable
    <2>2. Broadcast(n, "upsert", p, c) /\ Mark(n, p, c) /\ UNCHANGED dedup
          /\ blobs' = [blobs EXCEPT ![n] = @ \cup {c}]
      BY <1>1, <2>1 DEF SendFile
    <2>3. net' \in [Node -> SUBSET Update]
      BY <2>2, BroadcastTyped
    <2> QED
      BY <2>2, <2>3 DEF SendTyped, Mark, TypeOK
  <1>2. CASE SendFile(n, p, mark) /\ ~Sendable(n, p)
    <2>1. lastWritten' = [lastWritten EXCEPT ![n][p] = mark] /\ UNCHANGED <<blobs, net, dedup>>
      BY <1>2 DEF SendFile, Mark
    <2> QED
      BY <2>1 DEF SendTyped, TypeOK
  <1>3. CASE SendTombstone(n, p, mark)
    <2>1. CASE Broadcast(n, "tombstone", p, Absent)
      <3>1. net' \in [Node -> SUBSET Update]
        BY <2>1, BroadcastTyped
      <3>2. dedup' \in [Node -> SUBSET Place]
        BY <1>3 DEF SendTombstone, TypeOK
      <3> QED
        BY <1>3, <3>1, <3>2 DEF SendTombstone, SendTyped, Mark, TypeOK
    <2>2. CASE UNCHANGED <<dedup, net>>
      BY <1>3, <2>2 DEF SendTombstone, SendTyped, Mark, TypeOK
    <2> QED
      BY <1>3, <2>1, <2>2 DEF SendTombstone
  <1> QED
    BY <1>1, <1>2, <1>3

LEMMA StoredTyped ==
    ASSUME TypeOK, NEW n \in Node, NEW u \in Update, u.hash \in Content
    PROVE  Stored(n, u) \in Trees
  <1> DEFINE t == MakeDirs(tree[n], u.path)
  <1>1. tree[n] \in Trees /\ u.path \in Place
    BY DEF TypeOK, Update, Trees
  <1>2. t \in Trees
    BY <1>1, MakeDirsFacts
  <1>3. \A q \in Place : t[q] \in Entry
    BY <1>2 DEF Trees
  <1>4. u.hash \in Entry
    BY DEF Entry
  <1> HIDE DEF t
  <1>5. \A e \in Entry : \A q : [t EXCEPT ![q] = e] \in Trees
    BY <1>2 DEF Trees
  <1>6. [t EXCEPT ![u.path] = u.hash] \in Trees
    BY <1>4, <1>5
  <1>7. \A q : [t EXCEPT ![q] = t[u.path], ![u.path] = u.hash] \in Trees
    BY <1>1, <1>2, <1>3, <1>4 DEF Trees
  <1> QED
    BY <1>2, <1>6, <1>7 DEF Stored, t

LEMMA TypeInit == Init => TypeOK
  <1> SUFFICES ASSUME Init PROVE TypeOK
    OBVIOUS
  <1>1. (CHOOSE n \in Node : TRUE) \in Node
    BY MeshAssumption
  <1>2. origin \in [Place -> Node]
    BY <1>1 DEF Init
  <1>3. bonds \subseteq Node \X Node
    BY MeshAssumption DEF Init
  <1> QED
    BY <1>2, <1>3, MeshAssumption DEF Init, TypeOK, Entry, Kind

LEMMA TypeUser ==
    ASSUME TypeOK, NEW n \in Node, NEW p \in UserPath,
           \/ \E c \in Content : UserWrite(n, p, c)
           \/ UserRemove(n, p)
           \/ UserLink(n, p)
    PROVE  TypeOK'
  <1>1. p \in Place
    BY MeshAssumption
  <1>2. tree[n] \in Trees /\ MakeDirs(tree[n], p) \in Trees
    BY <1>1, MakeDirsFacts DEF TypeOK, Trees
  <1>3. ASSUME NEW t \in Trees, NEW written, UserChange(n, t, written),
               NEW followers \in SUBSET Node,
               Authored(n, p, followers) \/ Resaved(n, p),
               wrote' \subseteq Node \X Content
        PROVE  TypeOK'
    <2>1. origin' \in [Place -> Node] /\ audience' \in [Place -> SUBSET Node]
      BY <1>1, <1>3, AudienceTyped
    <2>2. /\ tree' \in [Node -> [Place -> Entry]]
          /\ window' \in [Node -> [Place -> SUBSET Kind]]
          /\ left' \in [Bounded -> Nat]
          /\ past' \in {"serial", "crossing", "lost"}
          /\ UNCHANGED <<blobs, marks, gate, mesh, bonds>>
      BY <1>3, UserChangeTyped
    <2> QED
      BY <1>3, <2>1, <2>2 DEF TypeOK, marks, gate, mesh
  <1>4. ASSUME NEW c \in Content, UserWrite(n, p, c)
        PROVE  TypeOK'
    <2> DEFINE m == MakeDirs(tree[n], p)
               open == {x \in Node :
                           /\ Resolves(tree[x], p)
                           /\ Dir \notin {tree[x][p], tree[x][BackupPath(p, n)]}}
               followers == IF ValidPath(p) /\ p \notin Skipped /\ c \notin Oversize
                            THEN open ELSE {}
    <2>1. [m EXCEPT ![p] = c] \in Trees
      BY <1>2 DEF Trees, Entry
    <2>2. followers \in SUBSET Node
      OBVIOUS
    <2>3. wrote' \subseteq Node \X Content
      BY <1>4 DEF UserWrite, TypeOK
    <2>4. /\ UserChange(n, [m EXCEPT ![p] = c], {p})
          /\ Authored(n, p, followers) \/ Resaved(n, p)
      BY <1>4 DEF UserWrite
    <2> HIDE DEF m, open, followers
    <2> QED
      BY <1>3, <2>1, <2>2, <2>3, <2>4
  <1>5. ASSUME UserRemove(n, p)
        PROVE  TypeOK'
    <2> DEFINE followers == IF ValidPath(p) /\ p \notin Skipped THEN Node ELSE {}
    <2>1. [tree[n] EXCEPT ![p] = Absent] \in Trees
      BY <1>2 DEF Trees, Entry
    <2>2. /\ followers \in SUBSET Node
          /\ UserChange(n, [tree[n] EXCEPT ![p] = Absent], {})
          /\ Authored(n, p, followers)
      BY <1>5 DEF UserRemove
    <2>3. wrote' \subseteq Node \X Content
      BY <1>5 DEF UserRemove, TypeOK
    <2> HIDE DEF followers
    <2> QED
      BY <1>3, <2>1, <2>2, <2>3
  <1>6. ASSUME UserLink(n, p)
        PROVE  TypeOK'
    <2>1. [tree[n] EXCEPT ![p] = Link] \in Trees
      BY <1>2 DEF Trees, Entry
    <2>2. UserChange(n, [tree[n] EXCEPT ![p] = Link], {}) /\ Authored(n, p, {})
      BY <1>6 DEF UserLink
    <2>3. wrote' \subseteq Node \X Content
      BY <1>6 DEF UserLink, TypeOK
    <2> QED
      BY <1>3, <2>1, <2>2, <2>3
  <1> QED
    BY <1>4, <1>5, <1>6

LEMMA TypeAnnounce ==
    ASSUME TypeOK, NEW n \in Node, NEW p \in Place, Announce(n, p)
    PROVE  TypeOK'
  <1>1. /\ window' \in [Node -> [Place -> SUBSET Kind]]
        /\ left' \in [Bounded -> Nat]
    <2>0. window[n][p] \in SUBSET Kind
      BY DEF TypeOK
    <2>1. AfterEvent(window[n][p]) \in SUBSET Kind
      BY <2>0, WindowTyped
    <2>2. CASE window' = [window EXCEPT ![n][p] = AfterEvent(@)] /\ UNCHANGED left
      BY <2>1, <2>2 DEF TypeOK
    <2>3. CASE Spend("event") /\ UNCHANGED window
      BY <2>3 DEF Spend, TypeOK, Bounded
    <2> QED
      BY <2>2, <2>3 DEF Announce
  <1>2. SendTyped'
    <2>1. CASE SendFile(n, p, Absent) \/ SendTombstone(n, p, Absent)
      BY <2>1, SendKeepsTypes
    <2>2. CASE Mark(n, p, Absent) /\ UNCHANGED <<blobs, dedup, net>>
      BY <2>2 DEF Mark, SendTyped, TypeOK
    <2> QED
      BY <2>1, <2>2 DEF Announce
  <1>3. lastRemoved' \in [Node -> SUBSET Place] /\ initial' \in [Node -> SUBSET Place]
    BY DEF Announce, TypeOK
  <1>4. UNCHANGED <<tree, joined, flush, allow, up, ghost>>
    BY DEF Announce
  <1> QED
    BY <1>1, <1>2, <1>3, <1>4 DEF TypeOK, SendTyped, ghost

LEMMA TypeFlush ==
    ASSUME TypeOK, NEW n \in Node, NEW p \in Place, FlushNext(n, p)
    PROVE  TypeOK'
  <1>1. PICK c \in Content \cup {Absent} : c = lastWritten[n][p]
    BY DEF TypeOK
  <1>2. SendFile(n, p, c) \/ SendTombstone(n, p, c)
    BY <1>1 DEF FlushNext
  <1>3. SendTyped'
    BY <1>2, SendKeepsTypes
  <1>4. flush' \in [Node -> SUBSET Place]
    BY DEF FlushNext, TypeOK
  <1> QED
    BY <1>3, <1>4 DEF FlushNext, TypeOK, SendTyped, ghost

LEMMA TypeReceive ==
    ASSUME TypeOK, NEW n \in Node, Receive(n)
    PROVE  TypeOK'
  <1>1. PICK u \in net[n] : \/ Refuse(n, u) \/ ApplyTombstone(n, u)
                            \/ FetchFails(n, u) \/ ApplyUpsert(n, u)
    BY DEF Receive
  <1>2. u \in Update /\ u.path \in Place /\ u.hash \in Content \cup {Absent}
    BY DEF TypeOK, Update
  <1>3. ASSUME Take(n, u) PROVE net' \in [Node -> SUBSET Update]
    BY <1>3 DEF Take, TypeOK
  <1>4. CASE Refuse(n, u)
    BY <1>3, <1>4 DEF Refuse, TypeOK, disk, marks, gate, ghost
  <1>5. CASE ApplyTombstone(n, u)
    <2> DEFINE t == [tree[n] EXCEPT ![u.path] = IF Unlinks(n, u.path) THEN Absent ELSE @]
    <2>1. t \in [Place -> Entry]
      BY <1>2 DEF TypeOK, Entry
    <2>2. tree' = [tree EXCEPT ![n] = t] /\ window' = [window EXCEPT ![n] = Events(n, t, {})]
      BY <1>5 DEF ApplyTombstone
    <2>3. lastRemoved' \in [Node -> SUBSET Place]
      BY <1>2, <1>5 DEF ApplyTombstone, RemovedMarks, TypeOK
    <2> HIDE DEF t
    <2>4. Events(n, t, {}) \in [Place -> SUBSET Kind]
      BY EventsTyped
    <2>5. tree' \in [Node -> [Place -> Entry]] /\ window' \in [Node -> [Place -> SUBSET Kind]]
      BY <2>1, <2>2, <2>4 DEF TypeOK
    <2>6. Take(n, u) /\ UNCHANGED <<blobs, lastWritten, dedup, gate, allow, up, left, ghost>>
      BY <1>5 DEF ApplyTombstone
    <2> QED
      BY <1>3, <2>3, <2>5, <2>6 DEF TypeOK, gate, ghost
  <1>6. CASE FetchFails(n, u)
    <2>1. left' \in [Bounded -> Nat] /\ past' \in {"serial", "crossing", "lost"}
      BY <1>6 DEF FetchFails, Spend, TypeOK, Bounded
    <2> QED
      BY <1>3, <1>6, <2>1 DEF FetchFails, TypeOK, disk, marks, gate
  <1>7. CASE ApplyUpsert(n, u)
    <2>1. u.hash \in Content
      BY <1>7, <1>2 DEF ApplyUpsert, Fetchable, TypeOK
    <2> DEFINE fits == u.hash \notin Oversize
               t == IF fits THEN Stored(n, u) ELSE tree[n]
               persisted == fits /\ t[u.path] = u.hash
               moved == persisted /\ tree[n][u.path] \notin {Absent, u.hash}
               held == {window[n][u.path]} \cup IF moved THEN {{}} ELSE {}
               event == {AfterWrite(w, FALSE) : w \in held}
               all == held \cup IF persisted THEN event ELSE {}
    <2>2. t \in Trees
      BY <1>2, <2>1, StoredTyped DEF TypeOK, Trees
    <2>3. all \subseteq SUBSET Kind
      <3>1. held \subseteq SUBSET Kind
        BY <1>2 DEF TypeOK
      <3> HIDE DEF held
      <3>2. event \subseteq SUBSET Kind
        <4>1. \A w \in held : AfterWrite(w, FALSE) \in SUBSET Kind
          BY <3>1, WindowTyped
        <4> QED
          BY <4>1
      <3> QED
        BY <3>1, <3>2
    <2>4. /\ tree' = [tree EXCEPT ![n] = t]
          /\ \E w \in all : window' = [window EXCEPT ![n] = [Events(n, t, {}) EXCEPT ![u.path] = w]]
          /\ Mark(n, u.path, IF persisted THEN u.hash ELSE lastWritten[n][u.path])
      BY <1>7 DEF ApplyUpsert
    <2>5. lastWritten' \in [Node -> [Place -> Content \cup {Absent}]]
      BY <1>2, <2>4 DEF Mark, TypeOK
    <2> HIDE DEF fits, t, persisted, moved, held, event, all
    <2>6. tree' \in [Node -> [Place -> Entry]]
      BY <2>2, <2>4 DEF TypeOK, Trees
    <2>7. Events(n, t, {}) \in [Place -> SUBSET Kind]
      BY EventsTyped
    <2>8. window' \in [Node -> [Place -> SUBSET Kind]]
      <3> DEFINE e == Events(n, t, {})
      <3>1. PICK w \in all : window' = [window EXCEPT ![n] = [e EXCEPT ![u.path] = w]]
        BY <2>4
      <3> HIDE DEF e
      <3>2. [e EXCEPT ![u.path] = w] \in [Place -> SUBSET Kind]
        BY <2>3, <2>7, <3>1 DEF e
      <3> QED
        BY <3>1, <3>2 DEF TypeOK
    <2>9. /\ Take(n, u)
          /\ blobs' = [blobs EXCEPT ![n] = @ \cup {u.hash}]
          /\ UNCHANGED <<lastRemoved, dedup, gate, allow, up, left, ghost>>
      BY <1>7 DEF ApplyUpsert
    <2>10. blobs' \in [Node -> SUBSET Content]
      BY <2>1, <2>9 DEF TypeOK
    <2> QED
      BY <1>3, <2>5, <2>6, <2>8, <2>9, <2>10 DEF TypeOK, gate, ghost
  <1> QED
    BY <1>1, <1>4, <1>5, <1>6, <1>7

LEMMA TypeOther ==
    ASSUME TypeOK, NEW n \in Node,
           \/ \E p \in Place : DedupExpires(n, p)
           \/ NeighborUp(n)
           \/ Environment(n)
    PROVE  TypeOK'
  <1>1. ASSUME NEW p \in Place, DedupExpires(n, p) PROVE TypeOK'
    BY <1>1 DEF DedupExpires, TypeOK, disk, gate, mesh, ghost
  <1>2. CASE NeighborUp(n)
    BY <1>2 DEF NeighborUp, TypeOK, disk, marks, mesh, ghost
  <1>3. CASE Join(n)
    BY <1>3 DEF Join, TypeOK, disk, marks, gate, ghost
  <1>4. ASSUME Spend("event") PROVE left' \in [Bounded -> Nat]
    BY <1>4 DEF Spend, TypeOK, Bounded
  <1>5. ASSUME Disturbed
        PROVE  past' \in {"serial", "crossing", "lost"} /\ UNCHANGED <<origin, audience, wrote>>
    BY <1>5 DEF Disturbed, TypeOK
  <1>6. CASE Leave(n)
    BY <1>4, <1>5, <1>6 DEF Leave, TypeOK, disk, marks, gate
  <1>7. CASE Crash(n)
    <2>1. [p \in Place |-> {}] \in [Place -> SUBSET Kind]
          /\ [p \in Place |-> Absent] \in [Place -> Content \cup {Absent}]
      OBVIOUS
    <2>2. /\ window' \in [Node -> [Place -> SUBSET Kind]]
          /\ lastWritten' \in [Node -> [Place -> Content \cup {Absent}]]
      BY <1>7, <2>1 DEF Crash, TypeOK
    <2>3. /\ lastRemoved' \in [Node -> SUBSET Place]
          /\ dedup' \in [Node -> SUBSET Place]
          /\ joined' \in [Node -> BOOLEAN]
          /\ initial' \in [Node -> SUBSET Place]
          /\ flush' \in [Node -> SUBSET Place]
          /\ up' \subseteq Node
          /\ net' \in [Node -> SUBSET Update]
      BY <1>7 DEF Crash, TypeOK
    <2>4. Spend("event") /\ Disturbed /\ UNCHANGED <<disk, allow, bonds>>
      BY <1>7 DEF Crash
    <2> QED
      BY <1>4, <1>5, <2>2, <2>3, <2>4 DEF TypeOK, disk
  <1>8. ASSUME NEW u \in net[n], Lose(n, u) PROVE TypeOK'
    BY <1>4, <1>8 DEF Lose, TypeOK, disk, marks, gate
  <1>9. ASSUME NEW m \in Node, AllowPeer(n, m) PROVE TypeOK'
    BY <1>4, <1>5, <1>9 DEF AllowPeer, TypeOK, disk, marks, gate
  <1>10. ASSUME NEW m \in Node, RevokePeer(n, m) PROVE TypeOK'
    BY <1>4, <1>5, <1>10 DEF RevokePeer, TypeOK, disk, marks, gate
  <1> QED
    BY <1>1, <1>2, <1>3, <1>6, <1>7, <1>8, <1>9, <1>10 DEF Environment

LEMMA TypeStep == TypeOK /\ [Next]_vars => TypeOK'
  <1> SUFFICES ASSUME TypeOK, [Next]_vars PROVE TypeOK'
    OBVIOUS
  <1>1. ASSUME NEW n \in Node, User(n) PROVE TypeOK'
    BY <1>1, TypeUser DEF User
  <1>2. ASSUME NEW n \in Node, Internal(n) PROVE TypeOK'
    BY <1>2, TypeAnnounce, TypeFlush, TypeReceive, TypeOther DEF Internal
  <1>3. ASSUME NEW n \in Node, Environment(n) PROVE TypeOK'
    BY <1>3, TypeOther
  <1>4. CASE UNCHANGED vars
    BY <1>4 DEF vars, disk, marks, gate, mesh, ghost, TypeOK
  <1> QED
    BY <1>1, <1>2, <1>3, <1>4 DEF Next

\* Every variable keeps its type, for any number of daemons.
THEOREM Typing == Spec => []TypeOK
  BY TypeInit, TypeStep, PTL DEF Spec

-----------------------------------------------------------------------------
(***************************************************************************)
(* Trees: a change of one keeps it well formed.                            *)
(***************************************************************************)
\* The trees of the other daemons stay as they are.
OneTree(n, t) == t \in Trees /\ tree' = [tree EXCEPT ![n] = t]

LEMMA InsideByOne ==
    ASSUME TypeOK, StaysInside, NEW n \in Node, NEW t, OneTree(n, t), WellFormed(t)
    PROVE  StaysInside'
  <1>1. ASSUME NEW m \in Node PROVE WellFormed(tree'[m])
    <2>1. tree'[m] = IF m = n THEN t ELSE tree[m]
      BY DEF OneTree, TypeOK
    <2> QED
      BY <2>1 DEF StaysInside
  <1> QED
    BY <1>1 DEF StaysInside, WellFormed

\* A backup is next to its file.
LEMMA BackupFacts ==
    ASSUME NEW p \in Place, NEW q \in Node, BackupPath(p, q) \in Place
    PROVE  Above[BackupPath(p, q)] = Above[p]
  <1> DEFINE k == BackupPath(p, q)
  <1>1. p \in Seq(Part) /\ p # <<>>
    BY PlaceAssumption DEF Part
  <1>2. Len(p) \in Nat \ {0} /\ DOMAIN p = 1 .. Len(p)
    BY <1>1
  <1>3. k = [p EXCEPT ![Len(p)] = <<p[Len(p)], q>>]
    BY DEF BackupPath
  <1>4. k \in Seq(Part)
    BY PlaceAssumption DEF Part
  <1>5. DOMAIN k = DOMAIN p
    BY <1>3
  <1>6. Len(k) = Len(p)
    BY <1>2, <1>4, <1>5
  <1>7. \A i \in 1 .. (Len(p) - 1) : k[i] = p[i]
    BY <1>2, <1>3
  <1> HIDE DEF k
  <1>8. ASSUME NEW i \in 1 .. (Len(p) - 1)
        PROVE  SubSeq(k, 1, i) = SubSeq(p, 1, i)
    BY <1>1, <1>2, <1>4, <1>6, <1>7
  <1>9. Above[k] = {SubSeq(k, 1, i) : i \in 1 .. (Len(p) - 1)}
    BY <1>6 DEF Above, k
  <1>10. Above[p] = {SubSeq(p, 1, i) : i \in 1 .. (Len(p) - 1)}
    BY DEF Above
  <1> QED
    BY <1>8, <1>9, <1>10 DEF k

\* Where nothing is below a file or a link, what is on the way to a file is a
\* directory.
LEMMA PlaceHeld ==
    ASSUME NEW t \in Trees, WellFormed(t), NEW p \in Place, NEW e \in Entry,
           t[p] \notin {Absent, Dir}
    PROVE  WellFormed([t EXCEPT ![p] = e])
  <1>1. \A q \in Above[p] : t[q] = Dir
    BY DEF WellFormed
  <1> QED
    BY <1>1, PutKeeps

LEMMA StoredInside ==
    ASSUME TypeOK, StaysInside, NEW n \in Node, NEW u \in Update, u.hash \in Content,
           Resolves(tree[n], u.path)
    PROVE  WellFormed(Stored(n, u))
  <1> DEFINE p == u.path
             t == MakeDirs(tree[n], p)
             kept == BackupPath(p, u.from)
  <1>1. tree[n] \in Trees /\ WellFormed(tree[n]) /\ p \in Place /\ u.from \in Node
    BY DEF TypeOK, StaysInside, Trees, Update
  <1>2. Clear(tree[n], p)
    BY <1>1, ResolveExact DEF Clear
  <1>3. t \in Trees /\ WellFormed(t) /\ \A q \in Above[p] : t[q] = Dir
    BY <1>1, <1>2, MakeDirsFacts, MakeDirsKeeps
  <1>4. t[p] \in Entry /\ u.hash \in Entry
    BY <1>1, <1>3 DEF Trees, Entry
  <1>5. ASSUME t[p] # Dir PROVE WellFormed([t EXCEPT ![p] = u.hash])
    BY <1>1, <1>3, <1>4, <1>5, PutKeeps
  <1>6. ASSUME t[p] # Dir, t[kept] # Dir
        PROVE  WellFormed([t EXCEPT ![kept] = t[p], ![p] = u.hash])
    <2> DEFINE m == [t EXCEPT ![kept] = t[p]]
    <2>1. m \in Trees
      BY <1>3, <1>4 DEF Trees
    <2>2. WellFormed(m)
      <3>1. CASE kept \in Place
        <4>1. Above[kept] = Above[p]
          BY <1>1, <3>1, BackupFacts
        <4> HIDE DEF kept, t, p
        <4> QED
          BY <1>3, <1>4, <1>6, <3>1, <4>1, PutKeeps DEF m
      <3>2. CASE kept \notin Place
        <4> HIDE DEF kept, t, p
        <4>1. m = t
          BY <1>3, <3>2 DEF Trees, m
        <4> QED
          BY <4>1, <1>3
      <3> QED
        BY <3>1, <3>2
    <2>3. \A q \in Above[p] : m[q] = Dir
      <3>1. ASSUME NEW q \in Above[p] PROVE q \in Place /\ t[q] = Dir
        BY <1>1, <1>3, <3>1, AboveFacts
      <3> HIDE DEF kept, t, p
      <3> QED
        BY <1>3, <1>6, <3>1 DEF Trees, m
    <2>4. m[p] # Dir
      <3> HIDE DEF kept, t, p
      <3> QED
        BY <1>1, <1>3, <1>6 DEF Trees, m
    <2>5. [t EXCEPT ![kept] = t[p], ![p] = u.hash] = [m EXCEPT ![p] = u.hash]
      OBVIOUS
    <2> HIDE DEF m, t, kept
    <2> QED
      BY <1>1, <1>4, <2>1, <2>2, <2>3, <2>4, <2>5, PutKeeps
  <1>7. t[p] \in {Absent, u.hash} => t[p] # Dir
    BY EntryAssumption
  <1>8. Stored(n, u) = IF t[p] \in {Absent, u.hash} THEN [t EXCEPT ![p] = u.hash]
                       ELSE IF t[p] = Dir \/ t[kept] = Dir THEN t
                       ELSE [t EXCEPT ![kept] = t[p], ![p] = u.hash]
    BY DEF Stored
  <1> HIDE DEF t, kept, p
  <1> QED
    BY <1>3, <1>5, <1>6, <1>7, <1>8

LEMMA InsideUser ==
    ASSUME TypeOK, StaysInside, NEW n \in Node, User(n)
    PROVE  StaysInside'
  <1>1. PICK p \in UserPath : \/ \E c \in Content : UserWrite(n, p, c)
                              \/ UserRemove(n, p)
                              \/ UserLink(n, p)
    BY DEF User
  <1>2. p \in Place /\ tree[n] \in Trees /\ WellFormed(tree[n])
    BY <1>1, MeshAssumption DEF TypeOK, StaysInside, Trees
  <1>3. ASSUME NEW c \in Content, UserWrite(n, p, c)
        PROVE  StaysInside'
    <2> DEFINE m == MakeDirs(tree[n], p)
               t == [m EXCEPT ![p] = c]
    <2>1. tree' = [tree EXCEPT ![n] = t] /\ HasParent(m, p)
          /\ tree[n][p] \in Content \cup {Absent}
      BY <1>3 DEF UserWrite, UserChange
    <2>2. \A q \in Above[p] : m[q] = Dir
      BY <2>1 DEF HasParent
    <2>3. Clear(tree[n], p)
      <3>1. ASSUME NEW q \in Above[p] PROVE q \in Place /\ m[q] = Dir
        BY <1>2, <2>2, AboveFacts
      <3> QED
        BY <1>2, <3>1, MakeDirsFacts DEF Clear
    <2>4. m \in Trees /\ WellFormed(m) /\ m[p] # Dir
      BY <1>2, <2>1, <2>3, MakeDirsFacts, MakeDirsKeeps, EntryAssumption
    <2>5. c \in Entry
      BY DEF Entry
    <2> HIDE DEF m
    <2>6. WellFormed(t) /\ t \in Trees
      BY <1>2, <2>2, <2>4, <2>5, PutKeeps DEF Trees
    <2> HIDE DEF t
    <2> QED
      BY <2>1, <2>6, InsideByOne DEF OneTree
  <1>4. CASE UserRemove(n, p)
    <2> DEFINE t == [tree[n] EXCEPT ![p] = Absent]
    <2>1. tree' = [tree EXCEPT ![n] = t]
          /\ \A q \in Place : p \in Above[q] => tree[n][q] = Absent
      BY <1>4 DEF UserRemove, UserChange
    <2>2. t \in Trees
      BY <1>2 DEF Trees, Entry
    <2>3. ASSUME NEW q \in Place, t[q] # Absent, NEW r \in Above[q] PROVE t[r] = Dir
      <3>1. q # p /\ tree[n][q] # Absent /\ r \in Place
        BY <1>2, <2>3, AboveFacts DEF Trees
      <3>2. r # p /\ tree[n][r] = Dir
        BY <1>2, <2>1, <3>1 DEF WellFormed
      <3> QED
        BY <1>2, <3>1, <3>2 DEF Trees
    <2> HIDE DEF t
    <2>4. WellFormed(t)
      BY <2>3 DEF WellFormed
    <2> QED
      BY <2>1, <2>2, <2>4, InsideByOne DEF OneTree
  <1>5. CASE UserLink(n, p)
    <2> DEFINE t == [tree[n] EXCEPT ![p] = Link]
    <2>1. tree' = [tree EXCEPT ![n] = t] /\ tree[n][p] = Absent
          /\ \A q \in Above[p] : tree[n][q] = Dir
      BY <1>5 DEF UserLink, UserChange, HasParent
    <2>2. t \in Trees /\ Link \in Entry /\ Absent # Dir
      BY <1>2, EntryAssumption DEF Trees, Entry
    <2>3. WellFormed(t)
      BY <1>2, <2>1, <2>2, PutKeeps
    <2> HIDE DEF t
    <2> QED
      BY <2>1, <2>2, <2>3, InsideByOne DEF OneTree
  <1> QED
    BY <1>1, <1>3, <1>4, <1>5

LEMMA InsideReceive ==
    ASSUME TypeOK, StaysInside, NEW n \in Node, Receive(n)
    PROVE  StaysInside'
  <1>1. PICK u \in net[n] : \/ Refuse(n, u) \/ ApplyTombstone(n, u)
                            \/ FetchFails(n, u) \/ ApplyUpsert(n, u)
    BY DEF Receive
  <1>2. /\ u \in Update /\ u.path \in Place /\ u.hash \in Content \cup {Absent}
        /\ tree[n] \in Trees /\ WellFormed(tree[n])
    BY DEF TypeOK, Update, StaysInside, Trees
  <1>3. CASE Refuse(n, u) \/ FetchFails(n, u)
    BY <1>3 DEF Refuse, FetchFails, disk, StaysInside
  <1>4. CASE ApplyTombstone(n, u)
    <2> DEFINE t == [tree[n] EXCEPT ![u.path] = IF Unlinks(n, u.path) THEN Absent ELSE @]
    <2>1. tree' = [tree EXCEPT ![n] = t]
      BY <1>4 DEF ApplyTombstone
    <2>2. t \in Trees
      BY <1>2 DEF Trees, Entry
    <2>3. CASE Unlinks(n, u.path)
      <3>1. tree[n][u.path] \notin {Absent, Dir} /\ Absent \in Entry
        BY <2>3, EntryAssumption DEF Unlinks, Entry
      <3>2. WellFormed([tree[n] EXCEPT ![u.path] = Absent])
        BY <1>2, <3>1, PlaceHeld
      <3>3. t = [tree[n] EXCEPT ![u.path] = Absent]
        BY <2>3
      <3> HIDE DEF t
      <3> QED
        BY <2>1, <2>2, <3>2, <3>3, InsideByOne DEF OneTree
    <2>4. CASE ~Unlinks(n, u.path)
      <3>1. t = tree[n]
        BY <1>2, <2>4 DEF Trees
      <3> HIDE DEF t
      <3> QED
        BY <1>2, <2>1, <2>2, <3>1, InsideByOne DEF OneTree
    <2> QED
      BY <2>3, <2>4
  <1>5. CASE ApplyUpsert(n, u)
    <2>1. u.hash \in Content
      BY <1>5, <1>2 DEF ApplyUpsert, Fetchable, TypeOK
    <2> DEFINE t == IF u.hash \notin Oversize THEN Stored(n, u) ELSE tree[n]
    <2>2. tree' = [tree EXCEPT ![n] = t] /\ Resolves(tree[n], u.path)
      BY <1>5 DEF ApplyUpsert, Admitted
    <2>3. t \in Trees
      BY <1>2, <2>1, StoredTyped
    <2>4. WellFormed(t)
      BY <1>2, <2>1, <2>2, StoredInside
    <2> HIDE DEF t
    <2> QED
      BY <2>2, <2>3, <2>4, InsideByOne DEF OneTree
  <1> QED
    BY <1>1, <1>3, <1>4, <1>5

\* The steps that touch no directory.
LEMMA TreesKept ==
    ASSUME NEW n \in Node,
           \/ \E p \in Place : Announce(n, p) \/ FlushNext(n, p) \/ DedupExpires(n, p)
           \/ NeighborUp(n)
           \/ Environment(n)
    PROVE  UNCHANGED tree
  BY DEF Announce, FlushNext, DedupExpires, NeighborUp, Environment, Join, Leave,
         Lose, Crash, AllowPeer, RevokePeer, disk

LEMMA InsideInit == Init => StaysInside
  BY DEF Init, StaysInside, WellFormed

LEMMA InsideStep == TypeOK /\ StaysInside /\ [Next]_vars => StaysInside'
  <1> SUFFICES ASSUME TypeOK, StaysInside, [Next]_vars PROVE StaysInside'
    OBVIOUS
  <1>1. ASSUME UNCHANGED tree PROVE StaysInside'
    BY <1>1 DEF StaysInside
  <1>2. CASE UNCHANGED vars
    BY <1>1, <1>2 DEF vars, disk
  <1>3. ASSUME NEW n \in Node, Internal(n) \/ Environment(n) PROVE StaysInside'
    BY <1>1, <1>3, TreesKept, InsideReceive DEF Internal
  <1> QED
    BY <1>2, <1>3, InsideUser DEF Next

\* Nothing is ever written through a link or below a file: whatever users put in
\* the way and whatever updates arrive, every tree stays well formed.
THEOREM Inside == Spec => []StaysInside
  BY InsideInit, InsideStep, Typing, PTL DEF Spec

-----------------------------------------------------------------------------
(***************************************************************************)
(* Skipped names: no daemon holds anything about one.                      *)
(***************************************************************************)
\* A daemon holds nothing about a skipped path.
NoneSkipped ==
    \A n \in Node :
        /\ \A p \in Skipped : window[n][p] = {}
        /\ initial[n] \cap Skipped = {}
        /\ flush[n] \cap Skipped = {}
        /\ \A u \in net[n] : u.path \notin Skipped

LEMMA SentUnskipped ==
    ASSUME TypeOK, NoneSkipped, NEW n \in Node, NEW p \in Place \ Skipped, NEW mark,
           SendFile(n, p, mark) \/ SendTombstone(n, p, mark)
    PROVE  \A m \in Node : \A u \in net'[m] : u.path \notin Skipped
  <1>1. ASSUME NEW kind, NEW c, Broadcast(n, kind, p, c)
        PROVE  \A m \in Node : \A u \in net'[m] : u.path \notin Skipped
    <2>1. ASSUME NEW m \in Node
          PROVE  net'[m] \subseteq net[m] \cup {[kind |-> kind, path |-> p, hash |-> c, from |-> n]}
      BY <1>1, <2>1 DEF Broadcast
    <2> QED
      BY <2>1 DEF NoneSkipped
  <1>2. ASSUME UNCHANGED net
        PROVE  \A m \in Node : \A u \in net'[m] : u.path \notin Skipped
    BY <1>2 DEF NoneSkipped
  <1>3. \/ Broadcast(n, "upsert", p, tree[n][p])
        \/ Broadcast(n, "tombstone", p, Absent)
        \/ UNCHANGED net
    BY DEF SendFile, SendTombstone
  <1> QED
    BY <1>1, <1>2, <1>3

\* Parts of the step that disturb one part of the invariant each.
LEMMA EventsUnskipped ==
    ASSUME TypeOK, NoneSkipped, NEW n \in Node, NEW t, NEW written
    PROVE  \A p \in Skipped : Events(n, t, written)[p] = {}
  BY DEF NoneSkipped, Events, Skipped

LEMMA UnskippedUser ==
    ASSUME TypeOK, NoneSkipped, NEW n \in Node, User(n)
    PROVE  NoneSkipped'
  <1>1. PICK t, written : UserChange(n, t, written)
    BY DEF User, UserWrite, UserRemove, UserLink
  <1>2. /\ window' = [window EXCEPT ![n] = Events(n, t, written)]
        /\ UNCHANGED <<initial, flush, net>>
    BY <1>1 DEF UserChange, gate, mesh
  <1>3. \A m \in Node : \A p \in Skipped : window'[m][p] = {}
    BY <1>2, EventsUnskipped DEF NoneSkipped, TypeOK
  <1> QED
    BY <1>2, <1>3 DEF NoneSkipped

LEMMA UnskippedAnnounce ==
    ASSUME TypeOK, NoneSkipped, NEW n \in Node, NEW p \in Place,
           Announce(n, p) \/ FlushNext(n, p) \/ DedupExpires(n, p)
    PROVE  NoneSkipped'
  <1>1. CASE Announce(n, p)
    <2>1. p \notin Skipped
      BY <1>1 DEF Announce, NoneSkipped
    <2>2. \A m \in Node : \A q \in Skipped : window'[m][q] = {}
      <3>1. \/ window' = [window EXCEPT ![n][p] = AfterEvent(window[n][p])]
            \/ UNCHANGED window
        BY <1>1 DEF Announce
      <3>2. ASSUME NEW m \in Node, NEW q \in Skipped PROVE window'[m][q] = window[m][q]
        <4>1. q \in Place /\ q # p
          BY <2>1, <3>2 DEF Skipped
        <4>2. /\ window \in [Node -> [Place -> SUBSET Kind]]
              /\ window[m] \in [Place -> SUBSET Kind]
          BY DEF TypeOK
        <4>3. CASE window' = [window EXCEPT ![n][p] = AfterEvent(window[n][p])]
          <5>1. window' = [window EXCEPT ![n] = [window[n] EXCEPT ![p] = AfterEvent(window[n][p])]]
            BY <4>3
          <5>2. window'[m] = IF m = n THEN [window[m] EXCEPT ![p] = AfterEvent(window[n][p])]
                             ELSE window[m]
            BY <4>2, <5>1
          <5> QED
            BY <4>1, <4>2, <5>2
        <4> QED
          BY <3>1, <4>3
      <3> QED
        BY <3>2 DEF NoneSkipped
    <2>3. \A m \in Node : initial'[m] \cap Skipped = {}
      BY <1>1, <2>1 DEF Announce, NoneSkipped, TypeOK
    <2>4. \/ SendFile(n, p, Absent) \/ SendTombstone(n, p, Absent)
          \/ UNCHANGED net
      BY <1>1 DEF Announce
    <2>5. \A m \in Node : \A u \in net'[m] : u.path \notin Skipped
      BY <2>1, <2>4, SentUnskipped DEF NoneSkipped
    <2> QED
      BY <1>1, <2>2, <2>3, <2>5 DEF Announce, NoneSkipped
  <1>2. CASE FlushNext(n, p)
    <2>1. p \notin Skipped
      BY <1>2 DEF FlushNext, NoneSkipped
    <2>2. SendFile(n, p, lastWritten[n][p]) \/ SendTombstone(n, p, lastWritten[n][p])
      BY <1>2 DEF FlushNext
    <2>3. PICK mark \in Content \cup {Absent} : mark = lastWritten[n][p]
      BY DEF TypeOK
    <2>4. \A m \in Node : \A u \in net'[m] : u.path \notin Skipped
      BY <2>1, <2>2, <2>3, SentUnskipped
    <2>5. \A m \in Node : flush'[m] \cap Skipped = {}
      BY <1>2 DEF FlushNext, NoneSkipped, TypeOK
    <2> QED
      BY <1>2, <2>4, <2>5 DEF FlushNext, NoneSkipped
  <1>3. CASE DedupExpires(n, p)
    BY <1>3 DEF DedupExpires, NoneSkipped, gate, mesh
  <1> QED
    BY <1>1, <1>2, <1>3

LEMMA UnskippedReceive ==
    ASSUME TypeOK, NoneSkipped, NEW n \in Node, Receive(n)
    PROVE  NoneSkipped'
  <1>1. PICK u \in net[n] : \/ Refuse(n, u) \/ ApplyTombstone(n, u)
                            \/ FetchFails(n, u) \/ ApplyUpsert(n, u)
    BY DEF Receive
  <1>2. u.path \notin Skipped
    BY DEF NoneSkipped
  <1>3. Take(n, u) /\ UNCHANGED <<initial, flush>>
    BY <1>1 DEF Refuse, ApplyTombstone, FetchFails, ApplyUpsert, gate
  <1>4. \A m \in Node : \A v \in net'[m] : v.path \notin Skipped
    <2>1. \A m \in Node : net'[m] \subseteq net[m]
      BY <1>3 DEF Take, TypeOK
    <2> QED
      BY <2>1 DEF NoneSkipped
  <1>5. \A m \in Node : \A p \in Skipped : window'[m][p] = {}
    <2>1. ASSUME NEW t, window' = [window EXCEPT ![n] = Events(n, t, {})]
          PROVE  \A m \in Node : \A p \in Skipped : window'[m][p] = {}
      BY <2>1, EventsUnskipped DEF NoneSkipped, TypeOK
    <2>2. ASSUME NEW t, NEW w,
                 window' = [window EXCEPT ![n] = [Events(n, t, {}) EXCEPT ![u.path] = w]]
          PROVE  \A m \in Node : \A p \in Skipped : window'[m][p] = {}
      <3> DEFINE e == Events(n, t, {})
      <3>1. /\ \A p \in Skipped : e[p] = {}
            /\ e \in [Place -> SUBSET Kind]
        BY EventsUnskipped, EventsTyped
      <3>2. window' = [window EXCEPT ![n] = [e EXCEPT ![u.path] = w]]
        BY <2>2
      <3>3. \A p \in Skipped : p \in Place
        BY DEF Skipped
      <3> HIDE DEF e
      <3> QED
        BY <1>2, <3>1, <3>2, <3>3 DEF NoneSkipped, TypeOK
    <2>3. CASE Refuse(n, u) \/ FetchFails(n, u)
      BY <2>3 DEF Refuse, FetchFails, NoneSkipped
    <2>4. CASE ApplyTombstone(n, u)
      BY <2>1, <2>4 DEF ApplyTombstone
    <2>5. CASE ApplyUpsert(n, u)
      BY <2>2, <2>5 DEF ApplyUpsert
    <2> QED
      BY <1>1, <2>3, <2>4, <2>5
  <1> QED
    BY <1>3, <1>4, <1>5 DEF NoneSkipped

LEMMA UnskippedOther ==
    ASSUME TypeOK, NoneSkipped, NEW n \in Node, NeighborUp(n) \/ Environment(n)
    PROVE  NoneSkipped'
  <1>1. CASE NeighborUp(n)
    BY <1>1 DEF NeighborUp, NoneSkipped, TypeOK, mesh
  <1>2. CASE Join(n) \/ Leave(n) \/ \E m \in Node : AllowPeer(n, m) \/ RevokePeer(n, m)
    BY <1>2 DEF Join, Leave, AllowPeer, RevokePeer, NoneSkipped, gate
  <1>3. ASSUME NEW u \in net[n], Lose(n, u) PROVE NoneSkipped'
    BY <1>3 DEF Lose, NoneSkipped, TypeOK, gate
  <1>4. CASE Crash(n)
    <2>1. \A m \in Node : \A p \in Skipped : window'[m][p] = {}
      <3> DEFINE none == [p \in Place |-> {}]
      <3>1. window' = [window EXCEPT ![n] = none] /\ \A p \in Skipped : none[p] = {}
        BY <1>4 DEF Crash, Skipped
      <3> HIDE DEF none
      <3> QED
        BY <3>1 DEF NoneSkipped, TypeOK
    <2> QED
      BY <1>4, <2>1, ZenonT(30) DEF Crash, NoneSkipped, TypeOK
  <1> QED
    BY <1>1, <1>2, <1>3, <1>4 DEF Environment

LEMMA UnskippedInit == Init => NoneSkipped
  BY DEF Init, NoneSkipped, Skipped

LEMMA UnskippedStep == TypeOK /\ NoneSkipped /\ [Next]_vars => NoneSkipped'
  <1> SUFFICES ASSUME TypeOK, NoneSkipped, [Next]_vars PROVE NoneSkipped'
    OBVIOUS
  <1>1. CASE UNCHANGED vars
    BY <1>1 DEF vars, gate, mesh, NoneSkipped
  <1>2. ASSUME NEW n \in Node, Internal(n) PROVE NoneSkipped'
    BY <1>2, UnskippedAnnounce, UnskippedReceive, UnskippedOther DEF Internal
  <1>3. ASSUME NEW n \in Node, User(n) \/ Environment(n) PROVE NoneSkipped'
    BY <1>3, UnskippedUser, UnskippedOther
  <1> QED
    BY <1>1, <1>2, <1>3 DEF Next

\* No daemon ever announces a hidden file or a conflict backup.
THEOREM BackupsLocal == Spec => []BackupsStayHome
  <1>1. TypeOK /\ NoneSkipped => BackupsStayHome
    <2> SUFFICES ASSUME TypeOK, NoneSkipped, NEW n \in Node, NEW u \in net[n],
                        NEW i \in 1 .. Len(u.path)
                 PROVE  u.path[i] \in Name \ Hidden
      BY DEF BackupsStayHome
    <2>1. u.path \in Place /\ u.path \notin Skipped
      BY DEF TypeOK, Update, NoneSkipped
    <2>2. u.path[i] \notin Hidden \cup (Name \X Node)
      BY <2>1 DEF Skipped
    <2>3. u.path \in Seq(Name \cup (Name \X Node))
      BY <2>1, PlaceAssumption
    <2>4. u.path[i] \in Name \cup (Name \X Node)
      BY <2>3
    <2> QED
      BY <2>2, <2>4
  <1> QED
    BY <1>1, UnskippedInit, UnskippedStep, Typing, PTL DEF Spec

-----------------------------------------------------------------------------
(***************************************************************************)
(* Trust: who can hold what somebody has written.                          *)
(***************************************************************************)
\* The ghost variable bonds has every pair of daemons that allow each other.
BondsCover == \A n, m \in Node : Mutual(n, m) => <<n, m>> \in bonds

\* What users of daemons in S have written.
WrittenIn(S) == {c \in Content : \E m \in S : <<m, c>> \in wrote}

Has(n) == Contents(n) \cup blobs[n]

LEMMA TrustRestated ==
    ASSUME TypeOK
    PROVE  OnlyTrustCarries <=>
               \A S \in SUBSET Node : Closed(S) => \A n \in S : Has(n) \subseteq WrittenIn(S)
  <1>1. \A n \in Node : Has(n) \subseteq Content
    BY DEF Has, Contents, TypeOK
  <1>2. ASSUME NEW S \in SUBSET Node, NEW n \in S
        PROVE  (\A c \in Has(n) : \E m \in S : <<m, c>> \in wrote) <=> Has(n) \subseteq WrittenIn(S)
    BY <1>1 DEF WrittenIn
  <1> HIDE DEF Has, WrittenIn
  <1>3. OnlyTrustCarries <=> \A S \in SUBSET Node : Closed(S) =>
            \A n \in S : \A c \in Has(n) : \E m \in S : <<m, c>> \in wrote
    BY DEF OnlyTrustCarries, Has
  <1> QED
    BY <1>2, <1>3

Trusted == BondsCover /\ OnlyTrustCarries

\* A step that changes no allowlist, and after which every daemon has nothing it
\* did not have, its user has not written, or a daemon it is bound to did not have.
LEMMA TrustCarried ==
    ASSUME TypeOK, TypeOK', Trusted, UNCHANGED <<allow, bonds>>, wrote \subseteq wrote',
           \A n \in Node : \A c \in Has(n)' :
               \/ c \in Has(n)
               \/ <<n, c>> \in wrote'
               \/ \E m \in Node : <<n, m>> \in bonds /\ c \in Has(m)
    PROVE  Trusted'
  <1>1. BondsCover'
    BY DEF Trusted, BondsCover, Mutual
  <1>2. \A S \in SUBSET Node : Closed(S) => \A n \in S : Has(n) \subseteq WrittenIn(S)
    BY TrustRestated DEF Trusted
  <1>3. ASSUME NEW S \in SUBSET Node, Closed(S)', NEW n \in S, NEW c \in Has(n)'
        PROVE  c \in WrittenIn(S)'
    <2>1. Closed(S) /\ n \in Node
      BY <1>3 DEF Closed
    <2>2. c \in Content
      BY <2>1, <1>3 DEF Has, Contents, TypeOK
    <2>3. WrittenIn(S) \subseteq WrittenIn(S)'
      BY DEF WrittenIn
    <2>4. CASE c \in Has(n)
      BY <1>2, <2>1, <2>3, <2>4
    <2>5. CASE <<n, c>> \in wrote'
      BY <2>2, <2>5 DEF WrittenIn
    <2>6. ASSUME NEW m \in Node, <<n, m>> \in bonds, c \in Has(m)
          PROVE  c \in WrittenIn(S)'
      <3>1. m \in S
        BY <2>1, <2>6 DEF Closed
      <3> QED
        BY <1>2, <2>1, <2>3, <2>6, <3>1
    <2> QED
      BY <2>1, <2>4, <2>5, <2>6
  <1>4. OnlyTrustCarries'
    <2>1. SUFFICES ASSUME NEW S \in SUBSET Node, Closed(S)', NEW n \in S,
                          NEW c \in (Contents(n) \cup blobs[n])'
                   PROVE  \E m \in S : <<m, c>> \in wrote'
      BY DEF OnlyTrustCarries
    <2>2. c \in WrittenIn(S)'
      BY <1>3, <2>1 DEF Has
    <2> QED
      BY <2>2 DEF WrittenIn
  <1> QED
    BY <1>1, <1>4 DEF Trusted

\* Only n gains contents, and only those of new.
Gains(n, new) ==
    \A m \in Node : Has(m)' \subseteq Has(m) \cup IF m = n THEN new ELSE {}

LEMMA TreeGains ==
    ASSUME TypeOK, NEW n \in Node, NEW t, OneTree(n, t), NEW new,
           \A q \in Place : t[q] \in Content => t[q] \in Contents(n) \cup new,
           \A m \in Node : blobs'[m] \subseteq Has(m) \cup IF m = n THEN new ELSE {}
    PROVE  Gains(n, new)
  <1>1. ASSUME NEW m \in Node, NEW c \in Contents(m)'
        PROVE  c \in Contents(m) \cup IF m = n THEN new ELSE {}
    <2>1. PICK q \in Place : c = tree'[m][q] /\ c \in Content
      BY <1>1 DEF Contents
    <2>2. tree'[m] = IF m = n THEN t ELSE tree[m]
      BY DEF OneTree, TypeOK
    <2>3. CASE m = n
      BY <2>1, <2>2, <2>3
    <2>4. CASE m # n
      BY <2>1, <2>2, <2>4 DEF Contents
    <2> QED
      BY <2>3, <2>4
  <1>2. \A m \in Node : Has(m)' = Contents(m)' \cup blobs'[m]
    BY DEF Has
  <1> QED
    BY <1>1, <1>2 DEF Gains, Has

LEMMA GainsNothing ==
    ASSUME UNCHANGED <<tree, blobs>>
    PROVE  \A n \in Node : Has(n)' = Has(n)
  BY DEF Has, Contents

LEMMA UserGains ==
    ASSUME TypeOK, NEW n \in Node, User(n)
    PROVE  /\ UNCHANGED <<allow, bonds>>
           /\ wrote \subseteq wrote'
           /\ Gains(n, {c \in Content : <<n, c>> \in wrote'})
  <1> DEFINE new == {c \in Content : <<n, c>> \in wrote'}
  <1>1. PICK p \in UserPath : \/ \E c \in Content : UserWrite(n, p, c)
                              \/ UserRemove(n, p)
                              \/ UserLink(n, p)
    BY DEF User
  <1>2. p \in Place /\ tree[n] \in Trees
    BY <1>1, MeshAssumption DEF TypeOK, Trees
  <1>3. \A q \in Place : tree[n][q] \in Content => tree[n][q] \in Contents(n)
    BY DEF Contents
  <1>4. UNCHANGED <<blobs, allow, bonds>>
    BY <1>1 DEF UserWrite, UserRemove, UserLink, UserChange, mesh
  <1>5. \A m \in Node : blobs'[m] \subseteq Has(m)
    BY <1>4 DEF Has
  <1>6. ASSUME NEW c \in Content, UserWrite(n, p, c)
        PROVE  wrote \subseteq wrote' /\ Gains(n, new)
    <2> DEFINE m == MakeDirs(tree[n], p)
               t == [m EXCEPT ![p] = c]
    <2>1. tree' = [tree EXCEPT ![n] = t] /\ wrote' = wrote \cup {<<n, c>>}
      BY <1>6 DEF UserWrite, UserChange
    <2>2. /\ m \in Trees
          /\ \A q \in Place : m[q] = tree[n][q] \/ m[q] = Dir
      BY <1>2, MakeDirsFacts
    <2>3. c \in new /\ c \in Entry
      BY <2>1 DEF Entry
    <2> HIDE DEF m, new
    <2>4. t \in Trees /\ \A q \in Place : t[q] \in Content => t[q] \in Contents(n) \cup new
      BY <1>2, <1>3, <2>2, <2>3, EntryAssumption DEF Trees
    <2> HIDE DEF t
    <2>5. OneTree(n, t)
      BY <2>1, <2>4 DEF OneTree
    <2>6. Gains(n, new)
      BY <1>5, <2>4, <2>5, TreeGains
    <2> QED
      BY <2>1, <2>6
  <1>7. ASSUME NEW e \in Entry \ Content, tree' = [tree EXCEPT ![n] = [tree[n] EXCEPT ![p] = e]]
        PROVE  Gains(n, new)
    <2> DEFINE t == [tree[n] EXCEPT ![p] = e]
    <2> HIDE DEF new
    <2>1. t \in Trees /\ \A q \in Place : t[q] \in Content => t[q] \in Contents(n) \cup new
      BY <1>2, <1>3 DEF Trees
    <2>2. OneTree(n, t)
      BY <1>7, <2>1 DEF OneTree
    <2> HIDE DEF t
    <2> QED
      BY <1>5, <2>1, <2>2, TreeGains
  <1>8. Absent \in Entry \ Content /\ Link \in Entry \ Content
    BY EntryAssumption DEF Entry
  <1>9. CASE UserRemove(n, p) \/ UserLink(n, p)
    <2>1. UNCHANGED wrote /\ Gains(n, new)
      BY <1>7, <1>8, <1>9 DEF UserRemove, UserLink, UserChange
    <2> QED
      BY <1>4, <2>1
  <1> QED
    BY <1>1, <1>4, <1>6, <1>9

LEMMA AnnounceGains ==
    ASSUME TypeOK, NEW n \in Node, NEW p \in Place,
           Announce(n, p) \/ FlushNext(n, p)
    PROVE  UNCHANGED <<allow, bonds, wrote>> /\ Gains(n, {})
  <1>1. UNCHANGED <<tree, allow, bonds, wrote>>
    BY DEF Announce, FlushNext, ghost
  <1>2. \/ UNCHANGED blobs
        \/ /\ tree[n][p] \in Content
           /\ blobs' = [blobs EXCEPT ![n] = @ \cup {tree[n][p]}]
    BY DEF Announce, FlushNext, SendFile, SendTombstone, Sendable
  <1>3. \A m \in Node : blobs'[m] \subseteq Has(m)
    <2>1. tree[n][p] \in Content => tree[n][p] \in Has(n)
      BY DEF Has, Contents
    <2>2. \A m \in Node : blobs[m] \subseteq Has(m)
      BY DEF Has
    <2> HIDE DEF Has
    <2>3. ASSUME tree[n][p] \in Content, NEW m \in Node,
                 blobs' = [blobs EXCEPT ![n] = @ \cup {tree[n][p]}]
          PROVE  blobs'[m] \subseteq Has(m)
      <3>1. blobs'[m] \subseteq blobs[m] \cup IF m = n THEN {tree[n][p]} ELSE {}
        BY <2>3 DEF TypeOK
      <3> QED
        BY <2>1, <2>2, <2>3, <3>1
    <2> QED
      BY <1>2, <2>2, <2>3
  <1>4. \A m \in Node : Has(m)' = Contents(m) \cup blobs'[m]
    BY <1>1 DEF Has, Contents
  <1> QED
    BY <1>1, <1>3, <1>4 DEF Gains, Has

\* The entries of a directory after an upsert are those from before, directories
\* and the content received.
LEMMA StoredEntries ==
    ASSUME TypeOK, NEW n \in Node, NEW u \in Update, u.hash \in Content, NEW q \in Place
    PROVE  Stored(n, u)[q] \in Content => Stored(n, u)[q] \in Contents(n) \cup {u.hash}
  <1> DEFINE p == u.path
             t == MakeDirs(tree[n], p)
             kept == BackupPath(p, u.from)
             moved == [t EXCEPT ![kept] = t[p], ![p] = u.hash]
             put == [t EXCEPT ![p] = u.hash]
  <1>1. tree[n] \in Trees /\ p \in Place
    BY DEF TypeOK, Trees, Update
  <1>2. t \in Trees /\ \A r \in Place : t[r] = tree[n][r] \/ t[r] = Dir
    BY <1>1, MakeDirsFacts
  <1>3. \A r \in Place : t[r] \in Content => t[r] \in Contents(n)
    BY <1>2, EntryAssumption DEF Contents
  <1>4. Stored(n, u) \in {t, put, moved}
    BY DEF Stored
  <1> HIDE DEF t, kept, p
  <1>5. put[q] \in {t[q], u.hash} /\ moved[q] \in {t[q], t[p], u.hash}
    BY <1>2 DEF Trees
  <1>6. Stored(n, u)[q] \in {t[q], t[p], u.hash}
    BY <1>4, <1>5
  <1> QED
    BY <1>1, <1>3, <1>6

LEMMA ReceiveGains ==
    ASSUME TypeOK, BondsCover, NEW n \in Node, Receive(n)
    PROVE  /\ UNCHANGED <<allow, bonds, wrote>>
           /\ \E new \in SUBSET Content :
                  /\ Gains(n, new)
                  /\ \A c \in new : \/ c \in Has(n)
                                    \/ \E m \in Node : <<n, m>> \in bonds /\ c \in Has(m)
  <1>1. PICK u \in net[n] : \/ Refuse(n, u) \/ ApplyTombstone(n, u)
                            \/ FetchFails(n, u) \/ ApplyUpsert(n, u)
    BY DEF Receive
  <1>2. u \in Update /\ u.path \in Place /\ u.from \in Node /\ u.hash \in Content \cup {Absent}
        /\ tree[n] \in Trees
    BY DEF TypeOK, Update, Trees
  <1>3. UNCHANGED <<allow, bonds, wrote>>
    BY <1>1 DEF Refuse, ApplyTombstone, FetchFails, ApplyUpsert, ghost
  <1>4. \A q \in Place : tree[n][q] \in Content => tree[n][q] \in Contents(n)
    BY DEF Contents
  <1>5. \A m \in Node : blobs[m] \subseteq Has(m)
    BY DEF Has
  <1>6. CASE Refuse(n, u) \/ FetchFails(n, u)
    <2>1. UNCHANGED <<tree, blobs>>
      BY <1>6 DEF Refuse, FetchFails, disk
    <2>2. Gains(n, {})
      BY <2>1, GainsNothing DEF Gains
    <2> QED
      BY <1>3, <2>2
  <1>7. CASE ApplyTombstone(n, u)
    <2> DEFINE t == [tree[n] EXCEPT ![u.path] = IF Unlinks(n, u.path) THEN Absent ELSE @]
    <2>1. tree' = [tree EXCEPT ![n] = t] /\ UNCHANGED blobs
      BY <1>7 DEF ApplyTombstone
    <2>2. t \in Trees /\ \A q \in Place : t[q] \in Content => t[q] \in Contents(n) \cup {}
      BY <1>2, <1>4, EntryAssumption DEF Trees, Entry
    <2> HIDE DEF t
    <2>3. OneTree(n, t) /\ \A m \in Node : blobs'[m] \subseteq Has(m)
      BY <1>5, <2>1, <2>2 DEF OneTree
    <2>4. Gains(n, {})
      BY <2>2, <2>3, TreeGains
    <2> QED
      BY <1>3, <2>4
  <1>8. CASE ApplyUpsert(n, u)
    <2> DEFINE t == IF u.hash \notin Oversize THEN Stored(n, u) ELSE tree[n]
    <2>1. u.hash \in Content
      BY <1>8, <1>2 DEF ApplyUpsert, Fetchable, TypeOK
    <2>2. /\ tree' = [tree EXCEPT ![n] = t]
          /\ blobs' = [blobs EXCEPT ![n] = @ \cup {u.hash}]
          /\ u.from \in allow[n]
          /\ Fetchable(n, u)
      BY <1>8 DEF ApplyUpsert, Admitted
    <2>3. t \in Trees
      BY <1>2, <2>1, StoredTyped
    <2>4. \A q \in Place : t[q] \in Content => t[q] \in Contents(n) \cup {u.hash}
      BY <1>2, <1>4, <2>1, StoredEntries
    <2> HIDE DEF t
    <2>5. OneTree(n, t)
      BY <2>2, <2>3 DEF OneTree
    <2>6. ASSUME NEW m \in Node
          PROVE  blobs'[m] \subseteq Has(m) \cup IF m = n THEN {u.hash} ELSE {}
      <3>1. blobs'[m] = blobs[m] \cup IF m = n THEN {u.hash} ELSE {}
        BY <2>2 DEF TypeOK
      <3> QED
        BY <1>5, <3>1
    <2>7. Gains(n, {u.hash})
      BY <2>4, <2>5, <2>6, TreeGains
    <2>8. \/ u.hash \in Has(n)
          \/ <<n, u.from>> \in bonds /\ u.hash \in Has(u.from)
      BY <1>2, <1>5, <2>2 DEF Fetchable, BondsCover, Mutual
    <2> QED
      BY <1>2, <1>3, <2>1, <2>7, <2>8
  <1> QED
    BY <1>1, <1>6, <1>7, <1>8

\* The steps of a daemon and of its users carry contents along bonds at most.
LEMMA TrustByDaemon ==
    ASSUME TypeOK, TypeOK', Trusted, NEW n \in Node,
           \/ User(n)
           \/ \E p \in Place : Announce(n, p) \/ FlushNext(n, p) \/ DedupExpires(n, p)
           \/ NeighborUp(n)
           \/ Receive(n)
    PROVE  Trusted'
  <1>1. ASSUME NEW new \in SUBSET Content, Gains(n, new), UNCHANGED <<allow, bonds>>,
               wrote \subseteq wrote',
               \A c \in new : \/ c \in Has(n)
                              \/ <<n, c>> \in wrote'
                              \/ \E m \in Node : <<n, m>> \in bonds /\ c \in Has(m)
        PROVE  Trusted'
    <2>1. ASSUME NEW m \in Node, NEW c \in Has(m)'
          PROVE  \/ c \in Has(m)
                 \/ <<m, c>> \in wrote'
                 \/ \E k \in Node : <<m, k>> \in bonds /\ c \in Has(k)
      <3>1. c \in Has(m) \/ (m = n /\ c \in new)
        BY <1>1, <2>1 DEF Gains
      <3> QED
        BY <1>1, <3>1
    <2> QED
      BY <1>1, <2>1, TrustCarried
  <1>2. CASE User(n)
    <2>1. PICK new \in SUBSET Content : new = {c \in Content : <<n, c>> \in wrote'}
      OBVIOUS
    <2>2. Gains(n, new) /\ UNCHANGED <<allow, bonds>> /\ wrote \subseteq wrote'
      BY <1>2, <2>1, UserGains
    <2>3. \A c \in new : <<n, c>> \in wrote'
      BY <2>1
    <2> QED
      BY <1>1, <2>2, <2>3
  <1>3. CASE \E p \in Place : Announce(n, p) \/ FlushNext(n, p)
    BY <1>1, <1>3, AnnounceGains
  <1>4. CASE \/ \E p \in Place : DedupExpires(n, p)
             \/ NeighborUp(n)
    <2>1. UNCHANGED <<tree, blobs, allow, bonds, wrote>>
      BY <1>4 DEF DedupExpires, NeighborUp, disk, mesh, ghost
    <2>2. Gains(n, {})
      BY <2>1, GainsNothing DEF Gains
    <2> QED
      BY <1>1, <2>1, <2>2
  <1>5. CASE Receive(n)
    <2>1. BondsCover
      BY DEF Trusted
    <2> QED
      BY <1>1, <1>5, <2>1, ReceiveGains
  <1> QED
    BY <1>2, <1>3, <1>4, <1>5

LEMMA TrustByEnvironment ==
    ASSUME TypeOK, TypeOK', Trusted, NEW n \in Node, Environment(n)
    PROVE  Trusted'
  <1>1. UNCHANGED <<tree, blobs, wrote>> /\ bonds \subseteq bonds'
    BY DEF Environment, Join, Leave, Lose, Crash, AllowPeer, RevokePeer, Disturbed, disk,
           ghost
  <1>2. OnlyTrustCarries'
    <2>1. SUFFICES ASSUME NEW S \in SUBSET Node, Closed(S)', NEW m \in S,
                          NEW c \in (Contents(m) \cup blobs[m])'
                   PROVE  \E k \in S : <<k, c>> \in wrote'
      BY DEF OnlyTrustCarries
    <2>2. Closed(S) /\ c \in Contents(m) \cup blobs[m]
      BY <1>1, <2>1 DEF Closed, Contents
    <2> QED
      BY <1>1, <2>1, <2>2 DEF Trusted, OnlyTrustCarries
  <1>3. BondsCover'
    <2>1. ASSUME NEW m \in Node \ {n}, AllowPeer(n, m) PROVE BondsCover'
      <3>1. allow' = [allow EXCEPT ![n] = @ \cup {m}]
        BY <2>1 DEF AllowPeer
      <3>2. ASSUME NEW j \in Node, NEW k \in Node, Mutual(j, k)' PROVE <<j, k>> \in bonds'
        <4>1. \/ Mutual(j, k)
              \/ {j, k} = {n, m}
          BY <3>1, <3>2, <2>1 DEF Mutual, TypeOK
        <4>2. CASE Mutual(j, k)
          BY <1>1, <4>2 DEF Trusted, BondsCover
        <4>3. CASE {j, k} = {n, m}
          <5>1. n \in allow'[m] /\ <<j, k>> \in {<<n, m>>, <<m, n>>}
            BY <2>1, <3>2, <4>3 DEF Mutual
          <5> QED
            BY <2>1, <5>1 DEF AllowPeer
        <4> QED
          BY <4>1, <4>2, <4>3
      <3> QED
        BY <3>2 DEF BondsCover
    <2>2. ASSUME NEW m \in Node, RevokePeer(n, m) PROVE BondsCover'
      <3>1. \A j \in Node : allow'[j] \subseteq allow[j]
        BY <2>2 DEF RevokePeer, TypeOK
      <3> QED
        BY <1>1, <3>1 DEF Trusted, BondsCover, Mutual
    <2>3. CASE UNCHANGED allow
      BY <1>1, <2>3 DEF Trusted, BondsCover, Mutual
    <2> QED
      BY <2>1, <2>2, <2>3 DEF Environment, Join, Leave, Lose, Crash
  <1> QED
    BY <1>2, <1>3 DEF Trusted

\* Contents spread only along pairs of daemons that have allowed each other:
\* neither one-sided grants nor grants withdrawn in time carry any.
THEOREM TrustCarries == Spec => []OnlyTrustCarries
  <1>1. Init => Trusted
    <2> SUFFICES ASSUME Init PROVE Trusted
      OBVIOUS
    <2>1. BondsCover
      BY DEF Init, BondsCover, Mutual
    <2>2. \A n \in Node : Contents(n) \cup blobs[n] = {}
      BY EntryAssumption DEF Init, Contents
    <2> QED
      BY <2>1, <2>2 DEF Trusted, OnlyTrustCarries
  <1>2. TypeOK /\ TypeOK' /\ Trusted /\ [Next]_vars => Trusted'
    <2> SUFFICES ASSUME TypeOK, TypeOK', Trusted, [Next]_vars PROVE Trusted'
      OBVIOUS
    <2>1. CASE UNCHANGED vars
      BY <2>1 DEF vars, disk, mesh, ghost, Trusted, BondsCover, Mutual,
                  OnlyTrustCarries, Closed, Contents
    <2>2. ASSUME NEW n \in Node, User(n) \/ Internal(n) PROVE Trusted'
      BY <2>2, TrustByDaemon DEF Internal
    <2>3. ASSUME NEW n \in Node, Environment(n) PROVE Trusted'
      BY <2>3, TrustByEnvironment
    <2> QED
      BY <2>1, <2>2, <2>3 DEF Next
  <1> QED
    BY <1>1, <1>2, Typing, PTL DEF Spec, Trusted

-----------------------------------------------------------------------------
(***************************************************************************)
(* Agreement: how far the daemons are while one change is on its way.      *)
(* SerialInv says what can be going on as long as changes are made one at  *)
(* a time: some path has become something, every update says so, every     *)
(* event is about it, and who could follow it has it, has an update of its *)
(* author coming, or the author has an event it will announce.             *)
(***************************************************************************)
\* An update about p that says its content is g, or that it is gone.
Carries(u, p, g) ==
    /\ u.path = p
    /\ ValidPath(p)
    /\ IF g = Absent THEN u.kind = "tombstone"
       ELSE u.kind = "upsert" /\ u.hash = g /\ g \notin Oversize /\ g \in blobs[u.from]

\* No event of p is pending, or one that yields no update, or one of the change
\* that made at be g.
Untouched(n, p, at, g) ==
    \/ window[n][p] = {}
    \/ tree[n][p] \in {Dir, Link} /\ "remove" \notin window[n][p]
    \/ /\ p = at /\ tree[n][p] = g
       /\ IF g = Absent THEN window[n][p] = {"remove"} ELSE "remove" \notin window[n][p]

\* All that goes on is that at has become g.
Focus(at, g) ==
    /\ \A n \in Node : \A u \in net[n] : Carries(u, at, g)
    /\ \A n \in Node : \A p \in Place : Untouched(n, p, at, g)
    /\ audience[at] # {} => File(origin[at], at) = g

FocusInv == Quiet \/ \E at \in Place, g \in Content \cup {Absent} : Focus(at, g)

CalmInv ==
    /\ \A n \in Node : initial[n] = {} /\ flush[n] = {}
    /\ Quiet \/ \A n \in Node : n \in up /\ joined[n]

\* A mark of a removal has an event to consume it; a mark of a write is about the
\* file as it is, once there are no events.
MarksInv ==
    \A n \in Node : \A p \in Place :
        /\ p \in lastRemoved[n] => "remove" \in window[n][p]
        /\ p \in Skipped \/ window[n][p] # {} \/ lastWritten[n][p] \in {Absent, tree[n][p]}

\* The update of its author is on its way to m.
Coming(m, p) == \E u \in net[m] : u.path = p /\ u.from = origin[p]

\* n has an event of p that it will announce to everybody.
Untold(n, p) ==
    /\ window[n][p] # {} /\ tree[n][p] \in Content \cup {Absent}
    /\ ~OwnWrite(n, p) /\ p \notin lastRemoved[n]
    /\ \A m \in Node : \A u \in net[m] : u.path # p
    /\ \A m \in Node \ {n} : window[m][p] = {} \/ tree[m][p] \in {Dir, Link}
    /\ IF tree[n][p] = Absent THEN ValidPath(p) /\ p \notin dedup[n] ELSE Sendable(n, p)

\* Nothing is in the way of an upsert.
Ready(m, p) ==
    Resolves(tree[m], p) /\ tree[m][p] # Dir /\ tree[m][BackupPath(p, origin[p])] # Dir

\* m has the file of the author, or will get it.
Accounted(m, p) ==
    \/ File(m, p) = File(origin[p], p)
    \/ /\ Mutual(origin[p], m)
       /\ File(origin[p], p) # Absent => Ready(m, p)
       /\ Coming(m, p) \/ Untold(origin[p], p)

AccountedInv ==
    \A p \in Place : /\ p \in Skipped => audience[p] = {}
                     /\ \A m \in audience[p] : Accounted(m, p)

SerialInv == past = "serial" => CalmInv /\ MarksInv /\ FocusInv /\ AccountedInv

Sound == TypeOK /\ StaysInside /\ NoneSkipped

LEMMA KindFacts ==
    /\ AfterRemove({}) = {"remove"} /\ AfterWrite({}, FALSE) = {"create"}
    /\ \A w, e : AfterWrite(w, e) # {} /\ ("remove" \notin w => "remove" \notin AfterWrite(w, e))
    /\ \A w : "remove" \notin w => AfterEvent(w) = {}
    /\ AfterEvent({"remove"}) = {}
    /\ \A w : "remove" \notin AfterEvent(w)
  BY DEF AfterRemove, AfterWrite, AfterEvent

LEMMA FileResolves ==
    ASSUME Sound, NEW n \in Node, NEW p \in Place, ValidPath(p), tree[n][p] \in Content
    PROVE  Resolves(tree[n], p)
  <1>1. tree[n] \in Trees /\ WellFormed(tree[n])
    BY DEF Sound, TypeOK, StaysInside, Trees
  <1>2. tree[n][p] # Link /\ tree[n][p] # Absent
    BY EntryAssumption
  <1>3. \A q \in Above[p] : tree[n][q] = Dir
    BY <1>1, <1>2 DEF WellFormed
  <1> QED
    BY <1>1, <1>2, <1>3, ResolveExact

\* At rest, those who could follow a change have followed it.
LEMMA QuietAgreed ==
    ASSUME Sound, Quiet, AccountedInv, NEW p \in Place, NEW m \in audience[p]
    PROVE  m \in Node /\ File(m, p) = File(origin[p], p)
  <1>1. m \in Node /\ origin[p] \in Node
    BY DEF Sound, TypeOK
  <1>2. ~Coming(m, p) /\ ~Untold(origin[p], p)
    BY <1>1 DEF Quiet, Coming, Untold
  <1> QED
    BY <1>1, <1>2 DEF AccountedInv, Accounted

\* While at becomes g, only at can be behind.
LEMMA ElsewhereAgreed ==
    ASSUME Sound, NEW at \in Place, NEW g \in Content \cup {Absent}, Focus(at, g),
           AccountedInv, NEW p \in Place \ {at}, NEW m \in audience[p]
    PROVE  m \in Node /\ File(m, p) = File(origin[p], p)
  <1>1. m \in Node /\ origin[p] \in Node
    BY DEF Sound, TypeOK
  <1>2. ~Coming(m, p)
    BY <1>1 DEF Focus, Coming, Carries
  <1>3. ~Untold(origin[p], p)
    <2>1. Untouched(origin[p], p, at, g)
      BY <1>1 DEF Focus
    <2> QED
      BY <2>1, EntryAssumption DEF Untouched, Untold
  <1> QED
    BY <1>1, <1>2, <1>3 DEF AccountedInv, Accounted

Serial == Sound /\ past = "serial" /\ SerialInv

\* What is known while something is going on.
Busy(at, g) ==
    /\ CalmInv /\ MarksInv /\ AccountedInv /\ Focus(at, g)
    /\ \A n \in Node : n \in up /\ joined[n]

LEMMA WhenBusy ==
    ASSUME Serial, ~Quiet
    PROVE  \E at \in Place, g \in Content \cup {Absent} : Busy(at, g)
  BY DEF Serial, SerialInv, CalmInv, FocusInv, Busy

-----------------------------------------------------------------------------
\* An announcement tells everybody, or has nothing to tell.
LEMMA AnnounceTells ==
    ASSUME Sound, NEW at \in Place, NEW g \in Content \cup {Absent}, Busy(at, g),
           NEW n \in Node, NEW p \in Place, Announce(n, p)
    PROVE  /\ \A m \in Node : \A q \in Place :
                  \/ window'[m][q] = window[m][q]
                  \/ m = n /\ q = p /\ window'[m][q] = {}
           /\ \A m \in Node : \A q \in Place :
                  \/ lastWritten'[m][q] = lastWritten[m][q] /\ (m # n \/ q # p)
                  \/ m = n /\ q = p /\ lastWritten'[m][q] \in {Absent, tree[m][q]}
           /\ \A m \in Node : \A q \in Place :
                  /\ q \in lastRemoved'[m] => q \in lastRemoved[m]
                  /\ m = n /\ q = p => q \notin lastRemoved'[m]
           /\ \A m \in Node : \A q \in Place :
                  q \in dedup'[m] => q \in dedup[m] \/ (m = n /\ q = p)
           /\ UNCHANGED <<tree, gate, allow, up, ghost>>
           /\ \A m \in Node : blobs[m] \subseteq blobs'[m]
  <1>0. Untouched(n, p, at, g) /\ joined[n] /\ window[n][p] # {}
    BY DEF Busy, Focus, Announce
  <1>1. AfterEvent(window[n][p]) = {}
    BY <1>0, KindFacts DEF Untouched
  <1>2. \A m \in Node : \A q \in Place :
            \/ window'[m][q] = window[m][q]
            \/ m = n /\ q = p /\ window'[m][q] = {}
    BY <1>1 DEF Announce, Sound, TypeOK
  <1>3. PICK c \in {Absent, tree[n][p]} : lastWritten' = [lastWritten EXCEPT ![n][p] = c]
    BY DEF Announce, SendFile, SendTombstone, Mark
  <1>4. \A m \in Node : \A q \in Place :
            \/ lastWritten'[m][q] = lastWritten[m][q] /\ (m # n \/ q # p)
            \/ m = n /\ q = p /\ lastWritten'[m][q] \in {Absent, tree[m][q]}
    BY <1>3 DEF Sound, TypeOK
  <1>5. p \in lastRemoved[n] => g = Absent /\ tree[n][p] = Absent
    BY <1>0 DEF Busy, MarksInv, Untouched
  <1>6. p \in lastRemoved[n] => lastRemoved' = [lastRemoved EXCEPT ![n] = @ \ {p}]
    BY <1>5 DEF Announce, OwnWrite
  <1>7. lastRemoved' = [lastRemoved EXCEPT ![n] = @ \ {p}] \/ UNCHANGED lastRemoved
    <2>1. \/ lastRemoved' = [lastRemoved EXCEPT ![n] = lastRemoved[n] \ {p}]
          \/ lastRemoved' = [lastRemoved EXCEPT ![n] = lastRemoved[n]]
      BY DEF Announce
    <2>2. [lastRemoved EXCEPT ![n] = lastRemoved[n]] = lastRemoved
      BY DEF Sound, TypeOK
    <2> QED
      BY <2>1, <2>2
  <1>8. \A m \in Node : \A q \in Place :
            /\ q \in lastRemoved'[m] => q \in lastRemoved[m]
            /\ m = n /\ q = p => q \notin lastRemoved'[m]
    BY <1>6, <1>7 DEF Sound, TypeOK
  <1>9. initial' = initial
    <2>1. initial' = [initial EXCEPT ![n] = initial[n]]
      BY <1>0 DEF Announce
    <2> QED
      BY <2>1 DEF Sound, TypeOK
  <1>10. \A m \in Node : \A q \in Place :
             q \in dedup'[m] => q \in dedup[m] \/ (m = n /\ q = p)
    BY DEF Announce, SendFile, SendTombstone, Sound, TypeOK
  <1>11. \A m \in Node : blobs[m] \subseteq blobs'[m]
    <2>1. \/ blobs' = blobs
          \/ blobs' = [blobs EXCEPT ![n] = blobs[n] \cup {tree[n][p]}]
      BY DEF Announce, SendFile, SendTombstone
    <2>2. \A d : \A m \in Node : blobs[m] \subseteq [blobs EXCEPT ![n] = blobs[n] \cup {d}][m]
      BY DEF Sound, TypeOK
    <2> QED
      BY <2>1, <2>2
  <1>12. UNCHANGED <<tree, gate, allow, up, ghost>>
    BY <1>9 DEF Announce, gate
  <1> QED
    BY <1>2, <1>4, <1>8, <1>10, <1>11, <1>12

\* What it sends is about the change that is going on.
LEMMA AnnounceSends ==
    ASSUME Sound, NEW at \in Place, NEW g \in Content \cup {Absent}, Busy(at, g),
           NEW n \in Node, NEW p \in Place, Announce(n, p)
    PROVE  \/ UNCHANGED net
           \/ /\ p = at /\ tree[n][p] = g
              /\ \A m \in Node : \A u \in net'[m] :
                     u \in net[m] \/ (u.path = p /\ Carries(u, at, g)')
  <1>0. Untouched(n, p, at, g) /\ joined[n] /\ window[n][p] # {}
    BY DEF Busy, Focus, Announce
  <1>1. ASSUME SendTombstone(n, p, Absent), ~UNCHANGED net,
               "remove" \in window[n][p] \/ tree[n][p] = Absent
        PROVE  /\ p = at /\ tree[n][p] = g
               /\ \A m \in Node : \A u \in net'[m] :
                      u \in net[m] \/ (u.path = p /\ Carries(u, at, g)')
    <2>1. p = at /\ tree[n][p] = g /\ g = Absent
      BY <1>0, <1>1, EntryAssumption DEF Untouched
    <2>2. ValidPath(p) /\ Broadcast(n, "tombstone", p, Absent)
      BY <1>1 DEF SendTombstone
    <2>3. \A m \in Node : \A u \in net'[m] :
              u \in net[m] \/ u = [kind |-> "tombstone", path |-> p, hash |-> Absent, from |-> n]
      BY <2>2 DEF Broadcast
    <2> QED
      BY <2>1, <2>2, <2>3 DEF Carries
  <1>2. ASSUME SendFile(n, p, Absent), ~UNCHANGED net, "remove" \notin window[n][p]
        PROVE  /\ p = at /\ tree[n][p] = g
               /\ \A m \in Node : \A u \in net'[m] :
                      u \in net[m] \/ (u.path = p /\ Carries(u, at, g)')
    <2>1. Sendable(n, p) /\ Broadcast(n, "upsert", p, tree[n][p])
          /\ blobs' = [blobs EXCEPT ![n] = @ \cup {tree[n][p]}]
      BY <1>2 DEF SendFile
    <2>2. p = at /\ tree[n][p] = g /\ g \in Content \ Oversize /\ ValidPath(p)
      BY <1>0, <2>1, EntryAssumption DEF Untouched, Sendable, Resolves
    <2>3. \A m \in Node : \A u \in net'[m] :
              u \in net[m] \/ u = [kind |-> "upsert", path |-> p, hash |-> g, from |-> n]
      BY <2>1, <2>2 DEF Broadcast
    <2>4. g \in blobs'[n] /\ g # Absent
      BY <2>1, <2>2, EntryAssumption DEF Sound, TypeOK
    <2> QED
      BY <2>2, <2>3, <2>4 DEF Carries
  <1>3. \/ UNCHANGED net
        \/ SendTombstone(n, p, Absent) /\ ("remove" \in window[n][p] \/ tree[n][p] = Absent)
        \/ SendFile(n, p, Absent) /\ "remove" \notin window[n][p]
    BY DEF Announce
  <1> QED
    BY <1>1, <1>2, <1>3

\* Who has something to tell to everybody tells it.
LEMMA UntoldTold ==
    ASSUME Sound, NEW at \in Place, NEW g \in Content \cup {Absent}, Busy(at, g),
           NEW n \in Node, NEW p \in Place, Announce(n, p), Untold(n, p), origin[p] = n,
           NEW m \in Node \ {n}
    PROVE  Coming(m, p)'
  <1>0. Untouched(n, p, at, g) /\ joined[n] /\ window[n][p] # {} /\ n \in up /\ m \in up
    BY DEF Busy, Focus, Announce
  <1>1. tree[n][p] = g /\ (g # Absent => "remove" \notin window[n][p])
    BY <1>0, EntryAssumption DEF Untouched, Untold
  <1>2. ~OwnWrite(n, p) /\ p \notin lastRemoved[n]
    BY DEF Untold
  <1>3. ASSUME NEW kind, NEW c, Broadcast(n, kind, p, c) PROVE Coming(m, p)'
    <2>1. Linked(n)
      BY <1>0 DEF Linked
    <2>2. [kind |-> kind, path |-> p, hash |-> c, from |-> n] \in net'[m]
      BY <1>0, <1>3, <2>1 DEF Broadcast
    <2>3. origin' = origin
      BY DEF Announce, ghost
    <2> QED
      BY <2>2, <2>3 DEF Coming
  <1>4. CASE g = Absent
    <2>1. SendTombstone(n, p, Absent) /\ ValidPath(p) /\ p \notin dedup[n]
      BY <1>0, <1>1, <1>2, <1>4 DEF Announce, Untold
    <2> QED
      BY <1>3, <2>1 DEF SendTombstone
  <1>5. CASE g # Absent
    <2>1. SendFile(n, p, Absent) /\ Sendable(n, p)
      BY <1>0, <1>1, <1>2, <1>5 DEF Announce, Untold
    <2> QED
      BY <1>3, <2>1 DEF SendFile
  <1> QED
    BY <1>4, <1>5

LEMMA SerialAnnounce ==
    ASSUME Serial, NEW n \in Node, NEW p \in Place, Announce(n, p)
    PROVE  SerialInv'
  <1>1. window[n][p] # {}
    BY DEF Announce
  <1>2. ~Quiet
    BY <1>1 DEF Quiet
  <1>3. PICK at \in Place, g \in Content \cup {Absent} : Busy(at, g)
    BY <1>2, WhenBusy
  <1>4. Sound
    BY DEF Serial
  <1>5. /\ \A m \in Node : \A q \in Place :
               \/ window'[m][q] = window[m][q]
               \/ m = n /\ q = p /\ window'[m][q] = {}
        /\ \A m \in Node : \A q \in Place :
               \/ lastWritten'[m][q] = lastWritten[m][q] /\ (m # n \/ q # p)
               \/ m = n /\ q = p /\ lastWritten'[m][q] \in {Absent, tree[m][q]}
        /\ \A m \in Node : \A q \in Place :
               /\ q \in lastRemoved'[m] => q \in lastRemoved[m]
               /\ m = n /\ q = p => q \notin lastRemoved'[m]
        /\ \A m \in Node : \A q \in Place :
               q \in dedup'[m] => q \in dedup[m] \/ (m = n /\ q = p)
        /\ UNCHANGED <<tree, gate, allow, up, ghost>>
        /\ \A m \in Node : blobs[m] \subseteq blobs'[m]
    BY <1>3, <1>4, AnnounceTells
  <1>6. \/ UNCHANGED net
        \/ /\ p = at /\ tree[n][p] = g
           /\ \A m \in Node : \A u \in net'[m] :
                  u \in net[m] \/ (u.path = p /\ Carries(u, at, g)')
    BY <1>3, <1>4, AnnounceSends
  <1>7. CalmInv'
    BY <1>3, <1>5 DEF Busy, CalmInv, gate
  <1>8. MarksInv'
    BY <1>3, <1>5 DEF Busy, MarksInv
  <1>9. FocusInv'
    <2>1. ASSUME NEW m \in Node, NEW u \in net'[m] PROVE Carries(u, at, g)'
      <3>1. CASE u \in net[m]
        <4>1. u.from \in Node
          BY <1>4, <3>1 DEF Sound, TypeOK, Update
        <4> QED
          BY <1>3, <1>5, <3>1, <4>1 DEF Busy, Focus, Carries
      <3> QED
        BY <1>6, <3>1
    <2>2. ASSUME NEW m \in Node, NEW q \in Place PROVE Untouched(m, q, at, g)'
      <3>1. Untouched(m, q, at, g)
        BY <1>3 DEF Busy, Focus
      <3> QED
        BY <1>5, <3>1 DEF Untouched
    <2>3. audience'[at] # {} => File(origin[at], at)' = g
      BY <1>3, <1>5 DEF Busy, Focus, File, ghost
    <2>4. origin' = origin
      BY <1>5 DEF ghost
    <2> QED
      BY <2>1, <2>2, <2>3, <2>4 DEF Focus, FocusInv
  <1>10. AccountedInv'
    <2>1. UNCHANGED <<tree, allow, origin, audience>>
      BY <1>5 DEF ghost
    <2>2. ASSUME NEW q \in Place, NEW m \in audience[q] PROVE Accounted(m, q)'
      <3>0. m \in Node /\ origin[q] \in Node
        BY <1>4 DEF Sound, TypeOK
      <3>1. Accounted(m, q)
        BY <1>3 DEF Busy, AccountedInv
      <3>2. CASE File(m, q) = File(origin[q], q)
        BY <2>1, <3>2 DEF Accounted, File
      <3>3. ASSUME Coming(m, q) PROVE Coming(m, q)'
        <4>1. net[m] \subseteq net'[m]
          BY <3>0 DEF Announce, SendFile, SendTombstone, Broadcast, Sound, TypeOK
        <4> QED
          BY <2>1, <3>3, <4>1 DEF Coming
      <3>4. ASSUME Untold(origin[q], q), File(m, q) # File(origin[q], q)
            PROVE  Coming(m, q)' \/ Untold(origin[q], q)'
        <4> DEFINE o == origin[q]
        <4>1. m # o
          BY <3>4
        <4>2. CASE n = o /\ p = q
          BY <1>3, <1>4, <3>0, <3>4, <4>1, <4>2, UntoldTold
        <4>3. CASE n # o \/ p # q
          <5>1. /\ window'[o][q] = window[o][q]
                /\ lastWritten'[o][q] = lastWritten[o][q]
                /\ q \notin lastRemoved'[o]
                /\ q \in dedup'[o] => q \in dedup[o]
            BY <1>5, <3>0, <3>4, <4>3 DEF Untold
          <5>2. \A k \in Node : \A u \in net'[k] : u.path # q
            <6>1. CASE UNCHANGED net
              BY <3>4, <6>1 DEF Untold
            <6>2. CASE p = q /\ ~UNCHANGED net
              <7>1. tree[n][p] \in {Dir, Link} /\ tree[n][p] = g
                BY <1>1, <1>6, <3>4, <4>3, <6>2 DEF Untold
              <7> QED
                BY <7>1, EntryAssumption
            <6>3. CASE p # q
              BY <1>6, <3>4, <6>1, <6>3 DEF Untold
            <6> QED
              BY <6>1, <6>2, <6>3
          <5>3. \A k \in Node \ {o} : window'[k][q] = {} \/ tree'[k][q] \in {Dir, Link}
            BY <1>5, <3>4 DEF Untold
          <5>4. o' = o /\ tree' = tree
            BY <2>1
          <5> HIDE DEF o
          <5>5. Untold(o, q)
            BY <3>4 DEF o
          <5>6. tree[o][q] = Absent => ValidPath(q) /\ q \notin dedup'[o]
            BY <5>1, <5>5 DEF Untold
          <5>7. tree[o][q] # Absent => Sendable(o, q)'
            BY <5>4, <5>5 DEF Untold, Sendable
          <5>8. ~OwnWrite(o, q)'
            BY <5>1, <5>4, <5>5 DEF Untold, OwnWrite
          <5>9. Untold(o, q)'
            BY <5>1, <5>2, <5>3, <5>4, <5>5, <5>6, <5>7, <5>8 DEF Untold
          <5> QED
            BY <5>9 DEF o
        <4> QED
          BY <4>2, <4>3
      <3>5. CASE File(m, q) # File(origin[q], q)
        <4>1. /\ Mutual(origin[q], m)'
              /\ File(origin[q], q)' # Absent => Ready(m, q)'
          BY <2>1, <3>1, <3>5 DEF Accounted, File, Mutual, Ready
        <4>2. Coming(m, q)' \/ Untold(origin[q], q)'
          BY <3>1, <3>3, <3>4, <3>5 DEF Accounted
        <4> QED
          BY <4>1, <4>2 DEF Accounted
      <3> QED
        BY <3>2, <3>5
    <2>3. \A q \in Place : q \in Skipped => audience'[q] = {}
      BY <1>3, <2>1 DEF Busy, AccountedInv
    <2> QED
      BY <2>1, <2>2, <2>3 DEF AccountedInv
  <1> QED
    BY <1>7, <1>8, <1>9, <1>10 DEF SerialInv

-----------------------------------------------------------------------------
\* The daemon n has dealt with an update u: nothing but the file the change is
\* about has changed, and it is right if u is from the author.
LEMMA ReceiveAccounts ==
    ASSUME Sound, NEW at \in Place, NEW g \in Content \cup {Absent}, Busy(at, g),
           NEW n \in Node, NEW u \in net[n], Take(n, u),
           UNCHANGED <<origin, audience, allow>>,
           \A m \in Node \ {n} : tree'[m] = tree[m],
           \A q \in Place \ Skipped :
               File(n, q)' = File(n, q) \/ (q = at /\ File(n, q)' = g),
           Ready(n, at) => Ready(n, at)' \/ File(n, at)' = g,
           /\ u.from = origin[at] /\ Mutual(origin[at], n)
           /\ g # Absent => Ready(n, at)
           => File(n, at)' = g
    PROVE  AccountedInv'
  <1>1. \A q \in Place : q \in Skipped => audience'[q] = {}
    BY DEF Busy, AccountedInv
  <1>2. ASSUME NEW q \in Place, NEW m \in audience[q] PROVE Accounted(m, q)'
    <2>0. PICK o \in Node : o = origin[q]
      BY DEF Sound, TypeOK
    <2>1. q \notin Skipped /\ m \in Node /\ o \in Node /\ origin'[q] = o /\ Accounted(m, q)
      BY <2>0 DEF Busy, AccountedInv, Sound, TypeOK
    <2>2. ASSUME NEW k \in Node
          PROVE  File(k, q)' = File(k, q) \/ (k = n /\ q = at /\ File(k, q)' = g)
      <3>1. CASE k = n
        BY <2>1, <3>1
      <3>2. CASE k # n
        BY <3>2 DEF File
      <3> QED
        BY <3>1, <3>2
    <2>3. CASE q # at
      <3>1. File(m, q) = File(o, q)
        BY <2>0, <2>3, ElsewhereAgreed DEF Busy
      <3>2. File(m, q)' = File(o, q)'
        BY <2>1, <2>2, <2>3, <3>1
      <3> QED
        BY <2>1, <3>2 DEF Accounted, File
    <2>4. CASE q = at
      <3>1. File(o, q) = g
        BY <2>0, <2>4 DEF Busy, Focus
      <3>2. File(o, q)' = g
        BY <2>1, <2>2, <3>1
      <3>3. u.path = q
        BY <2>4 DEF Busy, Focus, Carries
      <3>4. ~Untold(o, q)
        BY <3>3 DEF Untold
      <3>5. CASE File(m, q) = g
        <4>1. File(m, q)' = g
          BY <2>1, <2>2, <3>5
        <4> QED
          BY <2>1, <3>2, <4>1 DEF Accounted, File
      <3>6. CASE File(m, q) # g
        <4>1. Mutual(o, m) /\ (g # Absent => Ready(m, q)) /\ Coming(m, q)
          BY <2>0, <2>1, <3>1, <3>4, <3>6 DEF Accounted
        <4>2. Mutual(o, m)'
          BY <2>0, <4>1 DEF Mutual
        <4>3. CASE m = n /\ File(n, q)' = g
          BY <2>1, <3>2, <4>3 DEF Accounted, File
        <4>4. CASE m = n /\ File(n, q)' # g
          <5>1. u.from # o
            BY <2>0, <2>4, <4>1, <4>4
          <5>2. Coming(m, q)'
            <6>1. PICK v \in net[m] : v.path = q /\ v.from = o
              BY <2>0, <4>1 DEF Coming
            <6>2. v \in net'[m]
              BY <4>4, <5>1, <6>1 DEF Take, Sound, TypeOK
            <6> QED
              BY <2>1, <6>1, <6>2 DEF Coming
          <5>3. g # Absent => Ready(m, q)'
            BY <2>4, <4>1, <4>4
          <5> QED
            BY <2>0, <2>1, <3>2, <4>2, <5>2, <5>3 DEF Accounted, File, Mutual
        <4>5. CASE m # n
          <5>1. net'[m] = net[m] /\ tree'[m] = tree[m]
            BY <2>1, <4>5 DEF Take, Sound, TypeOK
          <5>2. Coming(m, q)'
            BY <2>0, <2>1, <4>1, <5>1 DEF Coming
          <5>3. g # Absent => Ready(m, q)'
            BY <2>0, <2>1, <4>1, <5>1 DEF Ready
          <5> QED
            BY <2>0, <2>1, <3>2, <4>2, <5>2, <5>3 DEF Accounted, File, Mutual
        <4> QED
          BY <4>3, <4>4, <4>5
      <3> QED
        BY <3>5, <3>6
    <2> QED
      BY <2>3, <2>4
  <1> QED
    BY <1>1, <1>2 DEF AccountedInv

LEMMA ReceiveFocuses ==
    ASSUME Sound, NEW at \in Place, NEW g \in Content \cup {Absent}, Busy(at, g),
           NEW n \in Node, NEW u \in net[n], Take(n, u),
           UNCHANGED <<gate, up, origin, audience>>,
           \A m \in Node : blobs[m] \subseteq blobs'[m],
           \A m \in Node \ {n} : tree'[m] = tree[m] /\ window'[m] = window[m],
           File(n, at)' \in {File(n, at), g},
           \A q \in Place : Untouched(n, q, at, g)'
    PROVE  CalmInv' /\ FocusInv'
  <1>1. CalmInv'
    BY DEF Busy, CalmInv, gate
  <1>2. ASSUME NEW m \in Node, NEW v \in net'[m] PROVE Carries(v, at, g)'
    <2>1. v \in net[m]
      BY <1>2 DEF Take, Sound, TypeOK
    <2>2. v.from \in Node /\ Carries(v, at, g)
      BY <2>1 DEF Busy, Focus, Sound, TypeOK, Update
    <2> QED
      BY <2>2 DEF Carries
  <1>3. ASSUME NEW m \in Node, NEW q \in Place PROVE Untouched(m, q, at, g)'
    <2>1. CASE m = n
      BY <2>1
    <2>2. CASE m # n
      BY <2>2 DEF Busy, Focus, Untouched
    <2> QED
      BY <2>1, <2>2
  <1>4. audience'[at] # {} => File(origin[at], at)' = g
    <2>1. PICK o \in Node : o = origin[at] /\ origin'[at] = o
      BY DEF Sound, TypeOK
    <2>2. audience'[at] # {} => File(o, at) = g
      BY <2>1 DEF Busy, Focus
    <2>3. File(o, at)' \in {File(o, at), g}
      BY DEF File
    <2> QED
      BY <2>1, <2>2, <2>3 DEF File
  <1>5. Focus(at, g)'
    BY <1>2, <1>3, <1>4 DEF Focus
  <1> QED
    BY <1>1, <1>5 DEF FocusInv


\* An update that is passed over: its receiver has no place for it, or cannot
\* fetch it, and then its author has not allowed the receiver.
LEMMA SerialPassedOver ==
    ASSUME Serial, past' = "serial",
           NEW n \in Node, NEW u \in net[n], Refuse(n, u) \/ FetchFails(n, u)
    PROVE  SerialInv'
  <1>1. ~Quiet /\ Sound
    BY DEF Quiet, Serial
  <1>2. PICK at \in Place, g \in Content \cup {Absent} : Busy(at, g)
    BY <1>1, WhenBusy
  <1>3. Carries(u, at, g) /\ n \in up /\ u.from \in Node /\ u.from \in up
    BY <1>1, <1>2 DEF Busy, Focus, Sound, TypeOK, Update
  <1>4. Take(n, u) /\ UNCHANGED <<disk, window, marks, gate, allow, up, origin, audience>>
    BY DEF Refuse, FetchFails, ghost
  <1>5. \A m \in Node : \A q \in Place : File(m, q)' = File(m, q)
    BY <1>4 DEF File, disk
  <1>6. CalmInv' /\ FocusInv'
    <2>1. \A q \in Place : Untouched(n, q, at, g)'
      BY <1>2, <1>4 DEF Busy, Focus, Untouched, disk
    <2> QED
      BY <1>1, <1>2, <1>4, <1>5, <2>1, ReceiveFocuses DEF disk
  <1>7. MarksInv'
    BY <1>2, <1>4 DEF Busy, MarksInv, disk, marks
  <1>8. ASSUME u.from = origin[at], Mutual(origin[at], n), g # Absent => Ready(n, at)
        PROVE  File(n, at) = g
    <2>1. u.from \in allow[n] /\ n \in allow[u.from]
      BY <1>8 DEF Mutual
    <2>2. CASE Refuse(n, u)
      <3>1. ~Resolves(tree[n], at)
        BY <1>3, <2>1, <2>2 DEF Refuse, Admitted, Carries
      <3>2. g = Absent
        BY <1>8, <3>1 DEF Ready
      <3>3. tree[n][at] \notin Content
        BY <1>1, <1>3, <3>1, FileResolves DEF Carries
      <3> QED
        BY <3>2, <3>3 DEF File
    <2>3. CASE FetchFails(n, u)
      <3>1. u.hash = g /\ g \in blobs[u.from]
        BY <1>3, <2>3 DEF FetchFails, Carries
      <3>2. Fetchable(n, u)
        BY <1>3, <2>1, <3>1 DEF Fetchable
      <3> QED
        BY <2>3, <3>2 DEF FetchFails
    <2> QED
      BY <2>2, <2>3
  <1>9. Ready(n, at) => Ready(n, at)'
    BY <1>4 DEF Ready, disk
  <1>10. AccountedInv'
    BY <1>1, <1>2, <1>4, <1>5, <1>8, <1>9, ReceiveAccounts DEF disk
  <1> QED
    BY <1>6, <1>7, <1>10 DEF SerialInv

\* The events held after a change of the tree, path by path.
LEMMA EventsAt ==
    ASSUME NEW n, NEW t, NEW written, NEW p \in Place
    PROVE  /\ p \in Skipped => Events(n, t, written)[p] = window[n][p]
           /\ p \notin Skipped /\ t[p] = Absent /\ tree[n][p] # Absent
              => Events(n, t, written)[p] = AfterRemove(window[n][p])
           /\ p \notin Skipped /\ t[p] # Absent /\ (t[p] # tree[n][p] \/ p \in written)
              => Events(n, t, written)[p] = AfterWrite(window[n][p], tree[n][p] # Absent)
           /\ t[p] = tree[n][p] /\ p \notin written => Events(n, t, written)[p] = window[n][p]
  BY DEF Events

LEMMA SerialTombstone ==
    ASSUME Serial, NEW n \in Node, NEW u \in net[n], ApplyTombstone(n, u)
    PROVE  SerialInv'
  <1>1. ~Quiet /\ Sound
    BY DEF Quiet, Serial
  <1>2. PICK at \in Place, g \in Content \cup {Absent} : Busy(at, g)
    BY <1>1, WhenBusy
  <1>3. Carries(u, at, g) /\ at \notin Skipped
    BY <1>1, <1>2 DEF Busy, Focus, Sound, NoneSkipped, Carries
  <1>4. g = Absent /\ u.path = at
    BY <1>3 DEF Carries, ApplyTombstone
  <1>5. PICK t : t = [tree[n] EXCEPT ![at] = IF Unlinks(n, at) THEN Absent ELSE @]
    OBVIOUS
  <1>6. /\ tree' = [tree EXCEPT ![n] = t] /\ window' = [window EXCEPT ![n] = Events(n, t, {})]
        /\ lastRemoved' = [lastRemoved EXCEPT ![n] = RemovedMarks(n, at)]
        /\ Take(n, u) /\ UNCHANGED <<blobs, lastWritten, dedup, gate, allow, up, left, ghost>>
    BY <1>4, <1>5 DEF ApplyTombstone
  <1>7. \A m \in Node \ {n} : tree'[m] = tree[m] /\ window'[m] = window[m]
                              /\ lastRemoved'[m] = lastRemoved[m]
    BY <1>1, <1>6 DEF Sound, TypeOK
  <1>8. tree'[n] = t /\ window'[n] = Events(n, t, {}) /\ lastRemoved'[n] = RemovedMarks(n, at)
    BY <1>1, <1>6 DEF Sound, TypeOK
  <1>9. /\ \A q \in Place \ {at} : t[q] = tree[n][q]
        /\ t[at] = IF Unlinks(n, at) THEN Absent ELSE tree[n][at]
    BY <1>1, <1>5 DEF Sound, TypeOK
  <1>10. \A q \in Place \ {at} : window'[n][q] = window[n][q]
    BY <1>8, <1>9, EventsAt
  <1>11. ASSUME Unlinks(n, at)
         PROVE  window[n][at] = {} /\ window'[n][at] = {"remove"} /\ tree'[n][at] = Absent
    <2>1. tree[n][at] \in Content
      BY <1>11 DEF Unlinks
    <2>2. Untouched(n, at, at, g)
      BY <1>2 DEF Busy, Focus
    <2>3. window[n][at] = {}
      BY <1>4, <2>1, <2>2, EntryAssumption DEF Untouched
    <2>4. window'[n][at] = AfterRemove({})
      <3>1. t[at] = Absent /\ tree[n][at] # Absent
        BY <1>9, <1>11, <2>1, EntryAssumption
      <3>2. Events(n, t, {})[at] = AfterRemove(window[n][at])
        BY <1>3, <3>1, EventsAt
      <3> QED
        BY <1>8, <2>3, <3>2
    <2> QED
      BY <1>8, <1>9, <1>11, <2>3, <2>4, KindFacts
  <1>12. ASSUME ~Unlinks(n, at)
         PROVE  window'[n][at] = window[n][at] /\ tree'[n][at] = tree[n][at]
    BY <1>8, <1>9, <1>12, EventsAt
  <1>13. File(n, at)' = Absent
    BY <1>11, <1>12, EntryAssumption DEF Unlinks, File
  <1>14. \A q \in Place \ {at} : File(n, q)' = File(n, q)
    BY <1>8, <1>9 DEF File
  <1>15. CalmInv' /\ FocusInv'
    <2>1. ASSUME NEW q \in Place PROVE Untouched(n, q, at, g)'
      <3>1. Untouched(n, q, at, g)
        BY <1>2 DEF Busy, Focus
      <3>2. CASE q # at \/ ~Unlinks(n, at)
        BY <1>8, <1>9, <1>10, <1>12, <3>1, <3>2 DEF Untouched
      <3>3. CASE q = at /\ Unlinks(n, at)
        BY <1>4, <1>11, <3>3 DEF Untouched
      <3> QED
        BY <3>2, <3>3
    <2>2. File(n, at)' \in {File(n, at), g}
      BY <1>4, <1>13
    <2> QED
      BY <1>1, <1>2, <1>6, <1>7, <2>1, <2>2, ReceiveFocuses DEF ghost
  <1>16. MarksInv'
    <2>1. ASSUME NEW m \in Node, NEW q \in Place, q \in lastRemoved'[m]
          PROVE  "remove" \in window'[m][q]
      <3>1. CASE m # n
        BY <1>2, <1>7, <2>1, <3>1 DEF Busy, MarksInv
      <3>2. CASE m = n /\ q = at
        BY <1>8, <1>11, <2>1, <3>2 DEF RemovedMarks
      <3>3. CASE m = n /\ q # at
        <4>1. q \in lastRemoved[n]
          BY <1>8, <2>1, <3>3 DEF RemovedMarks
        <4> QED
          BY <1>2, <1>10, <3>3, <4>1 DEF Busy, MarksInv
      <3> QED
        BY <3>1, <3>2, <3>3
    <2>2. ASSUME NEW m \in Node, NEW q \in Place
          PROVE  q \in Skipped \/ window'[m][q] # {} \/ lastWritten'[m][q] \in {Absent, tree'[m][q]}
      <3>1. q \in Skipped \/ window[m][q] # {} \/ lastWritten[m][q] \in {Absent, tree[m][q]}
        BY <1>2 DEF Busy, MarksInv
      <3>2. CASE m # n
        BY <1>6, <1>7, <3>1, <3>2
      <3>3. CASE m = n /\ q = at /\ Unlinks(n, at)
        BY <1>11, <3>3
      <3>4. CASE m = n /\ (q # at \/ ~Unlinks(n, at))
        BY <1>6, <1>8, <1>9, <1>10, <1>12, <3>1, <3>4
      <3> QED
        BY <3>2, <3>3, <3>4
    <2> QED
      BY <2>1, <2>2 DEF MarksInv
  <1>17. AccountedInv'
    <2>1. \A q \in Place \ Skipped : File(n, q)' = File(n, q) \/ (q = at /\ File(n, q)' = g)
      BY <1>4, <1>13, <1>14
    <2>2. UNCHANGED <<origin, audience, allow>>
      BY <1>6 DEF ghost
    <2>3. File(n, at)' = g
      BY <1>4, <1>13
    <2> QED
      BY <1>1, <1>2, <1>6, <1>7, <2>1, <2>2, <2>3, ReceiveAccounts
  <1> QED
    BY <1>15, <1>16, <1>17 DEF SerialInv

\* A backup is in the tree, next to its file, and the watcher skips it.
LEMMA BackupSkipped ==
    ASSUME NEW p \in Place \ Skipped, NEW n \in Node
    PROVE  /\ BackupPath(p, n) \in Skipped
           /\ BackupPath(p, n) \notin Above[p] \cup {p}
  <1> DEFINE k == BackupPath(p, n)
  <1>1. k \in Place
    BY MeshAssumption
  <1>2. p \in Seq(Part) /\ p # <<>> /\ k \in Seq(Part) /\ k # <<>>
    BY <1>1, PlaceAssumption DEF Part
  <1>3. Len(p) \in Nat \ {0} /\ DOMAIN p = 1 .. Len(p)
    BY <1>2
  <1>4. k = [p EXCEPT ![Len(p)] = <<p[Len(p)], n>>]
    BY DEF BackupPath
  <1>5. Len(k) = Len(p) /\ k[Len(p)] = <<p[Len(p)], n>>
    <2>1. DOMAIN k = DOMAIN p
      BY <1>4
    <2>2. Len(k) = Len(p)
      BY <1>2, <1>3, <2>1
    <2> QED
      BY <1>3, <1>4, <2>2
  <1>6. p[Len(p)] \in Name
    <2>1. p[Len(p)] \in Part
      BY <1>2, <1>3
    <2>2. p[Len(p)] \notin Name \X Node
      BY <1>3 DEF Skipped
    <2> QED
      BY <2>1, <2>2 DEF Part
  <1>7. k[Len(k)] \in Name \X Node
    BY <1>5, <1>6
  <1> HIDE DEF k
  <1>8. k \in Skipped
    BY <1>1, <1>3, <1>5, <1>7 DEF Skipped
  <1>9. k \notin Above[p]
    <2>1. Above[k] = Above[p]
      BY <1>1, BackupFacts DEF k
    <2>2. k \notin Above[k]
      BY <1>1, AboveFacts
    <2> QED
      BY <2>1, <2>2
  <1> QED
    BY <1>8, <1>9 DEF k

\* What an upsert changes in a tree: the file, directories made for it, and a
\* backup; without the file, directories only.
LEMMA StoredFacts ==
    ASSUME Sound, NEW n \in Node, NEW u \in Update, u.hash \in Content,
           u.path \notin Skipped, NEW t, t = Stored(n, u)
    PROVE  /\ t \in Trees
           /\ \A q \in Place :
                  \/ t[q] = tree[n][q]
                  \/ q \in Above[u.path] /\ tree[n][q] = Absent /\ t[q] = Dir
                  \/ t[u.path] = u.hash /\ (q = u.path \/ q \in Skipped)
           /\ \/ t[u.path] = u.hash
              \/ tree[n][u.path] = Dir
              \/ tree[n][BackupPath(u.path, u.from)] = Dir
  <1> DEFINE p == u.path
             d == MakeDirs(tree[n], p)
             kept == BackupPath(p, u.from)
             moved == [d EXCEPT ![kept] = d[p], ![p] = u.hash]
  <1>1. p \in Place \ Skipped /\ u.from \in Node /\ tree[n] \in Trees
    BY DEF Update, Sound, TypeOK, Trees
  <1>2. /\ d \in Trees
        /\ d[p] = tree[n][p]
        /\ \A q \in Place : d[q] = tree[n][q] \/ (q \in Above[p] /\ d[q] = Dir /\ tree[n][q] = Absent)
    BY <1>1, MakeDirsFacts
  <1>3. kept \in Skipped /\ kept \notin Above[p] /\ kept # p
    BY <1>1, BackupSkipped
  <1>4. kept \in Place
    BY <1>3 DEF Skipped
  <1>5. t \in Trees
    BY StoredTyped DEF Sound
  <1>6. d[kept] = tree[n][kept]
    BY <1>2, <1>3, <1>4
  <1>7. \/ t = [d EXCEPT ![p] = u.hash]
        \/ d[p] = Dir /\ t = d
        \/ d[kept] = Dir /\ t = d
        \/ t = moved
    BY DEF Stored
  <1> HIDE DEF p, d, kept
  <1>8. \A q \in Place :
            \/ t[q] = d[q]
            \/ t[p] = u.hash /\ (q = p \/ q \in Skipped)
    <2>1. ASSUME t = [d EXCEPT ![p] = u.hash]
          PROVE  t[p] = u.hash /\ \A q \in Place \ {p} : t[q] = d[q]
      BY <1>1, <1>2, <2>1 DEF Trees
    <2>2. ASSUME t = moved
          PROVE  t[p] = u.hash /\ \A q \in Place \ {p, kept} : t[q] = d[q]
      BY <1>1, <1>2, <1>3, <2>2 DEF Trees
    <2>3. CASE t = [d EXCEPT ![p] = u.hash]
      BY <2>1, <2>3
    <2>4. CASE t = moved
      BY <1>3, <2>2, <2>4
    <2>5. CASE t = d
      BY <2>5
    <2> QED
      BY <1>7, <2>3, <2>4, <2>5
  <1>9. \A q \in Place :
            \/ t[q] = tree[n][q]
            \/ q \in Above[p] /\ tree[n][q] = Absent /\ t[q] = Dir
            \/ t[p] = u.hash /\ (q = p \/ q \in Skipped)
    BY <1>2, <1>8
  <1>10. t[p] = u.hash \/ tree[n][p] = Dir \/ tree[n][kept] = Dir
    <2>1. CASE d[p] = Dir \/ d[kept] = Dir
      BY <1>2, <1>6, <2>1
    <2>2. CASE t = [d EXCEPT ![p] = u.hash] \/ t = moved
      BY <1>1, <1>2, <1>3, <2>2 DEF Trees
    <2> QED
      BY <1>7, <2>1, <2>2
  <1> QED
    BY <1>5, <1>9, <1>10 DEF p, kept

LEMMA SerialUpsert ==
    ASSUME Serial, TypeOK', StaysInside', NEW n \in Node, NEW u \in net[n], ApplyUpsert(n, u)
    PROVE  SerialInv'
  <1>1. ~Quiet /\ Sound
    BY DEF Quiet, Serial
  <1>2. PICK at \in Place, g \in Content \cup {Absent} : Busy(at, g)
    BY <1>1, WhenBusy
  <1>3. Carries(u, at, g) /\ at \notin Skipped /\ u \in Update
    BY <1>1, <1>2 DEF Busy, Focus, Sound, NoneSkipped, Carries, TypeOK
  <1>4. /\ u.path = at /\ u.hash = g /\ g \in Content \ Oversize
        /\ Resolves(tree[n], at)
    BY <1>3 DEF Carries, ApplyUpsert, Admitted
  <1>5. PICK t : t = Stored(n, u)
    OBVIOUS
  <1>6. /\ t \in Trees
        /\ \A q \in Place :
               \/ t[q] = tree[n][q]
               \/ q \in Above[at] /\ tree[n][q] = Absent /\ t[q] = Dir
               \/ t[at] = g /\ (q = at \/ q \in Skipped)
        /\ \/ t[at] = g
           \/ tree[n][at] = Dir
           \/ tree[n][BackupPath(at, u.from)] = Dir
    BY <1>1, <1>3, <1>4, <1>5, StoredFacts
  <1>7. \A q \in Place : Untouched(n, q, at, g)
    BY <1>2 DEF Busy, Focus
  <1>8. \A m \in Node : lastRemoved[m] = {} /\ "remove" \notin window[m][at]
    <2>1. ASSUME NEW m \in Node, NEW q \in Place PROVE "remove" \notin window[m][q]
      <3>1. Untouched(m, q, at, g)
        BY <1>2 DEF Busy, Focus
      <3> QED
        BY <1>4, <3>1, EntryAssumption DEF Untouched
    <2> QED
      BY <1>1, <1>2, <2>1 DEF Busy, MarksInv, Sound, TypeOK
  <1>9. PICK w : /\ window' = [window EXCEPT ![n] = [Events(n, t, {}) EXCEPT ![at] = w]]
                 /\ "remove" \notin w
                 /\ t[at] # g => w = window[n][at]
    <2> DEFINE persisted == t[at] = g
               moved == persisted /\ tree[n][at] \notin {Absent, g}
               held == {window[n][at]} \cup IF moved THEN {{}} ELSE {}
               event == {AfterWrite(v, FALSE) : v \in held}
               all == held \cup IF persisted THEN event ELSE {}
    <2>1. PICK w \in all : window' = [window EXCEPT ![n] = [Events(n, t, {}) EXCEPT ![at] = w]]
      BY <1>4, <1>5 DEF ApplyUpsert
    <2>2. \A v \in held : "remove" \notin v
      BY <1>8
    <2>3. t[at] # g => all = {window[n][at]}
      OBVIOUS
    <2> HIDE DEF held
    <2>4. \A v \in event : "remove" \notin v
      BY <2>2, KindFacts
    <2> HIDE DEF event
    <2>5. "remove" \notin w
      BY <2>1, <2>2, <2>4
    <2> HIDE DEF all
    <2> QED
      BY <2>1, <2>3, <2>5
  <1>10. /\ tree' = [tree EXCEPT ![n] = t]
         /\ Take(n, u)
         /\ lastWritten' = [lastWritten EXCEPT ![n][at] = IF t[at] = g THEN g ELSE lastWritten[n][at]]
         /\ blobs' = [blobs EXCEPT ![n] = @ \cup {g}]
         /\ UNCHANGED <<lastRemoved, dedup, gate, allow, up, left, ghost>>
    BY <1>4, <1>5 DEF ApplyUpsert, Mark
  <1>11. tree'[n] = t /\ \A m \in Node \ {n} : tree'[m] = tree[m]
    BY <1>1, <1>10 DEF Sound, TypeOK
  <1>12. /\ \A m \in Node \ {n} : window'[m] = window[m]
         /\ window'[n][at] = w
         /\ \A q \in Place \ {at} : window'[n][q] = Events(n, t, {})[q]
    <2> DEFINE e == Events(n, t, {})
    <2>1. e \in [Place -> SUBSET Kind]
      BY <1>1, EventsTyped DEF Sound
    <2>2. window' = [window EXCEPT ![n] = [e EXCEPT ![at] = w]]
      BY <1>9
    <2> HIDE DEF e
    <2>3. window'[n] = [e EXCEPT ![at] = w] /\ \A m \in Node \ {n} : window'[m] = window[m]
      BY <1>1, <2>2 DEF Sound, TypeOK
    <2>4. window'[n][at] = w /\ \A q \in Place \ {at} : window'[n][q] = e[q]
      BY <2>1, <2>3
    <2> QED
      BY <2>3, <2>4 DEF e
  <1>13. ASSUME NEW q \in Place \ {at}
         PROVE  \/ tree'[n][q] = tree[n][q] /\ window'[n][q] = window[n][q]
                \/ q \in Skipped /\ window'[n][q] = {}
                \/ /\ q \in Above[at] /\ tree[n][q] = Absent /\ tree'[n][q] = Dir
                   /\ window'[n][q] # {} /\ "remove" \notin window'[n][q]
    <2>1. CASE q \in Skipped
      <3>1. Events(n, t, {})[q] = window[n][q] /\ window[n][q] = {}
        BY <1>1, <2>1, EventsAt DEF Sound, NoneSkipped
      <3> QED
        BY <1>12, <1>13, <2>1, <3>1
    <2>2. CASE q \notin Skipped /\ t[q] = tree[n][q]
      <3>1. Events(n, t, {})[q] = window[n][q]
        BY <2>2, EventsAt
      <3> QED
        BY <1>11, <1>12, <1>13, <2>2, <3>1
    <2>3. CASE q \notin Skipped /\ t[q] # tree[n][q]
      <3>1. q \in Above[at] /\ tree[n][q] = Absent /\ t[q] = Dir
        BY <1>6, <1>13, <2>3
      <3>2. window[n][q] = {}
        BY <1>7, <1>13, <3>1, EntryAssumption DEF Untouched
      <3>3. t[q] # Absent
        BY <3>1, EntryAssumption
      <3>4. Events(n, t, {})[q] = AfterWrite(window[n][q], tree[n][q] # Absent)
        BY <2>3, <3>3, EventsAt
      <3>5. Events(n, t, {})[q] # {} /\ "remove" \notin Events(n, t, {})[q]
        BY <3>2, <3>4, KindFacts
      <3> QED
        BY <1>11, <1>12, <1>13, <3>1, <3>5
    <2> QED
      BY <2>1, <2>2, <2>3
  <1>14. t[at] # g => tree'[n][at] = tree[n][at]
    <2>1. at \notin Above[at]
      BY AboveFacts
    <2> QED
      BY <1>6, <1>11, <2>1
  <1>15. File(n, at)' \in {File(n, at), g}
    BY <1>4, <1>11, <1>14 DEF File
  <1>16. \A q \in Place \ Skipped : File(n, q)' = File(n, q) \/ (q = at /\ File(n, q)' = g)
    <2>1. ASSUME NEW q \in Place \ Skipped, q # at PROVE File(n, q)' = File(n, q)
      <3>1. \/ tree'[n][q] = tree[n][q]
            \/ tree[n][q] = Absent /\ tree'[n][q] = Dir
        BY <1>13, <2>1
      <3> QED
        BY <3>1, EntryAssumption DEF File
    <2>2. t[at] = g => File(n, at)' = g
      BY <1>4, <1>11 DEF File
    <2>3. t[at] # g => File(n, at)' = File(n, at)
      BY <1>14 DEF File
    <2> QED
      BY <2>1, <2>2, <2>3
  <1>17. CalmInv' /\ FocusInv'
    <2>1. ASSUME NEW q \in Place PROVE Untouched(n, q, at, g)'
      <3>1. CASE q = at /\ t[at] = g
        BY <1>4, <1>9, <1>11, <1>12, <3>1, EntryAssumption DEF Untouched
      <3>2. CASE q = at /\ t[at] # g
        <4>1. tree'[n][q] = tree[n][q] /\ window'[n][q] = window[n][q]
          BY <1>9, <1>12, <1>14, <3>2
        <4> QED
          BY <1>7, <4>1 DEF Untouched
      <3>3. CASE q # at
        <4>1. Untouched(n, q, at, g)
          BY <1>7
        <4> QED
          BY <1>13, <3>3, <4>1 DEF Untouched
      <3> QED
        BY <3>1, <3>2, <3>3
    <2>2. \A m \in Node : blobs[m] \subseteq blobs'[m]
      BY <1>1, <1>10 DEF Sound, TypeOK
    <2>3. \A m \in Node \ {n} : tree'[m] = tree[m] /\ window'[m] = window[m]
      BY <1>11, <1>12
    <2>4. UNCHANGED <<gate, up, origin, audience>>
      BY <1>10 DEF ghost
    <2> QED
      BY <1>1, <1>2, <1>10, <1>15, <2>1, <2>2, <2>3, <2>4, ReceiveFocuses
  <1>18. MarksInv'
    <2>1. \A m \in Node : lastRemoved'[m] = {}
      BY <1>8, <1>10
    <2>2. ASSUME NEW m \in Node, NEW q \in Place
          PROVE  q \in Skipped \/ window'[m][q] # {} \/ lastWritten'[m][q] \in {Absent, tree'[m][q]}
      <3>1. q \in Skipped \/ window[m][q] # {} \/ lastWritten[m][q] \in {Absent, tree[m][q]}
        BY <1>2 DEF Busy, MarksInv
      <3>2. \/ lastWritten'[m][q] = lastWritten[m][q]
            \/ m = n /\ q = at /\ t[at] = g /\ lastWritten'[m][q] = g
        BY <1>1, <1>10 DEF Sound, TypeOK
      <3>3. CASE m # n
        BY <1>11, <1>12, <3>1, <3>2, <3>3
      <3>4. CASE m = n /\ q # at
        BY <1>13, <3>1, <3>2, <3>4
      <3>5. CASE m = n /\ q = at /\ t[at] = g
        BY <1>1, <1>10, <1>11, <3>5 DEF Sound, TypeOK
      <3>6. CASE m = n /\ q = at /\ t[at] # g
        BY <1>9, <1>12, <1>14, <3>1, <3>2, <3>6
      <3> QED
        BY <3>3, <3>4, <3>5, <3>6
    <2> QED
      BY <2>1, <2>2 DEF MarksInv
  <1>19. ASSUME Ready(n, at), File(n, at)' # g PROVE Ready(n, at)'
    <2>1. PICK k \in Place : /\ k = BackupPath(at, origin[at]) /\ k \notin Above[at]
                             /\ k = BackupPath(at, origin'[at])
      <3>1. origin[at] \in Node
        BY <1>1 DEF Sound, TypeOK
      <3>2. BackupPath(at, origin[at]) \in Place /\ BackupPath(at, origin[at]) \notin Above[at]
        BY <1>3, <3>1, BackupSkipped, MeshAssumption
      <3>3. origin'[at] = origin[at]
        BY <1>10 DEF ghost
      <3> QED
        BY <3>2, <3>3
    <2>2. t[at] # g
      BY <1>4, <1>11, <1>19 DEF File
    <2>3. tree[n][at] # Dir /\ tree[n][k] # Dir
      BY <1>19, <2>1 DEF Ready
    <2>4. \A q \in Place : t[q] = tree[n][q] \/ (q \in Above[at] /\ t[q] = Dir)
      BY <1>6, <2>2
    <2>5. tree'[n][at] # Dir /\ tree'[n][k] # Dir
      BY <1>11, <1>14, <2>1, <2>2, <2>3, <2>4
    <2>6. tree[n] \in Trees /\ WellFormed(tree[n])
      BY <1>1 DEF Sound, TypeOK, StaysInside, Trees
    <2>7. /\ ValidPath(at) /\ tree[n][at] # Link
          /\ \A q \in Above[at] : tree[n][q] \in {Absent, Dir}
      BY <1>4, <2>6, ResolveExact
    <2>8. t[at] # Link /\ \A q \in Above[at] : t[q] \in {Absent, Dir}
      BY <1>11, <1>14, <2>2, <2>4, <2>7, AboveFacts
    <2>9. WellFormed(t)
      BY <1>11 DEF StaysInside, WellFormed
    <2>10. Resolves(t, at)
      BY <1>6, <2>7, <2>8, <2>9, ResolveExact
    <2>11. Resolves(tree[n], at)'
      BY <1>11, <2>10
    <2> QED
      BY <2>1, <2>5, <2>11 DEF Ready
  <1>20. ASSUME u.from = origin[at], Ready(n, at) PROVE File(n, at)' = g
    <2>1. t[at] = g
      BY <1>6, <1>20 DEF Ready
    <2> QED
      BY <1>4, <1>11, <2>1 DEF File
  <1>21. AccountedInv'
    <2>1. UNCHANGED <<origin, audience, allow>>
      BY <1>10 DEF ghost
    <2>2. \A m \in Node \ {n} : tree'[m] = tree[m]
      BY <1>11
    <2>3. Ready(n, at) => Ready(n, at)' \/ File(n, at)' = g
      BY <1>19
    <2>4. u.from = origin[at] /\ Mutual(origin[at], n) /\ (g # Absent => Ready(n, at))
          => File(n, at)' = g
      BY <1>4, <1>20, EntryAssumption
    <2> QED
      BY <1>1, <1>2, <1>10, <1>16, <2>1, <2>2, <2>3, <2>4, ReceiveAccounts
  <1> QED
    BY <1>17, <1>18, <1>21 DEF SerialInv

-----------------------------------------------------------------------------
\* A change of p in the directory of n, with directories made for it, when
\* nothing else is going on.
Changes(n, p, t, written) ==
    /\ UserChange(n, t, written)
    /\ t \in Trees
    /\ written \subseteq {p} /\ (p \in written => t[p] \in Content)
    /\ \A q \in Place \ {p} : t[q] = tree[n][q] \/ (tree[n][q] = Absent /\ t[q] = Dir)

\* Who follows a change can follow it.
Followed(n, p, t, followers) ==
    /\ followers \in SUBSET Node
    /\ followers # {} =>
           /\ ValidPath(p) /\ p \notin Skipped
           /\ t[p] # tree[n][p] /\ t[p] \in (Content \cup {Absent}) \ Oversize
    /\ \A m \in followers : t[p] # Absent =>
           Resolves(tree[m], p) /\ Dir \notin {tree[m][p], tree[m][BackupPath(p, n)]}

LEMMA ChangeFacts ==
    ASSUME Serial, Quiet, Together, NEW n \in Node, NEW p \in Place, NEW t, NEW written,
           Changes(n, p, t, written)
    PROVE  /\ tree'[n] = t /\ \A m \in Node \ {n} : tree'[m] = tree[m] /\ window'[m] = window[m]
           /\ window'[n] = Events(n, t, written)
           /\ \A m \in Node : net'[m] = {} /\ lastRemoved'[m] = {} /\ dedup'[m] = {}
           /\ UNCHANGED <<blobs, lastWritten, gate, allow, up>>
           /\ CalmInv'
           /\ \A m \in Node : \A q \in Place : window[m][q] = {}
           /\ \A m \in Node : \A q \in Place \ {p} : File(m, q)' = File(m, q)
  <1>1. Sound /\ CalmInv /\ MarksInv
    BY DEF Serial, SerialInv
  <1>2. /\ tree' = [tree EXCEPT ![n] = t] /\ window' = [window EXCEPT ![n] = Events(n, t, written)]
        /\ UNCHANGED <<blobs, marks, gate, mesh>>
    BY DEF Changes, UserChange
  <1>3. tree'[n] = t /\ window'[n] = Events(n, t, written)
    BY <1>1, <1>2 DEF Sound, TypeOK
  <1>4. \A m \in Node \ {n} : tree'[m] = tree[m] /\ window'[m] = window[m]
    BY <1>1, <1>2 DEF Sound, TypeOK
  <1>5. \A m \in Node : \A q \in Place : window[m][q] = {}
    BY DEF Quiet
  <1>6. \A m \in Node : net'[m] = {} /\ lastRemoved'[m] = {} /\ dedup'[m] = {}
    <2>1. \A m \in Node : lastRemoved[m] = {}
      BY <1>1, <1>5 DEF MarksInv, Sound, TypeOK
    <2> QED
      BY <1>2, <2>1 DEF Quiet, Together, marks, mesh
  <1>7. CalmInv'
    BY <1>1, <1>2 DEF CalmInv, Together, gate, mesh
  <1>8. ASSUME NEW m \in Node, NEW q \in Place \ {p} PROVE File(m, q)' = File(m, q)
    <2>1. \/ tree'[m][q] = tree[m][q]
          \/ tree[m][q] = Absent /\ tree'[m][q] = Dir
      BY <1>3, <1>4, <1>8 DEF Changes
    <2> QED
      BY <2>1, EntryAssumption DEF File
  <1> QED
    BY <1>2, <1>3, <1>4, <1>5, <1>6, <1>7, <1>8 DEF marks, mesh

\* The events of such a change are about it.
LEMMA ChangeEvents ==
    ASSUME Serial, Quiet, Together, NEW n \in Node, NEW p \in Place, NEW t, NEW written,
           Changes(n, p, t, written), NEW g, g = (IF t[p] \in Content THEN t[p] ELSE Absent)
    PROVE  /\ \A m \in Node : \A q \in Place : Untouched(m, q, p, g)'
           /\ MarksInv'
           /\ p \notin Skipped /\ t[p] # tree[n][p] => window'[n][p] # {}
  <1>1. /\ tree'[n] = t /\ \A m \in Node \ {n} : tree'[m] = tree[m] /\ window'[m] = window[m]
        /\ window'[n] = Events(n, t, written)
        /\ \A m \in Node : net'[m] = {} /\ lastRemoved'[m] = {} /\ dedup'[m] = {}
        /\ UNCHANGED <<blobs, lastWritten, gate, allow, up>>
        /\ \A m \in Node : \A q \in Place : window[m][q] = {}
    BY ChangeFacts
  <1>2. Sound /\ MarksInv /\ t \in Trees /\ tree[n] \in Trees
    BY DEF Serial, SerialInv, Changes, Sound, TypeOK, Trees
  <1>3. ASSUME NEW q \in Place
        PROVE  \/ window'[n][q] = {} /\ (q \in Skipped \/ t[q] = tree[n][q])
               \/ /\ t[q] = Absent /\ window'[n][q] = {"remove"} /\ q = p
               \/ /\ t[q] # Absent /\ window'[n][q] # {} /\ "remove" \notin window'[n][q]
                  /\ q = p \/ t[q] = Dir
    <2>1. CASE q \in Skipped
      BY <1>1, <2>1, EventsAt
    <2>2. CASE q \notin Skipped /\ t[q] = Absent /\ tree[n][q] # Absent
      <3>1. Events(n, t, written)[q] = AfterRemove(window[n][q])
        BY <2>2, EventsAt
      <3>2. Events(n, t, written)[q] = {"remove"}
        BY <1>1, <3>1, KindFacts
      <3>3. q = p
        BY <2>2, EntryAssumption DEF Changes
      <3> QED
        BY <1>1, <2>2, <3>2, <3>3
    <2>3. CASE q \notin Skipped /\ t[q] # Absent /\ (t[q] # tree[n][q] \/ q \in written)
      <3>1. Events(n, t, written)[q] = AfterWrite(window[n][q], tree[n][q] # Absent)
        BY <2>3, EventsAt
      <3>2. Events(n, t, written)[q] # {} /\ "remove" \notin Events(n, t, written)[q]
        BY <1>1, <3>1, KindFacts
      <3>3. q = p \/ t[q] = Dir
        BY <2>3 DEF Changes
      <3> QED
        BY <1>1, <2>3, <3>2, <3>3
    <2>4. CASE t[q] = tree[n][q] /\ q \notin written
      BY <1>1, <2>4, EventsAt
    <2>5. q \in written => t[q] # Absent
      BY EntryAssumption DEF Changes
    <2> QED
      BY <2>1, <2>2, <2>3, <2>4, <2>5
  <1>4. ASSUME NEW m \in Node, NEW q \in Place PROVE Untouched(m, q, p, g)'
    <2>1. CASE m # n
      BY <1>1, <2>1 DEF Untouched
    <2>2. CASE m = n /\ window'[n][q] = {}
      BY <2>2 DEF Untouched
    <2>3. CASE m = n /\ t[q] = Absent /\ window'[n][q] = {"remove"} /\ q = p
      BY <1>1, <2>3, EntryAssumption DEF Untouched
    <2>4. CASE m = n /\ t[q] # Absent /\ "remove" \notin window'[n][q] /\ (q = p \/ t[q] = Dir)
      <3>1. t[q] \in Content \cup {Dir, Link}
        BY <1>2, <2>4 DEF Trees, Entry
      <3>2. CASE t[q] \in {Dir, Link}
        BY <1>1, <2>4, <3>2 DEF Untouched
      <3>3. CASE t[q] \in Content
        <4>1. q = p /\ g = t[q] /\ g # Absent
          BY <2>4, <3>3, EntryAssumption
        <4> QED
          BY <1>1, <2>4, <4>1 DEF Untouched
      <3> QED
        BY <3>1, <3>2, <3>3
    <2> QED
      BY <1>3, <2>1, <2>2, <2>3, <2>4
  <1>5. ASSUME NEW m \in Node, NEW q \in Place
        PROVE  q \in Skipped \/ window'[m][q] # {} \/ lastWritten'[m][q] \in {Absent, tree'[m][q]}
    <2>1. q \in Skipped \/ lastWritten[m][q] \in {Absent, tree[m][q]}
      BY <1>1, <1>2 DEF MarksInv
    <2>2. CASE m # n
      BY <1>1, <2>1, <2>2
    <2>3. CASE m = n
      BY <1>1, <1>3, <2>1, <2>3
    <2> QED
      BY <2>2, <2>3
  <1>6. MarksInv'
    BY <1>1, <1>5 DEF MarksInv
  <1>7. p \notin Skipped /\ t[p] # tree[n][p] => window'[n][p] # {}
    BY <1>3
  <1> QED
    BY <1>4, <1>6, <1>7

\* Everybody who can follow the change will be told of it.
LEMMA ChangeUntold ==
    ASSUME Serial, Quiet, Together, TypeOK', StaysInside',
           NEW n \in Node, NEW p \in Place, NEW t, NEW written, Changes(n, p, t, written),
           NEW followers, Followed(n, p, t, followers), followers # {}
    PROVE  Untold(n, p)'
  <1>1. /\ tree'[n] = t /\ \A m \in Node \ {n} : tree'[m] = tree[m] /\ window'[m] = window[m]
        /\ \A m \in Node : net'[m] = {} /\ lastRemoved'[m] = {} /\ dedup'[m] = {}
        /\ UNCHANGED lastWritten
        /\ \A m \in Node : \A q \in Place : window[m][q] = {}
    BY ChangeFacts
  <1>2. /\ ValidPath(p) /\ p \notin Skipped
        /\ t[p] # tree[n][p] /\ t[p] \in (Content \cup {Absent}) \ Oversize
    BY DEF Followed
  <1>3. window'[n][p] # {}
    BY <1>2, ChangeEvents
  <1>4. ~OwnWrite(n, p)'
    <2>1. lastWritten[n][p] \in {Absent, tree[n][p]}
      BY <1>1, <1>2 DEF Serial, SerialInv, MarksInv
    <2> QED
      BY <1>1, <1>2, <2>1 DEF OwnWrite
  <1>5. t[p] # Absent => Sendable(n, p)'
    <2>1. SUFFICES ASSUME t[p] # Absent PROVE Sendable(n, p)'
      OBVIOUS
    <2>2. t \in Trees /\ WellFormed(t) /\ t[p] # Link
      BY <1>1, <1>2, EntryAssumption DEF StaysInside, Changes, WellFormed
    <2>3. \A q \in Above[p] : t[q] = Dir
      BY <2>1, <2>2 DEF WellFormed
    <2>4. Resolves(t, p)
      BY <1>2, <2>2, <2>3, ResolveExact
    <2>5. Resolves(tree[n], p)'
      BY <1>1, <2>4
    <2> QED
      BY <1>1, <1>2, <2>1, <2>5 DEF Sendable
  <1> QED
    BY <1>1, <1>2, <1>3, <1>4, <1>5 DEF Untold

LEMMA ChangeAuthored ==
    ASSUME Serial, Quiet, Together, TypeOK', StaysInside',
           NEW n \in Node, NEW p \in Place, NEW t, NEW written, Changes(n, p, t, written),
           NEW followers, Followed(n, p, t, followers), Authored(n, p, followers)
    PROVE  SerialInv'
  <1>1. /\ tree'[n] = t /\ \A m \in Node \ {n} : tree'[m] = tree[m] /\ window'[m] = window[m]
        /\ \A m \in Node : net'[m] = {}
        /\ UNCHANGED allow
        /\ CalmInv'
        /\ \A m \in Node : \A q \in Place \ {p} : File(m, q)' = File(m, q)
    BY ChangeFacts
  <1>2. Sound /\ AccountedInv
    BY DEF Serial, SerialInv
  <1>3. PICK g \in Content \cup {Absent} : g = (IF t[p] \in Content THEN t[p] ELSE Absent)
    OBVIOUS
  <1>4. (\A m \in Node : \A q \in Place : Untouched(m, q, p, g)') /\ MarksInv'
    BY <1>3, ChangeEvents
  <1>5. /\ origin'[p] = n /\ audience'[p] = {m \in followers : Mutual(n, m)}
        /\ \A q \in Place \ {p} : origin'[q] = origin[q] /\ audience'[q] = audience[q]
    BY <1>2 DEF Authored, Sound, TypeOK
  <1>6. File(n, p)' = g
    BY <1>1, <1>3 DEF File
  <1>7. FocusInv'
    <2>1. Focus(p, g)'
      BY <1>1, <1>4, <1>5, <1>6 DEF Focus, File
    <2> QED
      BY <2>1 DEF FocusInv
  <1>8. ASSUME NEW q \in Place PROVE q \in Skipped => audience'[q] = {}
    BY <1>2, <1>5 DEF AccountedInv, Followed
  <1>9. ASSUME NEW q \in Place, NEW m \in audience'[q] PROVE Accounted(m, q)'
    <2>1. CASE q # p
      <3>1. PICK o \in Node : o = origin[q] /\ o = origin'[q]
        BY <1>2, <1>5, <2>1 DEF Sound, TypeOK
      <3>2. m \in audience[q] /\ q \in Place \ {p}
        BY <1>5, <1>9, <2>1
      <3>3. m \in Node /\ File(m, q) = File(o, q)
        BY <1>2, <3>1, <3>2, QuietAgreed
      <3>4. File(m, q)' = File(o, q)'
        BY <1>1, <3>1, <3>2, <3>3
      <3> QED
        BY <3>1, <3>4 DEF Accounted, File
    <2>2. CASE q = p
      <3>1. m \in followers /\ Mutual(n, m) /\ m \in Node
        BY <1>5, <1>9, <2>2 DEF Followed
      <3>2. CASE m = n
        BY <1>5, <2>2, <3>2 DEF Accounted, File
      <3>3. CASE m # n
        <4>1. Untold(n, p)'
          BY <3>1, ChangeUntold
        <4>2. Mutual(n, m)'
          BY <1>1, <3>1 DEF Mutual
        <4>3. t[p] # Absent => Ready(m, p)'
          <5>1. SUFFICES ASSUME t[p] # Absent PROVE Ready(m, p)'
            OBVIOUS
          <5>2. Resolves(tree[m], p) /\ tree[m][p] # Dir /\ tree[m][BackupPath(p, n)] # Dir
            BY <3>1, <5>1 DEF Followed
          <5>3. tree'[m] = tree[m]
            BY <1>1, <3>1, <3>3
          <5> QED
            BY <1>5, <5>2, <5>3 DEF Ready
        <4>4. File(n, p)' # Absent => t[p] # Absent
          BY <1>1 DEF File
        <4>5. /\ Mutual(origin[p], m)'
              /\ File(origin[p], p)' # Absent => Ready(m, p)'
              /\ Untold(origin[p], p)'
          BY <1>5, <4>1, <4>2, <4>3, <4>4 DEF File, Mutual, Untold
        <4> QED
          BY <2>2, <4>5 DEF Accounted
      <3> QED
        BY <3>2, <3>3
    <2> QED
      BY <2>1, <2>2
  <1>10. AccountedInv'
    BY <1>8, <1>9 DEF AccountedInv
  <1> QED
    BY <1>1, <1>4, <1>7, <1>10 DEF SerialInv

LEMMA ChangeResaved ==
    ASSUME Serial, Quiet, Together,
           NEW n \in Node, NEW p \in Place, NEW t, NEW written, Changes(n, p, t, written),
           t[p] = tree[n][p], Resaved(n, p)
    PROVE  SerialInv'
  <1>1. /\ tree'[n] = t /\ \A m \in Node \ {n} : tree'[m] = tree[m]
        /\ \A m \in Node : net'[m] = {}
        /\ CalmInv'
        /\ \A m \in Node : \A q \in Place \ {p} : File(m, q)' = File(m, q)
    BY ChangeFacts
  <1>2. Sound /\ AccountedInv
    BY DEF Serial, SerialInv
  <1>3. PICK g \in Content \cup {Absent} : g = (IF t[p] \in Content THEN t[p] ELSE Absent)
    OBVIOUS
  <1>4. (\A m \in Node : \A q \in Place : Untouched(m, q, p, g)') /\ MarksInv'
    BY <1>3, ChangeEvents
  <1>5. \A m \in Node : \A q \in Place : File(m, q)' = File(m, q)
    <2>1. \A m \in Node : File(m, p)' = File(m, p)
      BY <1>1 DEF File
    <2> QED
      BY <1>1, <2>1
  <1>6. UNCHANGED origin
    BY DEF Resaved
  <1>7. \A q \in Place : audience'[q] \subseteq audience[q]
    BY <1>2 DEF Resaved, Sound, TypeOK
  <1>8. audience'[p] # {} => n \in audience[p] \cup {origin[p]}
    BY <1>2 DEF Resaved, Sound, TypeOK
  <1>9. audience'[p] # {} => File(origin[p], p)' = g
    <2>1. SUFFICES ASSUME audience'[p] # {} PROVE File(origin[p], p)' = g
      OBVIOUS
    <2>2. PICK o \in Node : o = origin[p] /\ o = origin'[p]
      BY <1>2, <1>6 DEF Sound, TypeOK
    <2>3. File(n, p) = File(o, p)
      BY <1>2, <1>8, <2>1, <2>2, QuietAgreed
    <2>4. File(o, p)' = g
      BY <1>3, <1>5, <2>3 DEF File
    <2> QED
      BY <2>2, <2>4 DEF File
  <1>10. FocusInv'
    <2>1. Focus(p, g)'
      BY <1>1, <1>4, <1>9 DEF Focus
    <2> QED
      BY <2>1 DEF FocusInv
  <1>11. AccountedInv'
    <2>1. ASSUME NEW q \in Place, NEW m \in audience'[q] PROVE Accounted(m, q)'
      <3>1. PICK o \in Node : o = origin[q] /\ o = origin'[q]
        BY <1>2, <1>6 DEF Sound, TypeOK
      <3>2. m \in Node /\ File(m, q) = File(o, q)
        BY <1>2, <1>7, <2>1, <3>1, QuietAgreed
      <3>3. File(m, q)' = File(o, q)'
        BY <1>5, <3>2
      <3> QED
        BY <3>1, <3>3 DEF Accounted, File
    <2>2. \A q \in Place : q \in Skipped => audience'[q] = {}
      BY <1>2, <1>7 DEF AccountedInv
    <2> QED
      BY <2>1, <2>2 DEF AccountedInv
  <1> QED
    BY <1>1, <1>4, <1>10, <1>11 DEF SerialInv

LEMMA SerialUser ==
    ASSUME Serial, TypeOK', StaysInside', past' = "serial", NEW n \in Node, User(n)
    PROVE  SerialInv'
  <1>1. PICK p \in UserPath : \/ \E c \in Content : UserWrite(n, p, c)
                              \/ UserRemove(n, p)
                              \/ UserLink(n, p)
    BY DEF User
  <1>2. p \in Place /\ Sound /\ tree[n] \in Trees
    BY <1>1, MeshAssumption DEF Serial, Sound, TypeOK, Trees
  <1>3. Quiet /\ Together
    BY <1>1 DEF UserWrite, UserRemove, UserLink, UserChange, Timed, Serial
  <1>4. CASE \E c \in Content : UserWrite(n, p, c)
    <2>1. PICK c \in Content : UserWrite(n, p, c)
      BY <1>4
    <2> DEFINE d == MakeDirs(tree[n], p)
               t == [d EXCEPT ![p] = c]
               open == {m \in Node :
                           /\ Resolves(tree[m], p)
                           /\ Dir \notin {tree[m][p], tree[m][BackupPath(p, n)]}}
               followers == IF ValidPath(p) /\ p \notin Skipped /\ c \notin Oversize
                            THEN open ELSE {}
    <2>2. /\ UserChange(n, t, {p})
          /\ IF c = tree[n][p] THEN Resaved(n, p) ELSE Authored(n, p, followers)
      BY <2>1 DEF UserWrite
    <2>3. d \in Trees /\ \A q \in Place : d[q] = tree[n][q] \/ (d[q] = Dir /\ tree[n][q] = Absent)
      BY <1>2, MakeDirsFacts
    <2> HIDE DEF d
    <2>4. t \in Trees /\ t[p] = c /\ \A q \in Place \ {p} : t[q] = d[q]
      BY <1>2, <2>3 DEF Trees, Entry
    <2> HIDE DEF t
    <2>5. Changes(n, p, t, {p})
      BY <2>2, <2>3, <2>4 DEF Changes
    <2>6. CASE c = tree[n][p]
      BY <1>2, <1>3, <2>2, <2>4, <2>5, <2>6, ChangeResaved
    <2>7. CASE c # tree[n][p]
      <3>1. followers \in SUBSET Node
        OBVIOUS
      <3>2. \A m \in followers : Resolves(tree[m], p) /\ Dir \notin {tree[m][p], tree[m][BackupPath(p, n)]}
        OBVIOUS
      <3>3. followers # {} => ValidPath(p) /\ p \notin Skipped /\ c \notin Oversize
        OBVIOUS
      <3>4. Authored(n, p, followers)
        BY <2>2, <2>7
      <3> HIDE DEF followers, open
      <3>5. Followed(n, p, t, followers)
        BY <2>4, <2>7, <3>1, <3>2, <3>3 DEF Followed
      <3> QED
        BY <1>2, <1>3, <2>5, <3>4, <3>5, ChangeAuthored
    <2> QED
      BY <2>6, <2>7
  <1>5. CASE UserRemove(n, p)
    <2> DEFINE t == [tree[n] EXCEPT ![p] = Absent]
               followers == IF ValidPath(p) /\ p \notin Skipped THEN Node ELSE {}
    <2>1. UserChange(n, t, {}) /\ Authored(n, p, followers) /\ tree[n][p] # Absent
      BY <1>5 DEF UserRemove
    <2>2. t \in Trees /\ t[p] = Absent /\ \A q \in Place \ {p} : t[q] = tree[n][q]
      BY <1>2 DEF Trees, Entry
    <2> HIDE DEF t
    <2>3. Changes(n, p, t, {})
      BY <2>1, <2>2 DEF Changes
    <2>4. Absent \notin Oversize
      BY MeshAssumption, EntryAssumption
    <2>5. Followed(n, p, t, followers)
      BY <2>1, <2>2, <2>4 DEF Followed
    <2> HIDE DEF followers
    <2> QED
      BY <1>2, <1>3, <2>1, <2>3, <2>5, ChangeAuthored
  <1>6. CASE UserLink(n, p)
    <2> DEFINE t == [tree[n] EXCEPT ![p] = Link]
    <2>1. UserChange(n, t, {}) /\ Authored(n, p, {})
      BY <1>6 DEF UserLink
    <2>2. t \in Trees /\ \A q \in Place \ {p} : t[q] = tree[n][q]
      BY <1>2 DEF Trees, Entry
    <2> HIDE DEF t
    <2>3. Changes(n, p, t, {})
      BY <2>1, <2>2 DEF Changes
    <2>4. Followed(n, p, t, {})
      BY DEF Followed
    <2> QED
      BY <1>2, <1>3, <2>1, <2>3, <2>4, ChangeAuthored
  <1> QED
    BY <1>1, <1>4, <1>5, <1>6

-----------------------------------------------------------------------------
\* When everything is at rest, a step that changes no file and starts nothing.
LEMMA SerialPaused ==
    ASSUME Serial, Quiet, UNCHANGED <<tree, origin, audience>>,
           \A n \in Node : initial'[n] = {} /\ flush'[n] = {} /\ net'[n] = {},
           \A n \in Node : lastRemoved'[n] \subseteq lastRemoved[n],
           \A n \in Node : \A p \in Place :
               window'[n][p] = {} /\ lastWritten'[n][p] \in {Absent, lastWritten[n][p]}
    PROVE  SerialInv'
  <1>1. Sound /\ CalmInv /\ MarksInv /\ AccountedInv
    BY DEF Serial, SerialInv
  <1>2. Quiet'
    BY DEF Quiet
  <1>3. CalmInv' /\ FocusInv'
    BY <1>2 DEF CalmInv, FocusInv
  <1>4. MarksInv'
    <2>1. \A n \in Node : \A p \in Place : window[n][p] = {}
      BY DEF Quiet
    <2>2. ASSUME NEW n \in Node, NEW p \in Place
          PROVE  /\ p \notin lastRemoved'[n]
                 /\ p \in Skipped \/ lastWritten'[n][p] \in {Absent, tree[n][p]}
      BY <1>1, <2>1 DEF MarksInv
    <2> QED
      BY <2>2 DEF MarksInv
  <1>5. AccountedInv'
    BY <1>1, QuietAgreed DEF AccountedInv, Accounted, File
  <1> QED
    BY <1>3, <1>4, <1>5 DEF SerialInv

LEMMA SerialOther ==
    ASSUME Serial, past' = "serial", NEW n \in Node,
           NeighborUp(n) \/ Environment(n)
    PROVE  SerialInv'
  <1>1. Sound /\ CalmInv
    BY DEF Serial, SerialInv
  <1>2. Quiet
    <2>1. CASE NeighborUp(n) \/ Join(n)
      BY <1>1, <2>1 DEF CalmInv, NeighborUp, Join
    <2>2. ASSUME Disturbed PROVE Quiet
      BY <2>2 DEF Disturbed
    <2>3. ASSUME NEW u \in net[n], Lose(n, u) PROVE Quiet
      BY <2>3 DEF Lose
    <2>4. ASSUME NEW m \in Node, AllowPeer(n, m) \/ RevokePeer(n, m) PROVE Quiet
      BY <2>2, <2>4 DEF AllowPeer, RevokePeer
    <2>5. CASE Leave(n) \/ Crash(n)
      BY <2>2, <2>5 DEF Leave, Crash
    <2> QED
      BY <2>1, <2>3, <2>4, <2>5 DEF Environment
  <1>3. \A m \in Node : /\ net[m] = {} /\ initial[m] = {} /\ flush[m] = {}
                        /\ \A p \in Place : window[m][p] = {}
    BY <1>1, <1>2 DEF Quiet, CalmInv
  <1>4. UNCHANGED <<tree, origin, audience>>
    BY DEF NeighborUp, Environment, Join, Leave, Lose, Crash, AllowPeer, RevokePeer, Disturbed,
           disk, ghost
  <1>5. ASSUME UNCHANGED <<window, lastWritten, lastRemoved>>,
               \A m \in Node : initial'[m] = {} /\ flush'[m] = {} /\ net'[m] = {}
        PROVE  SerialInv'
    BY <1>2, <1>3, <1>4, <1>5, SerialPaused
  <1>6. CASE NeighborUp(n)
    <2>1. UNCHANGED <<window, lastWritten, lastRemoved, net>>
      BY <1>6 DEF NeighborUp, marks, mesh
    <2>2. \A m \in Node : initial'[m] = {} /\ flush'[m] = {}
      BY <1>1, <1>3, <1>6 DEF NeighborUp, Sound, TypeOK
    <2> QED
      BY <1>3, <1>5, <2>1, <2>2
  <1>7. CASE \/ Join(n) \/ Leave(n)
             \/ \E m \in Node : AllowPeer(n, m) \/ RevokePeer(n, m)
    <2>1. UNCHANGED <<window, marks, gate, net>>
      BY <1>7 DEF Join, Leave, AllowPeer, RevokePeer
    <2> QED
      BY <1>3, <1>5, <2>1 DEF marks, gate
  <1>8. ASSUME NEW u \in net[n], Lose(n, u) PROVE SerialInv'
    BY <1>3, <1>8
  <1>9. CASE Crash(n)
    <2>1. \A m \in Node : initial'[m] = {} /\ flush'[m] = {} /\ net'[m] = {}
                          /\ lastRemoved'[m] \subseteq lastRemoved[m]
      BY <1>1, <1>3, <1>9 DEF Crash, Sound, TypeOK
    <2>2. \A m \in Node : window'[m] = (IF m = n THEN [p \in Place |-> {}] ELSE window[m])
      BY <1>1, <1>9 DEF Crash, Sound, TypeOK
    <2>3. \A m \in Node : lastWritten'[m] = (IF m = n THEN [p \in Place |-> Absent] ELSE lastWritten[m])
      BY <1>1, <1>9 DEF Crash, Sound, TypeOK
    <2>4. \A m \in Node : \A p \in Place :
              window'[m][p] = {} /\ lastWritten'[m][p] \in {Absent, lastWritten[m][p]}
      BY <1>3, <2>2, <2>3
    <2> QED
      BY <1>2, <1>4, <2>1, <2>4, SerialPaused
  <1> QED
    BY <1>6, <1>7, <1>8, <1>9 DEF Environment

\* A step that at most closes dedup windows.
LEMMA SerialIdle ==
    ASSUME Serial, UNCHANGED <<tree, blobs, window, lastWritten, lastRemoved, joined, initial>>,
           UNCHANGED <<flush, allow, up, net, past, origin, audience>>,
           \A n \in Node : dedup'[n] \subseteq dedup[n]
    PROVE  SerialInv'
  <1>1. Sound /\ CalmInv /\ MarksInv /\ FocusInv /\ AccountedInv
    BY DEF Serial, SerialInv
  <1>2. Quiet' = Quiet
    BY DEF Quiet
  <1>3. CalmInv'
    BY <1>1, <1>2 DEF CalmInv
  <1>4. MarksInv'
    BY <1>1 DEF MarksInv
  <1>5. ASSUME NEW at \in Place, NEW g \in Content \cup {Absent}, Focus(at, g)
        PROVE  Focus(at, g)'
    BY <1>5 DEF Focus, Carries, Untouched, File
  <1>6. FocusInv'
    BY <1>1, <1>2, <1>5 DEF FocusInv
  <1>7. ASSUME NEW p \in Place, NEW m \in audience[p] PROVE Accounted(m, p)'
    <2>1. Accounted(m, p) /\ m \in Node /\ origin[p] \in Node
      BY <1>1 DEF AccountedInv, Sound, TypeOK
    <2>2. Untold(origin[p], p) => Untold(origin[p], p)'
      BY <2>1 DEF Untold, OwnWrite, Sendable
    <2>3. Coming(m, p) => Coming(m, p)'
      BY DEF Coming
    <2>4. Mutual(origin[p], m) => Mutual(origin[p], m)'
      BY DEF Mutual
    <2>5. Ready(m, p) => Ready(m, p)'
      BY DEF Ready
    <2>6. File(m, p)' = File(m, p) /\ File(origin[p], p)' = File(origin[p], p)
      BY DEF File
    <2> QED
      BY <2>1, <2>2, <2>3, <2>4, <2>5, <2>6 DEF Accounted
  <1>8. AccountedInv'
    BY <1>1, <1>7 DEF AccountedInv
  <1> QED
    BY <1>3, <1>4, <1>6, <1>8 DEF SerialInv

LEMMA SerialInit == Init => SerialInv
  <1> SUFFICES ASSUME Init PROVE SerialInv
    OBVIOUS
  <1>1. Quiet
    BY DEF Init, Quiet
  <1>2. CalmInv /\ FocusInv
    BY <1>1 DEF Init, CalmInv, FocusInv
  <1>3. MarksInv
    BY DEF Init, MarksInv
  <1>4. AccountedInv
    BY DEF Init, AccountedInv
  <1> QED
    BY <1>2, <1>3, <1>4 DEF SerialInv

LEMMA SerialStep == Sound /\ Sound' /\ SerialInv /\ [Next]_vars => SerialInv'
  <1> SUFFICES ASSUME Sound, Sound', SerialInv, [Next]_vars, past' = "serial"
               PROVE  SerialInv'
    BY DEF SerialInv
  <1>1. past = "serial"
    <2>1. CASE UNCHANGED past
      BY <2>1
    <2>2. ASSUME NEW n \in Node, User(n) PROVE past = "serial"
      BY <2>2 DEF User, UserWrite, UserRemove, UserLink, UserChange, Timed
    <2>3. ASSUME NEW n \in Node, Internal(n) PROVE past = "serial"
      BY <2>3 DEF Internal, Announce, FlushNext, DedupExpires, NeighborUp, Receive, Refuse,
                  ApplyTombstone, FetchFails, ApplyUpsert, ghost
    <2>4. ASSUME NEW n \in Node, Environment(n) PROVE past = "serial"
      BY <2>4 DEF Environment, Join, Leave, Crash, Lose, AllowPeer, RevokePeer, Disturbed, ghost
    <2> QED
      BY <2>1, <2>2, <2>3, <2>4 DEF Next, vars, ghost
  <1>2. Serial /\ TypeOK' /\ StaysInside'
    BY <1>1 DEF Serial, Sound
  <1>3. CASE UNCHANGED vars
    BY <1>2, <1>3, SerialIdle DEF vars, disk, marks, gate, mesh, ghost
  <1>4. ASSUME NEW n \in Node, NEW p \in Place, FlushNext(n, p) PROVE SerialInv'
    BY <1>2, <1>4 DEF FlushNext, Serial, SerialInv, CalmInv
  <1>5. ASSUME NEW n \in Node, NEW p \in Place, DedupExpires(n, p) PROVE SerialInv'
    <2>1. \A m \in Node : dedup'[m] \subseteq dedup[m]
      BY <1>5 DEF DedupExpires, Sound, TypeOK
    <2> QED
      BY <1>2, <1>5, <2>1, SerialIdle DEF DedupExpires, disk, gate, mesh, ghost
  <1>6. ASSUME NEW n \in Node, Receive(n) PROVE SerialInv'
    BY <1>2, <1>6, SerialPassedOver, SerialTombstone, SerialUpsert DEF Receive
  <1>7. ASSUME NEW n \in Node, Internal(n) PROVE SerialInv'
    BY <1>2, <1>4, <1>5, <1>6, <1>7, SerialAnnounce, SerialOther DEF Internal
  <1> QED
    BY <1>2, <1>3, <1>7, SerialUser, SerialOther DEF Next

\* As long as changes are made one at a time by daemons that are together, all who
\* could follow the last change of a path have the file of its author whenever
\* everything is at rest: whatever was restarted, revoked or echoed meanwhile.
THEOREM Agree == Spec => []Agreement
  <1>1. Init => Sound /\ SerialInv
    BY TypeInit, InsideInit, UnskippedInit, SerialInit DEF Sound
  <1>2. Sound /\ [Next]_vars => Sound'
    BY TypeStep, InsideStep, UnskippedStep DEF Sound
  <1>3. Sound /\ SerialInv /\ [Next]_vars => SerialInv'
    BY <1>2, SerialStep
  <1>4. Sound /\ SerialInv => Agreement
    BY QuietAgreed DEF SerialInv, Agreement
  <1> QED
    BY <1>1, <1>2, <1>3, <1>4, PTL DEF Spec
=============================================================================

---------------------------- MODULE PathsProofs ----------------------------
(***************************************************************************)
(* What resolve_safe_path guarantees for any tree, and what writing a file *)
(* at a path it has let through does to the tree.                          *)
(***************************************************************************)
EXTENDS Paths, TLAPS

Trees == [Place -> Entry]
Part == Name \cup (Name \X Node)

LEMMA PrefixFacts ==
    ASSUME NEW p \in Place, NEW i \in 1 .. Len(p)
    PROVE  /\ SubSeq(p, 1, i) \in Place
           /\ Len(SubSeq(p, 1, i)) = i
           /\ \A j \in 1 .. i : SubSeq(SubSeq(p, 1, i), 1, j) = SubSeq(p, 1, j)
  <1>1. p \in Seq(Part) /\ SubSeq(p, 1, i) \in Place
    BY PlaceAssumption DEF Part
  <1>2. SubSeq(p, 1, i) \in Seq(Part) /\ Len(SubSeq(p, 1, i)) = i
    BY <1>1
  <1>3. ASSUME NEW j \in 1 .. i
        PROVE  SubSeq(SubSeq(p, 1, i), 1, j) = SubSeq(p, 1, j)
    BY <1>1, <1>2, <1>3
  <1> QED
    BY <1>1, <1>2, <1>3

\* The directories above a path are places, none is the path itself, and what is
\* above them is above the path.
LEMMA AboveFacts ==
    ASSUME NEW p \in Place
    PROVE  /\ Above[p] \subseteq Place \ {p}
           /\ \A q \in Above[p] : Above[q] \subseteq Above[p]
  <1>1. p \in Seq(Part) /\ Len(p) \in Nat
    BY PlaceAssumption DEF Part
  <1>2. Above[p] = {SubSeq(p, 1, i) : i \in 1 .. (Len(p) - 1)}
    BY DEF Above
  <1>3. ASSUME NEW i \in 1 .. (Len(p) - 1)
        PROVE  /\ SubSeq(p, 1, i) \in Place \ {p}
               /\ Above[SubSeq(p, 1, i)] \subseteq Above[p]
    <2>1. i \in 1 .. Len(p) /\ i # Len(p)
      BY <1>1, <1>3
    <2> DEFINE q == SubSeq(p, 1, i)
    <2>2. q \in Place /\ Len(q) = i /\ q # p
      BY <2>1, PrefixFacts
    <2>3. Above[q] = {SubSeq(q, 1, j) : j \in 1 .. (i - 1)}
      BY <2>2 DEF Above
    <2>4. ASSUME NEW j \in 1 .. (i - 1) PROVE SubSeq(q, 1, j) \in Above[p]
      <3>1. j \in 1 .. i /\ j \in 1 .. (Len(p) - 1)
        BY <1>1, <1>3, <2>4
      <3>2. SubSeq(q, 1, j) = SubSeq(p, 1, j)
        BY <3>1, <2>1, PrefixFacts
      <3> QED
        BY <3>1, <3>2, <1>2
    <2> HIDE DEF q
    <2> QED
      BY <2>2, <2>3, <2>4 DEF q
  <1> QED
    BY <1>2, <1>3

\* In a tree where nothing is below a file or a link, resolve_safe_path accepts
\* exactly the valid paths that lead through directories, or through nothing, and
\* do not end at a link.
THEOREM ResolveExact ==
    ASSUME NEW tree \in Trees, WellFormed(tree), NEW p \in Place
    PROVE  Resolves(tree, p) <=>
             /\ ValidPath(p)
             /\ tree[p] # Link
             /\ \A q \in Above[p] : tree[q] \in {Absent, Dir}
  <1>1. p \in Seq(Part) /\ Len(p) \in Nat \ {0} /\ SubSeq(p, 1, Len(p)) = p
    BY PlaceAssumption DEF Part
  <1>2. Above[p] = {SubSeq(p, 1, i) : i \in 1 .. (Len(p) - 1)}
    BY DEF Above
  <1>0. Len(p) \in Nat
    BY <1>1
  <1>3. ASSUME ValidPath(p), tree[p] # Link,
               \A q \in Above[p] : tree[q] \in {Absent, Dir}
        PROVE  Resolves(tree, p)
    <2>1. ASSUME NEW i \in 1 .. Len(p)
          PROVE  /\ tree[SubSeq(p, 1, i)] # Link
                 /\ i < Len(p) => tree[SubSeq(p, 1, i)] \in {Absent, Dir}
      <3> DEFINE ok == /\ tree[SubSeq(p, 1, i)] # Link
                       /\ i < Len(p) => tree[SubSeq(p, 1, i)] \in {Absent, Dir}
      <3>1. ASSUME i = Len(p) PROVE ok
        <4>1. SubSeq(p, 1, i) = p /\ ~(i < Len(p))
          BY <1>1, <3>1
        <4> QED
          BY <4>1, <1>3
      <3>2. ASSUME i < Len(p) PROVE ok
        <4>1. i \in 1 .. (Len(p) - 1)
          BY <1>1, <3>2
        <4>2. SubSeq(p, 1, i) \in Above[p]
          BY <4>1, <1>2
        <4> QED
          BY <4>2, <1>3, EntryAssumption
      <3>3. i = Len(p) \/ i < Len(p)
        BY <1>0
      <3> HIDE DEF ok
      <3> QED
        BY <3>1, <3>2, <3>3 DEF ok
    <2> QED
      BY <1>3, <2>1 DEF Resolves
  <1>4. ASSUME Resolves(tree, p), NEW i \in 1 .. Len(p)
        PROVE  /\ tree[SubSeq(p, 1, i)] # Link
               /\ i < Len(p) => tree[SubSeq(p, 1, i)] \in {Absent, Dir}
    <2> DEFINE q == SubSeq(p, 1, i)
    <2>1. q \in Place /\ Len(q) = i
      BY PrefixFacts
    <2>2. CASE tree[q] = Absent
      BY <2>2, EntryAssumption
    <2>3. CASE tree[q] # Absent
      <3>1. ASSUME NEW j \in 1 .. (i - 1) PROVE tree[SubSeq(p, 1, j)] # Absent
        <4>1. SubSeq(q, 1, j) \in Above[q]
          BY <2>1 DEF Above
        <4>2. j \in 1 .. i
          OBVIOUS
        <4>3. SubSeq(q, 1, j) = SubSeq(p, 1, j)
          BY <4>2, PrefixFacts
        <4> QED
          BY <4>1, <4>3, <2>1, <2>3, EntryAssumption DEF WellFormed
      <3> QED
        BY <3>1, <1>4 DEF Resolves
    <2> QED
      BY <2>2, <2>3
  <1>5. ASSUME Resolves(tree, p)
        PROVE  /\ ValidPath(p)
               /\ tree[p] # Link
               /\ \A q \in Above[p] : tree[q] \in {Absent, Dir}
    <2>1. ValidPath(p)
      BY <1>5 DEF Resolves
    <2>2. tree[p] # Link
      <3>1. Len(p) \in 1 .. Len(p)
        BY <1>1
      <3>2. tree[SubSeq(p, 1, Len(p))] # Link
        BY <3>1, <1>4, <1>5
      <3> QED
        BY <3>2, <1>1
    <2>3. ASSUME NEW i \in 1 .. (Len(p) - 1)
          PROVE  tree[SubSeq(p, 1, i)] \in {Absent, Dir}
      <3>1. i \in 1 .. Len(p) /\ i < Len(p)
        BY <1>1
      <3> QED
        BY <3>1, <1>4, <1>5
    <2> QED
      BY <2>1, <2>2, <2>3, <1>2
  <1> QED
    BY <1>3, <1>5

\* Making the directories on the way to p changes nothing else.
LEMMA MakeDirsFacts ==
    ASSUME NEW tree \in Trees, NEW p \in Place
    PROVE  /\ MakeDirs(tree, p) \in Trees
           /\ MakeDirs(tree, p)[p] = tree[p]
           /\ \A q \in Place : \/ MakeDirs(tree, p)[q] = tree[q]
                               \/ q \in Above[p] /\ MakeDirs(tree, p)[q] = Dir
                                  /\ tree[q] = Absent
  BY AboveFacts DEF MakeDirs, Trees, Entry

\* The way to p is clear: directories or nothing.
Clear(tree, p) == \A q \in Above[p] : tree[q] \in {Absent, Dir}

LEMMA MakeDirsKeeps ==
    ASSUME NEW tree \in Trees, WellFormed(tree), NEW p \in Place, Clear(tree, p)
    PROVE  /\ WellFormed(MakeDirs(tree, p))
           /\ \A q \in Above[p] : MakeDirs(tree, p)[q] = Dir
  <1> DEFINE t == MakeDirs(tree, p)
  <1>1. \A q \in Above[p] : t[q] = Dir
    BY AboveFacts DEF MakeDirs, Clear
  <1>2. ASSUME NEW x \in Place, t[x] # Absent, NEW q \in Above[x]
        PROVE  t[q] = Dir
    <2>1. CASE tree[x] # Absent
      <3>1. tree[q] = Dir /\ q \in Place
        BY <2>1, <1>2, AboveFacts DEF WellFormed
      <3> QED
        BY <3>1, EntryAssumption DEF MakeDirs
    <2>2. CASE tree[x] = Absent
      <3>1. x \in Above[p]
        BY <2>2, <1>2 DEF MakeDirs
      <3> QED
        BY <3>1, <1>1, <1>2, AboveFacts
    <2> QED
      BY <2>1, <2>2
  <1> HIDE DEF t
  <1> QED
    BY <1>1, <1>2 DEF WellFormed, t

\* Putting an entry where the way is made, and no directory is, keeps the tree
\* well formed.
LEMMA PutKeeps ==
    ASSUME NEW t \in Trees, WellFormed(t), NEW p \in Place, NEW e \in Entry,
           \A q \in Above[p] : t[q] = Dir,
           t[p] # Dir
    PROVE  WellFormed([t EXCEPT ![p] = e])
  <1> DEFINE u == [t EXCEPT ![p] = e]
  <1>1. ASSUME NEW x \in Place, u[x] # Absent, NEW q \in Above[x]
        PROVE  u[q] = Dir
    <2>1. q \in Place /\ q # x
      BY AboveFacts
    <2>2. t[q] = Dir
      BY <1>1, <2>1 DEF WellFormed, Trees
    <2> QED
      BY <2>1, <2>2 DEF Trees
  <1> HIDE DEF u
  <1> QED
    BY <1>1 DEF WellFormed, u

\* An update that resolve_safe_path has accepted is written inside the watched
\* directory: the tree stays well formed, and apart from directories made on the
\* way only the path itself changes.
THEOREM AcceptedStaysInside ==
    ASSUME NEW tree \in Trees, WellFormed(tree), NEW p \in Place, NEW c \in Content,
           Resolves(tree, p), tree[p] # Dir
    PROVE  LET t == [MakeDirs(tree, p) EXCEPT ![p] = c] IN
           /\ WellFormed(t)
           /\ \A q \in Place \ {p} :
                  t[q] = tree[q] \/ (q \in Above[p] /\ tree[q] = Absent /\ t[q] = Dir)
  <1>1. Clear(tree, p)
    BY ResolveExact DEF Clear
  <1>2. /\ MakeDirs(tree, p) \in Trees
        /\ MakeDirs(tree, p)[p] # Dir
    BY MakeDirsFacts
  <1>3. WellFormed([MakeDirs(tree, p) EXCEPT ![p] = c])
    BY <1>1, <1>2, MakeDirsKeeps, PutKeeps DEF Entry
  <1> DEFINE m == MakeDirs(tree, p)
  <1>4. ASSUME NEW q \in Place \ {p}
        PROVE  \/ [m EXCEPT ![p] = c][q] = tree[q]
               \/ q \in Above[p] /\ tree[q] = Absent /\ [m EXCEPT ![p] = c][q] = Dir
    <2>1. [m EXCEPT ![p] = c][q] = m[q]
      BY <1>2, <1>4 DEF Trees
    <2> QED
      BY <2>1, <1>4, MakeDirsFacts
  <1> QED
    BY <1>3, <1>4
=============================================================================

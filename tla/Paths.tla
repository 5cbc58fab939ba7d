------------------------------- MODULE Paths -------------------------------
(***************************************************************************)
(* Relative paths and the watched directory: which paths dirhive accepts,  *)
(* which events the watcher drops, what resolve_safe_path lets through,    *)
(* and what creating the parent directories of a file does.                *)
(*                                                                         *)
(* A path is the sequence of its components, split at "/": the empty       *)
(* string is <<"">> and an absolute path starts with the empty component.  *)
(***************************************************************************)
EXTENDS Naturals, Sequences

CONSTANTS
    Name,     \* components that users give
    Unsafe,   \* the empty component, "." and "..", any with a backslash
    Hidden,   \* a leading dot; a trailing .swp, .swx, .tmp or ~
    Node,     \* endpoint ids
    Content,  \* file contents, each standing for its BLAKE3 hash too
    Absent,   \* no entry; no mark
    Dir,      \* a directory
    Link,     \* a symbolic link to some place outside the watched directory
    Place     \* the relative paths that trees have

Entry == Content \cup {Absent, Dir, Link}

ASSUME PlaceAssumption ==
    \A p \in Place : /\ p \in Seq(Name \cup (Name \X Node))
                     /\ p # <<>>
                     /\ \A i \in 1 .. Len(p) : SubSeq(p, 1, i) \in Place
ASSUME EntryAssumption == /\ Absent \notin Content \cup {Dir, Link}
                          /\ Dir \notin Content \cup {Link}
                          /\ Link \notin Content

\* The directories on the way to p.
Above == [p \in Place |-> {SubSeq(p, 1, i) : i \in 1 .. (Len(p) - 1)}]

\* validate_relative_path: an empty or absolute path has an empty component.
ValidPath(p) == p # <<>> /\ \A i \in DOMAIN p : p[i] \notin Unsafe

\* <name>.conflict-local-<peer8>, next to the file.
BackupPath(p, peer) == [p EXCEPT ![Len(p)] = <<@, peer>>]

\* path_is_skippable: some component is hidden or a conflict backup.
Skipped == {p \in Place : \E i \in 1 .. Len(p) : p[i] \in Hidden \cup (Name \X Node)}

\* Mutant: a link is refused at the end of the path only.
ResolvesThrough(tree, p) ==
    /\ ValidPath(p)
    /\ tree[p] # Link
    /\ \A q \in Above[p] : tree[q] \in {Absent, Dir, Link}

\* resolve_safe_path looks at the components in turn, up to the first that is
\* missing.  A symbolic link is refused anywhere, a file except at the end.
Resolves(tree, p) ==
    /\ ValidPath(p)
    /\ \A i \in 1 .. Len(p) :
           (\A j \in 1 .. (i - 1) : tree[SubSeq(p, 1, j)] # Absent) =>
               /\ tree[SubSeq(p, 1, i)] # Link
               /\ i < Len(p) => tree[SubSeq(p, 1, i)] \in {Absent, Dir}

\* create_dir_all on the parent of p.
MakeDirs(tree, p) ==
    [q \in Place |-> IF q \in Above[p] /\ tree[q] = Absent THEN Dir ELSE tree[q]]

\* What is in a directory is in the directory: an entry below a link or a file
\* would be outside the watched directory.
WellFormed(tree) ==
    \A p \in Place : tree[p] # Absent => \A q \in Above[p] : tree[q] = Dir
=============================================================================

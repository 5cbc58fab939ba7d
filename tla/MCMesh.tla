------------------------------- MODULE MCMesh -------------------------------
(***************************************************************************)
(* Instances of Mesh for TLC: a file and a directory that want the same    *)
(* name x, and two daemons of which one trusts the other at first.         *)
(***************************************************************************)
EXTENDS Mesh, TLC

CONSTANTS a, b, x, y

MCPlain == {<<x>>, <<x, y>>}
MCPlace == MCPlain \cup {BackupPath(p, n) : p \in MCPlain, n \in Node}

MCTrusting == {<<a, b>>}
Everybody == Node \X Node

Bounds(u, r, e) == ("user" :> u) @@ ("rush" :> r) @@ ("event" :> e)

\* Four changes, one of them made in a hurry, and one fault, grant or echo.
MCBudget == Bounds(4, 1, 1)
TwoChanges == Bounds(2, 1, 0)
=============================================================================

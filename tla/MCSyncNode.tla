----------------------------- MODULE MCSyncNode -----------------------------
(***************************************************************************)
(* Instances of SyncNode and SyncSerial for TLC.                           *)
(***************************************************************************)
EXTENDS SyncSerial, TLC

Bounds(u, r, f, c, d) ==
    ("user" :> u) @@ ("remote" :> r) @@ ("fault" :> f) @@ ("crash" :> c)
        @@ ("dup" :> d)

\* Two local changes and one update or served blob in any interleaving, with a
\* fault and a crash anywhere.
FreeBudget == Bounds(2, 1, 1, 1, 0)
\* Changes one at a time, with a second event for one of them.
SerialBudget == Bounds(3, 2, 0, 0, 1)
=============================================================================

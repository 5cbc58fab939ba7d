------------------------------ MODULE MCControl ------------------------------
(***************************************************************************)
(* Instances of Control for TLC.                                           *)
(***************************************************************************)
EXTENDS Control

CONSTANTS p, c1, c2, c3

Ask(x, y, z) == [c \in Caller |-> <<IF c = c1 THEN x ELSE IF c = c2 THEN y ELSE z, p>>]

\* Three calls that change the list; one that reads the log while it is written;
\* one that shows a line of the log; some that are useless, and one that is not.
MCScenarios ==
    {Ask("allow-peer", "allow-peer", "revoke"), Ask("list-pending", "none", "none"),
     Ask("recent-log", "none", "none"), Ask("silent", "junk", "revoke")}

TwoGrants == {Ask("allow-peer", "allow-peer", "none")}

MCLines == UNION {[1 .. n -> Token] : n \in 0 .. 4}
=============================================================================

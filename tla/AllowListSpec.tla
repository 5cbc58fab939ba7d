---------------------------- MODULE AllowListSpec ----------------------------
(***************************************************************************)
(* What the allowlist promises: a list of admitted peers that changes      *)
(* together with its stored copy, one grant or revocation at a time.  A    *)
(* restart goes back to the stored list, or to one open to everybody.      *)
(***************************************************************************)
CONSTANTS Peer, Info, Absent

VARIABLES
    list,    \* who is admitted, as the daemon decides it
    stored   \* what a restart would load

Lists == [openAll : BOOLEAN, peers : [Peer -> Info \cup {Absent}]]

Nobody == [openAll |-> FALSE, peers |-> [p \in Peer |-> Absent]]
Everybody == [openAll |-> TRUE, peers |-> [p \in Peer |-> Absent]]

With(l, p, i) == [openAll |-> FALSE, peers |-> [l.peers EXCEPT ![p] = i]]
Without(l, p) == [l EXCEPT !.peers[p] = Absent]

Init == /\ list \in {Nobody, Everybody}
        /\ stored = Nobody

Store(l) == list' = l /\ stored' = l

Grant(p, i) == Store(With(list, p, i))

Revoke(p) == Store(Without(list, p))

Restart == /\ stored' \in {stored, Nobody}
           /\ list' \in {stored', Everybody}

Next == \/ \E p \in Peer : Revoke(p) \/ \E i \in Info : Grant(p, i)
        \/ Restart

Spec == Init /\ [][Next]_<<list, stored>>
=============================================================================

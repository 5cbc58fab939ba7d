----------------------------- MODULE Debouncer -----------------------------
(***************************************************************************)
(* The events notify-debouncer-full still holds for one path: at most one  *)
(* creation or modification and one removal before it.  A removal cancels  *)
(* a creation that is still held.                                          *)
(***************************************************************************)

Kind == {"create", "modify", "remove"}

AfterWrite(w, existed) ==
    IF "create" \in w THEN w
    ELSE w \cup {IF existed THEN "modify" ELSE "create"}

AfterRemove(w) ==
    IF "create" \in w /\ "remove" \notin w THEN {} ELSE {"remove"}

\* What is held once the oldest event has been handed on.
AfterEvent(w) == IF "remove" \in w THEN w \ {"remove"} ELSE {}
=============================================================================

---------------------------- MODULE GroupProofs ----------------------------
(***************************************************************************)
(* Safety of Group for any number of daemons, secrets, tasks, failed saves *)
(* and resets; and, when the RPCs of a daemon are served one at a time,    *)
(* that tickets stay valid and an accepted invitation is complete.         *)
(***************************************************************************)
EXTENDS Group, TLAPS

Calls == [Daemon -> [Task -> Call]]

LEMMA NoCallTyped == NoCall \in Call
  BY GroupAssumption DEF NoCall, Call, Ticket, Pc

\* An RPC that moves on, and one that has loaded a list, is still an RPC.
LEMMA CallUpdated ==
    ASSUME NEW c \in Call, NEW pc \in Pc, NEW ps \in SUBSET Daemon
    PROVE  /\ [c EXCEPT !.pc = pc] \in Call
           /\ [c EXCEPT !.pc = pc, !.peers = ps] \in Call
  BY DEF Call

\* What a step that moves one RPC on does to call.
LEMMA GotoMoves ==
    ASSUME call \in Calls, NEW d \in Daemon, NEW t \in Task, NEW pc \in Pc,
           Goto(d, t, pc)
    PROVE  /\ call' \in Calls
           /\ call'[d][t] = [call[d][t] EXCEPT !.pc = pc]
           /\ \A e \in Daemon, u \in Task :
                  e # d \/ u # t => call'[e][u] = call[e][u]
  <1>1. [call[d][t] EXCEPT !.pc = pc] \in Call
    <2>1. call[d][t] \in Call
      BY DEF Calls
    <2> QED
      BY <2>1, CallUpdated
  <1> QED
    BY <1>1 DEF Goto, Calls

LEMMA BeginMoves ==
    ASSUME call \in Calls, NEW d \in Daemon, NEW t \in Task, NEW pc \in Pc,
           NEW op \in {"invite", "accept"}, NEW tk \in Ticket,
           Begin(d, t, pc, op, tk)
    PROVE  /\ call' \in Calls
           /\ call'[d][t] \in Call
           /\ call'[d][t].pc = pc /\ call'[d][t].op = op
           /\ call'[d][t].ticket = tk
           /\ \A e \in Daemon, u \in Task :
                  e # d \/ u # t => call'[e][u] = call[e][u]
  <1> DEFINE new == [NoCall EXCEPT !.pc = pc, !.op = op, !.ticket = tk]
  <1>1. new \in Call /\ new.pc = pc /\ new.op = op /\ new.ticket = tk
    BY NoCallTyped DEF Call
  <1>2. call' = [call EXCEPT ![d][t] = new]
    BY DEF Begin
  <1> HIDE DEF new
  <1> QED
    BY <1>1, <1>2 DEF Calls

LEMMA BeginKeepsOthers ==
    ASSUME call \in Calls, NEW d \in Daemon, NEW t \in Task, NEW pc, NEW op, NEW tk,
           Begin(d, t, pc, op, tk)
    PROVE  \A e \in Daemon, u \in Task :
               e # d \/ u # t => call'[e][u] = call[e][u]
  <1> DEFINE new == [NoCall EXCEPT !.pc = pc, !.op = op, !.ticket = tk]
  <1>1. call' = [call EXCEPT ![d][t] = new]
    BY DEF Begin
  <1> HIDE DEF new
  <1> QED
    BY <1>1 DEF Calls

LEMMA LoadMoves ==
    ASSUME TypeOK, NEW d \in Daemon, NEW t \in Task, LoadPeers(d, t)
    PROVE  /\ call' \in Calls
           /\ call'[d][t] = [call[d][t] EXCEPT !.pc = "save", !.peers = boot[d]]
           /\ \A e \in Daemon, u \in Task :
                  e # d \/ u # t => call'[e][u] = call[e][u]
  <1> DEFINE new == [call[d][t] EXCEPT !.pc = "save", !.peers = boot[d]]
  <1>1. new \in Call
    <2>1. call[d][t] \in Call /\ boot[d] \in SUBSET Daemon /\ "save" \in Pc
      BY DEF TypeOK, Pc
    <2> QED
      BY <2>1, CallUpdated
  <1>2. call' = [call EXCEPT ![d][t] = new]
    BY DEF LoadPeers
  <1> HIDE DEF new
  <1>3. /\ call' \in Calls /\ call'[d][t] = new
        /\ \A e \in Daemon, u \in Task :
               e # d \/ u # t => call'[e][u] = call[e][u]
    BY <1>1, <1>2 DEF TypeOK, Calls
  <1> QED
    BY <1>3 DEF new

-----------------------------------------------------------------------------
LEMMA TypeInit == Init => TypeOK
  BY NoCallTyped DEF Init, TypeOK, MaybeSecret

\* The RPCs, one step each.
LEMMA RpcTyped ==
    ASSUME TypeOK, NEW d \in Daemon, NEW t \in Task, Rpc(d, t)
    PROVE  TypeOK'
  <1>0. call \in Calls /\ call[d][t] \in Call
    BY DEF TypeOK, Calls
  <1>1. CASE Invite(d, t)
    <2>1. secretFile[d] # NoSecret => [from |-> d, secret |-> secretFile[d]] \in Ticket
      BY DEF TypeOK, MaybeSecret, Ticket
    <2>2. call' \in Calls
      BY <1>0, <1>1, <2>1, BeginMoves DEF Invite, Ticket, Pc
    <2> QED
      BY <1>1, <2>2 DEF Invite, TypeOK, Calls, files, run
  <1>2. ASSUME NEW tk \in tickets, AcceptInvite(d, t, tk) PROVE TypeOK'
    <2>1. call' \in Calls
      BY <1>0, <1>2, BeginMoves DEF AcceptInvite, TypeOK, Pc
    <2> QED
      BY <1>2, <2>1 DEF AcceptInvite, TypeOK, Calls, files, run, made
  <1>3. CASE PersistSecret(d, t)
    BY <1>0, <1>3, GotoMoves
       DEF PersistSecret, TypeOK, Calls, Call, Ticket, MaybeSecret, run, made, Pc
  <1>4. CASE Enter(d, t)
    BY <1>0, <1>4, GotoMoves DEF Enter, TypeOK, Calls, files, made, Pc
  <1>5. CASE GrantInviter(d, t)
    BY <1>0, <1>5, GotoMoves
       DEF GrantInviter, TypeOK, Calls, Call, Ticket, run, made, Pc
  <1>6. CASE LoadPeers(d, t)
    BY <1>6, LoadMoves DEF LoadPeers, TypeOK, Calls, files, run, made
  <1>7. CASE SavePeers(d, t)
    BY <1>0, <1>7, GotoMoves
       DEF SavePeers, TypeOK, Calls, Call, Ticket, run, made, Pc
  <1>8. CASE AnswerInvite(d, t)
    BY <1>0, <1>8, GotoMoves
       DEF AnswerInvite, TypeOK, Calls, Call, files, run, Pc
  <1>9. CASE AnswerAccept(d, t)
    BY <1>0, <1>9, GotoMoves
       DEF AnswerAccept, TypeOK, Calls, Call, files, run, Pc
  <1>10. CASE CallFails(d, t)
    <2>1. call' \in Calls
      BY <1>0, <1>10, GotoMoves DEF CallFails, Pc
    <2> QED
      BY <1>10, <2>1 DEF CallFails, TypeOK, Calls, files, run, made
  <1> QED
    BY <1>1, <1>2, <1>3, <1>4, <1>5, <1>6, <1>7, <1>8, <1>9, <1>10 DEF Rpc

\* Every variable keeps its type.
LEMMA TypeStep == TypeOK /\ [Next]_vars => TypeOK'
  <1> SUFFICES ASSUME TypeOK, [Next]_vars PROVE TypeOK'
    OBVIOUS
  <1>1. ASSUME NEW d \in Daemon, NEW p \in Daemon, AllowPeer(d, p) \/ Revoke(d, p)
        PROVE  TypeOK'
    <2>1. allow' \in [Daemon -> SUBSET Daemon]
      <3>1. PICK s \in SUBSET Daemon : allow' = [allow EXCEPT ![d] = s]
        BY <1>1 DEF AllowPeer, Revoke, TypeOK
      <3> QED
        BY <3>1 DEF TypeOK
    <2>2. UNCHANGED <<secretFile, boot, topic, status, call, used, tickets,
                      accepted, resets, faults>>
      BY <1>1 DEF AllowPeer, Revoke, run, made
    <2> QED
      BY <2>1, <2>2 DEF TypeOK
  <1>2. ASSUME NEW d \in Daemon, Restart(d) PROVE TypeOK'
    BY <1>2, NoCallTyped DEF Restart, TypeOK, MaybeSecret, files, made
  <1>3. ASSUME NEW d \in Daemon, DeleteSecret(d) PROVE TypeOK'
    BY <1>3 DEF DeleteSecret, TypeOK, MaybeSecret, run
  <1>4. CASE UNCHANGED vars
    BY <1>4 DEF vars, files, run, made, TypeOK
  <1> QED
    BY <1>1, <1>2, <1>3, <1>4, RpcTyped DEF Next

THEOREM Typing == Spec => []TypeOK
  BY TypeInit, TypeStep, PTL DEF Spec

(***************************************************************************)
(* The restart that is due.                                                *)
(***************************************************************************)
LEMMA AskedKept ==
    ASSUME RestartAsked, UNCHANGED <<secretFile, topic, status>>,
           \A d \in Daemon, t \in Task : At(d, t, "enter") => At(d, t, "enter")'
    PROVE  RestartAsked'
  BY DEF RestartAsked, At

LEMMA AskedRpc ==
    ASSUME TypeOK, RestartAsked, NEW d \in Daemon, NEW t \in Task, Rpc(d, t)
    PROVE  RestartAsked'
  <1>0. call \in Calls /\ call[d][t] \in Call
    BY DEF TypeOK, Calls
  <1>1. CASE PersistSecret(d, t)
    <2>1. /\ call'[d][t] = [call[d][t] EXCEPT !.pc = "enter"]
          /\ \A e \in Daemon, u \in Task :
                 e # d \/ u # t => call'[e][u] = call[e][u]
      BY <1>0, <1>1, GotoMoves DEF PersistSecret, Pc
    <2>2. call'[d][t].pc = "enter"
      BY <1>0, <2>1 DEF Call
    <2>3. /\ \A e \in Daemon : e # d => secretFile'[e] = secretFile[e]
          /\ UNCHANGED <<topic, status>>
      BY <1>1 DEF PersistSecret, TypeOK, run
    <2>4. SUFFICES ASSUME NEW e \in Daemon,
                          secretFile'[e] \notin {NoSecret, topic'[e]}
                   PROVE  \/ status'[e] = "InitializedButNotSubscribed"
                          \/ \E u \in Task : call'[e][u].pc = "enter"
      BY DEF RestartAsked, At
    <2>5. CASE e = d
      BY <2>2, <2>5
    <2>6. CASE e # d
      BY <2>1, <2>3, <2>4, <2>6 DEF RestartAsked, At
    <2> QED
      BY <2>5, <2>6
  <1>2. CASE Enter(d, t)
    <2>1. \A e \in Daemon, u \in Task : e # d => call'[e][u] = call[e][u]
      <3>1. PICK pc \in Pc : Goto(d, t, pc)
        BY <1>2 DEF Enter, Pc
      <3>2. \A e \in Daemon, u \in Task :
                e # d \/ u # t => call'[e][u] = call[e][u]
        BY <1>0, <3>1, GotoMoves
      <3> QED
        BY <3>2
    <2>2. /\ status'[d] = "InitializedButNotSubscribed"
          /\ \A e \in Daemon : e # d => status'[e] = status[e]
          /\ UNCHANGED <<secretFile, topic>>
      BY <1>2 DEF Enter, TypeOK, files
    <2> QED
      BY <2>1, <2>2 DEF RestartAsked, At
  <1>3. CASE ~ PersistSecret(d, t) /\ ~ Enter(d, t)
    <2>1. call[d][t].pc # "enter"
      BY <1>3 DEF Rpc, Invite, AcceptInvite, Begin, GrantInviter, LoadPeers,
                  SavePeers, AnswerInvite, AnswerAccept, CallFails, At
    <2>2. \A e \in Daemon, u \in Task :
              e # d \/ u # t => call'[e][u] = call[e][u]
      <3>1. \A pc \in Pc : Goto(d, t, pc) =>
                \A e \in Daemon, u \in Task :
                    e # d \/ u # t => call'[e][u] = call[e][u]
        BY <1>0, GotoMoves
      <3>2. CASE Invite(d, t) \/ \E tk \in tickets : AcceptInvite(d, t, tk)
        <4>1. \E pc, op, tk : Begin(d, t, pc, op, tk)
          BY <3>2 DEF Invite, AcceptInvite
        <4> QED
          BY <1>0, <4>1, BeginKeepsOthers
      <3>3. CASE LoadPeers(d, t)
        BY <3>3, LoadMoves
      <3>4. CASE \E pc \in Pc : Goto(d, t, pc)
        BY <3>1, <3>4
      <3> QED
        BY <1>3, <3>2, <3>3, <3>4
           DEF Rpc, GrantInviter, SavePeers, AnswerInvite, AnswerAccept,
               CallFails, Pc
    <2>3. UNCHANGED <<secretFile, topic, status>>
      BY <1>3 DEF Rpc, Invite, AcceptInvite, GrantInviter, LoadPeers, SavePeers,
                  AnswerInvite, AnswerAccept, CallFails, files, run
    <2> QED
      BY <2>1, <2>2, <2>3, AskedKept DEF At
  <1> QED
    BY <1>1, <1>2, <1>3

LEMMA AskedStep == TypeOK /\ RestartAsked /\ [Next]_vars => RestartAsked'
  <1> SUFFICES ASSUME TypeOK, RestartAsked, [Next]_vars PROVE RestartAsked'
    OBVIOUS
  <1>1. CASE UNCHANGED <<secretFile, topic, status, call>>
    BY <1>1, AskedKept DEF At
  <1>2. ASSUME NEW d \in Daemon, Restart(d) PROVE RestartAsked'
    BY <1>2 DEF Restart, RestartAsked, At, TypeOK, files
  <1>3. ASSUME NEW d \in Daemon, DeleteSecret(d) PROVE RestartAsked'
    BY <1>3 DEF DeleteSecret, RestartAsked, At, TypeOK, run
  <1> QED
    BY <1>1, <1>2, <1>3, AskedRpc
       DEF Next, AllowPeer, Revoke, vars, files, run, made

\* A daemon that must be restarted says so, whatever its RPCs do to each other:
\* the inductive invariant is RestartAsked with the types.
THEOREM RestartIsAsked == Spec => []RestartAsked
  <1>1. Init => RestartAsked
    BY DEF Init, RestartAsked
  <1> QED
    BY <1>1, TypeInit, TypeStep, AskedStep, PTL DEF Spec

-----------------------------------------------------------------------------
(***************************************************************************)
(* One RPC at a time.                                                      *)
(***************************************************************************)
Serial == \A t, u \in Task : t = u

\* What an RPC may rely on at each of its steps when it is alone.
Reliable(c, d) ==
    /\ c.pc = "persist" => secretFile[d] = NoSecret
    /\ c.pc \in {"enter", "grant", "load", "save", "answer"} =>
           secretFile[d] = c.ticket.secret
    /\ c.pc # "idle" /\ c.op = "invite" => c.ticket.from = d
    /\ c.pc = "save" => c.peers = boot[d]
    /\ c.pc = "answer" /\ c.op = "accept" => c.ticket.from \in boot[d]

CallsReliable == \A d \in Daemon, t \in Task : Reliable(call[d][t], d)

SerialInv == CallsReliable /\ TicketsStayValid /\ AcceptedIsComplete

LEMMA SerialInit == Init => SerialInv
  <1> SUFFICES ASSUME Init PROVE SerialInv
    OBVIOUS
  <1>1. NoCall.pc = "idle"
    BY DEF NoCall
  <1>2. CallsReliable
    BY <1>1 DEF Init, CallsReliable, Reliable
  <1> QED
    BY <1>2 DEF Init, SerialInv, TicketsStayValid, AcceptedIsComplete

\* It suffices to look at the RPC that moves: it is the only one of its daemon.
LEMMA AloneReliable ==
    ASSUME Serial, CallsReliable, NEW d \in Daemon, NEW t \in Task,
           \A e \in Daemon, u \in Task :
               e # d \/ u # t => call'[e][u] = call[e][u],
           \A e \in Daemon : e # d => /\ secretFile'[e] = secretFile[e]
                                      /\ boot'[e] = boot[e],
           Reliable(call[d][t], d)'
    PROVE  CallsReliable'
  BY DEF Serial, CallsReliable, Reliable

\* The promises depend on the files, the tickets and what was accepted.
LEMMA PromisesKept ==
    ASSUME TicketsStayValid, AcceptedIsComplete,
           UNCHANGED <<secretFile, tickets, accepted>>,
           \A d \in Daemon : boot[d] \subseteq boot'[d]
    PROVE  TicketsStayValid' /\ AcceptedIsComplete'
  BY DEF TicketsStayValid, AcceptedIsComplete

LEMMA GotoFields ==
    ASSUME call \in Calls, NEW d \in Daemon, NEW t \in Task, NEW pc \in Pc,
           Goto(d, t, pc)
    PROVE  /\ call'[d][t].pc = pc
           /\ call'[d][t].op = call[d][t].op
           /\ call'[d][t].ticket = call[d][t].ticket
           /\ call'[d][t].peers = call[d][t].peers
  <1>1. call'[d][t] = [call[d][t] EXCEPT !.pc = pc] /\ call[d][t] \in Call
    BY GotoMoves DEF Calls
  <1> QED
    BY <1>1 DEF Call

\* A daemon without a secret has answered nobody.
LEMMA NothingAnswered ==
    ASSUME TypeOK, SerialInv, NEW d \in Daemon, secretFile[d] = NoSecret
    PROVE  /\ accepted[d] = {}
           /\ \A tk \in tickets : tk \in Ticket /\ tk.from # d
  BY GroupAssumption
     DEF SerialInv, TicketsStayValid, AcceptedIsComplete, TypeOK, Ticket

LEMMA SerialRpc ==
    ASSUME Serial, TypeOK, SerialInv,
           NEW d \in Daemon, NEW t \in Task, Rpc(d, t)
    PROVE  SerialInv'
  <1>0. /\ call \in Calls /\ call[d][t] \in Call
        /\ Reliable(call[d][t], d)
        /\ CallsReliable /\ TicketsStayValid /\ AcceptedIsComplete
    BY DEF TypeOK, Calls, SerialInv, CallsReliable
  <1>1. CASE Invite(d, t)
    <2>1. Reliable(call[d][t], d)'
      <3>1. CASE secretFile[d] # NoSecret
        <4>1. /\ Begin(d, t, "answer", "invite",
                       [from |-> d, secret |-> secretFile[d]])
              /\ [from |-> d, secret |-> secretFile[d]] \in Ticket
              /\ UNCHANGED files
          BY <1>1, <3>1 DEF Invite, TypeOK, MaybeSecret, Ticket
        <4> QED
          BY <1>0, <4>1, BeginMoves DEF Reliable, files, Pc
      <3>2. CASE secretFile[d] = NoSecret
        <4>1. PICK s \in Secret :
                  Begin(d, t, "persist", "invite", [from |-> d, secret |-> s])
          BY <1>1, <3>2 DEF Invite
        <4>2. [from |-> d, secret |-> s] \in Ticket /\ UNCHANGED files
          BY <1>1 DEF Invite, Ticket
        <4> QED
          BY <1>0, <3>2, <4>1, <4>2, BeginMoves DEF Reliable, files, Pc
      <3> QED
        BY <3>1, <3>2
    <2>2. \A e \in Daemon, u \in Task :
              e # d \/ u # t => call'[e][u] = call[e][u]
      <3>1. \E pc, op, tk : Begin(d, t, pc, op, tk)
        BY <1>1 DEF Invite
      <3> QED
        BY <1>0, <3>1, BeginKeepsOthers
    <2>3. UNCHANGED <<secretFile, boot, tickets, accepted>>
      BY <1>1 DEF Invite, files
    <2> QED
      BY <1>0, <2>1, <2>2, <2>3, AloneReliable, PromisesKept DEF SerialInv
  <1>2. ASSUME NEW tk \in tickets, AcceptInvite(d, t, tk) PROVE SerialInv'
    <2>1. PICK pc \in {"persist", "grant"} :
              /\ Begin(d, t, pc, "accept", tk)
              /\ pc = "persist" => secretFile[d] = NoSecret
              /\ pc = "grant" => secretFile[d] = tk.secret
      BY <1>2 DEF AcceptInvite
    <2>2. tk \in Ticket /\ UNCHANGED <<secretFile, boot, tickets, accepted>>
      BY <1>2 DEF AcceptInvite, TypeOK, files, made
    <2>3. Reliable(call[d][t], d)'
      BY <1>0, <2>1, <2>2, BeginMoves DEF Reliable, Pc
    <2>4. \A e \in Daemon, u \in Task :
              e # d \/ u # t => call'[e][u] = call[e][u]
      BY <1>0, <2>1, BeginKeepsOthers
    <2> QED
      BY <1>0, <2>2, <2>3, <2>4, AloneReliable, PromisesKept DEF SerialInv
  <1>3. CASE PersistSecret(d, t)
    <2>1. /\ secretFile[d] = NoSecret
          /\ secretFile'[d] = call[d][t].ticket.secret
          /\ \A e \in Daemon : e # d => secretFile'[e] = secretFile[e]
          /\ UNCHANGED <<boot, tickets, accepted>>
      BY <1>0, <1>3 DEF PersistSecret, At, Reliable, TypeOK, made
    <2>2. Goto(d, t, "enter")
      BY <1>3 DEF PersistSecret
    <2>3. Reliable(call[d][t], d)'
      BY <1>0, <1>3, <2>1, <2>2, GotoFields DEF PersistSecret, At, Reliable, Pc
    <2>4. CallsReliable'
      <3>1. \A e \in Daemon, u \in Task :
                e # d \/ u # t => call'[e][u] = call[e][u]
        BY <1>0, <2>2, GotoMoves DEF Pc
      <3>2. \A e \in Daemon : e # d => /\ secretFile'[e] = secretFile[e]
                                       /\ boot'[e] = boot[e]
        BY <2>1
      <3> QED
        BY <1>0, <2>3, <3>1, <3>2, AloneReliable
    <2>5. \A tk \in tickets : tk \in Ticket /\ tk.from # d
      BY <2>1, NothingAnswered
    <2>6. accepted[d] = {}
      BY <2>1, NothingAnswered
    <2>7. TicketsStayValid'
      BY <1>0, <2>1, <2>5 DEF TicketsStayValid, Ticket
    <2>8. AcceptedIsComplete'
      BY <1>0, <2>1, <2>6 DEF AcceptedIsComplete
    <2> QED
      BY <2>4, <2>7, <2>8 DEF SerialInv
  <1>4. CASE Enter(d, t) \/ GrantInviter(d, t) \/ CallFails(d, t)
    <2>1. UNCHANGED <<secretFile, boot, tickets, accepted>>
      BY <1>4 DEF Enter, GrantInviter, CallFails, files, run, made
    <2>2. PICK pc \in Pc :
              /\ Goto(d, t, pc)
              /\ pc \in {"idle", "grant", "load", "answer"}
              /\ pc # "idle" => call[d][t].pc \in {"enter", "grant"}
              /\ pc = "answer" => call[d][t].op = "invite"
      BY <1>4 DEF Enter, GrantInviter, CallFails, At, Pc
    <2>3. Reliable(call[d][t], d)'
      BY <1>0, <2>1, <2>2, GotoFields DEF Reliable
    <2> QED
      BY <1>0, <2>1, <2>2, <2>3, GotoMoves, AloneReliable, PromisesKept
         DEF SerialInv
  <1>5. CASE LoadPeers(d, t)
    <2>1. UNCHANGED <<secretFile, boot, tickets, accepted>>
      BY <1>5 DEF LoadPeers, files, made
    <2>2. call'[d][t] = [call[d][t] EXCEPT !.pc = "save", !.peers = boot[d]]
      BY <1>5, LoadMoves
    <2>3. /\ call'[d][t].pc = "save" /\ call'[d][t].peers = boot[d]
          /\ call'[d][t].ticket = call[d][t].ticket
          /\ call'[d][t].op = call[d][t].op
      BY <1>0, <2>2 DEF Call
    <2>4. Reliable(call[d][t], d)'
      BY <1>0, <1>5, <2>1, <2>3 DEF LoadPeers, At, Reliable
    <2> QED
      BY <1>0, <1>5, <2>1, <2>4, LoadMoves, AloneReliable, PromisesKept
         DEF SerialInv
  <1>6. CASE SavePeers(d, t)
    <2>1. /\ boot'[d] = boot[d] \cup {call[d][t].ticket.from}
          /\ \A e \in Daemon : e # d => boot'[e] = boot[e]
          /\ UNCHANGED <<secretFile, tickets, accepted>>
      BY <1>0, <1>6 DEF SavePeers, At, Reliable, TypeOK, made
    <2>2. Goto(d, t, "answer")
      BY <1>6 DEF SavePeers
    <2>3. Reliable(call[d][t], d)'
      BY <1>0, <1>6, <2>1, <2>2, GotoFields DEF SavePeers, At, Reliable, Pc
    <2>4. CallsReliable'
      <3>1. \A e \in Daemon, u \in Task :
                e # d \/ u # t => call'[e][u] = call[e][u]
        BY <1>0, <2>2, GotoMoves DEF Pc
      <3>2. \A e \in Daemon : e # d => /\ secretFile'[e] = secretFile[e]
                                       /\ boot'[e] = boot[e]
        BY <2>1
      <3> QED
        BY <1>0, <2>3, <3>1, <3>2, AloneReliable
    <2>5. \A e \in Daemon : boot[e] \subseteq boot'[e]
      BY <2>1
    <2> QED
      BY <1>0, <2>1, <2>4, <2>5, PromisesKept DEF SerialInv
  <1>7. CASE AnswerInvite(d, t)
    <2>1. /\ tickets' = tickets \cup {call[d][t].ticket}
          /\ secretFile[call[d][t].ticket.from] = call[d][t].ticket.secret
          /\ UNCHANGED <<secretFile, boot, accepted>>
      BY <1>0, <1>7 DEF AnswerInvite, At, Reliable, files
    <2>2. Goto(d, t, "idle")
      BY <1>7 DEF AnswerInvite
    <2>3. Reliable(call[d][t], d)'
      BY <1>0, <2>1, <2>2, GotoFields DEF Reliable, Pc
    <2> QED
      BY <1>0, <2>1, <2>2, <2>3, GotoMoves, AloneReliable
         DEF SerialInv, Pc, TicketsStayValid, AcceptedIsComplete
  <1>8. CASE AnswerAccept(d, t)
    <2>1. /\ accepted'[d] = accepted[d] \cup {call[d][t].ticket}
          /\ \A e \in Daemon : e # d => accepted'[e] = accepted[e]
          /\ secretFile[d] = call[d][t].ticket.secret
          /\ call[d][t].ticket.from \in boot[d]
          /\ UNCHANGED <<secretFile, boot, tickets>>
      BY <1>0, <1>8 DEF AnswerAccept, At, Reliable, TypeOK, files
    <2>2. Goto(d, t, "idle")
      BY <1>8 DEF AnswerAccept
    <2>3. Reliable(call[d][t], d)'
      BY <1>0, <2>1, <2>2, GotoFields DEF Reliable, Pc
    <2>4. CallsReliable'
      <3>1. \A e \in Daemon, u \in Task :
                e # d \/ u # t => call'[e][u] = call[e][u]
        BY <1>0, <2>2, GotoMoves DEF Pc
      <3>2. \A e \in Daemon : e # d => /\ secretFile'[e] = secretFile[e]
                                       /\ boot'[e] = boot[e]
        BY <2>1
      <3> QED
        BY <1>0, <2>3, <3>1, <3>2, AloneReliable
    <2>5. TicketsStayValid' /\ AcceptedIsComplete'
      BY <1>0, <2>1 DEF TicketsStayValid, AcceptedIsComplete
    <2> QED
      BY <2>4, <2>5 DEF SerialInv
  <1> QED
    BY <1>1, <1>2, <1>3, <1>4, <1>5, <1>6, <1>7, <1>8 DEF Rpc

LEMMA SerialStep == Serial /\ TypeOK /\ SerialInv /\ [Next]_vars => SerialInv'
  <1> SUFFICES ASSUME Serial, TypeOK, SerialInv, [Next]_vars PROVE SerialInv'
    OBVIOUS
  <1>1. CASE UNCHANGED <<secretFile, boot, call, tickets, accepted>>
    BY <1>1 DEF SerialInv, CallsReliable, Reliable, TicketsStayValid,
                AcceptedIsComplete
  <1>2. ASSUME NEW d \in Daemon, Restart(d) PROVE SerialInv'
    <2>1. /\ \A t \in Task : call'[d][t].pc = "idle"
          /\ \A e \in Daemon : e # d => call'[e] = call[e]
          /\ UNCHANGED <<secretFile, boot, tickets, accepted>>
      BY <1>2 DEF Restart, TypeOK, files, made, NoCall
    <2> QED
      BY <2>1 DEF SerialInv, CallsReliable, Reliable, TicketsStayValid,
                  AcceptedIsComplete
  <1>3. ASSUME NEW d \in Daemon, DeleteSecret(d) PROVE SerialInv'
    <2>1. /\ \A t \in Task : call[d][t].pc = "idle"
          /\ \A e \in Daemon : e # d => /\ secretFile'[e] = secretFile[e]
                                         /\ accepted'[e] = accepted[e]
          /\ accepted'[d] = {}
          /\ \A tk \in tickets' : tk \in tickets /\ tk \in Ticket /\ tk.from # d
          /\ UNCHANGED <<boot, call>>
      BY <1>3 DEF DeleteSecret, TypeOK, At
    <2>2. CallsReliable'
      BY <2>1 DEF SerialInv, CallsReliable, Reliable
    <2>3. TicketsStayValid' /\ AcceptedIsComplete'
      BY <2>1 DEF SerialInv, TicketsStayValid, AcceptedIsComplete, Ticket
    <2> QED
      BY <2>2, <2>3 DEF SerialInv
  <1> QED
    BY <1>1, <1>2, <1>3, SerialRpc
       DEF Next, AllowPeer, Revoke, vars, files, run, made

\* With one RPC at a time, what invite and accept-invite have answered with
\* success holds until the operator resets it: the files of a daemon change
\* under nobody's feet.
THEOREM AnswersKept ==
    ASSUME Serial
    PROVE  Spec => [](TicketsStayValid /\ AcceptedIsComplete)
  <1>1. TypeOK /\ SerialInv /\ [Next]_vars => SerialInv'
    BY SerialStep
  <1>2. SerialInv => TicketsStayValid /\ AcceptedIsComplete
    BY DEF SerialInv
  <1> QED
    BY <1>1, <1>2, TypeInit, TypeStep, SerialInit, PTL DEF Spec

\* So a ticket that was handed out is for the folder its daemon is in, also
\* after a restart: no other RPC has replaced the secret under it.
THEOREM TicketsStay == ASSUME Serial PROVE Spec => []TicketsStayValid
  <1>1. TicketsStayValid /\ AcceptedIsComplete => TicketsStayValid
    OBVIOUS
  <1> QED
    BY <1>1, AnswersKept, PTL

\* And a ticket handed out without asking for a restart can be used at once.
THEOREM TicketsUsable == ASSUME Serial PROVE Spec => TicketUsable
  <1> DEFINE Usable == \A d \in Daemon, t \in Task :
           AnswerInvite(d, t) /\ status[d] # "InitializedButNotSubscribed"
               => topic[d] = call[d][t].ticket.secret
  <1>1. TypeOK /\ SerialInv /\ RestartAsked => Usable
    <2> SUFFICES ASSUME TypeOK, SerialInv, RestartAsked,
                        NEW d \in Daemon, NEW t \in Task, AnswerInvite(d, t),
                        status[d] # "InitializedButNotSubscribed"
                 PROVE  topic[d] = call[d][t].ticket.secret
      OBVIOUS
    <2>1. At(d, t, "answer") /\ \A u \in Task : ~ At(d, u, "enter")
      BY DEF AnswerInvite, At, Serial
    <2>2. secretFile[d] = call[d][t].ticket.secret
      BY <2>1 DEF SerialInv, CallsReliable, Reliable, At
    <2>3. call[d][t].ticket.secret # NoSecret
      BY GroupAssumption DEF TypeOK, Call, Ticket
    <2> QED
      BY <2>1, <2>2, <2>3 DEF RestartAsked
  <1>2. TypeOK /\ SerialInv /\ [Next]_vars => SerialInv'
    BY SerialStep
  <1>3. Spec => [](TypeOK /\ SerialInv /\ RestartAsked)
    BY <1>2, Typing, RestartIsAsked, TypeInit, TypeStep, SerialInit, PTL DEF Spec
  <1> QED
    BY <1>1, <1>3, PTL DEF Spec, TicketUsable

\* A secret that has just been saved, with the note still to come, is one that
\* nobody has been told of.
Untold ==
    \A d \in Daemon, t \in Task :
        At(d, t, "enter") =>
            accepted[d] = {} /\ \A tk \in tickets : tk.from # d

LEMMA UntoldRpc ==
    ASSUME Serial, TypeOK, SerialInv, Untold,
           NEW d \in Daemon, NEW t \in Task, Rpc(d, t)
    PROVE  Untold'
  <1>0. /\ call \in Calls /\ call[d][t] \in Call
        /\ Reliable(call[d][t], d)
    BY DEF TypeOK, Calls, SerialInv, CallsReliable
  <1>1. CASE PersistSecret(d, t)
    <2>1. /\ secretFile[d] = NoSecret
          /\ UNCHANGED <<accepted, tickets>>
          /\ Goto(d, t, "enter")
      BY <1>0, <1>1 DEF PersistSecret, At, Reliable, made
    <2>2. \A e \in Daemon, u \in Task : e # d => call'[e][u] = call[e][u]
      <3>1. \A e \in Daemon, u \in Task :
                e # d \/ u # t => call'[e][u] = call[e][u]
        BY <1>0, <2>1, GotoMoves DEF Pc
      <3> QED
        BY <3>1
    <2> QED
      BY <2>1, <2>2, NothingAnswered DEF Untold, At
  <1>2. CASE ~ PersistSecret(d, t)
    <2>1. call'[d][t].pc # "enter"
      <3>1. CASE Invite(d, t) \/ \E tk \in tickets : AcceptInvite(d, t, tk)
        <4>1. PICK pc, op, tk : Begin(d, t, pc, op, tk) /\ pc # "enter"
          <5>1. \A tk : AcceptInvite(d, t, tk) =>
                    \E pc \in {"persist", "grant"} : Begin(d, t, pc, "accept", tk)
            BY DEF AcceptInvite
          <5>2. Invite(d, t) =>
                    \E pc \in {"persist", "answer"} :
                        \E tk : Begin(d, t, pc, "invite", tk)
            BY DEF Invite
          <5> QED
            BY <3>1, <5>1, <5>2
        <4>2. call'[d][t] = [NoCall EXCEPT !.pc = pc, !.op = op, !.ticket = tk]
          BY <1>0, <4>1 DEF Begin, Calls
        <4> QED
          BY <4>1, <4>2, NoCallTyped DEF Call
      <3>2. CASE LoadPeers(d, t)
        <4>1. call'[d][t] = [call[d][t] EXCEPT !.pc = "save", !.peers = boot[d]]
          BY <3>2, LoadMoves
        <4> QED
          BY <1>0, <4>1 DEF Call
      <3>3. CASE \E pc \in Pc \ {"enter"} : Goto(d, t, pc)
        BY <1>0, <3>3, GotoFields
      <3> QED
        BY <1>2, <3>1, <3>2, <3>3
           DEF Rpc, Enter, GrantInviter, SavePeers, AnswerInvite, AnswerAccept,
               CallFails, Pc
    <2>2. \A e \in Daemon, u \in Task :
              e # d \/ u # t => call'[e][u] = call[e][u]
      <3>1. CASE Invite(d, t) \/ \E tk \in tickets : AcceptInvite(d, t, tk)
        <4>1. \E pc, op, tk : Begin(d, t, pc, op, tk)
          BY <3>1 DEF Invite, AcceptInvite
        <4> QED
          BY <1>0, <4>1, BeginKeepsOthers
      <3>2. CASE LoadPeers(d, t)
        BY <3>2, LoadMoves
      <3>3. CASE \E pc \in Pc : Goto(d, t, pc)
        BY <1>0, <3>3, GotoMoves
      <3> QED
        BY <1>2, <3>1, <3>2, <3>3
           DEF Rpc, Enter, GrantInviter, SavePeers, AnswerInvite, AnswerAccept,
               CallFails, Pc
    <2>3. /\ \A e \in Daemon : e # d => accepted'[e] = accepted[e]
          /\ \A tk \in tickets' : tk \in tickets \/ tk.from = d
      <3>1. CASE AnswerInvite(d, t)
        BY <1>0, <3>1 DEF AnswerInvite, At, Reliable
      <3>2. CASE AnswerAccept(d, t)
        BY <3>2 DEF AnswerAccept, TypeOK
      <3>3. CASE UNCHANGED <<accepted, tickets>>
        BY <3>3
      <3> QED
        BY <1>2, <3>1, <3>2, <3>3
           DEF Rpc, Invite, AcceptInvite, Enter, GrantInviter, LoadPeers,
               SavePeers, CallFails, made
    <2> QED
      BY <2>1, <2>2, <2>3 DEF Untold, At, Serial
  <1> QED
    BY <1>1, <1>2

LEMMA UntoldStep ==
    Serial /\ TypeOK /\ SerialInv /\ Untold /\ [Next]_vars => Untold'
  <1> SUFFICES ASSUME Serial, TypeOK, SerialInv, Untold, [Next]_vars PROVE Untold'
    OBVIOUS
  <1>1. CASE UNCHANGED <<call, tickets, accepted>>
    BY <1>1 DEF Untold, At
  <1>2. ASSUME NEW d \in Daemon, Restart(d) PROVE Untold'
    <2>1. /\ \A t \in Task : call'[d][t].pc = "idle"
          /\ \A e \in Daemon : e # d => call'[e] = call[e]
          /\ UNCHANGED <<tickets, accepted>>
      BY <1>2 DEF Restart, TypeOK, files, made, NoCall
    <2> QED
      BY <2>1 DEF Untold, At
  <1>3. ASSUME NEW d \in Daemon, DeleteSecret(d) PROVE Untold'
    BY <1>3 DEF DeleteSecret, TypeOK, Untold, At
  <1> QED
    BY <1>1, <1>2, <1>3, UntoldRpc
       DEF Next, AllowPeer, Revoke, vars, files, run, made

\* The two sides of an accepted invitation meet on the topic of the ticket as
\* soon as neither asks for a restart.
THEOREM Meeting == ASSUME Serial PROVE Spec => []GroupMeets
  <1>1. TypeOK /\ SerialInv /\ RestartAsked /\ Untold => GroupMeets
    <2> SUFFICES ASSUME TypeOK, SerialInv, RestartAsked, Untold,
                        NEW d \in Daemon, NEW tk \in accepted[d] \cap tickets,
                        status[d] # "InitializedButNotSubscribed",
                        status[tk.from] # "InitializedButNotSubscribed"
                 PROVE  topic[d] = tk.secret /\ topic[tk.from] = tk.secret
      BY DEF GroupMeets
    <2>1. tk.from \in Daemon /\ tk.secret # NoSecret
      BY GroupAssumption DEF TypeOK, Ticket
    <2>2. secretFile[d] = tk.secret /\ secretFile[tk.from] = tk.secret
      BY DEF SerialInv, TicketsStayValid, AcceptedIsComplete
    <2>3. /\ \A u \in Task : ~ At(d, u, "enter")
          /\ \A u \in Task : ~ At(tk.from, u, "enter")
      BY <2>1 DEF Untold
    <2> QED
      BY <2>1, <2>2, <2>3 DEF RestartAsked
  <1>2. TypeOK /\ SerialInv /\ [Next]_vars => SerialInv'
    BY SerialStep
  <1>3. TypeOK /\ SerialInv /\ Untold /\ [Next]_vars => Untold'
    BY UntoldStep
  <1>4. Init => Untold
    <2>1. NoCall.pc = "idle"
      BY DEF NoCall
    <2> QED
      BY <2>1 DEF Init, Untold, At
  <1> QED
    BY <1>1, <1>2, <1>3, <1>4, RestartIsAsked, TypeInit, TypeStep, SerialInit, PTL
       DEF Spec
=============================================================================

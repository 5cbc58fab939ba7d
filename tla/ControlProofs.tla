--------------------------- MODULE ControlProofs ---------------------------
(***************************************************************************)
(* For any number of callers, peers and calls: the answers of the RPCs     *)
(* that change the allowlist are true, and what was acknowledged stands;   *)
(* listings are whole, the records of Records keep their promises, and no  *)
(* line of the log is shown with its secrets.                              *)
(***************************************************************************)
EXTENDS Control, FiniteSetTheorems, WellFoundedInduction, TLAPS

(***************************************************************************)
(* Types of the variables that these proofs are about.                     *)
(***************************************************************************)
Typed ==
    /\ List!TypeOK
    /\ ask \in [Caller -> Commands \X Peer]
    /\ client \in [Caller -> {"idle", "connected", "waiting", "gone", "left"}]
    /\ told \in [Caller -> (Outcomes \ {"none"}) \cup {"nothing", "eof", "timeout"}]
    /\ server \in [Caller -> {"away", "backlog", "reading", "running", "closed"}]
    /\ outcome \in [Caller -> Outcomes]
    /\ reply \in [Caller -> Outcomes]
    /\ done \in [Caller -> Nat]
    /\ calm \in [Caller -> BOOLEAN]
    /\ firm \in [Peer -> Commands \cup {"nothing"}]

LEMMA ListsTyped ==
    /\ List!EmptyStrict \in List!Lists /\ List!OpenAll \in List!Lists
    /\ \A l \in List!Lists, p \in Peer :
           /\ List!Removed(l, p) \in List!Lists
           /\ \A i \in Info : List!Added(l, p, i) \in List!Lists
    /\ \A l \in List!Lists, k \in List!Calls : List!Restored(l, k) \in List!Lists
    /\ \A l \in List!Lists \cup {NoFile} : List!Load(l) \in List!Lists
  BY DEF List!EmptyStrict, List!OpenAll, List!Lists, List!Removed, List!Added,
         List!Restored, List!Calls, List!Load

LEMMA IdleTyped == List!Idle \in List!Calls /\ List!Idle.pc = "idle"
  BY ListAssumption, ListsTyped DEF List!Idle, List!Calls

\* A handler that begins a change.
LEMMA BeginTyped ==
    ASSUME List!TypeOK, NEW c \in Caller, NEW pc \in {"recheck", "lock"},
           NEW op \in {"add", "remove"}, NEW p \in Peer, NEW i \in Info,
           List!Begin(c, pc, op, p, i)
    PROVE  /\ List!TypeOK'
           /\ call[c].pc = "idle"
           /\ call'[c].pc = pc /\ call'[c].op = op /\ call'[c].peer = p
           /\ \A d \in Caller : d # c => call'[d] = call[d]
           /\ UNCHANGED <<mem, file, holder, flag>>
  <1> DEFINE k == [List!Idle EXCEPT !.pc = pc, !.op = op, !.peer = p, !.info = i]
  <1>1. k \in List!Calls /\ k.pc = pc /\ k.op = op /\ k.peer = p
    BY IdleTyped DEF List!Calls
  <1>2. call \in [Caller -> List!Calls] /\ call' = [call EXCEPT ![c] = k]
    BY DEF List!TypeOK, List!Begin
  <1> HIDE DEF k
  <1> QED
    BY <1>1, <1>2 DEF List!TypeOK, List!Begin

\* Dispatch begins a change for a call that asks for one, and nothing else.
LEMMA DispatchMoves ==
    ASSUME List!TypeOK, ask \in [Caller -> Commands \X Peer],
           NEW c \in Caller, Dispatch(c)
    PROVE  /\ List!TypeOK'
           /\ UNCHANGED <<mem, file, holder, flag>>
           /\ \A d \in Caller : d # c => call'[d] = call[d]
           /\ \/ /\ Command(c) \in Changes
                 /\ call[c].pc = "idle" /\ call'[c].pc \in {"recheck", "lock"}
                 /\ call'[c].op = IF Command(c) = "allow-peer" THEN "add" ELSE "remove"
                 /\ call'[c].peer = About(c)
                 /\ UNCHANGED outcome
              \/ /\ Command(c) \notin Changes
                 /\ UNCHANGED call
                 /\ \/ UNCHANGED outcome
                    \/ outcome' = [outcome EXCEPT ![c] = "lines"]
  <1>0. About(c) \in Peer /\ List!Idle.info \in Info
    BY IdleTyped DEF About, List!Calls
  <1>1. CASE /\ Command(c) = "allow-peer"
             /\ \E i \in Info : List!AllowPeer(c, About(c), i)
             /\ UNCHANGED outcome
    <2>1. PICK i \in Info, pc \in {"recheck", "lock"} :
              List!Begin(c, pc, "add", About(c), i)
      BY <1>1 DEF List!AllowPeer
    <2> QED
      BY <1>0, <1>1, <2>1, BeginTyped DEF Changes
  <1>2. CASE /\ Command(c) = "revoke"
             /\ List!RevokePeer(c, About(c))
             /\ UNCHANGED outcome
    <2>1. List!Begin(c, "lock", "remove", About(c), List!Idle.info)
      BY <1>2 DEF List!RevokePeer
    <2> QED
      BY <1>0, <1>2, <2>1, BeginTyped DEF Changes
  <1>3. CASE /\ Command(c) \in {"list-pending", "recent-log"}
             /\ UNCHANGED lists
             /\ UNCHANGED outcome \/ outcome' = [outcome EXCEPT ![c] = "lines"]
    BY <1>3 DEF lists, Changes, List!TypeOK
  <1> QED
    BY <1>1, <1>2, <1>3 DEF Dispatch

\* A task that goes to its next step.
LEMMA GotoTyped ==
    ASSUME List!TypeOK, NEW c \in Caller, NEW pc, List!Goto(c, pc),
           pc \in {"idle", "recheck", "lock", "update", "write", "undo", "release"}
    PROVE  /\ call' \in [Caller -> List!Calls]
           /\ call'[c] = [call[c] EXCEPT !.pc = pc]
           /\ call'[c].pc = pc /\ call'[c].op = call[c].op
           /\ call'[c].peer = call[c].peer
           /\ \A d \in Caller : d # c => call'[d] = call[d]
  BY DEF List!TypeOK, List!Goto, List!Calls

\* Where a task may go from where.
Way == {<<"recheck", "lock">>, <<"recheck", "idle">>, <<"lock", "update">>,
        <<"update", "write">>, <<"write", "release">>, <<"write", "undo">>,
        <<"undo", "release">>, <<"release", "idle">>}

LEMMA ServeMoves ==
    ASSUME List!TypeOK, NEW c \in Caller, List!Serve(c)
    PROVE  /\ List!TypeOK'
           /\ \A d \in Caller : d # c => call'[d] = call[d]
           /\ call'[c].op = call[c].op /\ call'[c].peer = call[c].peer
           /\ <<call[c].pc, call'[c].pc>> \in Way
  <1>1. CASE List!Recheck(c)
    <2>1. PICK pc \in {"lock", "idle"} : List!Goto(c, pc)
      BY <1>1 DEF List!Recheck
    <2> QED
      BY <1>1, <2>1, GotoTyped DEF List!Recheck, List!TypeOK, Way
  <1>2. CASE List!Acquire(c)
    BY <1>2, GotoTyped DEF List!Acquire, List!TypeOK, Way
  <1>3. CASE List!Update(c)
    <2>1. mem \in List!Lists /\ call \in [Caller -> List!Calls]
      BY DEF List!TypeOK
    <2>2. mem' \in List!Lists
      BY <1>3, <2>1, ListsTyped DEF List!Update, List!Calls
    <2> DEFINE k == [call[c] EXCEPT !.pc = "write", !.bytes = mem',
                        !.prevOpen = mem.openAll,
                        !.prevInfo = mem.peers[call[c].peer]]
    <2>3. /\ k \in List!Calls /\ k.pc = "write"
          /\ k.op = call[c].op /\ k.peer = call[c].peer
      <3>1. /\ mem.openAll \in BOOLEAN
            /\ mem.peers[call[c].peer] \in Info \cup {Absent}
        BY <2>1 DEF List!Calls, List!Lists
      <3>2. call[c] \in List!Calls
        BY <2>1
      <3> QED
        BY <2>2, <3>1, <3>2 DEF List!Calls
    <2>4. call' = [call EXCEPT ![c] = k]
      BY <1>3 DEF List!Update
    <2> HIDE DEF k
    <2> QED
      BY <1>3, <2>1, <2>2, <2>3, <2>4 DEF List!Update, List!TypeOK, Way
  <1>4. CASE List!Write(c)
    <2>1. call[c].bytes \in List!Lists
      BY DEF List!TypeOK, List!Calls
    <2>2. PICK pc \in {"release", "undo"} : List!Goto(c, pc)
      BY <1>4 DEF List!Write
    <2> QED
      BY <1>4, <2>1, <2>2, GotoTyped DEF List!Write, List!TypeOK, Way
  <1>5. CASE List!Undo(c)
    <2>1. mem' \in List!Lists
      BY <1>5, ListsTyped DEF List!Undo, List!TypeOK
    <2> QED
      BY <1>5, <2>1, GotoTyped DEF List!Undo, List!TypeOK, Way
  <1>6. CASE List!Release(c)
    BY <1>6, GotoTyped DEF List!Release, List!TypeOK, Way
  <1> QED
    BY <1>1, <1>2, <1>3, <1>4, <1>5, <1>6 DEF List!Serve

LEMMA TypedInit == Init => Typed
  <1> SUFFICES ASSUME Init PROVE Typed
    OBVIOUS
  <1>1. List!TypeOK
    <2>1. mem \in List!Lists /\ file \in List!Lists \cup {NoFile}
      BY ListsTyped DEF Init, List!Init, List!StartWith
    <2> QED
      BY <2>1, IdleTyped DEF Init, List!Init, List!TypeOK
  <1>2. ask \in [Caller -> Commands \X Peer]
    BY ControlAssumption DEF Init
  <1> QED
    BY <1>1, <1>2 DEF Init, Typed, Outcomes

LEMMA ResultTyped ==
    ASSUME Typed, NEW c \in Caller
    PROVE  Result(c) \in Outcomes
  BY DEF Result, Typed, Outcomes

\* The process is started anew, from the list on disk.
LEMMA RestartTyped == ASSUME Typed, Restart PROVE List!TypeOK'
  <1>1. mem' \in List!Lists
    BY ListsTyped DEF Typed, Restart, List!Restart, List!StartWith, List!TypeOK
  <1> QED
    BY <1>1, IdleTyped DEF Typed, Restart, List!Restart, List!TypeOK

LEMMA TypedStep == Typed /\ [Next]_vars => Typed'
  <1> SUFFICES ASSUME Typed, [Next]_vars PROVE Typed'
    OBVIOUS
  <1>0. ASSUME UNCHANGED lists PROVE List!TypeOK'
    BY <1>0 DEF Typed, lists, List!TypeOK
  <1>1. ASSUME NEW c \in Caller, Connect(c) PROVE Typed'
    BY <1>0, <1>1 DEF Typed, Connect, fixed, About
  <1>2. ASSUME NEW c \in Caller, ConnectFails(c) \/ Send(c) \/ GiveUp(c) PROVE Typed'
    <2>1. UNCHANGED <<lists, ask, server, outcome, reply, ghost>>
      BY <1>2 DEF ConnectFails, Send, GiveUp, fixed
    <2>2. client' \in [Caller -> {"idle", "connected", "waiting", "gone", "left"}]
      BY <1>2 DEF Typed, ConnectFails, Send, GiveUp, End
    <2>3. told' \in [Caller -> (Outcomes \ {"none"}) \cup {"nothing", "eof", "timeout"}]
      BY <1>2 DEF Typed, ConnectFails, Send, GiveUp, End, Outcomes
    <2> QED
      BY <1>0, <2>1, <2>2, <2>3 DEF Typed, ghost
  <1>3. ASSUME NEW c \in Caller, Hear(c) PROVE Typed'
    <2>1. Command(c) \in Commands
      BY DEF Typed, Command
    <2>2. firm' \in [Peer -> Commands \cup {"nothing"}]
      BY <1>3, <2>1 DEF Typed, Hear
    <2>3. told' \in [Caller -> (Outcomes \ {"none"}) \cup {"nothing", "eof", "timeout"}]
      BY <1>3 DEF Typed, Hear, End, Outcomes
    <2>4. client' \in [Caller -> {"idle", "connected", "waiting", "gone", "left"}]
      BY <1>3 DEF Typed, Hear, End
    <2> QED
      BY <1>0, <1>3, <2>2, <2>3, <2>4 DEF Typed, Hear, fixed
  <1>4. ASSUME NEW c \in Caller, Accept(c) \/ ReadTimesOut(c) \/ RejectRequest(c) \/ Answer(c)
        PROVE  Typed'
    <2>1. UNCHANGED <<lists, ask, client, told, outcome, ghost>>
      BY <1>4 DEF Accept, ReadTimesOut, RejectRequest, Answer, fixed
    <2>2. server' \in [Caller -> {"away", "backlog", "reading", "running", "closed"}]
      BY <1>4 DEF Accept, ReadTimesOut, RejectRequest, Answer, Respond, ServerStep, Typed
    <2>3. reply' \in [Caller -> Outcomes]
      <3>1. \A o \in Outcomes : Respond(c, o) => reply' \in [Caller -> Outcomes]
        BY DEF Respond, Typed
      <3>2. "error" \in Outcomes /\ outcome[c] \in Outcomes
        BY DEF Outcomes, Typed
      <3> QED
        BY <1>4, <3>1, <3>2 DEF Accept, ReadTimesOut, RejectRequest, Answer, Typed
    <2> QED
      BY <1>0, <2>1, <2>2, <2>3 DEF Typed, ghost
  <1>5. ASSUME NEW c \in Caller, Dispatch(c) PROVE Typed'
    <2>1. List!TypeOK' /\ outcome' \in [Caller -> Outcomes]
      <3>1. /\ List!TypeOK'
            /\ UNCHANGED outcome \/ outcome' = [outcome EXCEPT ![c] = "lines"]
        BY <1>5, DispatchMoves DEF Typed
      <3> QED
        BY <3>1 DEF Typed, Outcomes
    <2>2. UNCHANGED <<ask, client, told, reply, ghost>> /\ server' = [server EXCEPT ![c] = "running"]
      BY <1>5 DEF Dispatch, ServerStep, fixed
    <2> QED
      BY <2>1, <2>2 DEF Typed, ghost
  <1>6. ASSUME NEW c \in Caller, ChangeList(c) PROVE Typed'
    <2>1. List!TypeOK'
      BY <1>6, ServeMoves DEF ChangeList, Typed
    <2>2. outcome' \in [Caller -> Outcomes]
      BY <1>6, ResultTyped DEF ChangeList, Typed
    <2>3. done' \in [Caller -> Nat]
      BY <1>6 DEF ChangeList, Typed
    <2> QED
      BY <1>6, <2>1, <2>2, <2>3 DEF Typed, ChangeList, fixed
  <1>7. ASSUME NEW c \in Caller, ListPending(c) PROVE Typed'
    <2>1. outcome' \in [Caller -> Outcomes]
      BY <1>7 DEF ListPending, Typed, Outcomes
    <2> QED
      BY <1>0, <1>7, <2>1 DEF Typed, ListPending, fixed, ghost
  <1>8. CASE Recording
    BY <1>0, <1>8 DEF Recording, Typed, calls, fixed, ghost
  <1>9. CASE Restart
    BY <1>9, RestartTyped DEF Restart, Typed, fixed, ghost
  <1>10. CASE UNCHANGED vars
    BY <1>0, <1>10 DEF vars, Typed, calls, fixed, ghost
  <1> QED
    BY <1>1, <1>2, <1>3, <1>4, <1>5, <1>6, <1>7, <1>8, <1>9, <1>10
       DEF Next, Client, Handler
-----------------------------------------------------------------------------
(***************************************************************************)
(* Answers.                                                                *)
(***************************************************************************)
\* What the handler of c may have found after which changes of the list.
OutcomeOK(c) ==
    /\ outcome[c] \in {"added", "removed", "absent"} => done[c] = 1
    /\ outcome[c] \notin {"added", "removed", "absent"} => done[c] = 0
    /\ outcome[c] \in {"added", "removed", "absent"} => Command(c) \in Changes
    /\ outcome[c] = "added" => Command(c) = "allow-peer"
    /\ outcome[c] = "removed" => Command(c) = "revoke"

\* Its task works on the list only while the connection is served, and decides
\* the answer when it saves or gives up.
TaskOK(c) ==
    /\ server[c] \in {"away", "backlog", "reading"} => outcome[c] = "none"
    /\ call[c].pc # "idle" =>
           /\ server[c] = "running"
           /\ Command(c) \in Changes
           /\ call[c].op = IF Command(c) = "allow-peer" THEN "add" ELSE "remove"
           /\ call[c].peer = About(c)
    /\ call[c].pc \in {"recheck", "lock", "update", "write"} => outcome[c] = "none"

\* What is sent is the outcome, or an error of a call without one; what the
\* client hears is what was sent, or that nobody listens.
ReplyOK(c) ==
    /\ client[c] = "idle" => server[c] = "away" /\ told[c] = "nothing"
    /\ server[c] # "closed" => reply[c] = "none"
    /\ reply[c] \in {"none", outcome[c]} \/ (reply[c] = "error" /\ outcome[c] = "none")
    /\ \/ told[c] \in {"nothing", "timeout", "eof"}
       \/ told[c] = "error" /\ server[c] = "away" /\ client[c] # "idle"
       \/ told[c] = reply[c] /\ server[c] = "closed"

CallOK(c) == OutcomeOK(c) /\ TaskOK(c) /\ ReplyOK(c)
CallsOK == \A c \in Caller : CallOK(c)

\* Nothing of d's call has changed.
Kept(d) ==
    /\ UNCHANGED <<ask, client[d], told[d], server[d], outcome[d], reply[d], done[d]>>
    /\ call'[d] = call[d]

LEMMA KeptOK == ASSUME NEW d \in Caller, CallOK(d), Kept(d) PROVE CallOK(d)'
  BY DEF Kept, CallOK, OutcomeOK, TaskOK, ReplyOK, Command, About

\* A step of c that leaves the other calls alone.
LEMMA OneCall ==
    ASSUME CallsOK, NEW c \in Caller, CallOK(c)',
           \A d \in Caller : d # c => Kept(d)
    PROVE  CallsOK'
  BY KeptOK DEF CallsOK

LEMMA CallsInit == Init => CallsOK
  <1> SUFFICES ASSUME Init, NEW c \in Caller PROVE CallOK(c)
    BY DEF CallsOK
  <1>1. call[c].pc = "idle"
    BY IdleTyped DEF Init, List!Init
  <1> QED
    BY <1>1 DEF Init, CallOK, OutcomeOK, TaskOK, ReplyOK

LEMMA CallsStep == Typed /\ CallsOK /\ [Next]_vars => CallsOK'
  <1> SUFFICES ASSUME Typed, CallsOK, [Next]_vars PROVE CallsOK'
    OBVIOUS
  <1>0. /\ client \in [Caller -> {"idle", "connected", "waiting", "gone", "left"}]
        /\ told \in [Caller -> (Outcomes \ {"none"}) \cup {"nothing", "eof", "timeout"}]
        /\ server \in [Caller -> {"away", "backlog", "reading", "running", "closed"}]
        /\ outcome \in [Caller -> Outcomes]
        /\ reply \in [Caller -> Outcomes]
        /\ done \in [Caller -> Nat]
    BY DEF Typed
  <1> USE DEF Command, About
  <1>1. ASSUME NEW c \in Caller,
               Connect(c) \/ ConnectFails(c) \/ Send(c) \/ GiveUp(c) \/ Hear(c)
        PROVE  CallsOK'
    <2>1. UNCHANGED <<call, ask, outcome, reply, done>>
      BY <1>1 DEF Connect, ConnectFails, Send, GiveUp, Hear, lists, fixed, ghost
    <2>2. CASE Connect(c)
      <3>1. /\ client[c] = "idle" /\ client' = [client EXCEPT ![c] = "connected"]
            /\ server' = [server EXCEPT ![c] = "backlog"]
            /\ UNCHANGED told
        BY <2>2 DEF Connect
      <3>2. CallOK(c)'
        BY <1>0, <2>1, <3>1 DEF CallsOK, CallOK, OutcomeOK, TaskOK, ReplyOK
      <3> QED
        BY <1>0, <2>1, <3>1, <3>2, OneCall DEF Kept
    <2>3. CASE ConnectFails(c) \/ Send(c) \/ GiveUp(c) \/ Hear(c)
      <3>1. UNCHANGED server
        BY <2>3 DEF ConnectFails, Send, GiveUp, Hear
      <3>2. PICK s \in {"connected", "waiting", "gone", "left"},
                 t \in {told[c], "error", "timeout", "eof", reply[c]} :
                /\ client' = [client EXCEPT ![c] = s]
                /\ told' = [told EXCEPT ![c] = t]
                /\ \/ t = told[c] /\ client[c] # "idle"
                   \/ t = "error" /\ client[c] = "idle"
                   \/ t \in {"timeout", "eof"} /\ client[c] # "idle"
                   \/ t = reply[c] /\ client[c] # "idle" /\ server[c] = "closed"
        <4>1. CASE ConnectFails(c)
          BY <1>0, <4>1 DEF ConnectFails, End
        <4>2. CASE Send(c)
          BY <1>0, <4>2 DEF Send
        <4>3. CASE GiveUp(c)
          BY <1>0, <4>3 DEF GiveUp, End, Waits
        <4>4. CASE Hear(c)
          BY <1>0, <4>4 DEF Hear, End, Waits
        <4> QED
          BY <2>3, <4>1, <4>2, <4>3, <4>4
      <3>3. OutcomeOK(c)' /\ TaskOK(c)'
        BY <2>1, <3>1 DEF CallsOK, CallOK, OutcomeOK, TaskOK
      <3>4. ReplyOK(c)'
        BY <1>0, <2>1, <3>1, <3>2 DEF CallsOK, CallOK, ReplyOK
      <3>5. \A d \in Caller : d # c => Kept(d)
        BY <1>0, <2>1, <3>1, <3>2 DEF Kept
      <3> QED
        BY <3>3, <3>4, <3>5, OneCall DEF CallOK
    <2> QED
      BY <1>1, <2>2, <2>3
  <1>2. ASSUME NEW c \in Caller, Accept(c) \/ ReadTimesOut(c) \/ RejectRequest(c) \/ Answer(c)
        PROVE  CallsOK'
    <2>1. UNCHANGED <<call, ask, client, told, outcome, done>>
      BY <1>2 DEF Accept, ReadTimesOut, RejectRequest, Answer, lists, fixed, ghost
    <2>2. /\ \A d \in Caller : d # c => server'[d] = server[d] /\ reply'[d] = reply[d]
          /\ OutcomeOK(c)'
      BY <1>0, <1>2, <2>1
         DEF Accept, ReadTimesOut, RejectRequest, Answer, Respond, ServerStep,
             CallsOK, CallOK, OutcomeOK
    <2>3. TaskOK(c)'
      BY <1>0, <1>2, <2>1
         DEF Accept, ReadTimesOut, RejectRequest, Answer, Respond, ServerStep,
             ReadEnds, CallsOK, CallOK, TaskOK
    <2>4. ReplyOK(c)'
      BY <1>0, <1>2, <2>1
         DEF Accept, ReadTimesOut, RejectRequest, Answer, Respond, ServerStep,
             ReadEnds, Waits, CallsOK, CallOK, TaskOK, ReplyOK, Outcomes
    <2> QED
      BY <2>1, <2>2, <2>3, <2>4, OneCall DEF Kept, CallOK
  <1>3. ASSUME NEW c \in Caller, Dispatch(c) PROVE CallsOK'
    <2>1. /\ UNCHANGED <<ask, client, told, reply, done>>
          /\ server[c] = "reading"
          /\ server' = [server EXCEPT ![c] = "running"]
      BY <1>3 DEF Dispatch, ServerStep, fixed, ghost
    <2>2. /\ \A d \in Caller : d # c => call'[d] = call[d]
          /\ \/ /\ Command(c) \in Changes
                /\ call'[c].pc \in {"recheck", "lock"}
                /\ call'[c].op = IF Command(c) = "allow-peer" THEN "add" ELSE "remove"
                /\ call'[c].peer = About(c)
                /\ UNCHANGED outcome
             \/ /\ Command(c) \notin Changes
                /\ UNCHANGED call
                /\ outcome' \in {outcome, [outcome EXCEPT ![c] = "lines"]}
      BY <1>3, DispatchMoves DEF Typed
    <2>3. OutcomeOK(c)' /\ ReplyOK(c)'
      BY <1>0, <2>1, <2>2 DEF CallsOK, CallOK, OutcomeOK, TaskOK, ReplyOK
    <2>4. TaskOK(c)'
      BY <1>0, <2>1, <2>2 DEF CallsOK, CallOK, TaskOK
    <2>5. \A d \in Caller : d # c => Kept(d)
      BY <1>0, <2>1, <2>2 DEF Kept
    <2> QED
      BY <2>3, <2>4, <2>5, OneCall DEF CallOK
  <1>4. ASSUME NEW c \in Caller, ChangeList(c) PROVE CallsOK'
    <2>1. /\ UNCHANGED <<ask, client, told, server, reply>>
          /\ server[c] = "running"
          /\ outcome' = [outcome EXCEPT ![c] = Result(c)]
          /\ done' = [done EXCEPT ![c] = IF Saves(c) THEN @ + 1 ELSE @]
      BY <1>4 DEF ChangeList, fixed
    <2>2. /\ \A d \in Caller : d # c => call'[d] = call[d]
          /\ call'[c].op = call[c].op /\ call'[c].peer = call[c].peer
          /\ <<call[c].pc, call'[c].pc>> \in Way
      BY <1>4, ServeMoves DEF ChangeList, Typed
    <2>3. call[c].pc # "idle" /\ OutcomeOK(c) /\ TaskOK(c) /\ ReplyOK(c)
      BY <2>2 DEF CallsOK, CallOK, Way
    <2>4. /\ outcome'[c] = Result(c)
          /\ done'[c] = IF Saves(c) THEN done[c] + 1 ELSE done[c]
      BY <1>0, <2>1
    <2>5. OutcomeOK(c)'
      BY <1>0, <2>1, <2>2, <2>3, <2>4
         DEF OutcomeOK, TaskOK, Result, Saves, Goes, Way, Changes
    <2>6. TaskOK(c)'
      BY <2>1, <2>2, <2>3, <2>4 DEF TaskOK, Result, Saves, Goes, Way
    <2>7. ReplyOK(c)'
      BY <2>1, <2>3 DEF ReplyOK
    <2>8. \A d \in Caller : d # c => Kept(d)
      BY <1>0, <2>1, <2>2 DEF Kept
    <2> QED
      BY <2>5, <2>6, <2>7, <2>8, OneCall DEF CallOK
  <1>5. ASSUME NEW c \in Caller, ListPending(c) PROVE CallsOK'
    <2>1. /\ UNCHANGED <<call, ask, client, told, server, reply, done>>
          /\ server[c] = "running" /\ Command(c) = "list-pending" /\ outcome[c] = "none"
          /\ \E o \in {"none", "error", "entries"} : outcome' = [outcome EXCEPT ![c] = o]
      BY <1>0, <1>5 DEF ListPending, lists, fixed, ghost
    <2>2. CallOK(c)'
      BY <1>0, <2>1 DEF CallsOK, CallOK, OutcomeOK, TaskOK, ReplyOK, Changes
    <2> QED
      BY <1>0, <2>1, <2>2, OneCall DEF Kept
  <1>6. CASE Restart
    <2>1. /\ UNCHANGED <<ask, client, told, outcome, reply, done>>
          /\ \A d \in Caller : /\ call'[d].pc = "idle"
                               /\ server'[d] = IF server[d] = "away" THEN "away" ELSE "closed"
      BY <1>6, IdleTyped DEF Restart, List!Restart, fixed, ghost
    <2> QED
      BY <1>0, <2>1 DEF CallsOK, CallOK, OutcomeOK, TaskOK, ReplyOK
  <1>7. CASE Recording \/ UNCHANGED vars
    <2>1. UNCHANGED <<call, ask, client, told, server, outcome, reply, done>>
      BY <1>7 DEF Recording, vars, lists, calls, fixed, ghost
    <2> QED
      BY <2>1, KeptOK DEF CallsOK, Kept
  <1> QED
    BY <1>1, <1>2, <1>3, <1>4, <1>5, <1>6, <1>7 DEF Next, Client, Handler

\* An answer tells what has happened: a change that is reported was saved once,
\* an error that the daemon reports saved nothing, and a call without an answer
\* was carried out once at most.
THEOREM Answers == Spec => []AnswersTrue
  <1>1. Typed /\ CallsOK => AnswersTrue
    BY DEF Typed, CallsOK, CallOK, OutcomeOK, TaskOK, ReplyOK, AnswersTrue, Success,
           Outcomes
  <1> QED
    BY <1>1, TypedInit, TypedStep, CallsInit, CallsStep, PTL DEF Spec
-----------------------------------------------------------------------------
(***************************************************************************)
(* The list in memory and the list on disk.                                *)
(***************************************************************************)
LockInv == \A c \in Caller : call[c].pc \in List!Holding <=> holder = c

\* Between update and save the list in memory is what was serialised, and shows
\* the update.
UpdateInv ==
    \A c \in Caller : call[c].pc \in List!Unsettled =>
        /\ call[c].bytes = mem
        /\ call[c].op = "add" => mem.peers[call[c].peer] = call[c].info
        /\ call[c].op = "remove" => mem.peers[call[c].peer] = Absent

Stored(p) == List!Load(file).peers[p]

\* The two lists have the same peers, but for an update that is not saved yet.
Recorded ==
    \A p \in Peer :
        /\ (\A c \in Caller : call[c].pc \notin List!Unsettled) => mem.peers[p] = Stored(p)
        /\ \A c \in Caller : call[c].pc \in List!Unsettled =>
               Stored(p) = IF p = call[c].peer THEN call[c].prevInfo ELSE mem.peers[p]

ListInv == LockInv /\ UpdateInv /\ Recorded

LEMMA ListInit == Init => ListInv
  <1> SUFFICES ASSUME Init PROVE ListInv
    OBVIOUS
  <1>1. \A c \in Caller : call[c].pc = "idle"
    BY IdleTyped DEF Init, List!Init
  <1>2. mem = List!Load(file) /\ holder = NoCaller
    BY DEF Init, List!Init, List!StartWith
  <1> QED
    BY <1>1, <1>2, ListAssumption
       DEF ListInv, LockInv, UpdateInv, Recorded, Stored, List!Holding, List!Unsettled

\* A step of c that neither enters nor leaves the time between update and save,
\* and changes neither list.
LEMMA ListKept ==
    ASSUME ListInv, UNCHANGED <<mem, file>>, LockInv',
           NEW c \in Caller, \A d \in Caller : d # c => call'[d] = call[d],
           \/ call[c].pc \notin List!Unsettled /\ call'[c].pc \notin List!Unsettled
           \/ /\ call[c].pc \in List!Unsettled /\ call'[c].pc \in List!Unsettled
              /\ call'[c].bytes = call[c].bytes /\ call'[c].op = call[c].op
              /\ call'[c].peer = call[c].peer /\ call'[c].info = call[c].info
              /\ call'[c].prevInfo = call[c].prevInfo
    PROVE  ListInv'
  <1>1. UpdateInv'
    BY DEF ListInv, UpdateInv
  <1>2. Recorded'
    BY DEF ListInv, Recorded, Stored
  <1> QED
    BY <1>1, <1>2 DEF ListInv

\* Only one task holds persist_lock.
LEMMA LockServe ==
    ASSUME Typed, LockInv, NEW c \in Caller, List!Serve(c)
    PROVE  LockInv'
  <1>0. /\ \A d \in Caller : d # c => call'[d] = call[d]
        /\ NoCaller \notin Caller
        /\ call \in [Caller -> List!Calls] /\ List!TypeOK
    BY ServeMoves, ListAssumption DEF Typed, List!TypeOK
  <1>1. CASE List!Recheck(c)
    <2>1. call'[c].pc \in {"lock", "idle"} /\ call[c].pc = "recheck" /\ UNCHANGED holder
      BY <1>0, <1>1, GotoTyped DEF List!Recheck
    <2> QED
      BY <1>0, <2>1 DEF LockInv, List!Holding
  <1>2. CASE List!Acquire(c)
    <2>1. /\ call'[c].pc = "update" /\ call[c].pc = "lock"
          /\ holder = NoCaller /\ holder' = c
      BY <1>0, <1>2, GotoTyped DEF List!Acquire
    <2> QED
      BY <1>0, <2>1 DEF LockInv, List!Holding
  <1>3. CASE List!Update(c) \/ List!Write(c) \/ List!Undo(c)
    <2>1. call[c].pc \in List!Holding /\ UNCHANGED holder
      BY <1>3 DEF List!Update, List!Write, List!Undo, List!Holding
    <2>2. <<call[c].pc, call'[c].pc>> \in Way
      BY <1>0, ServeMoves
    <2>3. call[c].pc \in {"update", "write", "undo"}
      BY <1>3 DEF List!Update, List!Write, List!Undo
    <2>4. call'[c].pc \in List!Holding
      BY <2>2, <2>3 DEF Way, List!Holding
    <2> QED
      BY <1>0, <2>1, <2>4 DEF LockInv
  <1>4. CASE List!Release(c)
    <2>1. call'[c].pc = "idle" /\ call[c].pc = "release" /\ holder' = NoCaller
      BY <1>0, <1>4, GotoTyped DEF List!Release
    <2> QED
      BY <1>0, <2>1 DEF LockInv, List!Holding
  <1> QED
    BY <1>1, <1>2, <1>3, <1>4 DEF List!Serve

LEMMA ListServe ==
    ASSUME Typed, ListInv, NEW c \in Caller, List!Serve(c)
    PROVE  ListInv'
  <1>0. /\ LockInv'
        /\ \A d \in Caller : d # c => call'[d] = call[d]
        /\ call \in [Caller -> List!Calls] /\ List!TypeOK
        /\ mem \in List!Lists
    BY LockServe, ServeMoves DEF ListInv, Typed, List!TypeOK
  <1> USE DEF List!Unsettled
  <1>1. CASE List!Recheck(c) \/ List!Acquire(c) \/ List!Release(c)
    <2>1. UNCHANGED <<mem, file>>
      BY <1>1 DEF List!Recheck, List!Acquire, List!Release
    <2>2. /\ call[c].pc \in {"recheck", "lock", "release"}
          /\ <<call[c].pc, call'[c].pc>> \in Way
      BY <1>0, <1>1, ServeMoves DEF List!Recheck, List!Acquire, List!Release
    <2>3. call[c].pc \notin List!Unsettled /\ call'[c].pc \notin List!Unsettled
      BY <2>2 DEF Way
    <2> QED
      BY <1>0, <2>1, <2>3, ListKept
  \* Whoever holds the lock is the only one between update and save.
  <1>2. call[c].pc \in List!Holding => \A d \in Caller : d # c => call[d].pc \notin List!Unsettled
    BY DEF ListInv, LockInv, List!Holding
  <1>3. CASE List!Update(c)
    <2>1. /\ call[c].pc = "update" /\ UNCHANGED file
          /\ mem' = IF call[c].op = "add" THEN List!Added(mem, call[c].peer, call[c].info)
                    ELSE List!Removed(mem, call[c].peer)
      BY <1>3 DEF List!Update
    <2>2. /\ call'[c].bytes = mem' /\ call'[c].prevInfo = mem.peers[call[c].peer]
          /\ call'[c].op = call[c].op /\ call'[c].peer = call[c].peer
          /\ call'[c].info = call[c].info /\ call'[c].pc = "write"
      <3> DEFINE k == [call[c] EXCEPT !.pc = "write", !.bytes = mem',
                          !.prevOpen = mem.openAll,
                          !.prevInfo = mem.peers[call[c].peer]]
      <3>1. call'[c] = k
        BY <1>0, <1>3 DEF List!Update
      <3>2. call[c] \in List!Calls
        BY <1>0
      <3>3. /\ k.bytes = mem' /\ k.prevInfo = mem.peers[call[c].peer]
            /\ k.op = call[c].op /\ k.peer = call[c].peer
            /\ k.info = call[c].info /\ k.pc = "write"
        BY <3>2 DEF List!Calls
      <3> QED
        BY <3>1, <3>3
    <2>3. /\ call[c].peer \in Peer /\ call[c].op \in {"add", "remove"}
          /\ call[c].info \in Info
      BY <1>0 DEF List!Calls
    <2>4. /\ \A p \in Peer : p # call[c].peer => mem'.peers[p] = mem.peers[p]
          /\ call[c].op = "add" => mem'.peers[call[c].peer] = call[c].info
          /\ call[c].op = "remove" => mem'.peers[call[c].peer] = Absent
      BY <1>0, <2>1, <2>3 DEF List!Added, List!Removed, List!Lists
    <2>5. /\ \A d \in Caller : call[d].pc \notin List!Unsettled
          /\ \A d \in Caller : d # c => call'[d].pc \notin List!Unsettled
      BY <1>0, <1>2, <2>1 DEF List!Holding
    <2>6. UpdateInv'
      BY <2>2, <2>3, <2>4, <2>5 DEF UpdateInv
    <2>7. Recorded'
      BY <2>1, <2>2, <2>4, <2>5 DEF ListInv, Recorded, Stored
    <2> QED
      BY <1>0, <2>6, <2>7 DEF ListInv
  <1>4. CASE List!Write(c)
    <2>1. CASE List!Goto(c, "undo") /\ UNCHANGED file
      <3>1. /\ call[c].pc = "write" /\ UNCHANGED <<mem, file>>
            /\ call'[c] = [call[c] EXCEPT !.pc = "undo"]
        BY <1>0, <1>4, <2>1, GotoTyped DEF List!Write
      <3>2. call[c] \in List!Calls
        BY <1>0
      <3>3. /\ call'[c].bytes = call[c].bytes /\ call'[c].op = call[c].op
            /\ call'[c].peer = call[c].peer /\ call'[c].info = call[c].info
            /\ call'[c].prevInfo = call[c].prevInfo /\ call'[c].pc = "undo"
        BY <3>1, <3>2 DEF List!Calls
      <3> QED
        BY <1>0, <3>1, <3>3, ListKept
    <2>2. CASE List!Goto(c, "release") /\ file' = call[c].bytes
      <3>1. call[c].pc = "write" /\ UNCHANGED mem /\ call'[c].pc = "release"
        BY <1>0, <1>4, <2>2, GotoTyped DEF List!Write
      <3>2. file' = mem
        BY <2>2, <3>1 DEF ListInv, UpdateInv
      <3>3. \A p \in Peer : Stored(p)' = mem'.peers[p]
        BY <1>0, <3>1, <3>2, ListAssumption DEF Stored, List!Load
      <3>4. \A d \in Caller : call'[d].pc \notin List!Unsettled
        BY <1>0, <1>2, <3>1 DEF List!Holding
      <3> QED
        BY <1>0, <3>3, <3>4 DEF ListInv, UpdateInv, Recorded
    <2> QED
      BY <1>4, <2>1, <2>2 DEF List!Write
  <1>5. CASE List!Undo(c)
    <2>1. /\ call[c].pc = "undo" /\ UNCHANGED file /\ call'[c].pc = "release"
          /\ mem' = List!Restored(mem, call[c])
      BY <1>0, <1>5, GotoTyped DEF List!Undo
    <2>2. call[c].peer \in Peer
      BY <1>0 DEF List!Calls
    <2>3. \A p \in Peer :
              mem'.peers[p] = IF p = call[c].peer THEN call[c].prevInfo ELSE mem.peers[p]
      BY <1>0, <2>1, <2>2 DEF List!Restored, List!Lists
    <2>4. \A d \in Caller : call'[d].pc \notin List!Unsettled
      BY <1>0, <1>2, <2>1 DEF List!Holding
    <2>5. Recorded'
      BY <2>1, <2>3, <2>4 DEF ListInv, Recorded, Stored
    <2> QED
      BY <1>0, <2>4, <2>5 DEF ListInv, UpdateInv
  <1> QED
    BY <1>1, <1>3, <1>4, <1>5 DEF List!Serve

LEMMA ListStep == Typed /\ ListInv /\ [Next]_vars => ListInv'
  <1> SUFFICES ASSUME Typed, ListInv, [Next]_vars PROVE ListInv'
    OBVIOUS
  <1>1. ASSUME NEW c \in Caller, Dispatch(c) PROVE ListInv'
    <2>1. /\ UNCHANGED <<mem, file, holder>>
          /\ \A d \in Caller : d # c => call'[d] = call[d]
          /\ \/ call[c].pc = "idle" /\ call'[c].pc \in {"recheck", "lock"}
             \/ UNCHANGED call
      BY <1>1, DispatchMoves DEF Typed
    <2>2. LockInv'
      BY <2>1 DEF ListInv, LockInv, List!Holding
    <2> QED
      BY <2>1, <2>2, ListKept DEF List!Unsettled
  <1>2. ASSUME NEW c \in Caller, ChangeList(c) PROVE ListInv'
    BY <1>2, ListServe DEF ChangeList
  <1>3. CASE Restart
    <2>1. /\ \A c \in Caller : call'[c].pc = "idle"
          /\ holder' = NoCaller /\ UNCHANGED file /\ mem' = List!Load(file')
      BY <1>3, IdleTyped DEF Restart, List!Restart, List!StartWith
    <2> QED
      BY <2>1, ListAssumption
         DEF ListInv, LockInv, UpdateInv, Recorded, Stored, List!Holding, List!Unsettled
  <1>4. CASE UNCHANGED lists
    BY <1>4 DEF lists, ListInv, LockInv, UpdateInv, Recorded, Stored
  <1>5. \/ \E c \in Caller : Dispatch(c) \/ ChangeList(c)
        \/ Restart \/ UNCHANGED lists
    BY DEF Next, vars, Client, Connect, ConnectFails, Send, GiveUp, Hear, Accept,
           Handler, ReadTimesOut, RejectRequest, ListPending, Answer, Recording
  <1> QED
    BY <1>1, <1>2, <1>3, <1>4, <1>5
-----------------------------------------------------------------------------
(***************************************************************************)
(* Acknowledged changes.                                                   *)
(***************************************************************************)
\* Whoever asks for the contrary of x has been served or has not begun.
Unopposed(p, x) ==
    \A e \in Caller : About(e) = p /\ {Command(e), x} = Changes => Finished(e)

Stands(p, x) == IF x = "allow-peer" THEN Stored(p) # Absent ELSE Stored(p) = Absent

\* x is acknowledged, or a call for it is on its way, with no call against it.
Claimed(p, x) ==
    \/ firm[p] = x
    \/ \E c \in Caller : calm[c] /\ Command(c) = x /\ About(c) = p

\* In addition x is acknowledged or was saved by such a call.
Backed(p, x) ==
    \/ firm[p] = x
    \/ \E c \in Caller : calm[c] /\ Command(c) = x /\ About(c) = p /\ done[c] = 1

FirmInv ==
    \A p \in Peer, x \in Changes :
        /\ Claimed(p, x) => Unopposed(p, x)
        /\ Backed(p, x) => Stands(p, x)

LEMMA FirmInit == Init => FirmInv
  BY DEF Init, FirmInv, Claimed, Backed, Changes

\* A call that saves its change leaves what it asked for on disk, and the other
\* peers as they were there.
LEMMA SaveStands ==
    ASSUME Typed, CallsOK, ListInv, NEW c \in Caller, ChangeList(c)
    PROVE  \/ ~Saves(c) /\ UNCHANGED file
           \/ /\ Saves(c) /\ Command(c) \in Changes /\ server[c] = "running"
              /\ \A p \in Peer, x \in Changes :
                     \/ p = About(c) /\ x = Command(c)
                     \/ p # About(c) /\ Stands(p, x)
                     => Stands(p, x)'
  <1>0. /\ List!Serve(c) /\ server[c] = "running"
        /\ call \in [Caller -> List!Calls] /\ List!TypeOK
        /\ mem \in List!Lists
    BY DEF ChangeList, Typed, List!TypeOK
  <1>1. CASE List!Recheck(c) \/ List!Acquire(c) \/ List!Update(c) \/ List!Undo(c)
             \/ List!Release(c)
    BY <1>1 DEF List!Recheck, List!Acquire, List!Update, List!Undo, List!Release,
                Saves, Goes
  <1>2. CASE List!Write(c) /\ List!Goto(c, "undo") /\ UNCHANGED file
    <2>1. call'[c].pc = "undo"
      BY <1>0, <1>2, GotoTyped
    <2> QED
      BY <1>2, <2>1 DEF Saves, Goes
  <1>3. CASE List!Write(c) /\ List!Goto(c, "release") /\ file' = call[c].bytes
    <2>1. call[c].pc = "write" /\ call'[c].pc = "release"
      BY <1>0, <1>3, GotoTyped DEF List!Write
    <2>2. call[c].pc \in List!Unsettled
      BY <2>1 DEF List!Unsettled
    <2>3. /\ file' = mem
          /\ call[c].op = "add" => mem.peers[call[c].peer] = call[c].info
          /\ call[c].op = "remove" => mem.peers[call[c].peer] = Absent
      BY <1>3, <2>2 DEF ListInv, UpdateInv
    <2>4. /\ Command(c) \in Changes
          /\ call[c].op = IF Command(c) = "allow-peer" THEN "add" ELSE "remove"
          /\ call[c].peer = About(c)
      BY <2>1 DEF CallsOK, CallOK, TaskOK
    <2>5. \A p \in Peer : Stored(p)' = mem.peers[p]
      BY <1>0, <2>3, ListAssumption DEF Stored, List!Load
    <2>6. \A p \in Peer : p # About(c) => Stored(p) = mem.peers[p]
      BY <2>2, <2>4 DEF ListInv, Recorded
    <2>7. call[c].info \in Info /\ Absent \notin Info
      BY <1>0, ListAssumption DEF List!Calls
    <2>8. Saves(c)
      BY <2>1 DEF Saves, Goes
    <2>9. ASSUME NEW p \in Peer, NEW x \in Changes,
                 \/ p = About(c) /\ x = Command(c)
                 \/ p # About(c) /\ Stands(p, x)
          PROVE  Stands(p, x)'
      <3>1. CASE p = About(c) /\ x = Command(c)
        BY <2>3, <2>4, <2>5, <2>7, <3>1 DEF Stands, Changes
      <3>2. CASE p # About(c) /\ Stands(p, x)
        BY <2>5, <2>6, <3>2 DEF Stands
      <3> QED
        BY <2>9, <3>1, <3>2
    <2> QED
      BY <1>0, <2>4, <2>8, <2>9
  <1> QED
    BY <1>0, <1>1, <1>2, <1>3 DEF List!Serve, List!Write

\* What is asked and on disk stays, and no call begins.
LEMMA FirmKept ==
    ASSUME FirmInv, UNCHANGED <<ask, file>>,
           \A e \in Caller : Finished(e) => Finished(e)',
           \A p \in Peer, x \in Changes :
               /\ Claimed(p, x)' => Claimed(p, x)
               /\ Backed(p, x)' => Backed(p, x)
    PROVE  FirmInv'
  BY DEF FirmInv, Unopposed, Stands, Stored, About, Command

LEMMA FirmStep == Typed /\ CallsOK /\ ListInv /\ FirmInv /\ [Next]_vars => FirmInv'
  <1> SUFFICES ASSUME Typed, CallsOK, ListInv, FirmInv, [Next]_vars PROVE FirmInv'
    OBVIOUS
  <1>0. /\ server \in [Caller -> {"away", "backlog", "reading", "running", "closed"}]
        /\ done \in [Caller -> Nat]
        /\ calm \in [Caller -> BOOLEAN]
        /\ firm \in [Peer -> Commands \cup {"nothing"}]
        /\ \A c \in Caller : Command(c) \in Commands /\ About(c) \in Peer
    BY DEF Typed, Command, About
  <1>1. ASSUME NEW c \in Caller, Connect(c) PROVE FirmInv'
    <2>1. /\ client[c] = "idle" /\ UNCHANGED <<ask, file, done>>
          /\ server' = [server EXCEPT ![c] = "backlog"]
          /\ calm' = [d \in Caller |->
                         IF d = c THEN \A e \in Caller : Opposed(c, e) => Finished(e)
                         ELSE calm[d] /\ ~Opposed(c, d)]
          /\ firm' = [firm EXCEPT ![About(c)] =
                         IF {Command(c), @} = Changes THEN "nothing" ELSE @]
      BY <1>1 DEF Connect, lists, fixed
    <2>2. done[c] = 0
      BY <2>1 DEF CallsOK, CallOK, OutcomeOK, TaskOK, ReplyOK
    <2>3. ASSUME NEW p \in Peer, NEW x \in Changes
          PROVE  /\ Claimed(p, x)' => Unopposed(p, x)'
                 /\ Backed(p, x)' => Stands(p, x)'
      <3>1. UNCHANGED <<Stands(p, x), Command(c), About(c)>>
        BY <2>1 DEF Stands, Stored, Command, About
      <3>2. firm'[p] = x => firm[p] = x /\ ~(About(c) = p /\ {Command(c), x} = Changes)
        BY <1>0, <2>1 DEF Changes
      <3>3. \A d \in Caller : d # c /\ calm'[d] => calm[d] /\ ~Opposed(c, d)
        BY <2>1
      <3>4. calm'[c] => \A e \in Caller : Opposed(c, e) => Finished(e)
        BY <2>1
      <3>5. \A e \in Caller : e # c /\ Finished(e) => Finished(e)'
        BY <1>0, <2>1 DEF Finished
      <3>6. \A e \in Caller : UNCHANGED <<Command(e), About(e)>>
        BY <2>1 DEF Command, About
      <3>7. CASE firm'[p] = x
        <4>1. Unopposed(p, x) /\ Stands(p, x)
          BY <3>2, <3>7 DEF FirmInv, Claimed, Backed
        <4> QED
          BY <3>1, <3>2, <3>5, <3>6, <3>7, <4>1 DEF Unopposed
      <3>8. ASSUME NEW d \in Caller, d # c, calm'[d], Command(d) = x, About(d) = p
            PROVE  Unopposed(p, x)' /\ (done[d] = 1 => Stands(p, x)')
        <4>1. Unopposed(p, x) /\ (done[d] = 1 => Stands(p, x))
          BY <3>3, <3>8 DEF FirmInv, Claimed, Backed
        <4>2. ~(About(c) = p /\ {Command(c), x} = Changes)
          BY <3>3, <3>8 DEF Opposed
        <4> QED
          BY <3>1, <3>5, <3>6, <4>1, <4>2 DEF Unopposed
      <3>9. ASSUME calm'[c], Command(c) = x, About(c) = p
            PROVE  Unopposed(p, x)'
        <4>1. \A e \in Caller : About(e) = p /\ {Command(e), x} = Changes => e # c /\ Finished(e)
          BY <3>4, <3>9 DEF Opposed, Changes
        <4> QED
          BY <3>5, <3>6, <4>1 DEF Unopposed
      <3> QED
        BY <2>1, <2>2, <3>6, <3>7, <3>8, <3>9 DEF Claimed, Backed
    <2> QED
      BY <2>3 DEF FirmInv
  <1>2. ASSUME NEW c \in Caller, Hear(c) PROVE FirmInv'
    <2>1. /\ UNCHANGED <<ask, file, server, done, calm>>
          /\ firm' = [firm EXCEPT ![About(c)] =
                         IF reply[c] \in {"added", "removed"} /\ calm[c] THEN Command(c)
                         ELSE @]
      BY <1>2 DEF Hear, lists, fixed
    <2>2. reply[c] \in {"added", "removed"} => done[c] = 1
      BY DEF CallsOK, CallOK, OutcomeOK, ReplyOK
    <2>3. ASSUME NEW p \in Peer, NEW x \in Changes
          PROVE  (Claimed(p, x)' => Claimed(p, x)) /\ (Backed(p, x)' => Backed(p, x))
      <3>1. firm'[p] = x => \/ firm[p] = x
                            \/ calm[c] /\ Command(c) = x /\ About(c) = p /\ done[c] = 1
        BY <1>0, <2>1, <2>2
      <3> QED
        BY <2>1, <3>1 DEF Claimed, Backed, Command, About
    <2> QED
      BY <2>1, <2>3, FirmKept DEF Finished
  <1>3. ASSUME NEW c \in Caller, ChangeList(c) PROVE FirmInv'
    <2>1. /\ UNCHANGED <<ask, server, calm, firm>>
          /\ done' = [done EXCEPT ![c] = IF Saves(c) THEN @ + 1 ELSE @]
      BY <1>3 DEF ChangeList, fixed
    <2>2. CASE ~Saves(c) /\ UNCHANGED file
      <3>1. UNCHANGED done
        BY <1>0, <2>1, <2>2
      <3> QED
        BY <2>1, <2>2, <3>1, FirmKept DEF Finished, Claimed, Backed, Command, About
    <2>3. CASE /\ Saves(c) /\ Command(c) \in Changes /\ server[c] = "running"
               /\ \A p \in Peer, x \in Changes :
                      \/ p = About(c) /\ x = Command(c)
                      \/ p # About(c) /\ Stands(p, x)
                      => Stands(p, x)'
      <3>1. ASSUME NEW p \in Peer, NEW x \in Changes
            PROVE  /\ Claimed(p, x)' => Unopposed(p, x)'
                   /\ Backed(p, x)' => Stands(p, x)'
        <4>1. Claimed(p, x)' => Claimed(p, x) /\ Unopposed(p, x)
          BY <2>1 DEF FirmInv, Claimed, Command, About
        <4>2. Unopposed(p, x) => Unopposed(p, x)'
          BY <2>1 DEF Unopposed, Finished, Command, About
        \* A claim against the change being saved would wait for its end.
        <4>3. Claimed(p, x) /\ p = About(c) => x = Command(c)
          BY <2>3, <4>1 DEF FirmInv, Unopposed, Finished, Changes
        <4>4. Backed(p, x)' => Claimed(p, x)
          BY <2>1 DEF Claimed, Backed, Command, About
        <4>5. Backed(p, x)' /\ p # About(c) => Backed(p, x)
          BY <1>0, <2>1 DEF Backed, Command, About
        <4>6. Backed(p, x) => Stands(p, x)
          BY DEF FirmInv
        <4> QED
          BY <2>3, <4>1, <4>2, <4>3, <4>4, <4>5, <4>6
      <3> QED
        BY <3>1 DEF FirmInv
    <2> QED
      BY <1>3, <2>2, <2>3, SaveStands
  <1>4. CASE UNCHANGED <<ask, file, done, calm, firm>> /\ \A e \in Caller : Finished(e) => Finished(e)'
    BY <1>4, FirmKept DEF Claimed, Backed, Command, About
  <1>5. ASSUME NEW c \in Caller, Dispatch(c) PROVE FirmInv'
    <2>1. UNCHANGED file
      BY <1>5, DispatchMoves DEF Typed
    <2>2. /\ UNCHANGED <<ask, done, calm, firm>>
          /\ server[c] = "reading" /\ server' = [server EXCEPT ![c] = "running"]
      BY <1>5 DEF Dispatch, ServerStep, fixed, ghost
    <2> QED
      BY <1>0, <1>4, <2>1, <2>2 DEF Finished
  <1>6. ASSUME NEW c \in Caller,
               \/ ConnectFails(c) \/ Send(c) \/ GiveUp(c)
               \/ Accept(c) \/ ReadTimesOut(c) \/ RejectRequest(c)
               \/ ListPending(c) \/ Answer(c)
        PROVE  FirmInv'
    <2>1. UNCHANGED <<ask, file, done, calm, firm>>
      BY <1>6 DEF ConnectFails, Send, GiveUp, Accept, ReadTimesOut, RejectRequest,
                  ListPending, Answer, lists, fixed, ghost
    <2>2. \/ UNCHANGED server
          \/ /\ server[c] \in {"backlog", "reading", "running"}
             /\ \E s \in {"reading", "closed"} : server' = [server EXCEPT ![c] = s]
      BY <1>6 DEF ConnectFails, Send, GiveUp, Accept, ReadTimesOut, ReadEnds,
                  RejectRequest, ListPending, Answer, Respond, ServerStep
    <2> QED
      BY <1>0, <1>4, <2>1, <2>2 DEF Finished
  <1>7. CASE Recording \/ Restart \/ UNCHANGED vars
    <2>1. UNCHANGED <<ask, file, done, calm, firm>>
      BY <1>7 DEF Recording, Restart, vars, lists, fixed, ghost
    <2>2. \A e \in Caller : Finished(e) => Finished(e)'
      BY <1>7 DEF Recording, Restart, vars, calls, Finished
    <2> QED
      BY <1>4, <2>1, <2>2
  <1> QED
    BY <1>1, <1>2, <1>3, <1>5, <1>6, <1>7 DEF Next, Client, Handler

\* An acknowledged change stands, in memory and on disk, as long as nobody calls
\* for the contrary: also when an earlier call for the same change, which its
\* client has given up, is carried out later, fails and is rolled back, and when
\* the daemon dies.
THEOREM Acknowledged == Spec => []AcknowledgedStays
  <1>1. Typed /\ CallsOK /\ ListInv /\ FirmInv => AcknowledgedStays
    <2> SUFFICES ASSUME Typed, CallsOK, ListInv, FirmInv,
                        NEW p \in Peer, NEW x \in Changes, firm[p] = x
                 PROVE  /\ x = "allow-peer" => InList(mem, p) /\ InList(file, p)
                        /\ x = "revoke" => ~InList(mem, p) /\ ~InList(file, p)
      BY DEF AcknowledgedStays, Changes
    <2>1. Unopposed(p, x) /\ Stands(p, x)
      BY DEF FirmInv, Claimed, Backed
    <2>2. mem \in List!Lists /\ call \in [Caller -> List!Calls]
      BY DEF Typed, List!TypeOK
    <2>3. InList(file, p) <=> Stored(p) # Absent
      BY DEF InList, Stored
    <2>4. InList(mem, p) <=> mem.peers[p] # Absent
      BY <2>2, ListAssumption DEF InList, List!Load
    <2>5. CASE \E c \in Caller : call[c].pc \in List!Unsettled /\ call[c].peer = p
      <3>1. PICK c \in Caller : call[c].pc \in List!Unsettled /\ call[c].peer = p
        BY <2>5
      <3>2. /\ Command(c) \in Changes /\ About(c) = p /\ server[c] = "running"
            /\ call[c].op = IF Command(c) = "allow-peer" THEN "add" ELSE "remove"
        BY <3>1 DEF CallsOK, CallOK, TaskOK, List!Unsettled
      <3>3. Command(c) = x
        BY <2>1, <3>2 DEF Unopposed, Finished, Changes
      <3>4. call[c].info # Absent
        BY <2>2, ListAssumption DEF List!Calls
      <3>5. IF x = "allow-peer" THEN mem.peers[p] # Absent ELSE mem.peers[p] = Absent
        BY <3>1, <3>2, <3>3, <3>4 DEF ListInv, UpdateInv
      <3> QED
        BY <2>1, <2>3, <2>4, <3>5 DEF Stands, Changes
    <2>6. CASE ~\E c \in Caller : call[c].pc \in List!Unsettled /\ call[c].peer = p
      <3>1. mem.peers[p] = Stored(p)
        BY <2>6 DEF ListInv, Recorded
      <3> QED
        BY <2>1, <2>3, <2>4, <3>1 DEF Stands, Changes
    <2> QED
      BY <2>5, <2>6
  <1> QED
    BY <1>1, TypedInit, TypedStep, CallsInit, CallsStep, ListInit, ListStep,
       FirmInit, FirmStep, PTL DEF Spec
-----------------------------------------------------------------------------
(***************************************************************************)
(* Time, and the variables of Records.                                     *)
(***************************************************************************)
LEMMA Multiples ==
    ASSUME NEW P \in Nat \ {0}, NEW q \in Nat, NEW r \in Nat, q < r
    PROVE  P * q + P <= P * r
  <1>1. r - q - 1 \in Nat /\ P * (r - q - 1) >= 0
    OBVIOUS
  <1>2. P * r = P * q + P + P * (r - q - 1)
    OBVIOUS
  <1> QED
    BY <1>1, <1>2

LEMMA DivMod ==
    ASSUME NEW P \in Nat \ {0}, NEW a \in Nat
    PROVE  /\ a \div P \in Nat /\ a % P \in 0 .. (P - 1)
           /\ a = P * (a \div P) + (a % P)
  OBVIOUS

\* Seconds go with the ticks, and the second and the tick in it tell the time.
LEMMA Seconds ==
    ASSUME NEW a \in Nat, NEW b \in Nat, a <= b
    PROVE  /\ Second(a) \in Nat /\ Second(b) \in Nat
           /\ Second(a) <= Second(b)
           /\ a # b /\ a % PerSecond = b % PerSecond => Second(a) < Second(b)
  <1> DEFINE q == a \div PerSecond
             r == b \div PerSecond
             x == PerSecond * q
             y == PerSecond * r
  <1>0. PerSecond \in Nat \ {0}
    BY TimeAssumption
  <1>1. q \in Nat /\ r \in Nat
    BY <1>0, DivMod
  <1>2. /\ a = x + (a % PerSecond) /\ b = y + (b % PerSecond)
        /\ a % PerSecond \in 0 .. (PerSecond - 1) /\ b % PerSecond \in 0 .. (PerSecond - 1)
    BY <1>0, DivMod
  <1>3. r < q => y + PerSecond <= x
    BY <1>0, <1>1, Multiples
  <1>4. q = r => x = y
    OBVIOUS
  <1>5. x \in Int /\ y \in Int
    BY <1>0, <1>1
  <1>6. Second(a) = q /\ Second(b) = r
    BY DEF Second
  <1> HIDE DEF q, r, x, y
  <1> QED
    BY <1>0, <1>1, <1>2, <1>3, <1>4, <1>5, <1>6

\* The names that are made are names.
LEMMA NamesTyped ==
    ASSUME NEW p \in Peer, NEW f \in Path, NEW t \in 0 .. MaxTime,
           NEW at \in 0 .. Second(MaxTime)
    PROVE  /\ Second(t) \in 0 .. Second(MaxTime)
           /\ NameOf(at, p, f, t) \in Name
           /\ NameOf(at, p, f, t).at = at
           /\ NameOf(at, p, f, t).nanos = t % PerSecond
  <1>1. t % PerSecond \in 0 .. (PerSecond - 1) /\ t \in Nat /\ MaxTime \in Nat /\ t <= MaxTime
    BY TimeAssumption, DivMod
  <1>2. Second(t) \in 0 .. Second(MaxTime)
    BY <1>1, Seconds
  <1> QED
    BY <1>1, <1>2 DEF NameOf, Name

\* What a step does to the variables of Records.
LEMMA RecordsMoves ==
    ASSUME [Next]_vars
    PROVE  \/ UNCHANGED records
           \/ \E c \in Caller : Dispatch(c) /\ BeginScan(c)
           \/ \E c \in Caller, n \in Present : ListPending(c) /\ ReadEntry(c, n)
           \/ Recording
           \/ Restart
  <1>1. ASSUME NEW c \in Caller, Client(c) \/ Accept(c) PROVE UNCHANGED records
    BY <1>1 DEF Client, Connect, ConnectFails, Send, GiveUp, Hear, Accept
  <1>2. ASSUME NEW c \in Caller,
               ReadTimesOut(c) \/ RejectRequest(c) \/ ChangeList(c) \/ Answer(c)
        PROVE  UNCHANGED records
    BY <1>2 DEF ReadTimesOut, RejectRequest, ChangeList, Answer
  <1>3. ASSUME NEW c \in Caller, Dispatch(c) PROVE UNCHANGED records \/ BeginScan(c)
    BY <1>3 DEF Dispatch
  <1>4. ASSUME NEW c \in Caller, ListPending(c)
        PROVE  UNCHANGED records \/ \E n \in Present : ReadEntry(c, n)
    BY <1>4 DEF ListPending
  <1> QED
    BY <1>1, <1>2, <1>3, <1>4 DEF Next, Handler, vars

LEMMA RecordsTypedInit == RecordsInit => RecordsTypeOK
  <1> SUFFICES ASSUME RecordsInit PROVE RecordsTypeOK
    OBVIOUS
  <1>1. 0 \in 0 .. MaxTime /\ 0 \in 0 .. Second(MaxTime)
    BY TimeAssumption, Seconds
  <1>2. (CHOOSE n \in Name : TRUE) \in Name
    <2>1. PICK p \in Peer, f \in Path : TRUE
      BY ListAssumption
    <2>2. NameOf(0, p, f, 0) \in Name
      BY <1>1, NamesTyped
    <2> QED
      BY <2>2
  <1> QED
    BY <1>1, <1>2 DEF RecordsInit, RecordsTypeOK, NoScan, Steps

LEMMA RecordsTypedStep == RecordsTypeOK /\ [Next]_vars => RecordsTypeOK'
  <1> SUFFICES ASSUME RecordsTypeOK, [Next]_vars PROVE RecordsTypeOK'
    OBVIOUS
  <1>1. CASE UNCHANGED records
    BY <1>1 DEF records, RecordsTypeOK
  <1>2. ASSUME NEW c \in Caller, BeginScan(c) PROVE RecordsTypeOK'
    BY <1>2 DEF BeginScan, RecordsTypeOK, Present
  <1>3. ASSUME NEW c \in Caller, NEW n \in Present, ReadEntry(c, n) PROVE RecordsTypeOK'
    <2>1. scan' \in [Caller -> [must : SUBSET Name, got : SUBSET Name]]
      <3>1. n \in Name /\ scan[c] \in [must : SUBSET Name, got : SUBSET Name]
        BY DEF Present, RecordsTypeOK
      <3>2. [scan[c] EXCEPT !.got = @ \cup {n}] \in [must : SUBSET Name, got : SUBSET Name]
        BY <3>1
      <3> QED
        BY <1>3, <3>2 DEF ReadEntry, RecordsTypeOK
    <2> QED
      BY <1>3, <2>1 DEF ReadEntry, RecordsTypeOK
  <1>4. ASSUME NEW pc \in Steps, Goto(pc)
        PROVE  loop' \in [pc : Steps, name : Name, since : 0 .. MaxTime, named : 0 .. MaxTime]
    BY <1>4 DEF Goto, RecordsTypeOK
  <1>5. {"idle", "mark"} \subseteq Steps
    BY DEF Steps
  <1>6. CASE Tick
    BY <1>6, TimeAssumption DEF Tick, RecordsTypeOK
  <1>7. CASE NotApplied \/ RecordFails
    BY <1>4, <1>5, <1>7 DEF NotApplied, RecordFails, RecordsTypeOK
  <1>8. CASE Persist
    BY <1>4, <1>5, <1>8 DEF Persist, RecordsTypeOK
  <1>9. CASE BeginRecord
    <2> DEFINE name == NameOf(loop.name.at, loop.name.peer, loop.name.path, now)
    <2>1. /\ loop.name.at \in 0 .. Second(MaxTime) /\ loop.name.peer \in Peer
          /\ loop.name.path \in Path /\ now \in 0 .. MaxTime
      BY DEF RecordsTypeOK, Name
    <2>2. name \in Name
      BY <2>1, NamesTyped
    <2> HIDE DEF name
    <2>3. loop' = [loop EXCEPT !.pc = "temp", !.name = name, !.named = now]
      BY <1>9 DEF BeginRecord, name
    <2>4. loop' \in [pc : Steps, name : Name, since : 0 .. MaxTime, named : 0 .. MaxTime]
      BY <2>1, <2>2, <2>3 DEF RecordsTypeOK, Steps
    <2>5. now' \in 0 .. MaxTime
      BY <1>9, TimeAssumption DEF BeginRecord, RecordsTypeOK
    <2> QED
      BY <1>9, <2>4, <2>5 DEF BeginRecord, Temp, RecordsTypeOK
  <1>10. CASE MarkSeen
    <2>1. seen' \in [Peer -> 0 .. Second(MaxTime)]
      BY <1>10 DEF MarkSeen, SeenAt, RecordsTypeOK, Name
    <2> QED
      BY <1>4, <1>5, <1>10, <2>1 DEF MarkSeen, RecordsTypeOK
  <1>11. ASSUME NEW p \in Peer, Served(p) PROVE RecordsTypeOK'
    <2>1. PICK t \in 0 .. Second(now) : seen' = SeenAt(p, t)
      BY <1>11 DEF Served
    <2>2. Second(now) \in Nat /\ Second(MaxTime) \in Nat /\ Second(now) <= Second(MaxTime)
      BY Seconds, TimeAssumption DEF RecordsTypeOK
    <2>3. t \in 0 .. Second(MaxTime)
      BY <2>2
    <2>4. seen' \in [Peer -> 0 .. Second(MaxTime)]
      BY <2>1, <2>3 DEF SeenAt, RecordsTypeOK
    <2> QED
      BY <1>11, <2>4 DEF Served, RecordsTypeOK
  <1>12. ASSUME NEW p \in Peer, NEW f \in Path, Receive(p, f) PROVE RecordsTypeOK'
    <2>1. now \in 0 .. MaxTime /\ 0 \in 0 .. MaxTime
      BY TimeAssumption DEF RecordsTypeOK
    <2>2. NameOf(Second(now), p, f, 0) \in Name
      <3>1. Second(now) \in 0 .. Second(MaxTime)
        BY <2>1, TimeAssumption, Seconds
      <3> QED
        BY <2>1, <3>1, NamesTyped
    <2> QED
      BY <1>12, <2>1, <2>2 DEF Receive, RecordsTypeOK, Steps
  <1>13. CASE Restart
    <2>1. 0 \in 0 .. Second(MaxTime)
      BY Seconds, TimeAssumption
    <2> QED
      BY <1>4, <1>5, <1>13, <2>1 DEF Restart, RestartRecords, RecordsTypeOK, NoScan
  <1>14. CASE Recording
    BY <1>6, <1>7, <1>8, <1>9, <1>10, <1>11, <1>12, <1>14 DEF Recording
  <1> QED
    BY <1>1, <1>2, <1>3, <1>13, <1>14, RecordsMoves

\* What Typed leaves open.
Whole ==
    /\ RecordsTypeOK
    /\ ask \in Scenarios
    /\ logged \in Lines \cup {<<>>}
    /\ listing \in [Caller -> SUBSET Name]
    /\ restarts \in 0 .. MaxRestart
    /\ firm \in [Peer -> Changes \cup {"nothing"}]

LEMMA WholeInit == Init => Whole
  BY RecordsTypedInit, ControlAssumption DEF Init, Whole

LEMMA WholeStep == Typed /\ CallsOK /\ Whole /\ [Next]_vars => Whole'
  <1> SUFFICES ASSUME Typed, CallsOK, Whole, [Next]_vars PROVE Whole'
    OBVIOUS
  <1>1. RecordsTypeOK'
    BY RecordsTypedStep DEF Whole
  <1>2. UNCHANGED fixed
    BY DEF Next, vars, Client, Connect, ConnectFails, Send, GiveUp, Hear, Accept,
           Handler, ReadTimesOut, RejectRequest, Dispatch, ChangeList, ListPending,
           Answer, Recording, Restart
  <1>3. restarts' \in 0 .. MaxRestart
    <2>1. UNCHANGED restarts \/ (restarts < MaxRestart /\ restarts' = restarts + 1)
      BY DEF Next, vars, Client, Connect, ConnectFails, Send, GiveUp, Hear, Accept,
             Handler, ReadTimesOut, RejectRequest, Dispatch, ChangeList, ListPending,
             Answer, Recording, Restart
    <2> QED
      BY <2>1, ControlAssumption DEF Whole
  <1>4. listing' \in [Caller -> SUBSET Name]
    <2>1. ASSUME NEW c \in Caller, NEW kept \in Newest(scan[c].got, Limit),
                 listing' = [listing EXCEPT ![c] = kept]
          PROVE  listing' \in [Caller -> SUBSET Name]
      <3>1. kept \subseteq Name
        BY DEF Newest, Whole, RecordsTypeOK
      <3> QED
        BY <2>1, <3>1 DEF Whole
    <2>2. UNCHANGED listing \/ \E c \in Caller : ListPending(c)
      BY DEF Next, vars, Client, Connect, ConnectFails, Send, GiveUp, Hear, Accept,
             Handler, ReadTimesOut, RejectRequest, Dispatch, ChangeList,
             Answer, Recording, Restart
    <2> QED
      BY <2>1, <2>2 DEF ListPending, Whole
  <1>5. firm' \in [Peer -> Changes \cup {"nothing"}]
    <2>1. ASSUME NEW c \in Caller, Connect(c) PROVE firm' \in [Peer -> Changes \cup {"nothing"}]
      BY <2>1 DEF Connect, Whole
    <2>2. ASSUME NEW c \in Caller, Hear(c) PROVE firm' \in [Peer -> Changes \cup {"nothing"}]
      <3>1. reply[c] \in {"added", "removed"} => Command(c) \in Changes
        BY DEF CallsOK, CallOK, OutcomeOK, ReplyOK
      <3> QED
        BY <2>2, <3>1 DEF Hear, Whole
    <2>3. UNCHANGED firm \/ \E c \in Caller : Connect(c) \/ Hear(c)
      BY DEF Next, vars, ghost, Client, ConnectFails, Send, GiveUp, Accept,
             Handler, ReadTimesOut, RejectRequest, Dispatch, ChangeList, ListPending,
             Answer, Recording, Restart
    <2> QED
      BY <2>1, <2>2, <2>3 DEF Whole
  <1> QED
    BY <1>1, <1>2, <1>3, <1>4, <1>5 DEF Whole, fixed

\* Every variable keeps its type.
THEOREM Typing == Spec => []TypeOK
  <1>1. Typed /\ Whole => TypeOK
    BY DEF Typed, Whole, TypeOK
  <1> QED
    BY <1>1, TypedInit, TypedStep, CallsInit, CallsStep, WholeInit, WholeStep,
       PTL DEF Spec

\* The time a peer was last seen does not go back while the process lives, in
\* whatever order the receive loop and the connections served report it.
THEOREM SeenNotBack == Spec => SeenGrows
  <1>1. Whole /\ [Next]_vars =>
            [restarts' = restarts => \A p \in Peer : seen'[p] >= seen[p]]_vars
    <2> SUFFICES ASSUME Whole, [Next]_vars, restarts' = restarts, NEW p \in Peer
                 PROVE  seen'[p] >= seen[p]
      OBVIOUS
    <2>0. seen \in [Peer -> 0 .. Second(MaxTime)] /\ \A q \in Peer : seen[q] \in Int
      BY DEF Whole, RecordsTypeOK
    <2>1. ASSUME NEW q \in Peer, NEW t \in Int, seen' = SeenAt(q, t)
          PROVE  seen'[p] >= seen[p]
      BY <2>0, <2>1 DEF SeenAt
    <2>2. CASE UNCHANGED seen
      BY <2>0, <2>2
    <2>3. CASE MarkSeen
      <3>1. loop.name.peer \in Peer /\ loop.name.at \in Int
        BY DEF Whole, RecordsTypeOK, Name
      <3> QED
        BY <2>1, <2>3, <3>1 DEF MarkSeen
    <2>4. ASSUME NEW q \in Peer, Served(q) PROVE seen'[p] >= seen[p]
      <3>1. PICK t \in 0 .. Second(now) : seen' = SeenAt(q, t)
        BY <2>4 DEF Served
      <3> QED
        BY <2>1, <3>1
    <2>5. ~Restart
      <3>1. restarts \in Int
        BY DEF Whole
      <3>2. Restart => restarts' = restarts + 1
        BY DEF Restart
      <3> QED
        BY <3>1, <3>2
    <2> QED
      BY <2>2, <2>3, <2>4, <2>5, RecordsMoves
         DEF records, BeginScan, ReadEntry, Recording, Tick, NotApplied, BeginRecord,
             Persist, RecordFails, Receive
  <1> QED
    BY <1>1, TypedInit, TypedStep, CallsInit, CallsStep, WholeInit, WholeStep,
       PTL DEF Spec, SeenGrows
-----------------------------------------------------------------------------
(***************************************************************************)
(* The pending log.                                                        *)
(***************************************************************************)
\* The handling under way: the second of its name is that of its beginning, the
\* tick that of the moment the name was made.
LoopInv ==
    /\ loop.pc \in {"handling", "temp"} =>
           loop.name.at = Second(loop.since) /\ loop.since <= now
    /\ loop.pc = "temp" =>
           /\ loop.since <= loop.named /\ loop.named < now
           /\ loop.name.nanos = loop.named % PerSecond

\* Name n was made at time t.
MadeAt(n, t) == t \in 0 .. MaxTime /\ n.nanos = t % PerSecond /\ n.at <= Second(t)

\* Files are whole, and their names were made in the past, before the name that
\* is about to be used.
LogInv ==
    \A n \in Present :
        /\ files[n] = "whole"
        /\ \E t \in 0 .. MaxTime :
               MadeAt(n, t) /\ t < now /\ (loop.pc = "temp" => t < loop.named)

LEMMA LogInit == Init => LoopInv /\ LogInv
  BY DEF Init, RecordsInit, LoopInv, LogInv, Present

\* What was made before stays so.
LEMMA LogKept ==
    ASSUME RecordsTypeOK, LogInv, UNCHANGED files, now <= now', now' \in Int,
           loop'.pc = "temp" => \/ loop.pc = "temp" /\ loop'.named = loop.named
                                \/ loop'.named = now
    PROVE  LogInv'
  <1> SUFFICES ASSUME NEW n \in Present
               PROVE  /\ files[n] = "whole"
                      /\ \E t \in 0 .. MaxTime :
                             /\ MadeAt(n, t) /\ t < now'
                             /\ loop'.pc = "temp" => t < loop'.named
    BY DEF LogInv, Present, MadeAt
  <1>1. PICK t \in 0 .. MaxTime :
            MadeAt(n, t) /\ t < now /\ (loop.pc = "temp" => t < loop.named)
    BY DEF LogInv
  <1>2. now \in Int /\ t \in Int
    BY DEF RecordsTypeOK
  <1>3. t < now' /\ (loop'.pc = "temp" => t < loop'.named)
    BY <1>1, <1>2
  <1> QED
    BY <1>1, <1>3 DEF LogInv

LEMMA LogStep ==
    RecordsTypeOK /\ LoopInv /\ LogInv /\ [Next]_vars => LoopInv' /\ LogInv'
  <1> SUFFICES ASSUME RecordsTypeOK, LoopInv, LogInv, [Next]_vars
               PROVE  LoopInv' /\ LogInv'
    OBVIOUS
  <1>0. /\ now \in 0 .. MaxTime /\ now \in Int /\ MaxTime \in Nat
        /\ loop \in [pc : Steps, name : Name, since : 0 .. MaxTime, named : 0 .. MaxTime]
        /\ loop.since \in Int /\ loop.named \in Int
    BY TimeAssumption DEF RecordsTypeOK
  <1>1. CASE UNCHANGED <<now, files, loop>>
    BY <1>0, <1>1, LogKept DEF LoopInv
  <1>2. CASE Tick
    <2>1. now' = now + 1 /\ UNCHANGED <<files, loop>>
      BY <1>2 DEF Tick
    <2>2. LoopInv'
      BY <1>0, <2>1 DEF LoopInv
    <2> QED
      BY <1>0, <2>1, <2>2, LogKept
  <1>3. ASSUME NEW p \in Peer, NEW f \in Path, Receive(p, f) PROVE LoopInv' /\ LogInv'
    <2>1. /\ loop'.pc = "handling" /\ loop'.since = now
          /\ loop'.name = NameOf(Second(now), p, f, 0) /\ UNCHANGED <<now, files>>
      BY <1>3 DEF Receive
    <2>2. loop'.name.at = Second(now)
      BY <2>1 DEF NameOf
    <2>3. LoopInv'
      BY <1>0, <2>1, <2>2 DEF LoopInv, Second
    <2> QED
      BY <1>0, <2>1, <2>3, LogKept
  <1>4. CASE BeginRecord
    <2> DEFINE name == NameOf(loop.name.at, loop.name.peer, loop.name.path, now)
    <2>1. /\ loop.pc = "handling" /\ now' = now + 1 /\ UNCHANGED files
          /\ loop' = [loop EXCEPT !.pc = "temp", !.name = name, !.named = now]
      BY <1>4 DEF BeginRecord, Temp
    <2>2. name.at = loop.name.at /\ name.nanos = now % PerSecond
      BY DEF NameOf
    <2> HIDE DEF name
    <2>3. /\ loop'.pc = "temp" /\ loop'.name = name /\ loop'.named = now
          /\ loop'.since = loop.since
      BY <1>0, <2>1
    <2>4. LoopInv'
      BY <1>0, <2>1, <2>2, <2>3 DEF LoopInv, Second
    <2> QED
      BY <1>0, <2>1, <2>3, <2>4, LogKept
  <1>5. CASE Persist
    <2>1. /\ loop.pc = "temp" /\ loop'.pc = "mark" /\ now' = now
          /\ files' = [files EXCEPT ![loop.name] = "whole"]
      BY <1>0, <1>5 DEF Persist, Goto
    <2>2. LoopInv'
      BY <2>1 DEF LoopInv
    <2>3. MadeAt(loop.name, loop.named) /\ loop.named < now
      BY <1>0, <2>1, Seconds DEF LoopInv, MadeAt
    <2>4. ASSUME NEW n \in Name, files'[n] # "none"
          PROVE  /\ files'[n] = "whole"
                 /\ \E t \in 0 .. MaxTime : MadeAt(n, t) /\ t < now
      <3>1. files \in [Name -> {"none", "torn", "whole"}]
        BY DEF RecordsTypeOK
      <3>2. CASE n = loop.name
        BY <1>0, <2>1, <2>3, <3>1, <3>2
      <3>3. CASE n # loop.name
        <4>1. files'[n] = files[n] /\ n \in Present
          BY <2>1, <2>4, <3>1, <3>3 DEF Present
        <4> QED
          BY <4>1 DEF LogInv
      <3> QED
        BY <3>2, <3>3
    <2>5. LogInv'
      BY <2>1, <2>4 DEF LogInv, Present, MadeAt
    <2> QED
      BY <2>2, <2>5
  <1>6. CASE /\ \E pc \in {"idle", "mark"} : Goto(pc)
             /\ UNCHANGED <<now, files>>
    <2>1. loop'.pc \notin {"handling", "temp"}
      BY <1>0, <1>6 DEF Goto
    <2> QED
      BY <1>0, <1>6, <2>1, LogKept DEF LoopInv
  <1>7. CASE NotApplied \/ RecordFails \/ MarkSeen \/ Restart
    BY <1>6, <1>7 DEF NotApplied, RecordFails, MarkSeen, Restart, RestartRecords
  <1>8. CASE Recording
    BY <1>1, <1>2, <1>3, <1>4, <1>5, <1>7, <1>8 DEF Recording, Served
  <1> QED
    BY <1>1, <1>7, <1>8, RecordsMoves DEF records, BeginScan, ReadEntry

\* An entry replaces another only if its handling has gone on into another
\* second.
THEOREM ReplacedLate == Spec => []ReplacedOnlyAcrossSeconds
  <1>1. Whole /\ LoopInv /\ LogInv => ReplacedOnlyAcrossSeconds
    <2> SUFFICES ASSUME Whole, LoopInv, LogInv,
                        loop.pc = "temp", files[loop.name] = "whole"
                 PROVE  Second(loop.named) > Second(loop.since)
      BY DEF ReplacedOnlyAcrossSeconds
    <2>1. loop.name \in Present /\ loop.named \in 0 .. MaxTime /\ loop.since \in 0 .. MaxTime
      BY DEF Whole, RecordsTypeOK, Present
    <2>2. PICK t \in 0 .. MaxTime : MadeAt(loop.name, t) /\ t < loop.named
      BY <2>1 DEF LogInv
    <2>3. t % PerSecond = loop.named % PerSecond /\ Second(loop.since) <= Second(t)
      BY <2>2 DEF LoopInv, MadeAt
    <2>4. t \in Nat /\ loop.named \in Nat /\ loop.since \in Nat
      BY <2>1, <2>2
    <2>5. Second(t) < Second(loop.named) /\ Second(t) \in Nat /\ Second(loop.named) \in Nat
      BY <2>2, <2>3, <2>4, Seconds
    <2>6. Second(loop.since) \in Nat
      BY <2>4, Seconds
    <2> QED
      BY <2>3, <2>5, <2>6
  <1>2. Whole => RecordsTypeOK
    BY DEF Whole
  <1> QED
    BY <1>1, <1>2, TypedInit, TypedStep, CallsInit, CallsStep, WholeInit, WholeStep,
       LogInit, LogStep, PTL DEF Spec

\* A listing that is under way has read finitely many entries and met no broken
\* one; one that has ended has what it kept of what it read, until a restart
\* forgets what was read.
ScanOK(c) ==
    /\ IsFiniteSet(scan[c].got)
    /\ Command(c) = "list-pending" =>
           /\ outcome[c] \in {"none", "entries"}
           /\ outcome[c] = "entries" =>
                  \/ scan[c] = NoScan
                  \/ /\ scan[c].must \subseteq scan[c].got
                     /\ listing[c] \in Newest(scan[c].got, Limit)

ScansOK == \A c \in Caller : ScanOK(c)

LEMMA ScansInit == Init => ScansOK
  <1>1. IsFiniteSet({})
    BY FS_EmptySet
  <1> SUFFICES ASSUME Init, NEW c \in Caller PROVE ScanOK(c)
    BY DEF ScansOK
  <1>2. scan[c] = NoScan /\ outcome[c] = "none"
    BY DEF Init, RecordsInit
  <1> QED
    BY <1>1, <1>2 DEF ScanOK, NoScan

LEMMA ScansStep ==
    Typed /\ CallsOK /\ Whole /\ LogInv /\ ScansOK /\ [Next]_vars => ScansOK'
  <1> SUFFICES ASSUME Typed, CallsOK, Whole, LogInv, ScansOK, [Next]_vars
               PROVE  ScansOK'
    OBVIOUS
  <1>0. /\ outcome \in [Caller -> Outcomes]
        /\ scan \in [Caller -> [must : SUBSET Name, got : SUBSET Name]]
        /\ listing \in [Caller -> SUBSET Name]
    BY DEF Typed, Whole, RecordsTypeOK
  <1>1. CASE UNCHANGED <<ask, outcome, scan, listing>>
    BY <1>1 DEF ScansOK, ScanOK, Command
  <1>2. ASSUME NEW c \in Caller, UNCHANGED ask, ScanOK(c)',
               \A d \in Caller : d # c => /\ outcome'[d] = outcome[d]
                                          /\ scan'[d] = scan[d]
                                          /\ listing'[d] = listing[d]
        PROVE  ScansOK'
    <2> SUFFICES ASSUME NEW d \in Caller, d # c PROVE ScanOK(d)'
      BY <1>2 DEF ScansOK
    <2>1. ScanOK(d)
      BY DEF ScansOK
    <2> QED
      BY <1>2, <2>1 DEF ScanOK, Command
  <1>3. ASSUME NEW c \in Caller, Dispatch(c) PROVE ScansOK'
    <2>1. /\ UNCHANGED <<ask, listing>> /\ outcome[c] = "none"
          /\ \/ /\ Command(c) = "recent-log"
                /\ UNCHANGED records
                /\ outcome' = [outcome EXCEPT ![c] = "lines"]
             \/ /\ Command(c) # "recent-log"
                /\ UNCHANGED outcome
                /\ UNCHANGED records \/ BeginScan(c)
      BY <1>3 DEF Dispatch, fixed, CallsOK, CallOK, TaskOK
    <2>2. IsFiniteSet(scan'[c].got)
      <3>1. IsFiniteSet({})
        BY FS_EmptySet
      <3>2. CASE UNCHANGED scan
        BY <3>2 DEF ScansOK, ScanOK
      <3>3. CASE BeginScan(c)
        <4>1. scan'[c].got = {}
          BY <1>0, <3>3 DEF BeginScan
        <4> QED
          BY <3>1, <4>1
      <3> QED
        BY <2>1, <3>2, <3>3 DEF records
    <2>3. ScanOK(c)'
      BY <1>0, <2>1, <2>2 DEF ScanOK, Command
    <2> QED
      BY <1>0, <1>2, <2>1, <2>3 DEF records, BeginScan
  <1>4. ASSUME NEW c \in Caller, ListPending(c) PROVE ScansOK'
    <2>0. UNCHANGED ask /\ Command(c) = "list-pending" /\ outcome[c] = "none"
      BY <1>4 DEF ListPending, fixed
    <2>1. ASSUME NEW n \in Present, ReadEntry(c, n), UNCHANGED listing,
                 outcome' = [outcome EXCEPT ![c] = IF files[n] = "torn" THEN "error" ELSE @]
          PROVE  ScansOK'
      <3>1. files[n] = "whole"
        BY DEF LogInv
      <3>2. UNCHANGED outcome
        BY <1>0, <2>1, <3>1
      <3>3. scan'[c].got = scan[c].got \cup {n}
        BY <1>0, <2>1 DEF ReadEntry
      <3>4. IsFiniteSet(scan'[c].got)
        BY <3>3, FS_AddElement DEF ScansOK, ScanOK
      <3>5. ScanOK(c)'
        BY <2>0, <3>2, <3>4 DEF ScanOK, Command
      <3> QED
        BY <1>0, <1>2, <2>0, <2>1, <3>2, <3>5 DEF ReadEntry
    <2>2. ASSUME NEW kept \in Newest(scan[c].got, Limit), ScanComplete(c),
                 listing' = [listing EXCEPT ![c] = kept],
                 outcome' = [outcome EXCEPT ![c] = "entries"], UNCHANGED records
          PROVE  ScansOK'
      <3>1. UNCHANGED scan
        BY <2>2 DEF records
      <3>2. ScanOK(c)'
        BY <1>0, <2>0, <2>2, <3>1 DEF ScansOK, ScanOK, ScanComplete, Command, Newest
      <3> QED
        BY <1>0, <1>2, <2>0, <2>2, <3>1, <3>2
    <2> QED
      BY <1>4, <2>1, <2>2 DEF ListPending
  <1>5. ASSUME NEW c \in Caller, ChangeList(c) PROVE ScansOK'
    <2>1. /\ UNCHANGED <<ask, listing, scan>>
          /\ outcome' = [outcome EXCEPT ![c] = Result(c)]
          /\ call[c].pc # "idle"
      BY <1>5 DEF ChangeList, fixed, records, List!Serve, List!Recheck, List!Acquire,
                  List!Update, List!Write, List!Undo, List!Release
    <2>2. Command(c) # "list-pending"
      BY <2>1 DEF CallsOK, CallOK, TaskOK, Changes
    <2>3. ScanOK(c)'
      BY <2>1, <2>2 DEF ScansOK, ScanOK, Command
    <2> QED
      BY <1>0, <1>2, <2>1, <2>3
  <1>6. CASE Restart
    <2>1. /\ UNCHANGED <<ask, outcome, listing>>
          /\ scan' = [r \in Caller |-> NoScan]
      BY <1>6 DEF Restart, RestartRecords, fixed
    <2> QED
      BY <2>1, FS_EmptySet DEF ScansOK, ScanOK, Command, NoScan
  <1>7. UNCHANGED <<ask, outcome, scan, listing>>
        \/ Restart \/ \E c \in Caller : Dispatch(c) \/ ListPending(c) \/ ChangeList(c)
    BY DEF Next, vars, records, calls, fixed, Client, Connect, ConnectFails, Send, GiveUp,
           Hear, Accept, Handler, ReadTimesOut, RejectRequest, Answer, Recording,
           Tick, NotApplied, BeginRecord, Persist, RecordFails, MarkSeen, Served, Receive
  <1> QED
    BY <1>1, <1>3, <1>4, <1>5, <1>6, <1>7

\* A listing does not fail because entries are written, or a process dies,
\* meanwhile; it has every entry that was there when it began unless Limit newer
\* ones took its place.
THEOREM ListingWhole == Spec => []ListingTrue
  <1>1. ScansOK => ListingTrue
    <2> SUFFICES ASSUME ScansOK, NEW c \in Caller, Command(c) = "list-pending",
                        outcome[c] # "none", NEW n \in scan[c].must \ listing[c]
                 PROVE  /\ Cardinality(listing[c]) = Limit
                        /\ \A m \in listing[c] : m.at >= n.at
      BY DEF ScansOK, ScanOK, ListingTrue
    <2> DEFINE S == scan[c].got
               T == listing[c]
    <2>1. n \in S \ T /\ T \in Newest(S, Limit) /\ IsFiniteSet(S)
      BY DEF ScansOK, ScanOK, NoScan
    <2> HIDE DEF S, T
    <2>2. /\ T \subseteq S
          /\ Cardinality(T) = IF Cardinality(S) < Limit THEN Cardinality(S) ELSE Limit
          /\ \A m \in T : m.at >= n.at
      BY <2>1 DEF Newest
    <2>3. Cardinality(T) # Cardinality(S)
      BY <2>1, <2>2, FS_Subset
    <2> QED
      BY <2>2, <2>3 DEF T
  <1>2. Whole => RecordsTypeOK
    BY DEF Whole
  <1> QED
    BY <1>1, <1>2, TypedInit, TypedStep, CallsInit, CallsStep, WholeInit, WholeStep,
       LogInit, LogStep, ScansInit, ScansStep, PTL DEF Spec

-----------------------------------------------------------------------------
(***************************************************************************)
(* Composition: calls change the list, its file and the lock by the steps  *)
(* of AllowList only, so what AllowListProofs shows of any number of tasks *)
(* holds of calls that time out, are given up or die with the process.     *)
(***************************************************************************)
ListProofs == INSTANCE AllowListProofs

LEMMA ListSteps == Typed /\ [Next]_vars => [List!Next]_(List!vars)
  <1> SUFFICES ASSUME Typed, [Next]_vars PROVE [List!Next]_(List!vars)
    OBVIOUS
  <1>1. ASSUME NEW c \in Caller, Dispatch(c) PROVE [List!Next]_(List!vars)
    <2>1. About(c) \in Peer
      BY DEF Typed, About
    <2>2. \/ \E i \in Info : List!AllowPeer(c, About(c), i)
          \/ List!RevokePeer(c, About(c))
          \/ UNCHANGED lists
      BY <1>1 DEF Dispatch, BeginScan, records, lists
    <2> QED
      BY <2>1, <2>2 DEF List!Next, List!Request, List!vars, lists
  <1>2. ASSUME NEW c \in Caller, ChangeList(c) PROVE [List!Next]_(List!vars)
    BY <1>2 DEF ChangeList, List!Next
  <1>3. CASE Restart
    BY <1>3 DEF Restart, List!Next
  <1>4. CASE UNCHANGED lists
    BY <1>4 DEF lists, List!vars
  <1>5. \/ \E c \in Caller : Dispatch(c) \/ ChangeList(c)
        \/ Restart \/ UNCHANGED lists
    BY DEF Next, vars, Client, Connect, ConnectFails, Send, GiveUp, Hear, Accept,
           Handler, ReadTimesOut, RejectRequest, ListPending, Answer, Recording
  <1> QED
    BY <1>1, <1>2, <1>3, <1>4, <1>5

\* Two instances of one module are the same: List of Control, and the one that
\* has the lemmas.
LEMMA SameSteps ==
    /\ List!Init => ListProofs!Init
    /\ [List!Next]_(List!vars) => [ListProofs!Next]_(ListProofs!vars)
  <1>1. List!Init => ListProofs!Init
    BY DEF List!Init, ListProofs!Init, List!StartWith, ListProofs!StartWith, List!Load,
           ListProofs!Load, List!EmptyStrict, ListProofs!EmptyStrict, List!OpenAll,
           ListProofs!OpenAll, List!Idle, ListProofs!Idle
  <1>2. List!Idle = ListProofs!Idle
    BY DEF List!Idle, ListProofs!Idle, List!EmptyStrict, ListProofs!EmptyStrict
  <1>3. ASSUME NEW c \in Caller, List!Request(c) PROVE ListProofs!Request(c)
    <2>1. \A p, i : /\ List!AllowPeer(c, p, i) => ListProofs!AllowPeer(c, p, i)
                    /\ List!AcceptInvite(c, p, i) => ListProofs!AcceptInvite(c, p, i)
                    /\ List!RevokePeer(c, p) => ListProofs!RevokePeer(c, p)
      BY <1>2 DEF List!AllowPeer, ListProofs!AllowPeer, List!AcceptInvite,
                  ListProofs!AcceptInvite, List!RevokePeer, ListProofs!RevokePeer,
                  List!Begin, ListProofs!Begin, List!Contains, ListProofs!Contains
    <2> QED
      BY <1>3, <2>1 DEF List!Request, ListProofs!Request
  <1>4. ASSUME NEW c \in Caller, List!Serve(c) PROVE ListProofs!Serve(c)
    <2>1. /\ List!Recheck(c) => ListProofs!Recheck(c)
          /\ List!Acquire(c) => ListProofs!Acquire(c)
          /\ List!Write(c) => ListProofs!Write(c)
          /\ List!Release(c) => ListProofs!Release(c)
      BY DEF List!Recheck, ListProofs!Recheck, List!Acquire, ListProofs!Acquire,
             List!Write, ListProofs!Write, List!Release, ListProofs!Release,
             List!Goto, ListProofs!Goto
    <2>2. List!Update(c) => ListProofs!Update(c)
      BY DEF List!Update, ListProofs!Update, List!Added, ListProofs!Added,
             List!Removed, ListProofs!Removed
    <2>3. List!Undo(c) => ListProofs!Undo(c)
      BY DEF List!Undo, ListProofs!Undo, List!Restored, ListProofs!Restored,
             List!Goto, ListProofs!Goto
    <2> QED
      BY <1>4, <2>1, <2>2, <2>3 DEF List!Serve, ListProofs!Serve
  <1>5. \A f \in BOOLEAN : List!Restart(f) => ListProofs!Restart(f)
    BY <1>2 DEF List!Restart, ListProofs!Restart, List!StartWith, ListProofs!StartWith,
           List!Load, ListProofs!Load, List!EmptyStrict, ListProofs!EmptyStrict,
           List!OpenAll, ListProofs!OpenAll
  <1>6. UNCHANGED List!vars => UNCHANGED ListProofs!vars
    BY DEF List!vars, ListProofs!vars
  <1>7. List!Next => ListProofs!Next
    BY <1>3, <1>4, <1>5 DEF List!Next, ListProofs!Next
  <1> QED
    BY <1>1, <1>6, <1>7

LEMMA SamePromise == ListProofs!Atomic => ListAtomic
  <1>1. ListProofs!Committed = List!Committed /\ ListProofs!Load(file) = List!Load(file)
    BY DEF List!Committed, ListProofs!Committed, List!Unsettled, ListProofs!Unsettled,
           List!Restored, ListProofs!Restored, List!Load, ListProofs!Load,
           List!EmptyStrict, ListProofs!EmptyStrict
  <1>2. (ListProofs!Committed = List!Committed /\ ListProofs!Load(file) = List!Load(file))'
    BY <1>1, PTL
  <1>3. ListProofs!Abstract!Init => List!Abstract!Init
    BY <1>1 DEF ListProofs!Abstract!Init, List!Abstract!Init,
                ListProofs!Abstract!Nobody, List!Abstract!Nobody,
                ListProofs!Abstract!Everybody, List!Abstract!Everybody
  <1>4. [ListProofs!Abstract!Next]_<<ListProofs!Committed, ListProofs!Load(file)>>
            => [List!Abstract!Next]_<<List!Committed, List!Load(file)>>
    BY <1>1, <1>2
       DEF ListProofs!Abstract!Next, List!Abstract!Next,
           ListProofs!Abstract!Grant, List!Abstract!Grant,
           ListProofs!Abstract!Revoke, List!Abstract!Revoke,
           ListProofs!Abstract!Restart, List!Abstract!Restart,
           ListProofs!Abstract!Store, List!Abstract!Store,
           ListProofs!Abstract!With, List!Abstract!With,
           ListProofs!Abstract!Without, List!Abstract!Without,
           ListProofs!Abstract!Nobody, List!Abstract!Nobody,
           ListProofs!Abstract!Everybody, List!Abstract!Everybody
  <1> QED
    BY <1>3, <1>4, PTL
       DEF ListAtomic, List!Atomic, List!Abstract!Spec, ListProofs!Atomic,
           ListProofs!Abstract!Spec

\* As seen through the socket, too, the allowlist is one that is granted, revoked
\* and stored in single steps, whenever clients leave and the process dies.
THEOREM AtomicByCalls == Spec => ListAtomic
  <1>1. Init => ListProofs!Init
    BY SameSteps DEF Init
  <1>2. Typed /\ [Next]_vars => [ListProofs!Next]_(ListProofs!vars)
    BY ListSteps, SameSteps
  <1>3. Spec => ListProofs!Steps
    BY <1>1, <1>2, TypedInit, TypedStep, PTL DEF Spec, ListProofs!Steps
  <1>4. /\ Peer # {} /\ Info # {} /\ Absent \notin Info
        /\ NoCaller \notin Caller /\ NoFile \notin ListProofs!Lists
    BY ListAssumption DEF List!Lists, ListProofs!Lists
  <1>5. ListProofs!Steps => ListProofs!Atomic
    BY <1>4, ListProofs!Implementation, PTL
  <1> QED
    BY <1>3, <1>5, SamePromise, PTL

-----------------------------------------------------------------------------
(***************************************************************************)
(* Redaction: what the two loops compute for a line of any length.  The    *)
(* library's induction takes an operator, so it is used here through the   *)
(* least place that a set of places does not have.                         *)
(***************************************************************************)
\* Induction on the places of a line, as a fact about sets of places.
LEMMA PlaceInduction ==
    ASSUME NEW n \in Nat, NEW S, 0 \in S, \A i \in 1 .. n : i - 1 \in S => i \in S
    PROVE  \A i \in 0 .. n : i \in S
  <1> DEFINE Less == OpToRel(<, Nat)
             Out == (0 .. n) \ S
  <1>1. IsWellFoundedOn(Less, Nat)
    BY NatLessThanWellFounded
  <1>2. SUFFICES ASSUME Out # {} PROVE FALSE
    OBVIOUS
  <1>3. PICK x \in Out : \A y \in Out : ~(<<y, x>> \in Less)
    <2>1. Out \subseteq Nat
      OBVIOUS
    <2> HIDE DEF Less, Out
    <2> QED
      BY <1>1, <1>2, <2>1, WFMin
  <1>4. x \in 1 .. n /\ x - 1 \notin S /\ x - 1 \in Out
    OBVIOUS
  <1>5. <<x - 1, x>> \in Less
    BY <1>4 DEF OpToRel
  <1> QED
    BY <1>3, <1>4, <1>5

\* redact_pattern removes the tickets of a line, and nothing else.
LEMMA TicketsGo ==
    ASSUME NEW line \in Seq(Token)
    PROVE  WithoutTickets(line)
               = [i \in DOMAIN line |-> IF i \in InTicket(line) THEN Redacted ELSE line[i]]
  <1> DEFINE n == Len(line)
             Eq(f) == f = [i \in 0 .. n |-> /\ i > 0
                                            /\ \/ line[i] = "dirhive1-"
                                               \/ f[i - 1] /\ line[i] # "sep"]
             In == [i \in 0 .. n |-> i \in InTicket(line)]
             inside == CHOOSE f : Eq(f)
  <1>1. n \in Nat /\ DOMAIN line = 1 .. n
    OBVIOUS
  <1>2. \A i \in 1 .. n : i \in InTicket(line) <=>
            \/ line[i] = "dirhive1-"
            \/ i - 1 \in InTicket(line) /\ line[i] # "sep"
    <2> SUFFICES ASSUME NEW i \in 1 .. n
                 PROVE  i \in InTicket(line) <=>
                            \/ line[i] = "dirhive1-"
                            \/ i - 1 \in InTicket(line) /\ line[i] # "sep"
      OBVIOUS
    <2>1. ASSUME i \in InTicket(line), line[i] # "dirhive1-"
          PROVE  i - 1 \in InTicket(line) /\ line[i] # "sep"
      <3>1. PICK j \in 1 .. i : line[j] = "dirhive1-" /\ \A k \in j .. i : line[k] # "sep"
        BY <2>1 DEF InTicket
      <3>2. j \in 1 .. i - 1 /\ i - 1 \in DOMAIN line /\ line[i] # "sep"
        BY <1>1, <2>1, <3>1
      <3>3. \A k \in j .. i - 1 : line[k] # "sep"
        BY <3>1
      <3> QED
        BY <3>1, <3>2, <3>3 DEF InTicket
    <2>2. ASSUME line[i] = "dirhive1-" PROVE i \in InTicket(line)
      <3>1. \A k \in i .. i : line[k] # "sep"
        BY <2>2
      <3> QED
        BY <1>1, <2>2, <3>1 DEF InTicket
    <2>3. ASSUME i - 1 \in InTicket(line), line[i] # "sep" PROVE i \in InTicket(line)
      <3>1. PICK j \in 1 .. i - 1 :
                line[j] = "dirhive1-" /\ \A k \in j .. i - 1 : line[k] # "sep"
        BY <2>3 DEF InTicket
      <3>2. j \in 1 .. i /\ \A k \in j .. i : line[k] # "sep"
        BY <2>3, <3>1
      <3> QED
        BY <1>1, <3>1, <3>2 DEF InTicket
    <2> QED
      BY <2>1, <2>2, <2>3
  <1>3. 0 \notin InTicket(line)
    BY <1>1 DEF InTicket
  <1>4. Eq(In)
    <2>1. ASSUME NEW i \in 0 .. n
          PROVE  (i \in InTicket(line)) =
                     (i > 0 /\ (line[i] = "dirhive1-" \/ (In[i - 1] /\ line[i] # "sep")))
      <3>1. CASE i = 0
        BY <1>3, <3>1
      <3>2. CASE i \in 1 .. n
        <4>1. In[i - 1] = (i - 1 \in InTicket(line)) /\ i > 0
          BY <1>1, <3>2
        <4>2. i \in 0 .. n /\ i > 0
          BY <1>1, <3>2
        <4>3. i \in InTicket(line) <=>
                  line[i] = "dirhive1-" \/ (i - 1 \in InTicket(line) /\ line[i] # "sep")
          BY <1>2, <3>2
        <4> DEFINE was == In[i - 1]
        <4>4. was <=> i - 1 \in InTicket(line)
          BY <4>1
        <4> HIDE DEF In, n, was
        <4>5. i \in InTicket(line) <=>
                  (i > 0 /\ (line[i] = "dirhive1-" \/ (was /\ line[i] # "sep")))
          BY <4>2, <4>3, <4>4
        <4>6. (i \in InTicket(line)) =
                  (i > 0 /\ (line[i] = "dirhive1-" \/ (was /\ line[i] # "sep")))
          BY <4>5
        <4> QED
          BY <4>6 DEF was
      <3> QED
        BY <1>1, <3>1, <3>2
    <2> QED
      BY <2>1, Zenon
  <1>5. Eq(inside)
    <2> HIDE DEF Eq, In
    <2> QED
      BY <1>4
  <1>6. \A i \in 0 .. n : inside[i] <=> i \in InTicket(line)
    <2> DEFINE S == {i \in 0 .. n : inside[i] <=> i \in InTicket(line)}
    <2> HIDE DEF inside
    <2>0. \A i \in 0 .. n :
              inside[i] = (i > 0 /\ (line[i] = "dirhive1-" \/ (inside[i - 1] /\ line[i] # "sep")))
      BY <1>5
    <2>1. 0 \in S
      <3>1. 0 \in 0 .. n /\ ~(0 > 0)
        BY <1>1
      <3>2. ~inside[0]
        BY <2>0, <3>1, Zenon
      <3> QED
        BY <1>3, <3>1, <3>2
    <2>2. ASSUME NEW i \in 1 .. n, i - 1 \in S PROVE i \in S
      <3>1. inside[i - 1] <=> i - 1 \in InTicket(line)
        BY <2>2
      <3>2. inside[i] = (line[i] = "dirhive1-" \/ (inside[i - 1] /\ line[i] # "sep"))
        BY <2>0, <1>1
      <3>3. i \in 0 .. n
        BY <1>1
      <3> QED
        BY <1>2, <3>1, <3>2, <3>3
    <2> HIDE DEF S
    <2>3. \A i \in 0 .. n : i \in S
      BY <1>1, <2>1, <2>2, PlaceInduction
    <2> QED
      BY <2>3 DEF S
  <1>7. WithoutTickets(line) = [i \in DOMAIN line |-> IF inside[i] THEN Redacted ELSE line[i]]
    BY DEF WithoutTickets
  <1> HIDE DEF inside
  <1> QED
    BY <1>1, <1>6, <1>7

-----------------------------------------------------------------------------
\* The places that belong to a run of at least MinHex digits.
HexRun(text) ==
    {i \in DOMAIN text :
        \E j \in 1 .. i : \E k \in i .. Len(text) :
            k - j + 1 >= MinHex /\ \A m \in j .. k : text[m] = "hex"}

\* The first b tokens as they are shown in the end.
Shown(text, b) == [j \in 1 .. b |-> IF j \in HexRun(text) THEN Redacted ELSE text[j]]

\* The digits after place b are those gathered when place i has been read.
GatheredFrom(text, b, i) ==
    /\ b \in 0 .. i
    /\ b = 0 \/ text[b] # "hex"
    /\ \A k \in b + 1 .. i : text[k] = "hex"

Last(text, i) == CHOOSE b : GatheredFrom(text, b, i)

\* What the loop has after place i.
After(text, i) == [out |-> Shown(text, Last(text, i)), digits |-> i - Last(text, i)]

LEMMA GatheredSomewhere ==
    ASSUME NEW T, NEW text \in Seq(T), NEW i \in 0 .. Len(text)
    PROVE  GatheredFrom(text, Last(text, i), i)
  <1> DEFINE n == Len(text)
             S == {k \in 0 .. n : \E b : GatheredFrom(text, b, k)}
  <1>1. n \in Nat
    OBVIOUS
  <1>2. 0 \in S
    <2>1. GatheredFrom(text, 0, 0)
      BY DEF GatheredFrom
    <2> QED
      BY <1>1, <2>1
  <1>3. ASSUME NEW k \in 1 .. n, k - 1 \in S PROVE k \in S
    <2>1. PICK b : GatheredFrom(text, b, k - 1)
      BY <1>3
    <2>2. CASE text[k] = "hex"
      <3>1. GatheredFrom(text, b, k)
        BY <1>1, <2>1, <2>2 DEF GatheredFrom
      <3> QED
        BY <3>1
    <2>3. CASE text[k] # "hex"
      <3>1. GatheredFrom(text, k, k)
        BY <1>1, <2>3 DEF GatheredFrom
      <3> QED
        BY <3>1
    <2> QED
      BY <2>2, <2>3
  <1> HIDE DEF S
  <1>4. i \in S
    BY <1>1, <1>2, <1>3, PlaceInduction
  <1>5. PICK b : GatheredFrom(text, b, i)
    BY <1>4 DEF S
  <1> QED
    BY <1>5 DEF Last

LEMMA GatheredOnce ==
    ASSUME NEW text, NEW i \in Nat, NEW b, NEW c, GatheredFrom(text, b, i), GatheredFrom(text, c, i)
    PROVE  b = c
  BY DEF GatheredFrom

\* When something else than a digit comes, or the end, what is shown is settled.
LEMMA FlushShows ==
    ASSUME NEW T, NEW text \in Seq(T), NEW i \in 0 .. Len(text),
           i = Len(text) \/ text[i + 1] # "hex"
    PROVE  Flushed(After(text, i)) = Shown(text, i)
  <1>0. PICK n \in Nat : n = Len(text) /\ i \in 0 .. n /\ i \in Nat /\ DOMAIN text = 1 .. n
    OBVIOUS
  <1>1. PICK b : b = Last(text, i) /\ GatheredFrom(text, b, i)
    BY GatheredSomewhere
  <1>3. b \in 0 .. i /\ b \in Nat /\ i - b \in Nat /\ MinHex \in Nat \ {0}
    BY <1>0, <1>1, RedactionAssumption DEF GatheredFrom
  <1> DEFINE tail == [k \in 1 .. i - b |-> IF i - b >= MinHex THEN Redacted ELSE "hex"]
  <1>2. Flushed(After(text, i)) = Shown(text, b) \o tail
    BY <1>1 DEF Flushed, After
  <1>4. \A j \in b + 1 .. i : j \in HexRun(text) <=> i - b >= MinHex
    <2> SUFFICES ASSUME NEW j \in b + 1 .. i PROVE j \in HexRun(text) <=> i - b >= MinHex
      OBVIOUS
    <2>1. ASSUME i - b >= MinHex PROVE j \in HexRun(text)
      <3>1. b + 1 \in 1 .. j /\ i \in j .. n /\ i - (b + 1) + 1 >= MinHex
        BY <1>0, <1>3, <2>1
      <3>2. \A m \in b + 1 .. i : text[m] = "hex"
        BY <1>1 DEF GatheredFrom
      <3>3. j \in DOMAIN text
        BY <1>0, <1>3
      <3> QED
        BY <3>1, <3>2, <3>3 DEF HexRun
    <2>2. ASSUME j \in HexRun(text) PROVE i - b >= MinHex
      <3>1. PICK f \in 1 .. j, t \in j .. n :
                t - f + 1 >= MinHex /\ \A m \in f .. t : text[m] = "hex"
        BY <1>0, <2>2 DEF HexRun
      <3>2. f > b
        <4>1. SUFFICES ASSUME f <= b PROVE FALSE
          BY <1>3, <3>1
        <4>2. b \in f .. t /\ b # 0
          BY <1>0, <1>3, <3>1, <4>1
        <4> QED
          BY <1>1, <3>1, <4>2 DEF GatheredFrom
      <3>3. t <= i
        <4>1. SUFFICES ASSUME t > i PROVE FALSE
          BY <1>0, <3>1
        <4>2. i + 1 \in f .. t /\ i # n
          BY <1>0, <1>3, <3>1, <4>1
        <4> QED
          BY <1>0, <3>1, <4>2
      <3> QED
        BY <1>0, <1>3, <3>1, <3>2, <3>3
    <2> QED
      BY <2>1, <2>2
  <1>5. \A j \in b + 1 .. i : text[j] = "hex"
    BY <1>1 DEF GatheredFrom
  <1>6. /\ Shown(text, b) \in Seq(T \cup {Redacted}) /\ Len(Shown(text, b)) = b
        /\ tail \in Seq({Redacted, "hex"}) /\ Len(tail) = i - b
    <2>1. \A j \in 1 .. b : text[j] \in T
      BY <1>0, <1>3
    <2> QED
      BY <1>3, <2>1 DEF Shown
  <1>7. \A j \in 1 .. i : (Shown(text, b) \o tail)[j] = Shown(text, i)[j]
    <2> SUFFICES ASSUME NEW j \in 1 .. i
                 PROVE  (Shown(text, b) \o tail)[j] = Shown(text, i)[j]
      OBVIOUS
    <2>1. CASE j <= b
      <3>1. (Shown(text, b) \o tail)[j] = Shown(text, b)[j]
        BY <1>3, <1>6, <2>1
      <3> QED
        BY <1>3, <2>1, <3>1 DEF Shown
    <2>2. CASE j > b
      <3>1. (Shown(text, b) \o tail)[j] = tail[j - b] /\ j - b \in 1 .. i - b
        BY <1>3, <1>6, <2>2
      <3>2. j \in b + 1 .. i
        BY <1>3, <2>2
      <3> QED
        BY <1>4, <1>5, <3>1, <3>2 DEF Shown
    <2>3. j <= b \/ j > b
      BY <1>0, <1>3
    <2> QED
      BY <2>1, <2>2, <2>3, Zenon
  <1>8. DOMAIN (Shown(text, b) \o tail) = 1 .. i /\ DOMAIN Shown(text, i) = 1 .. i
    BY <1>3, <1>6 DEF Shown
  <1>9. Shown(text, b) \o tail = Shown(text, i)
    BY <1>3, <1>6, <1>7, <1>8 DEF Shown
  <1> QED
    BY <1>2, <1>9

\* One step of the loop.
LEMMA HexStep ==
    ASSUME NEW T, NEW text \in Seq(T), NEW i \in 1 .. Len(text)
    PROVE  After(text, i) =
               IF text[i] = "hex" THEN [After(text, i - 1) EXCEPT !.digits = @ + 1]
               ELSE [out |-> Append(Flushed(After(text, i - 1)), text[i]), digits |-> 0]
  <1>0. Len(text) \in Nat /\ i - 1 \in 0 .. Len(text) /\ i \in 0 .. Len(text)
        /\ DOMAIN text = 1 .. Len(text) /\ i \in Nat /\ i - 1 \in Nat
    OBVIOUS
  <1>1. GatheredFrom(text, Last(text, i), i) /\ GatheredFrom(text, Last(text, i - 1), i - 1)
    BY <1>0, GatheredSomewhere
  <1>2. CASE text[i] = "hex"
    <2>1. GatheredFrom(text, Last(text, i - 1), i)
      BY <1>0, <1>1, <1>2 DEF GatheredFrom
    <2>2. Last(text, i) = Last(text, i - 1)
      BY <1>0, <1>1, <2>1, GatheredOnce
    <2>3. Last(text, i) \in Nat
      BY <1>0, <1>1 DEF GatheredFrom
    <2> QED
      BY <1>0, <1>2, <2>2, <2>3 DEF After
  <1>3. CASE text[i] # "hex"
    <2>1. GatheredFrom(text, i, i)
      BY <1>0, <1>3 DEF GatheredFrom
    <2>2. Last(text, i) = i
      BY <1>0, <1>1, <2>1, GatheredOnce
    <2>3. Flushed(After(text, i - 1)) = Shown(text, i - 1)
      BY <1>0, <1>3, FlushShows
    <2>4. i \notin HexRun(text)
      BY <1>0, <1>3 DEF HexRun
    <2>5. Append(Shown(text, i - 1), text[i]) = Shown(text, i)
      <3>1. Shown(text, i - 1) \in Seq(T \cup {Redacted}) /\ Len(Shown(text, i - 1)) = i - 1
        BY <1>0 DEF Shown
      <3>2. Shown(text, i) \in Seq(T \cup {Redacted}) /\ Len(Shown(text, i)) = i
        BY <1>0 DEF Shown
      <3>3. text[i] \in T \cup {Redacted}
        BY <1>0
      <3>4. \A j \in 1 .. i : Append(Shown(text, i - 1), text[i])[j] = Shown(text, i)[j]
        BY <1>0, <2>4, <3>1, <3>3 DEF Shown
      <3> QED
        BY <1>0, <3>1, <3>2, <3>3, <3>4
    <2>6. After(text, i) = [out |-> Shown(text, i), digits |-> 0]
      BY <1>0, <2>2 DEF After
    <2> QED
      BY <1>3, <2>3, <2>5, <2>6
  <1> QED
    BY <1>2, <1>3

\* redact_hex_token removes the runs of digits, and nothing else.
LEMMA HexGoes ==
    ASSUME NEW T, NEW text \in Seq(T)
    PROVE  WithoutHex(text) = Shown(text, Len(text))
  <1> DEFINE n == Len(text)
             Step(s, c) == IF c = "hex" THEN [s EXCEPT !.digits = @ + 1]
                           ELSE [out |-> Append(Flushed(s), c), digits |-> 0]
             Eq(f) == f = [i \in 0 .. n |-> IF i = 0 THEN [out |-> <<>>, digits |-> 0]
                                            ELSE Step(f[i - 1], text[i])]
             all == [i \in 0 .. n |-> After(text, i)]
             upto == CHOOSE f : Eq(f)
  <1>0. n \in Nat
    OBVIOUS
  <1>1. After(text, 0) = [out |-> <<>>, digits |-> 0]
    <2>1. GatheredFrom(text, 0, 0)
      BY DEF GatheredFrom
    <2>2. Last(text, 0) = 0
      BY <1>0, <2>1, GatheredOnce, GatheredSomewhere
    <2> QED
      BY <2>2 DEF After, Shown
  <1>2. \A i \in 1 .. n : After(text, i) = Step(After(text, i - 1), text[i])
    BY HexStep
  <1> HIDE DEF Step
  <1>3. Eq(all)
    BY <1>0, <1>1, <1>2
  <1>4. Eq(upto)
    <2> HIDE DEF Eq, all
    <2> QED
      BY <1>3
  <1>5. upto[n] = After(text, n)
    <2> DEFINE S == {i \in 0 .. n : upto[i] = After(text, i)}
    <2> HIDE DEF upto
    <2>1. 0 \in S
      BY <1>0, <1>1, <1>4
    <2>2. ASSUME NEW i \in 1 .. n, i - 1 \in S PROVE i \in S
      BY <1>0, <1>2, <1>4, <2>2
    <2> HIDE DEF S
    <2>3. \A i \in 0 .. n : i \in S
      BY <1>0, <2>1, <2>2, PlaceInduction
    <2> QED
      BY <1>0, <2>3 DEF S
  <1>6. WithoutHex(text) = Flushed(upto[n])
    BY DEF WithoutHex, Step
  <1>7. Flushed(After(text, n)) = Shown(text, n)
    BY <1>0, FlushShows
  <1> HIDE DEF upto
  <1> QED
    BY <1>5, <1>6, <1>7

\* redact_secrets removes exactly the secrets of a line, of whatever length.
LEMMA RedactionExact == \A line \in Seq(Token) : RedactsSecrets(line)
  <1> SUFFICES ASSUME NEW line \in Seq(Token) PROVE RedactsSecrets(line)
    OBVIOUS
  <1> DEFINE text == WithoutTickets(line)
             n == Len(line)
  <1>1. text = [i \in 1 .. n |-> IF i \in InTicket(line) THEN Redacted ELSE line[i]]
        /\ n \in Nat /\ DOMAIN line = 1 .. n
    BY TicketsGo
  <1> HIDE DEF text
  <1>2. text \in Seq(Token \cup {Redacted}) /\ Len(text) = n
    BY <1>1
  <1>3. \A i \in 1 .. n : text[i] = "hex" <=> Digit(line, i)
    BY <1>1 DEF Digit, Redacted
  <1>4. HexRun(text) = InRun(line)
    <2>1. \A i \in 1 .. n : \A j \in 1 .. i : \A k \in i .. n : \A m \in j .. k :
              m \in 1 .. n
      BY <1>1
    <2> QED
      BY <1>1, <1>2, <1>3, <2>1 DEF HexRun, InRun
  <1>5. Redact(line) = Shown(text, n)
    BY <1>2, HexGoes DEF Redact, text
  <1> QED
    BY <1>1, <1>4, <1>5 DEF Shown, RedactsSecrets, Secret

\* Whatever the log holds: a client is never shown a ticket or a long run of
\* digits, and is shown everything else of a line.
THEOREM LogRedacted == Spec => []LogShowsNoSecrets
  <1>1. TypeOK => logged \in Seq(Token)
    <2>1. <<>> \in Seq(Token)
      OBVIOUS
    <2> QED
      BY <2>1, ControlAssumption DEF TypeOK
  <1>2. TypeOK => LogShowsNoSecrets
    BY <1>1, RedactionExact DEF LogShowsNoSecrets
  <1> QED
    BY <1>2, Typing, PTL
=============================================================================

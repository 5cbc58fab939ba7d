------------------------------ MODULE Control ------------------------------
(***************************************************************************)
(* The RPC path from a tool of the MCP server to its effect and back: one  *)
(* connection per call, its handler in the daemon, and a client that gives *)
(* up after a while.  It composes AllowList, whose steps the handlers of   *)
(* allow-peer and revoke take, with Records, which list-pending reads      *)
(* while the receive loop writes, and Redaction, used by recent-log.       *)
(*                                                                         *)
(* A caller stands for one call: the client, its connection and the task   *)
(* that serves it.                                                         *)
(***************************************************************************)
EXTENDS Records, Redaction

CONSTANTS
    Info, Absent, NoCaller, NoFile,  \* see AllowList
    Permits,    \* MAX_IN_FLIGHT_CONNECTIONS
    Limit,      \* the limit list-pending is called with
    Lines,      \* lines the log may have
    Scenarios,  \* bound: what the callers ask for
    MaxRestart  \* bound: how often the daemon dies

VARIABLES
    mem, file, holder, call, flag,  \* see AllowList
    ask,      \* what each caller wants: a command and the peer it is about
    client,   \* the client's side of each call
    told,     \* how the call ended for the client
    server,   \* the daemon's side of the connection
    outcome,  \* what the handler has found so far
    reply,    \* the answer in the socket
    listing,  \* the entries list-pending has found
    logged,   \* a line of the log
    restarts,
    done,     \* ghost: saves of the allowlist the call has made
    calm,     \* ghost: no call to the contrary since this one began
    firm      \* ghost: what has been acknowledged, and not been opposed since

List == INSTANCE AllowList

lists == <<mem, file, holder, call, flag>>
calls == <<client, told, server, outcome, reply>>
ghost == <<done, calm, firm>>
fixed == <<ask, logged>>
vars == <<records, lists, calls, fixed, listing, restarts, ghost>>

Changes == {"allow-peer", "revoke"}

\* The tools of the MCP server that stand for all others, and what else a
\* program of the same user may do with the socket: send something that is no
\* request, or connect and send nothing.
Commands == Changes \cup {"none", "list-pending", "recent-log", "junk", "silent"}

\* What AllowList and Records assume of their constants.
ASSUME ListAssumption == /\ Peer # {} /\ Path # {}
                         /\ Info # {} /\ Absent \notin Info
                         /\ NoCaller \notin Caller
                         /\ NoFile \notin List!Lists
ASSUME ControlAssumption == /\ \A s \in Scenarios : s \in [Caller -> Commands \X Peer]
                            /\ \A l \in Lines : l \in Seq(Token)
                            /\ {Permits, Limit, MaxRestart} \subseteq Nat

Command(c) == ask[c][1]
About(c) == ask[c][2]
Opposed(c, d) == About(c) = About(d) /\ {Command(c), Command(d)} = Changes

Init ==
    /\ List!Init
    /\ flag = FALSE
    /\ RecordsInit
    /\ ask \in Scenarios
    /\ logged \in IF \E c \in Caller : Command(c) = "recent-log" THEN Lines ELSE {<<>>}
    /\ client = [c \in Caller |-> "idle"]
    /\ told = [c \in Caller |-> "nothing"]
    /\ server = [c \in Caller |-> "away"]
    /\ outcome = [c \in Caller |-> "none"]
    /\ reply = [c \in Caller |-> "none"]
    /\ listing = [c \in Caller |-> {}]
    /\ restarts = 0
    /\ done = [c \in Caller |-> 0]
    /\ calm = [c \in Caller |-> FALSE]
    /\ firm = [p \in Peer |-> "nothing"]

-----------------------------------------------------------------------------
(***************************************************************************)
(* The client: rpc, and the tool that calls it.                            *)
(***************************************************************************)
Finished(c) == server[c] \in {"away", "closed"}

Connect(c) ==
    /\ client[c] = "idle"
    /\ Command(c) # "none"
    /\ client' = [client EXCEPT ![c] = "connected"]
    /\ server' = [server EXCEPT ![c] = "backlog"]
    /\ calm' = [d \in Caller |-> IF d = c THEN \A e \in Caller : Opposed(c, e) => Finished(e)
                                 ELSE calm[d] /\ ~Opposed(c, d)]
    /\ firm' = [firm EXCEPT ![About(c)] =
                   IF {Command(c), @} = Changes THEN "nothing" ELSE @]
    /\ UNCHANGED <<records, lists, told, outcome, reply, fixed, listing, restarts, done>>

\* The call ends for the client, which has sent its request or not.
End(c, how) ==
    /\ client' = [client EXCEPT ![c] = IF @ = "waiting" THEN "gone" ELSE "left"]
    /\ told' = [told EXCEPT ![c] = how]

\* Nobody listens.
ConnectFails(c) ==
    /\ client[c] = "idle"
    /\ Command(c) # "none"
    /\ End(c, "error")
    /\ UNCHANGED <<records, lists, server, outcome, reply, fixed, listing, restarts, ghost>>

Send(c) ==
    /\ client[c] = "connected"
    /\ Command(c) # "silent"
    /\ client' = [client EXCEPT ![c] = "waiting"]
    /\ UNCHANGED <<records, lists, told, server, outcome, reply, fixed, listing,
                   restarts, ghost>>

Waits(c) == client[c] \in {"connected", "waiting"}

\* Mutant: the handler ends with its client, wherever it is.
GiveUpCancels(c) ==
    /\ Waits(c)
    /\ Command(c) # "silent"
    /\ End(c, "timeout")
    /\ server' = [server EXCEPT ![c] = "closed"]
    /\ call' = [call EXCEPT ![c] = List!Idle]
    /\ holder' = IF holder = c THEN NoCaller ELSE holder
    /\ UNCHANGED <<records, mem, file, flag, outcome, reply, fixed, listing, restarts,
                   ghost>>

\* RPC_TIMEOUT; the request stays in the socket.
GiveUp(c) ==
    /\ Waits(c)
    /\ Command(c) # "silent"
    /\ End(c, "timeout")
    /\ UNCHANGED <<records, lists, server, outcome, reply, fixed, listing, restarts,
                   ghost>>

\* The answer comes, or the end of the connection.
Hear(c) ==
    /\ Waits(c)
    /\ server[c] = "closed"
    /\ End(c, IF reply[c] = "none" THEN "eof" ELSE reply[c])
    /\ firm' = [firm EXCEPT ![About(c)] =
                   IF reply[c] \in {"added", "removed"} /\ calm[c] THEN Command(c) ELSE @]
    /\ UNCHANGED <<records, lists, server, outcome, reply, fixed, listing, restarts,
                   done, calm>>

-----------------------------------------------------------------------------
(***************************************************************************)
(* The daemon: accept_loop, handle_one, dispatch.                          *)
(***************************************************************************)
\* A handler that has not ended holds a permit.
Held == Cardinality({c \in Caller : server[c] \in {"reading", "running"}})

ServerStep(c, s) == server' = [server EXCEPT ![c] = s]

Accept(c) ==
    /\ server[c] = "backlog"
    /\ ServerStep(c, IF Held < Permits THEN "reading" ELSE "closed")
    /\ UNCHANGED <<records, lists, client, told, outcome, reply, fixed, listing,
                   restarts, ghost>>

\* The answer goes out if somebody is there to take it.
Respond(c, what) ==
    /\ ServerStep(c, "closed")
    /\ reply' = [reply EXCEPT ![c] = IF Waits(c) THEN what ELSE @]

\* What the client has sent before it left is read all the same.
Sent(c) == client[c] \in {"waiting", "gone"}

\* Mutant: the read has no time limit.
ReadForEver(c) == server[c] = "reading" /\ client[c] = "left"

\* The client has sent nothing, and has left or takes CONNECTION_READ_TIMEOUT.
ReadEnds(c) == server[c] = "reading" /\ client[c] \in {"connected", "left"}

ReadTimesOut(c) ==
    /\ ReadEnds(c)
    /\ Respond(c, "error")
    /\ UNCHANGED <<records, lists, client, told, outcome, fixed, listing, restarts, ghost>>

\* Longer than MAX_REQUEST_BYTES, no JSON, an unknown method or no peer id.
RejectRequest(c) ==
    /\ server[c] = "reading"
    /\ Sent(c)
    /\ Command(c) = "junk"
    /\ Respond(c, "error")
    /\ UNCHANGED <<records, lists, client, told, outcome, fixed, listing, restarts, ghost>>

Dispatch(c) ==
    /\ server[c] = "reading"
    /\ Sent(c)
    /\ ServerStep(c, "running")
    /\ \/ /\ Command(c) = "allow-peer"
          /\ \E i \in Info : List!AllowPeer(c, About(c), i)
          /\ UNCHANGED <<records, outcome>>
       \/ /\ Command(c) = "revoke"
          /\ List!RevokePeer(c, About(c))
          /\ UNCHANGED <<records, outcome>>
       \/ /\ Command(c) = "list-pending"
          /\ BeginScan(c)
          /\ UNCHANGED <<lists, outcome>>
       \/ /\ Command(c) = "recent-log"
          /\ outcome' = [outcome EXCEPT ![c] = "lines"]
          /\ UNCHANGED <<records, lists>>
    /\ UNCHANGED <<client, told, reply, fixed, listing, restarts, ghost>>

\* The handler's task goes from one point of AllowList to another.
Goes(c, from, to) == call[c].pc = from /\ call'[c].pc = to
Saves(c) == Goes(c, "write", "release")

\* Mutant: the error of a save is not looked at.
ResultUnchecked(c) ==
    CASE call[c].pc = "write" /\ call[c].op = "add" -> "added"
      [] call[c].pc = "write" /\ call[c].op = "remove" ->
             IF call[c].prevInfo = Absent THEN "absent" ELSE "removed"
      [] Goes(c, "recheck", "idle") -> "already"
      [] OTHER -> outcome[c]

\* What a step of the allowlist has decided for the call.
Result(c) ==
    CASE Saves(c) /\ call[c].op = "add" -> "added"
      [] Saves(c) /\ call[c].op = "remove" ->
             IF call[c].prevInfo = Absent THEN "absent" ELSE "removed"
      [] Goes(c, "write", "undo") -> "error"
      [] Goes(c, "recheck", "idle") -> "already"
      [] OTHER -> outcome[c]

ChangeList(c) ==
    /\ server[c] = "running"
    /\ List!Serve(c)
    /\ outcome' = [outcome EXCEPT ![c] = Result(c)]
    /\ done' = [done EXCEPT ![c] = IF Saves(c) THEN @ + 1 ELSE @]
    /\ UNCHANGED <<records, client, told, server, reply, fixed, listing, restarts, calm,
                   firm>>

\* A file that is not a whole entry fails the listing.
ListPending(c) ==
    /\ server[c] = "running"
    /\ Command(c) = "list-pending"
    /\ outcome[c] = "none"
    /\ \/ \E n \in Present :
              /\ ReadEntry(c, n)
              /\ outcome' = [outcome EXCEPT ![c] = IF files[n] = "torn" THEN "error" ELSE @]
              /\ UNCHANGED listing
       \/ /\ ScanComplete(c)
          /\ \E kept \in Newest(scan[c].got, Limit) : listing' = [listing EXCEPT ![c] = kept]
          /\ outcome' = [outcome EXCEPT ![c] = "entries"]
          /\ UNCHANGED records
    /\ UNCHANGED <<lists, client, told, server, reply, fixed, restarts, ghost>>

Answer(c) ==
    /\ server[c] = "running"
    /\ outcome[c] # "none"
    /\ call[c].pc = "idle"
    /\ Respond(c, outcome[c])
    /\ UNCHANGED <<records, lists, client, told, outcome, fixed, listing, restarts, ghost>>

\* The process is killed and started again, without --allow-open-all.
Restart ==
    /\ restarts < MaxRestart
    /\ restarts' = restarts + 1
    /\ List!Restart(FALSE)
    /\ UNCHANGED file
    /\ RestartRecords
    /\ server' = [c \in Caller |-> IF server[c] = "away" THEN "away" ELSE "closed"]
    /\ UNCHANGED <<client, told, outcome, reply, fixed, listing, ghost>>

-----------------------------------------------------------------------------
Client(c) == \/ Connect(c) \/ ConnectFails(c) \/ Send(c) \/ GiveUp(c) \/ Hear(c)

Handler(c) == \/ ReadTimesOut(c) \/ RejectRequest(c) \/ Dispatch(c)
              \/ ChangeList(c) \/ ListPending(c) \/ Answer(c)

\* The receive loop and the connections of other daemons, as far as some call
\* looks at what they leave.
Recording ==
    /\ \E c \in Caller : Command(c) = "list-pending"
    /\ \/ Tick \/ NotApplied \/ BeginRecord \/ Persist \/ RecordFails \/ MarkSeen
       \/ \E p \in Peer : Served(p) \/ \E f \in Path : Receive(p, f)
    /\ UNCHANGED <<lists, calls, fixed, listing, restarts, ghost>>

Next == \/ \E c \in Caller : Client(c) \/ Accept(c) \/ Handler(c)
        \/ Recording
        \/ Restart

\* The listener and its handlers go on; clients and the process are free.
Spec == Init /\ [][Next]_vars
        /\ \A c \in Caller : WF_vars(Accept(c)) /\ WF_vars(Handler(c))

-----------------------------------------------------------------------------
(***************************************************************************)
(* Properties.                                                             *)
(***************************************************************************)
Outcomes == {"none", "added", "already", "removed", "absent", "entries", "lines", "error"}

\* Every variable has its type.
TypeOK ==
    /\ List!TypeOK
    /\ RecordsTypeOK
    /\ ask \in Scenarios
    /\ logged \in Lines \cup {<<>>}
    /\ client \in [Caller -> {"idle", "connected", "waiting", "gone", "left"}]
    /\ told \in [Caller -> (Outcomes \ {"none"}) \cup {"nothing", "eof", "timeout"}]
    /\ server \in [Caller -> {"away", "backlog", "reading", "running", "closed"}]
    /\ outcome \in [Caller -> Outcomes]
    /\ reply \in [Caller -> Outcomes]
    /\ listing \in [Caller -> SUBSET Name]
    /\ restarts \in 0 .. MaxRestart
    /\ done \in [Caller -> Nat]
    /\ calm \in [Caller -> BOOLEAN]
    /\ firm \in [Peer -> Changes \cup {"nothing"}]

\* call_daemon shows everything but a result as an error.
Success(c) == told[c] \in {"added", "already", "removed", "absent", "entries", "lines"}

\* An answer tells what has happened, whatever fails and whoever gives up: a
\* change that is reported was saved once, an error that the daemon reports left
\* the list as it was, and a call that has got no answer was carried out once at
\* most.
AnswersTrue ==
    \A c \in Caller :
        /\ told[c] \in {"added", "removed", "absent"} => done[c] = 1
        /\ told[c] \in {"already", "error"} => done[c] = 0
        /\ done[c] <= 1
        /\ told[c] = "nothing" \/ Success(c) \/ told[c] \in {"error", "eof", "timeout"}

InList(l, p) == List!Load(l).peers[p] # Absent

\* An acknowledged change stands, in memory and on disk, as long as nobody calls
\* for the contrary: also when an earlier call for the same change, which its
\* client has given up, is carried out later, fails and is rolled back, and when
\* the daemon dies.
AcknowledgedStays ==
    \A p \in Peer :
        /\ firm[p] = "allow-peer" => InList(mem, p) /\ InList(file, p)
        /\ firm[p] = "revoke" => ~InList(mem, p) /\ ~InList(file, p)

\* When no save is under way, a peer that was reported to be in the list already
\* is in it, if nobody revokes anything.
AlreadyIn ==
    \A c \in Caller :
        told[c] = "already" /\ holder = NoCaller /\ (\A d \in Caller : ~Opposed(c, d)) =>
            InList(mem, About(c))

\* Every accepted connection is closed and its permit returned, also those of
\* clients that send nothing, hang or have left.
TasksEnd == \A c \in Caller : server[c] = "backlog" ~> server[c] = "closed"

\* A listing does not fail because entries are written, or a process dies,
\* meanwhile; it has every entry that was there when it began unless Limit newer
\* ones took its place.
ListingTrue ==
    \A c \in Caller : Command(c) = "list-pending" /\ outcome[c] # "none" =>
        /\ outcome[c] = "entries"
        /\ \A n \in scan[c].must \ listing[c] :
              Cardinality(listing[c]) = Limit /\ \A m \in listing[c] : m.at >= n.at

\* The time a peer was last seen does not go back while the process lives, in
\* whatever order the receive loop and the connections served report it.
SeenGrows == [][restarts' = restarts => \A p \in Peer : seen'[p] >= seen[p]]_vars

\* The allowlist is changed by whole calls, one at a time, in memory and on disk
\* alike: also when a client leaves in the middle of a save, the handler is late,
\* or the process dies between the change of the list and its save.
ListAtomic == List!Atomic

\* What recent-log shows of a line is the line without its secrets.
LogShowsNoSecrets ==
    (\E c \in Caller : told[c] = "lines") => RedactsSecrets(logged)
=============================================================================

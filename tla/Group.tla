------------------------------- MODULE Group -------------------------------
(***************************************************************************)
(* Several dirhive daemons that form a group: invite, accept-invite,       *)
(* allow-peer and revoke, the files these keep, the restart that makes a   *)
(* folder secret take effect, and the operator who deletes one to reset.   *)
(* Each RPC runs in a task of its own and takes no lock around its files;  *)
(* a step below is one load or one save.  The allowlist changes in single  *)
(* steps, which AllowList shows it does.                                   *)
(***************************************************************************)
EXTENDS Naturals

CONSTANTS
    Daemon,    \* daemons, and their endpoint ids
    Secret,    \* folder secrets that may be generated
    NoSecret,  \* folder-secret.bin does not exist
    Task,      \* tasks that serve RPCs at once in one daemon
    MaxFault,  \* bound: how many saves fail
    MaxReset   \* bound: how often operators delete a folder secret

ASSUME GroupAssumption == /\ Daemon # {} /\ Secret # {}
                          /\ NoSecret \notin Secret
                          /\ MaxFault \in Nat /\ MaxReset \in Nat

VARIABLES
    secretFile,  \* folder-secret.bin
    topic,       \* the secret of the topic the process has subscribed to
    status,      \* RuntimeStatus
    allow,       \* the allowlist, strict
    boot,        \* bootstrap-peers.json
    call,        \* the progress and the locals of each RPC
    used,        \* secrets generated so far
    tickets,     \* tickets invite has answered with, unless reset since
    accepted,    \* tickets accept-invite has accepted, unless reset since
    faults, resets

files == <<secretFile, allow, boot>>
run   == <<topic, status>>
made  == <<used, tickets, accepted, resets>>
vars  == <<files, run, call, made, faults>>

MaybeSecret == Secret \cup {NoSecret}
Ticket == [from : Daemon, secret : Secret]

Pc == {"idle", "persist", "enter", "grant", "load", "save", "answer"}
Call == [pc : Pc, op : {"invite", "accept"}, ticket : Ticket,
         peers : SUBSET Daemon]

NoCall == [pc |-> "idle", op |-> "invite",
           ticket |-> [from |-> CHOOSE d \in Daemon : TRUE,
                       secret |-> CHOOSE s \in Secret : TRUE],
           peers |-> {}]

Init ==
    /\ secretFile = [d \in Daemon |-> NoSecret]
    /\ topic = [d \in Daemon |-> NoSecret]
    /\ status = [d \in Daemon |-> "Uninitialized"]
    /\ allow = [d \in Daemon |-> {}]
    /\ boot = [d \in Daemon |-> {}]
    /\ call = [d \in Daemon |-> [t \in Task |-> NoCall]]
    /\ used = {}
    /\ tickets = {}
    /\ accepted = [d \in Daemon |-> {}]
    /\ faults = 0
    /\ resets = 0

-----------------------------------------------------------------------------
At(d, t, pc) == call[d][t].pc = pc
Goto(d, t, pc) == call' = [call EXCEPT ![d][t].pc = pc]

Begin(d, t, pc, op, tk) ==
    /\ At(d, t, "idle")
    /\ call' = [call EXCEPT ![d][t] = [NoCall EXCEPT !.pc = pc, !.op = op,
                                                     !.ticket = tk]]

\* Mutant: every invite makes a secret of its own.
InviteAlwaysFresh(d, t) ==
    /\ \E s \in Secret \ used :
         /\ Begin(d, t, "persist", "invite", [from |-> d, secret |-> s])
         /\ used' = used \cup {s}
    /\ UNCHANGED <<files, run, tickets, accepted, faults, resets>>

\* invite answers with the secret there is, and makes one if there is none.
Invite(d, t) ==
    /\ \/ /\ secretFile[d] # NoSecret
          /\ Begin(d, t, "answer", "invite", [from |-> d, secret |-> secretFile[d]])
          /\ UNCHANGED used
       \/ /\ secretFile[d] = NoSecret
          /\ \E s \in Secret \ used :
               /\ Begin(d, t, "persist", "invite", [from |-> d, secret |-> s])
               /\ used' = used \cup {s}
    /\ UNCHANGED <<files, run, tickets, accepted, faults, resets>>

\* Mutant: a secret of another group is not refused.
AcceptAnySecret(d, t, tk) ==
    /\ Begin(d, t, IF secretFile[d] = NoSecret THEN "persist" ELSE "grant",
             "accept", tk)
    /\ UNCHANGED <<files, run, made, faults>>

\* accept-invite adopts the secret of the ticket or already has it; it refuses
\* the ticket of another group.
AcceptInvite(d, t, tk) ==
    /\ secretFile[d] \in {NoSecret, tk.secret}
    /\ Begin(d, t, IF secretFile[d] = NoSecret THEN "persist" ELSE "grant",
             "accept", tk)
    /\ UNCHANGED <<files, run, made, faults>>

PersistSecret(d, t) ==
    /\ At(d, t, "persist")
    /\ secretFile' = [secretFile EXCEPT ![d] = call[d][t].ticket.secret]
    /\ Goto(d, t, "enter")
    /\ UNCHANGED <<allow, boot, run, made, faults>>

\* Mutant: only the founder's path notes that a restart is due.
EnterForInvite(d, t) ==
    /\ At(d, t, "enter")
    /\ status' = IF call[d][t].op = "invite"
                 THEN [status EXCEPT ![d] = "InitializedButNotSubscribed"]
                 ELSE status
    /\ Goto(d, t, IF call[d][t].op = "invite" THEN "answer" ELSE "grant")
    /\ UNCHANGED <<files, topic, made, faults>>

\* enter_initialized_but_not_subscribed
Enter(d, t) ==
    /\ At(d, t, "enter")
    /\ status' = [status EXCEPT ![d] = "InitializedButNotSubscribed"]
    /\ Goto(d, t, IF call[d][t].op = "invite" THEN "answer" ELSE "grant")
    /\ UNCHANGED <<files, topic, made, faults>>

GrantInviter(d, t) ==
    /\ At(d, t, "grant")
    /\ allow' = [allow EXCEPT ![d] = @ \cup {call[d][t].ticket.from}]
    /\ Goto(d, t, "load")
    /\ UNCHANGED <<secretFile, boot, run, made, faults>>

\* add_or_replace loads the list ...
LoadPeers(d, t) ==
    /\ At(d, t, "load")
    /\ call' = [call EXCEPT ![d][t].pc = "save", ![d][t].peers = boot[d]]
    /\ UNCHANGED <<files, run, made, faults>>

\* Mutant: the ticket is saved in place of the address in it.
SavePeersTicket(d, t) ==
    /\ At(d, t, "save")
    /\ boot' = [boot EXCEPT ![d] = call[d][t].peers \cup {call[d][t].ticket}]
    /\ Goto(d, t, "answer")
    /\ UNCHANGED <<secretFile, allow, run, made, faults>>

\* ... and saves what it has loaded with the inviter's address added.
SavePeers(d, t) ==
    /\ At(d, t, "save")
    /\ boot' = [boot EXCEPT ![d] = call[d][t].peers \cup {call[d][t].ticket.from}]
    /\ Goto(d, t, "answer")
    /\ UNCHANGED <<secretFile, allow, run, made, faults>>

AnswerInvite(d, t) ==
    /\ At(d, t, "answer")
    /\ call[d][t].op = "invite"
    /\ tickets' = tickets \cup {call[d][t].ticket}
    /\ Goto(d, t, "idle")
    /\ UNCHANGED <<files, run, used, accepted, faults, resets>>

AnswerAccept(d, t) ==
    /\ At(d, t, "answer")
    /\ call[d][t].op = "accept"
    /\ accepted' = [accepted EXCEPT ![d] = @ \cup {call[d][t].ticket}]
    /\ Goto(d, t, "idle")
    /\ UNCHANGED <<files, run, used, tickets, faults, resets>>

\* A save or a load fails and the RPC ends with an error; what it has saved so
\* far stays.
CallFails(d, t) ==
    /\ call[d][t].pc \in {"persist", "grant", "load", "save"}
    /\ faults < MaxFault
    /\ faults' = faults + 1
    /\ Goto(d, t, "idle")
    /\ UNCHANGED <<files, run, made>>

-----------------------------------------------------------------------------
\* The inviter's half: allow-peer works at once, without a restart.
AllowPeer(d, p) ==
    /\ allow' = [allow EXCEPT ![d] = @ \cup {p}]
    /\ UNCHANGED <<secretFile, boot, run, call, made, faults>>

Revoke(d, p) ==
    /\ allow' = [allow EXCEPT ![d] = @ \ {p}]
    /\ UNCHANGED <<secretFile, boot, run, call, made, faults>>

\* Mutant: the status follows the file, the subscription does not.
RestartKeepsTopic(d) ==
    /\ status' = [status EXCEPT ![d] = IF secretFile[d] = NoSecret
                                       THEN "Uninitialized" ELSE "Active"]
    /\ call' = [call EXCEPT ![d] = [t \in Task |-> NoCall]]
    /\ UNCHANGED <<files, topic, made, faults>>

\* The process ends, in whatever RPC it was, and main subscribes to the topic
\* of the secret it finds.
Restart(d) ==
    /\ topic' = [topic EXCEPT ![d] = secretFile[d]]
    /\ status' = [status EXCEPT ![d] = IF secretFile[d] = NoSecret
                                       THEN "Uninitialized" ELSE "Active"]
    /\ call' = [call EXCEPT ![d] = [t \in Task |-> NoCall]]
    /\ UNCHANGED <<files, made, faults>>

\* The operator deletes folder-secret.bin, as the error of accept-invite tells
\* him to, while no RPC is under way.  The process goes on as it was.
DeleteSecret(d) ==
    /\ secretFile[d] # NoSecret
    /\ \A t \in Task : At(d, t, "idle")
    /\ resets < MaxReset
    /\ resets' = resets + 1
    /\ secretFile' = [secretFile EXCEPT ![d] = NoSecret]
    /\ tickets' = {tk \in tickets : tk.from # d}
    /\ accepted' = [accepted EXCEPT ![d] = {}]
    /\ UNCHANGED <<allow, boot, run, call, used, faults>>

Rpc(d, t) ==
    \/ Invite(d, t)
    \/ \E tk \in tickets : tk.from # d /\ AcceptInvite(d, t, tk)
    \/ PersistSecret(d, t) \/ Enter(d, t) \/ GrantInviter(d, t)
    \/ LoadPeers(d, t) \/ SavePeers(d, t)
    \/ AnswerInvite(d, t) \/ AnswerAccept(d, t) \/ CallFails(d, t)

Next ==
    \/ \E d \in Daemon, t \in Task : Rpc(d, t)
    \/ \E d, p \in Daemon : d # p /\ (AllowPeer(d, p) \/ Revoke(d, p))
    \/ \E d \in Daemon : Restart(d) \/ DeleteSecret(d)

Spec == Init /\ [][Next]_vars

-----------------------------------------------------------------------------
(***************************************************************************)
(* Properties.                                                             *)
(***************************************************************************)
TypeOK ==
    /\ secretFile \in [Daemon -> MaybeSecret]
    /\ topic \in [Daemon -> MaybeSecret]
    /\ status \in [Daemon -> {"Uninitialized", "InitializedButNotSubscribed",
                              "Active"}]
    /\ allow \in [Daemon -> SUBSET Daemon]
    /\ boot \in [Daemon -> SUBSET Daemon]
    /\ call \in [Daemon -> [Task -> Call]]
    /\ used \subseteq Secret
    /\ tickets \subseteq Ticket
    /\ accepted \in [Daemon -> SUBSET Ticket]
    /\ faults \in Nat /\ resets \in Nat

\* A daemon whose secret is not that of its subscription says that it must be
\* restarted, but for the moment between saving the secret and noting it: no
\* failed RPC, reset or restart makes it forget.
RestartAsked ==
    \A d \in Daemon :
        secretFile[d] \notin {NoSecret, topic[d]} =>
            \/ status[d] = "InitializedButNotSubscribed"
            \/ \E t \in Task : At(d, t, "enter")

\* A ticket that is handed out without asking for a restart is for the topic
\* the inviter is subscribed to, so whoever accepts it finds the inviter there.
TicketUsable ==
    [][\A d \in Daemon, t \in Task :
           AnswerInvite(d, t) /\ status[d] # "InitializedButNotSubscribed"
               => topic[d] = call[d][t].ticket.secret]_vars

\* Tickets stay good: until an operator resets it, an inviter keeps the secret
\* it has put into tickets, whatever it invites and accepts later.
TicketsStayValid == \A tk \in tickets : secretFile[tk.from] = tk.secret

\* An accept-invite that was answered with success has left its secret and the
\* inviter's address for every later start, whatever other tickets are accepted
\* afterwards.
AcceptedIsComplete ==
    \A d \in Daemon : \A tk \in accepted[d] :
        /\ secretFile[d] = tk.secret
        /\ tk.from \in boot[d]

\* When an invitation has been accepted and neither side asks for a restart any
\* more, both are on the topic of the ticket: the two cannot be waiting in
\* different meshes while each says that all is well.
GroupMeets ==
    \A d \in Daemon : \A tk \in accepted[d] \cap tickets :
        "InitializedButNotSubscribed" \notin {status[d], status[tk.from]}
            => topic[d] = tk.secret /\ topic[tk.from] = tk.secret
=============================================================================

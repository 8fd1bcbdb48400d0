---------------------------- MODULE ControlChannel ----------------------------
(***************************************************************************)
(* The control channel: ipc/PipeServer (accept thread, one thread for each *)
(* connection, broadcast, stop) and ipc/ControlClient (pending replies,    *)
(* reader thread, reconnection) with the pipes between them.               *)
(*                                                                         *)
(* A frame is its request's id, or StatusEvent; what a status says is left *)
(* out.  A write to a pipe goes through when the pipe has room, and        *)
(* otherwise pends until it has, until stop() or until writeTimeoutMs.     *)
(***************************************************************************)
EXTENDS Naturals, Sequences, FiniteSets

CONSTANTS
  Clients,      \* processes with a ControlClient: trays and consoles
  Consoles,     \* those whose callbacks run on the reader thread (the CLI)
  Careless,     \* those that may stop reading for longer than writeTimeoutMs
  Pipes,        \* instances of the pipe
  Worker,       \* the engine's thread, which broadcasts after a pass
  Nobody,       \* no thread: a lock that is free
  Closed,       \* a client's pipe: none is open
  Broken,       \* a client's pipe: the server has closed its end
  MaxClients,   \* connections served at once (16 in the code)
  Capacity,     \* frames a pipe holds
  MaxCalls      \* requests a client makes

ASSUME ChannelAssumption ==
  /\ Consoles \subseteq Clients
  /\ Careless \subseteq Clients
  /\ {Worker, Nobody, Closed, Broken} \cap Pipes = {}
  /\ Worker # Nobody
  /\ Closed # Broken
  /\ MaxClients \in Nat \ {0}
  /\ Capacity \in Nat \ {0}
  /\ MaxCalls \in Nat \ {0}

Ids == 1..MaxCalls
None == 0           \* no request
StatusEvent == 0    \* the frame of a broadcast, or of an internal error: no request's reply
Frames == Ids \cup {StatusEvent}
Broadcasters == Pipes \cup {Worker}

Posted == [what : {"made", "lost", "jobDone"}, id : {None}] \cup [what : {"reply"}, id : Ids]
Post(what) == [what |-> what, id |-> None]

VARIABLES
  server,           \* how far PipeServer::stop has got
  accepting,        \* the accept thread runs, and so a pipe instance listens
  connections,      \* the connections the server lists
  phase,            \* what each connection's thread does
  request,          \* the request it is handling
  inbox, outbox,    \* frames in each pipe, to the server and to the client
  thrown,           \* history: the requests on it that the handler has thrown at
  connectionsLock,
  controlLock,      \* ServiceHost's: one command at a time
  worker,           \* the engine's thread: is it publishing?
  todo,             \* pipes a broadcast in progress has not reached
  pipe,             \* the pipe each client has open
  queue,            \* what its reader has posted and its callbacks not handled
  connecting,       \* a connect() is in progress, or its end is posted
  connected,        \* what the client has been told of the connection
  nextId, pending,  \* nextId_ and pending_
  sending,          \* the request send() is about to write
  answers           \* history: how often each request's callback has run

serverVars == <<server, accepting, connections, phase, request, connectionsLock, controlLock, worker, todo>>
pipes == <<inbox, outbox, thrown>>
link == <<pipe, queue, connecting, connected>>
calling == <<nextId, pending, sending, answers>>
vars == <<serverVars, pipes, link, calling>>

Phases == {"free", "knocked", "read", "handle", "publish", "broadcast", "snapshot", "answer", "finished"}

TypeOK ==
  /\ server \in {"running", "stopping", "joining", "stopped"}
  /\ accepting \in BOOLEAN
  /\ connections \in SUBSET Pipes
  /\ phase \in [Pipes -> Phases]
  /\ request \in [Pipes -> Ids \cup {None}]
  /\ inbox \in [Pipes -> Seq(Ids)]
  /\ outbox \in [Pipes -> Seq(Frames)]
  /\ thrown \in [Pipes -> SUBSET (Ids \cup {None})]
  /\ connectionsLock \in Broadcasters \cup {Nobody}
  /\ controlLock \in Pipes \cup {Nobody}
  /\ worker \in {"idle", "broadcast"}
  /\ todo \in [Broadcasters -> SUBSET Pipes]
  /\ pipe \in [Clients -> Pipes \cup {Closed, Broken}]
  /\ queue \in [Clients -> Seq(Posted)]
  /\ connecting \in [Clients -> {"no", "job", "posted"}]
  /\ connected \in [Clients -> BOOLEAN]
  /\ nextId \in [Clients -> 1..(MaxCalls + 1)]
  /\ pending \in [Clients -> SUBSET Ids]
  /\ sending \in [Clients -> Ids \cup {None}]
  /\ answers \in [Clients -> [Ids -> Nat]]

Init ==
  /\ server = "running"
  /\ accepting = TRUE
  /\ connections = {}
  /\ phase = [p \in Pipes |-> "free"]
  /\ request = [p \in Pipes |-> None]
  /\ inbox = [p \in Pipes |-> <<>>]
  /\ outbox = [p \in Pipes |-> <<>>]
  /\ thrown = [p \in Pipes |-> {}]
  /\ connectionsLock = Nobody
  /\ controlLock = Nobody
  /\ worker = "idle"
  /\ todo = [t \in Broadcasters |-> {}]
  /\ pipe = [c \in Clients |-> Closed]
  /\ queue = [c \in Clients |-> <<>>]
  /\ connecting = [c \in Clients |-> "no"]
  /\ connected = [c \in Clients |-> FALSE]
  /\ nextId = [c \in Clients |-> 1]
  /\ pending = [c \in Clients |-> {}]
  /\ sending = [c \in Clients |-> None]
  /\ answers = [c \in Clients |-> [i \in Ids |-> 0]]

Stopping == server # "running"
Gone(p) == \A c \in Clients : pipe[c] # p
Fits(p) == ~Gone(p) /\ Len(outbox[p]) < Capacity
(* A write that fails: the client is gone, or the pipe is full and the     *)
(* server stops or the time is up.                                         *)
Fails(p) ==
  \/ Gone(p)
  \/ Len(outbox[p]) = Capacity /\ (Stopping \/ \E c \in Careless : pipe[c] = p)

(* The server closes its end of these pipes: what they hold is lost.       *)
Disconnect(gone) ==
  /\ inbox' = [p \in Pipes |-> IF p \in gone THEN <<>> ELSE inbox[p]]
  /\ outbox' = [p \in Pipes |-> IF p \in gone THEN <<>> ELSE outbox[p]]
  /\ thrown' = [p \in Pipes |-> IF p \in gone THEN {} ELSE thrown[p]]
  /\ pipe' = [c \in Clients |-> IF pipe[c] \in gone THEN Broken ELSE pipe[c]]
  /\ UNCHANGED <<queue, connecting, connected>>

-----------------------------------------------------------------------------
(* The accept thread: run().                                               *)

Knocking == {p \in Pipes : phase[p] = "knocked"}
Finished == {p \in connections : phase[p] = "finished"}

(* Mutant of Accept: the list is changed without connectionsLock.          *)
AcceptUnlocked ==
  /\ accepting
  /\ \E p \in Knocking :
       LET dropped == Finished \cup (IF Cardinality(connections \ Finished) < MaxClients THEN {} ELSE {p})
       IN /\ connections' = (connections \cup {p}) \ dropped
          /\ phase' = [q \in Pipes |-> IF q \in dropped THEN "free" ELSE IF q = p THEN "read" ELSE phase[q]]
          /\ Disconnect(dropped)
  /\ UNCHANGED <<server, accepting, request, connectionsLock, controlLock, worker, todo, calling>>

(* Finished connections are joined and destroyed; a client too many is     *)
(* turned away; any other is served.                                       *)
Accept ==
  /\ accepting
  /\ connectionsLock = Nobody
  /\ \E p \in Knocking :
       LET dropped == Finished \cup (IF Cardinality(connections \ Finished) < MaxClients THEN {} ELSE {p})
       IN /\ connections' = (connections \cup {p}) \ dropped
          /\ phase' = [q \in Pipes |-> IF q \in dropped THEN "free" ELSE IF q = p THEN "read" ELSE phase[q]]
          /\ Disconnect(dropped)
  /\ UNCHANGED <<server, accepting, request, connectionsLock, controlLock, worker, todo, calling>>

(* The stop event; the instance that listened is closed.                   *)
AcceptEnds ==
  /\ accepting
  /\ Stopping
  /\ accepting' = FALSE
  /\ phase' = [p \in Pipes |-> IF p \in Knocking THEN "free" ELSE phase[p]]
  /\ Disconnect(Knocking)
  /\ UNCHANGED <<server, connections, request, connectionsLock, controlLock, worker, todo, calling>>

-----------------------------------------------------------------------------
(* A connection's thread: Connection::run.                                 *)

Moves(p, here, there) == phase[p] = here /\ phase' = [phase EXCEPT ![p] = there]

Read(p) ==
  /\ inbox[p] # <<>>
  /\ Moves(p, "read", "handle")
  /\ request' = [request EXCEPT ![p] = Head(inbox[p])]
  /\ inbox' = [inbox EXCEPT ![p] = Tail(@)]
  /\ UNCHANGED <<server, accepting, connections, connectionsLock, controlLock, worker, todo,
                 outbox, thrown, link, calling>>

(* Mutant of ReadEnds: the pending read does not wait for the stop event.  *)
ReadEndsWithClient(p) ==
  /\ inbox[p] = <<>>
  /\ Gone(p)
  /\ Moves(p, "read", "finished")
  /\ UNCHANGED <<server, accepting, connections, request, connectionsLock, controlLock, worker, todo,
                 pipes, link, calling>>

(* Requests that have arrived are still read.                              *)
ReadEnds(p) ==
  /\ inbox[p] = <<>>
  /\ Gone(p) \/ Stopping
  /\ Moves(p, "read", "finished")
  /\ UNCHANGED <<server, accepting, connections, request, connectionsLock, controlLock, worker, todo,
                 pipes, link, calling>>

(* ServiceHost::apply: a command that publishes keeps controlLock_ while   *)
(* it does; any other, and every command of a stopping host, does not.     *)
Apply(p) ==
  /\ controlLock = Nobody
  /\ \/ ~Stopping /\ Moves(p, "handle", "publish") /\ controlLock' = p
     \/ Moves(p, "handle", "snapshot") /\ UNCHANGED controlLock
  /\ UNCHANGED <<server, accepting, connections, request, connectionsLock, worker, todo,
                 pipes, link, calling>>

(* The reply carries a status, which counts the connections.               *)
Snapshot(p) ==
  /\ connectionsLock = Nobody
  /\ Moves(p, "snapshot", "answer")
  /\ UNCHANGED <<server, accepting, connections, request, connectionsLock, controlLock, worker, todo,
                 pipes, link, calling>>

(* The handler throws, wherever it is: its locks are released, and the      *)
(* answer to nobody's request, "internal error", keeps the connection.      *)
Throws(p) ==
  /\ phase[p] \in {"handle", "publish", "broadcast", "snapshot"}
  /\ phase' = [phase EXCEPT ![p] = "answer"]
  /\ request' = [request EXCEPT ![p] = None]
  /\ thrown' = [thrown EXCEPT ![p] = @ \cup {request[p]}]
  /\ controlLock' = IF controlLock = p THEN Nobody ELSE controlLock
  /\ connectionsLock' = IF connectionsLock = p THEN Nobody ELSE connectionsLock
  /\ todo' = [todo EXCEPT ![p] = {}]
  /\ UNCHANGED <<server, accepting, connections, worker, inbox, outbox, link, calling>>

Answer(p) ==
  /\ Fits(p)
  /\ Moves(p, "answer", "read")
  /\ outbox' = [outbox EXCEPT ![p] = Append(@, request[p])]
  /\ request' = [request EXCEPT ![p] = None]
  /\ UNCHANGED <<server, accepting, connections, connectionsLock, controlLock, worker, todo,
                 inbox, thrown, link, calling>>

AnswerFails(p) ==
  /\ Fails(p)
  /\ Moves(p, "answer", "finished")
  /\ request' = [request EXCEPT ![p] = None]
  /\ UNCHANGED <<server, accepting, connections, connectionsLock, controlLock, worker, todo,
                 pipes, link, calling>>

-----------------------------------------------------------------------------
(* broadcast(), by a command's thread or the engine's.                     *)

BroadcastBegins(t) ==
  /\ connectionsLock = Nobody
  /\ connectionsLock' = t
  /\ todo' = [todo EXCEPT ![t] = connections]
  /\ UNCHANGED <<server, accepting, connections, request, controlLock, pipes, link, calling>>

(* In the middle of a command.                                             *)
CommandPublishes(p) ==
  /\ Moves(p, "publish", "broadcast")
  /\ BroadcastBegins(p)
  /\ UNCHANGED worker

(* A pass ends: scanCompleted.                                             *)
WorkerPublishes ==
  /\ worker = "idle"
  /\ server # "stopped"
  /\ worker' = "broadcast"
  /\ BroadcastBegins(Worker)
  /\ UNCHANGED phase

(* Mutant of BroadcastTo: a write may pend for as long as the pipe is full. *)
BroadcastForever(t) ==
  /\ \E p \in todo[t] :
       /\ todo' = [todo EXCEPT ![t] = @ \ {p}]
       /\ \/ (phase[p] = "finished" \/ Gone(p)) /\ UNCHANGED outbox
          \/ /\ phase[p] # "finished" /\ Fits(p)
             /\ outbox' = [outbox EXCEPT ![p] = Append(@, StatusEvent)]
  /\ UNCHANGED <<server, accepting, connections, phase, request, connectionsLock, controlLock, worker,
                 inbox, thrown, link, calling>>

(* A write that fails is nobody's problem.                                 *)
BroadcastTo(t) ==
  /\ \E p \in todo[t] :
       /\ todo' = [todo EXCEPT ![t] = @ \ {p}]
       /\ \/ (phase[p] = "finished" \/ Fails(p)) /\ UNCHANGED outbox
          \/ /\ phase[p] # "finished" /\ Fits(p)
             /\ outbox' = [outbox EXCEPT ![p] = Append(@, StatusEvent)]
  /\ UNCHANGED <<server, accepting, connections, phase, request, connectionsLock, controlLock, worker,
                 inbox, thrown, link, calling>>

BroadcastEnds(t) ==
  /\ connectionsLock = t
  /\ todo[t] = {}
  /\ connectionsLock' = Nobody
  /\ IF t = Worker
       THEN worker' = "idle" /\ UNCHANGED <<phase, controlLock>>
       ELSE Moves(t, "broadcast", "snapshot") /\ controlLock' = Nobody /\ UNCHANGED worker
  /\ UNCHANGED <<server, accepting, connections, request, todo, pipes, link, calling>>

BroadcastStep(t) == BroadcastTo(t) \/ BroadcastEnds(t)

ConnectionStep(p) ==
  \/ Read(p)
  \/ ReadEnds(p)
  \/ Apply(p)
  \/ Snapshot(p)
  \/ Answer(p)
  \/ AnswerFails(p)
  \/ CommandPublishes(p)
  \/ BroadcastStep(p)

-----------------------------------------------------------------------------
(* stop(), and the next start of the service.                              *)

StopBegins ==
  /\ server = "running"
  /\ server' = "stopping"
  /\ UNCHANGED <<accepting, connections, phase, request, connectionsLock, controlLock, worker, todo,
                 pipes, link, calling>>

StopSwaps ==
  /\ server = "stopping"
  /\ ~accepting
  /\ connectionsLock = Nobody
  /\ server' = "joining"
  /\ connections' = {}
  /\ UNCHANGED <<accepting, phase, request, connectionsLock, controlLock, worker, todo,
                 pipes, link, calling>>

StopJoins ==
  /\ server = "joining"
  /\ \A p \in Pipes : phase[p] \in {"free", "finished"}
  /\ server' = "stopped"
  /\ phase' = [p \in Pipes |-> "free"]
  /\ Disconnect(Pipes)
  /\ UNCHANGED <<accepting, connections, request, connectionsLock, controlLock, worker, todo, calling>>

StopStep == StopSwaps \/ StopJoins

Start ==
  /\ server = "stopped"
  /\ worker = "idle"
  /\ server' = "running"
  /\ accepting' = TRUE
  /\ UNCHANGED <<connections, phase, request, connectionsLock, controlLock, worker, todo,
                 pipes, link, calling>>

-----------------------------------------------------------------------------
(* A client: connecting, and its reader thread.                            *)

Posts(c, posted) == queue' = [queue EXCEPT ![c] = @ \o posted]

(* The tray's timer: connect() may take a while and runs in the background. *)
Connect(c) ==
  /\ c \notin Consoles
  /\ connecting[c] = "no"
  /\ pipe[c] = Closed
  /\ sending[c] = None
  /\ connecting' = [connecting EXCEPT ![c] = "job"]
  /\ UNCHANGED <<serverVars, pipes, pipe, queue, connected, calling>>

Listening == accepting /\ Knocking = {} /\ \E p \in Pipes : phase[p] = "free"

Knock(c) ==
  /\ Listening
  /\ LET p == CHOOSE p \in Pipes : phase[p] = "free"
     IN phase' = [phase EXCEPT ![p] = "knocked"] /\ pipe' = [pipe EXCEPT ![c] = p]
  /\ UNCHANGED <<server, accepting, connections, request, connectionsLock, controlLock, worker, todo,
                 pipes, connected, calling>>

(* A console waits for it (and for a reader thread of before), and has no  *)
(* listener to tell.  MaxCalls bounds its connections too: it has a call   *)
(* to make.                                                                *)
ConsoleConnects(c) ==
  /\ c \in Consoles
  /\ nextId[c] \in Ids
  /\ pipe[c] = Closed
  /\ queue[c] = <<>>
  /\ sending[c] = None
  /\ Knock(c)
  /\ UNCHANGED <<queue, connecting>>

JobConnects(c) ==
  /\ connecting[c] = "job"
  /\ Knock(c)
  /\ connecting' = [connecting EXCEPT ![c] = "posted"]
  /\ Posts(c, <<Post("made"), Post("jobDone")>>)

JobFails(c) ==
  /\ connecting[c] = "job"
  /\ ~Listening
  /\ connecting' = [connecting EXCEPT ![c] = "posted"]
  /\ Posts(c, <<Post("jobDone")>>)
  /\ UNCHANGED <<serverVars, pipes, pipe, connected, calling>>

(* Mutant of Reads: a status is taken for a reply.                         *)
ReadsReplies(c) ==
  /\ \E p \in Pipes :
       /\ pipe[c] = p
       /\ outbox[p] # <<>>
       /\ outbox' = [outbox EXCEPT ![p] = Tail(@)]
       /\ Posts(c, <<[what |-> "reply", id |-> Head(outbox[p])]>>)
  /\ UNCHANGED <<serverVars, inbox, thrown, pipe, connecting, connected, calling>>

(* A status is shown and changes nothing here.                             *)
Reads(c) ==
  /\ \E p \in Pipes :
       /\ pipe[c] = p
       /\ outbox[p] # <<>>
       /\ outbox' = [outbox EXCEPT ![p] = Tail(@)]
       /\ Posts(c, IF Head(outbox[p]) = StatusEvent THEN <<>>
                   ELSE <<[what |-> "reply", id |-> Head(outbox[p])]>>)
  /\ UNCHANGED <<serverVars, inbox, thrown, pipe, connecting, connected, calling>>

(* Mutant of Loses: only a client that has been told of it loses it.       *)
LosesKnown(c) ==
  /\ pipe[c] = Broken
  /\ pipe' = [pipe EXCEPT ![c] = Closed]
  /\ Posts(c, IF connected[c] THEN <<Post("lost")>> ELSE <<>>)
  /\ UNCHANGED <<serverVars, pipes, connecting, connected, calling>>

Loses(c) ==
  /\ pipe[c] = Broken
  /\ pipe' = [pipe EXCEPT ![c] = Closed]
  /\ Posts(c, <<Post("lost")>>)
  /\ UNCHANGED <<serverVars, pipes, connecting, connected, calling>>

-----------------------------------------------------------------------------
(* Requests and callbacks.  Those of a tray run on its message thread, one *)
(* at a time; a console's on the reader thread, in the middle of a send().  *)

(* The callbacks of these requests run.                                    *)
Answered(c, ids) == answers' = [answers EXCEPT ![c] = [i \in Ids |-> IF i \in ids THEN @[i] + 1 ELSE @[i]]]

(* send(): an id and an entry in pending_...                               *)
Register(c) ==
  /\ sending[c] = None
  /\ nextId[c] \in Ids
  /\ sending' = [sending EXCEPT ![c] = nextId[c]]
  /\ pending' = [pending EXCEPT ![c] = @ \cup {nextId[c]}]
  /\ nextId' = [nextId EXCEPT ![c] = @ + 1]
  /\ UNCHANGED answers

Call(c) ==
  /\ Register(c)
  /\ UNCHANGED <<serverVars, pipes, link>>

(* Mutant of Transmit: the entry of before is left out of account.         *)
TransmitAnswersAnyway(c) ==
  LET id == sending[c]
  IN /\ id # None
     /\ sending' = [sending EXCEPT ![c] = None]
     /\ IF pipe[c] \in Pipes
          THEN inbox' = [inbox EXCEPT ![pipe[c]] = Append(@, id)] /\ UNCHANGED <<pending, answers>>
          ELSE pending' = [pending EXCEPT ![c] = @ \ {id}] /\ Answered(c, {id}) /\ UNCHANGED inbox
     /\ UNCHANGED <<serverVars, outbox, thrown, link, nextId>>

(* ...and then the write, or else the entry is taken back, if it is there. *)
Transmit(c) ==
  LET id == sending[c]
  IN /\ id # None
     /\ sending' = [sending EXCEPT ![c] = None]
     /\ IF pipe[c] \in Pipes
          THEN inbox' = [inbox EXCEPT ![pipe[c]] = Append(@, id)] /\ UNCHANGED <<pending, answers>>
          ELSE /\ pending' = [pending EXCEPT ![c] = @ \ {id}]
               /\ Answered(c, pending[c] \cap {id})
               /\ UNCHANGED inbox
     /\ UNCHANGED <<serverVars, outbox, thrown, link, nextId>>

Handles(c, what) ==
  /\ queue[c] # <<>>
  /\ Head(queue[c]).what = what
  /\ sending[c] = None \/ c \in Consoles
  /\ queue' = [queue EXCEPT ![c] = Tail(@)]

(* connectionMade: the tray asks for the status at once.                   *)
HandlesMade(c) ==
  /\ Handles(c, "made")
  /\ connected' = [connected EXCEPT ![c] = TRUE]
  /\ IF nextId[c] \in Ids THEN Register(c) ELSE UNCHANGED calling
  /\ UNCHANGED <<serverVars, pipes, pipe, connecting>>

(* connectionLost, failAllPending.                                         *)
HandlesLost(c) ==
  /\ Handles(c, "lost")
  /\ connected' = [connected EXCEPT ![c] = FALSE]
  /\ Answered(c, pending[c])
  /\ pending' = [pending EXCEPT ![c] = {}]
  /\ UNCHANGED <<serverVars, pipes, pipe, connecting, nextId, sending>>

HandlesJobDone(c) ==
  /\ Handles(c, "jobDone")
  /\ connecting' = [connecting EXCEPT ![c] = "no"]
  /\ UNCHANGED <<serverVars, pipes, pipe, connected, calling>>

(* messageReceived: a reply nobody waits for any more is dropped.          *)
HandlesReply(c) ==
  /\ Handles(c, "reply")
  /\ LET id == Head(queue[c]).id
     IN Answered(c, pending[c] \cap {id}) /\ pending' = [pending EXCEPT ![c] = @ \ {id}]
  /\ UNCHANGED <<serverVars, pipes, pipe, connecting, connected, nextId, sending>>

(* ~ControlClient: the process ends; another may begin.                    *)
Quit(c) ==
  /\ c \in Consoles
  /\ sending[c] = None
  /\ pipe[c] # Closed
  /\ pipe' = [pipe EXCEPT ![c] = Closed]
  /\ queue' = [queue EXCEPT ![c] = <<>>]
  /\ Answered(c, pending[c])
  /\ pending' = [pending EXCEPT ![c] = {}]
  /\ UNCHANGED <<serverVars, pipes, connecting, connected, nextId, sending>>

ClientStep(c) ==
  \/ JobConnects(c)
  \/ JobFails(c)
  \/ Loses(c)
  \/ Transmit(c)
  \/ HandlesMade(c)
  \/ HandlesLost(c)
  \/ HandlesJobDone(c)
  \/ HandlesReply(c)

Next ==
  \/ Accept
  \/ AcceptEnds
  \/ \E p \in Pipes : ConnectionStep(p) \/ Throws(p)
  \/ BroadcastStep(Worker)
  \/ WorkerPublishes
  \/ StopBegins
  \/ StopStep
  \/ Start
  \/ \E c \in Clients : Connect(c) \/ ConsoleConnects(c) \/ Reads(c) \/ Call(c) \/ Quit(c) \/ ClientStep(c)

(* Threads run; a client that is not careless reads and handles what was   *)
(* posted; locks and a place in a pipe, which others take for moments, are *)
(* not missed for ever.  Nobody owes a connection, a request, a pass, a    *)
(* stop or a start, and a careless client owes nothing.                    *)
Fairness ==
  /\ SF_vars(Accept)
  /\ WF_vars(AcceptEnds)
  /\ \A p \in Pipes : SF_vars(ConnectionStep(p))
  /\ WF_vars(BroadcastStep(Worker))
  /\ SF_vars(StopStep)
  /\ \A c \in Clients \ Careless : WF_vars(Reads(c)) /\ WF_vars(ClientStep(c))

Spec == Init /\ [][Next]_vars
FairSpec == Spec /\ Fairness

-----------------------------------------------------------------------------
(* Properties.                                                             *)

(* No request's callback runs twice, though a reply, a lost connection, a  *)
(* failed write and the end of the process all race to run it              *)
(* (ControlClient.h, send, messageReceived, failAllPending).               *)
AnsweredOnce == \A c \in Clients : \A id \in Ids : answers[c][id] <= 1

(* A broadcast never writes to a connection that is destroyed              *)
(* (connectionsLock, reapFinishedLocked, stop).                            *)
BroadcastsAreSafe ==
  \A t \in Broadcasters : \A p \in todo[t] : phase[p] \notin {"free", "knocked"}

(* Every request of a client that reads is answered, whatever becomes of   *)
(* the connection and however long another client does not read, except    *)
(* while the connection lasts on which the service answered "internal      *)
(* error" without saying to what (ControlClient::send, failAllPending,     *)
(* Connection::run, Connection::send, writeTimeoutMs).                     *)
CallsReturn ==
  \A c \in Clients \ Careless : \A id \in Ids :
    id < nextId[c] ~> answers[c][id] # 0 \/ (pipe[c] \in Pipes /\ id \in thrown[pipe[c]])

(* stop() never hangs: every pending read and write ends (PipeServer.h).   *)
StopNeverHangs == server = "stopping" ~> server = "stopped"

(* When a tray has handled all that was posted, it shows whether it has a  *)
(* connection, though the connection may have gone before the tray was     *)
(* told that it came (connectionMade, connectionLost, setConnected).       *)
TrayKnows ==
  \A c \in Clients \ Consoles :
    queue[c] = <<>> => (connected[c] <=> pipe[c] # Closed)
=============================================================================

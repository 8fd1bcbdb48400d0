-------------------------- MODULE ControlChannelProofs --------------------------
(***************************************************************************)
(* Proofs about ControlChannel for any clients, pipes, connections at      *)
(* once, room in a pipe and number of requests.                            *)
(***************************************************************************)
EXTENDS ControlChannel, TLAPS

(* Closing a server's end keeps the types of what it changes.              *)
LEMMA DisconnectType ==
  ASSUME TypeOK, NEW gone \in SUBSET Pipes, Disconnect(gone)
  PROVE  /\ inbox' \in [Pipes -> Seq(Ids)]
         /\ outbox' \in [Pipes -> Seq(Frames)]
         /\ thrown' \in [Pipes -> SUBSET (Ids \cup {None})]
         /\ pipe' \in [Clients -> Pipes \cup {Closed, Broken}]
         /\ UNCHANGED <<queue, connecting, connected>>
<1>1. inbox' \in [Pipes -> Seq(Ids)]
  BY DEF Disconnect, TypeOK
<1>2. outbox' \in [Pipes -> Seq(Frames)]
  BY DEF Disconnect, TypeOK
<1>3. pipe' \in [Clients -> Pipes \cup {Closed, Broken}]
  BY DEF Disconnect, TypeOK
<1>4. thrown' \in [Pipes -> SUBSET (Ids \cup {None})]
  BY DEF Disconnect, TypeOK
<1>. QED
  BY <1>1, <1>2, <1>3, <1>4 DEF Disconnect

(* What is posted is a sequence of records of Posted.                      *)
LEMMA PostsType ==
  ASSUME TypeOK, NEW c \in Clients, NEW posted \in Seq(Posted), Posts(c, posted)
  PROVE  queue' \in [Clients -> Seq(Posted)]
BY DEF Posts, TypeOK

LEMMA HandlesType ==
  ASSUME TypeOK, NEW c \in Clients, NEW what, Handles(c, what)
  PROVE  /\ queue' \in [Clients -> Seq(Posted)]
         /\ Head(queue[c]) \in Posted
         /\ Head(queue[c]).what = what
BY DEF Handles, TypeOK

LEMMA AnsweredType ==
  ASSUME TypeOK, NEW c \in Clients, NEW ids, Answered(c, ids)
  PROVE  answers' \in [Clients -> [Ids -> Nat]]
<1>. DEFINE after == [i \in Ids |-> IF i \in ids THEN answers[c][i] + 1 ELSE answers[c][i]]
<1>1. answers \in [Clients -> [Ids -> Nat]]
  BY DEF TypeOK
<1>2. answers[c] \in [Ids -> Nat]
  BY <1>1
<1>3. after \in [Ids -> Nat]
  BY <1>2
<1>4. answers' = [answers EXCEPT ![c] = after]
  BY DEF Answered
<1>. HIDE DEF after
<1>. QED
  BY <1>1, <1>3, <1>4

LEMMA RegisterType ==
  ASSUME TypeOK, NEW c \in Clients, Register(c)
  PROVE  /\ nextId' \in [Clients -> 1..(MaxCalls + 1)]
         /\ pending' \in [Clients -> SUBSET Ids]
         /\ sending' \in [Clients -> Ids \cup {None}]
         /\ answers' \in [Clients -> [Ids -> Nat]]
<1>1. nextId[c] + 1 \in 1..(MaxCalls + 1)
  BY ChannelAssumption DEF Register, TypeOK, Ids
<1>. QED
  BY <1>1 DEF Register, TypeOK

-----------------------------------------------------------------------------
(* Types, one thread at a time.                                            *)

LEMMA AcceptTypes ==
  ASSUME TypeOK, Accept \/ AcceptEnds
  PROVE  TypeOK'
<1>. USE DEF serverVars, pipes, link, calling, Phases
<1>1. CASE Accept
  <2>. PICK p \in Knocking :
         LET dropped == Finished \cup (IF Cardinality(connections \ Finished) < MaxClients THEN {} ELSE {p})
         IN /\ connections' = (connections \cup {p}) \ dropped
            /\ phase' = [q \in Pipes |-> IF q \in dropped THEN "free" ELSE IF q = p THEN "read" ELSE phase[q]]
            /\ Disconnect(dropped)
    BY <1>1 DEF Accept
  <2>. DEFINE dropped == Finished \cup (IF Cardinality(connections \ Finished) < MaxClients THEN {} ELSE {p})
  <2>1. dropped \in SUBSET Pipes /\ Disconnect(dropped)
    BY DEF Finished, Knocking, TypeOK
  <2>2. /\ inbox' \in [Pipes -> Seq(Ids)]
        /\ outbox' \in [Pipes -> Seq(Frames)]
        /\ thrown' \in [Pipes -> SUBSET (Ids \cup {None})]
        /\ pipe' \in [Clients -> Pipes \cup {Closed, Broken}]
        /\ UNCHANGED <<queue, connecting, connected>>
    <3>. HIDE DEF dropped
    <3>. QED BY <2>1, DisconnectType
  <2>3. connections' \in SUBSET Pipes
    BY DEF TypeOK, Knocking
  <2>4. phase' \in [Pipes -> Phases]
    BY DEF TypeOK
  <2>. QED
    BY <1>1, <2>2, <2>3, <2>4 DEF Accept, TypeOK
<1>2. CASE AcceptEnds
  <2>1. Knocking \in SUBSET Pipes /\ Disconnect(Knocking)
    BY <1>2 DEF AcceptEnds, Knocking
  <2>2. /\ inbox' \in [Pipes -> Seq(Ids)]
        /\ outbox' \in [Pipes -> Seq(Frames)]
        /\ thrown' \in [Pipes -> SUBSET (Ids \cup {None})]
        /\ pipe' \in [Clients -> Pipes \cup {Closed, Broken}]
        /\ UNCHANGED <<queue, connecting, connected>>
    BY <2>1, DisconnectType
  <2>3. phase' \in [Pipes -> Phases]
    BY <1>2 DEF AcceptEnds, TypeOK
  <2>. QED
    BY <1>2, <2>2, <2>3 DEF AcceptEnds, TypeOK
<1>. QED
  BY <1>1, <1>2

LEMMA BroadcastTypes ==
  ASSUME TypeOK, NEW t \in Broadcasters, BroadcastStep(t)
  PROVE  TypeOK'
<1>. USE DEF serverVars, pipes, link, calling, Phases, Broadcasters
<1>1. CASE BroadcastTo(t)
  <2>1. todo' \in [Broadcasters -> SUBSET Pipes]
    BY <1>1 DEF BroadcastTo, TypeOK
  <2>2. outbox' \in [Pipes -> Seq(Frames)]
    <3>1. PICK p \in Pipes : \/ UNCHANGED outbox
                            \/ outbox' = [outbox EXCEPT ![p] = Append(@, StatusEvent)]
      BY <1>1 DEF BroadcastTo, TypeOK
    <3>2. outbox \in [Pipes -> Seq(Frames)]
      BY DEF TypeOK
    <3>3. Append(outbox[p], StatusEvent) \in Seq(Frames)
      BY <3>2 DEF Frames
    <3>. QED
      BY <3>1, <3>2, <3>3
  <2>. QED
    BY <1>1, <2>1, <2>2 DEF BroadcastTo, TypeOK
<1>2. CASE BroadcastEnds(t)
  BY <1>2, ChannelAssumption DEF BroadcastEnds, Moves, TypeOK
<1>. QED
  BY <1>1, <1>2 DEF BroadcastStep

LEMMA ConnectionTypes ==
  ASSUME TypeOK, NEW p \in Pipes, ConnectionStep(p) \/ Throws(p)
  PROVE  TypeOK'
<1>. USE DEF serverVars, pipes, link, calling, Phases, Broadcasters, Moves
<1>1. CASE Read(p)
  <2>1. Head(inbox[p]) \in Ids /\ Tail(inbox[p]) \in Seq(Ids)
    BY <1>1 DEF Read, TypeOK
  <2>. QED
    BY <1>1, <2>1 DEF Read, TypeOK
<1>2. CASE ReadEnds(p)
  BY <1>2 DEF ReadEnds, TypeOK
<1>3. CASE Apply(p)
  BY <1>3 DEF Apply, TypeOK
<1>4. CASE Snapshot(p)
  BY <1>4 DEF Snapshot, TypeOK
<1>5. CASE Answer(p)
  <2>1. Append(outbox[p], request[p]) \in Seq(Frames)
    BY DEF TypeOK, Frames, None, StatusEvent
  <2>. QED
    BY <1>5, <2>1 DEF Answer, TypeOK
<1>6. CASE AnswerFails(p)
  BY <1>6 DEF AnswerFails, TypeOK
<1>7. CASE CommandPublishes(p)
  BY <1>7 DEF CommandPublishes, BroadcastBegins, TypeOK
<1>8. CASE BroadcastStep(p)
  BY <1>8, BroadcastTypes
<1>9. CASE Throws(p)
  BY <1>9 DEF Throws, TypeOK
<1>. QED
  BY <1>1, <1>2, <1>3, <1>4, <1>5, <1>6, <1>7, <1>8, <1>9 DEF ConnectionStep

LEMMA ServiceTypes ==
  ASSUME TypeOK, WorkerPublishes \/ StopBegins \/ StopStep \/ Start
  PROVE  TypeOK'
<1>. USE DEF serverVars, pipes, link, calling, Phases, Broadcasters
<1>1. CASE WorkerPublishes
  BY <1>1 DEF WorkerPublishes, BroadcastBegins, TypeOK
<1>2. CASE StopBegins
  BY <1>2 DEF StopBegins, TypeOK
<1>3. CASE StopSwaps
  BY <1>3 DEF StopSwaps, TypeOK
<1>4. CASE StopJoins
  <2>1. /\ inbox' \in [Pipes -> Seq(Ids)]
        /\ outbox' \in [Pipes -> Seq(Frames)]
        /\ thrown' \in [Pipes -> SUBSET (Ids \cup {None})]
        /\ pipe' \in [Clients -> Pipes \cup {Closed, Broken}]
        /\ UNCHANGED <<queue, connecting, connected>>
    BY <1>4, DisconnectType DEF StopJoins
  <2>. QED
    BY <1>4, <2>1 DEF StopJoins, TypeOK
<1>5. CASE Start
  BY <1>5 DEF Start, TypeOK
<1>. QED
  BY <1>1, <1>2, <1>3, <1>4, <1>5 DEF StopStep

LEMMA KnockTypes ==
  ASSUME TypeOK, NEW c \in Clients, Knock(c)
  PROVE  /\ phase' \in [Pipes -> Phases]
         /\ pipe' \in [Clients -> Pipes \cup {Closed, Broken}]
<1>. DEFINE p == CHOOSE p \in Pipes : phase[p] = "free"
<1>1. p \in Pipes
  BY DEF Knock, Listening
<1>. QED
  BY <1>1 DEF Knock, TypeOK, Phases

LEMMA ClientTypes ==
  ASSUME TypeOK, NEW c \in Clients,
         Connect(c) \/ ConsoleConnects(c) \/ Reads(c) \/ Call(c) \/ Quit(c) \/ ClientStep(c)
  PROVE  TypeOK'
<1>. USE DEF serverVars, pipes, link, calling
<1>. /\ <<Post("made"), Post("jobDone")>> \in Seq(Posted)
     /\ <<Post("jobDone")>> \in Seq(Posted)
     /\ <<Post("lost")>> \in Seq(Posted)
  <2>1. /\ Post("made") \in Posted
        /\ Post("lost") \in Posted
        /\ Post("jobDone") \in Posted
    BY DEF Post, Posted
  <2>. QED
    BY <2>1
<1>1. CASE Connect(c)
  BY <1>1 DEF Connect, TypeOK
<1>2. CASE ConsoleConnects(c)
  BY <1>2, KnockTypes DEF ConsoleConnects, Knock, TypeOK
<1>3. CASE Reads(c)
  <2>. PICK p \in Pipes :
         /\ pipe[c] = p
         /\ outbox[p] # <<>>
         /\ outbox' = [outbox EXCEPT ![p] = Tail(@)]
         /\ Posts(c, IF Head(outbox[p]) = StatusEvent THEN <<>>
                     ELSE <<[what |-> "reply", id |-> Head(outbox[p])]>>)
    BY <1>3 DEF Reads
  <2>. DEFINE posted == IF Head(outbox[p]) = StatusEvent THEN <<>>
                        ELSE <<[what |-> "reply", id |-> Head(outbox[p])]>>
  <2>1. Head(outbox[p]) \in Frames /\ Tail(outbox[p]) \in Seq(Frames)
    BY DEF TypeOK
  <2>2. posted \in Seq(Posted)
    <3>1. CASE Head(outbox[p]) = StatusEvent
      BY <3>1
    <3>2. CASE Head(outbox[p]) # StatusEvent
      <4>1. [what |-> "reply", id |-> Head(outbox[p])] \in Posted
        BY <2>1, <3>2 DEF Frames, Posted
      <4>. QED
        BY <3>2, <4>1
    <3>. QED
      BY <3>1, <3>2
  <2>3. queue' \in [Clients -> Seq(Posted)]
    <3>. HIDE DEF posted
    <3>1. Posts(c, posted)
      BY DEF posted
    <3>. QED BY <2>2, <3>1, PostsType
  <2>4. outbox' \in [Pipes -> Seq(Frames)]
    BY <2>1 DEF TypeOK
  <2>. QED
    BY <1>3, <2>3, <2>4 DEF Reads, TypeOK
<1>4. CASE Call(c)
  BY <1>4, RegisterType DEF Call, TypeOK
<1>5. CASE Quit(c)
  <2>1. answers' \in [Clients -> [Ids -> Nat]]
    BY <1>5, AnsweredType DEF Quit
  <2>2. queue' \in [Clients -> Seq(Posted)]
    BY <1>5 DEF Quit, TypeOK
  <2>. QED
    BY <1>5, <2>1, <2>2 DEF Quit, TypeOK
<1>6. CASE JobConnects(c)
  <2>1. queue' \in [Clients -> Seq(Posted)]
    BY <1>6, PostsType DEF JobConnects
  <2>. QED
    BY <1>6, <2>1, KnockTypes DEF JobConnects, Knock, TypeOK
<1>7. CASE JobFails(c)
  <2>1. queue' \in [Clients -> Seq(Posted)]
    BY <1>7, PostsType DEF JobFails
  <2>. QED
    BY <1>7, <2>1 DEF JobFails, TypeOK
<1>8. CASE Loses(c)
  <2>1. queue' \in [Clients -> Seq(Posted)]
    BY <1>8, PostsType DEF Loses
  <2>. QED
    BY <1>8, <2>1 DEF Loses, TypeOK
<1>9. CASE Transmit(c)
  <2>1. sending[c] \in Ids
    BY <1>9 DEF Transmit, TypeOK
  <2>2. sending' \in [Clients -> Ids \cup {None}]
    BY <1>9 DEF Transmit, TypeOK
  <2>3. CASE pipe[c] \in Pipes
    <3>1. Append(inbox[pipe[c]], sending[c]) \in Seq(Ids)
      BY <2>1, <2>3 DEF TypeOK
    <3>2. /\ inbox' = [inbox EXCEPT ![pipe[c]] = Append(inbox[pipe[c]], sending[c])]
          /\ UNCHANGED <<pending, answers>>
      BY <1>9, <2>3 DEF Transmit
    <3>3. inbox \in [Pipes -> Seq(Ids)]
      BY DEF TypeOK
    <3>4. inbox' \in [Pipes -> Seq(Ids)]
      BY <2>3, <3>1, <3>2, <3>3
    <3>5. UNCHANGED <<serverVars, outbox, thrown, link, nextId>>
      BY <1>9 DEF Transmit
    <3>. QED
      BY <2>2, <3>2, <3>4, <3>5 DEF TypeOK
  <2>4. CASE pipe[c] \notin Pipes
    <3>1. answers' \in [Clients -> [Ids -> Nat]]
      BY <1>9, <2>4, AnsweredType DEF Transmit
    <3>2. pending' \in [Clients -> SUBSET Ids]
      <4>1. pending' = [pending EXCEPT ![c] = pending[c] \ {sending[c]}]
        BY <1>9, <2>4 DEF Transmit
      <4>2. pending \in [Clients -> SUBSET Ids] /\ pending[c] \ {sending[c]} \in SUBSET Ids
        BY DEF TypeOK
      <4>. QED
        BY <4>1, <4>2
    <3>3. UNCHANGED <<serverVars, pipes, link, nextId>>
      BY <1>9, <2>4 DEF Transmit
    <3>. QED
      BY <2>2, <3>1, <3>2, <3>3 DEF TypeOK
  <2>. QED
    BY <2>3, <2>4
<1>10. CASE HandlesMade(c)
  <2>1. queue' \in [Clients -> Seq(Posted)]
    BY <1>10, HandlesType DEF HandlesMade
  <2>2. CASE nextId[c] \in Ids
    BY <1>10, <2>1, <2>2, RegisterType DEF HandlesMade, TypeOK
  <2>3. CASE nextId[c] \notin Ids
    BY <1>10, <2>1, <2>3 DEF HandlesMade, TypeOK
  <2>. QED
    BY <2>2, <2>3
<1>11. CASE HandlesLost(c)
  <2>1. queue' \in [Clients -> Seq(Posted)]
    BY <1>11, HandlesType DEF HandlesLost
  <2>2. answers' \in [Clients -> [Ids -> Nat]]
    BY <1>11, AnsweredType DEF HandlesLost
  <2>. QED
    BY <1>11, <2>1, <2>2 DEF HandlesLost, TypeOK
<1>12. CASE HandlesJobDone(c)
  <2>1. queue' \in [Clients -> Seq(Posted)]
    BY <1>12, HandlesType DEF HandlesJobDone
  <2>. QED
    BY <1>12, <2>1 DEF HandlesJobDone, TypeOK
<1>13. CASE HandlesReply(c)
  <2>1. queue' \in [Clients -> Seq(Posted)]
    BY <1>13, HandlesType DEF HandlesReply
  <2>2. answers' \in [Clients -> [Ids -> Nat]]
    BY <1>13, AnsweredType DEF HandlesReply
  <2>. QED
    BY <1>13, <2>1, <2>2 DEF HandlesReply, TypeOK
<1>. QED
  BY <1>1, <1>2, <1>3, <1>4, <1>5, <1>6, <1>7, <1>8, <1>9, <1>10, <1>11, <1>12, <1>13 DEF ClientStep

(* Every variable keeps its type.                                          *)
LEMMA TypeStep ==
  ASSUME TypeOK, [Next]_vars
  PROVE  TypeOK'
<1>1. CASE Next
  BY <1>1, AcceptTypes, ConnectionTypes, BroadcastTypes, ServiceTypes, ClientTypes
  DEF Next, Broadcasters
<1>2. CASE UNCHANGED vars
  BY <1>2 DEF TypeOK, vars, serverVars, pipes, link, calling
<1>. QED
  BY <1>1, <1>2

LEMMA TypeInit == Init => TypeOK
<1>. SUFFICES ASSUME Init PROVE TypeOK
  OBVIOUS
<1>. USE DEF Init
<1>1. /\ inbox \in [Pipes -> Seq(Ids)]
      /\ outbox \in [Pipes -> Seq(Frames)]
      /\ queue \in [Clients -> Seq(Posted)]
  OBVIOUS
<1>2. answers \in [Clients -> [Ids -> Nat]]
  OBVIOUS
<1>3. nextId \in [Clients -> 1..(MaxCalls + 1)]
  BY ChannelAssumption
<1>. QED
  BY <1>1, <1>2, <1>3 DEF TypeOK, Phases, Broadcasters

(* Every variable keeps its type, whatever the constants.                  *)
THEOREM TypeCorrect == Spec => []TypeOK
<1>. QED
  BY TypeInit, TypeStep, PTL DEF Spec

-----------------------------------------------------------------------------
(* Broadcasts.  Whoever still has pipes to write to holds connectionsLock, *)
(* and while it does nobody changes the list; a listed connection is alive *)
(* until the list loses it; stop() joins connections only when the list is *)
(* empty and nobody can add to it.                                         *)
ListInv ==
  /\ \A t \in Broadcasters : todo[t] # {} => connectionsLock = t
  /\ \A t \in Broadcasters : todo[t] \subseteq connections
  /\ \A p \in connections : phase[p] \notin {"free", "knocked"}
  /\ server \in {"joining", "stopped"} => connections = {} /\ ~accepting

LEMMA ListInit == Init => ListInv
BY DEF Init, ListInv

LEMMA ListStep ==
  ASSUME TypeOK, ListInv, [Next]_vars
  PROVE  ListInv'
<1>. USE DEF serverVars
<1>. Nobody \notin Broadcasters
  BY ChannelAssumption DEF Broadcasters
<1>1. CASE Accept
  <2>. PICK p \in Knocking :
         LET dropped == Finished \cup (IF Cardinality(connections \ Finished) < MaxClients THEN {} ELSE {p})
         IN /\ connections' = (connections \cup {p}) \ dropped
            /\ phase' = [q \in Pipes |-> IF q \in dropped THEN "free" ELSE IF q = p THEN "read" ELSE phase[q]]
    BY <1>1 DEF Accept
  <2>. DEFINE dropped == Finished \cup (IF Cardinality(connections \ Finished) < MaxClients THEN {} ELSE {p})
  <2>1. \A t \in Broadcasters : todo[t] = {}
    BY <1>1 DEF Accept, ListInv
  <2>2. UNCHANGED <<server, accepting, connectionsLock, todo>> /\ accepting
    BY <1>1 DEF Accept
  <2>3. \A q \in connections' : phase'[q] \notin {"free", "knocked"}
    <3>1. p \in Pipes
      BY DEF Knocking
    <3>2. \A q \in connections' : q \in Pipes /\ q \notin dropped /\ (q = p \/ q \in connections)
      BY <3>1 DEF TypeOK
    <3>. HIDE DEF dropped
    <3>. QED
      BY <3>1, <3>2 DEF ListInv
  <2>. QED
    BY <2>1, <2>2, <2>3 DEF ListInv
<1>2. CASE AcceptEnds
  BY <1>2 DEF AcceptEnds, ListInv, TypeOK, Knocking
<1>3. ASSUME NEW p \in Pipes, ConnectionStep(p) \/ Throws(p)
      PROVE  ListInv'
  <2>. USE DEF Moves, ListInv, TypeOK, Broadcasters
  <2>1. CASE Read(p)
    BY <2>1 DEF Read
  <2>2. CASE ReadEnds(p)
    BY <2>2 DEF ReadEnds
  <2>3. CASE Apply(p)
    BY <2>3 DEF Apply
  <2>4. CASE Snapshot(p)
    BY <2>4 DEF Snapshot
  <2>5. CASE Answer(p)
    BY <2>5 DEF Answer
  <2>6. CASE AnswerFails(p)
    BY <2>6 DEF AnswerFails
  <2>7. CASE CommandPublishes(p)
    BY <2>7 DEF CommandPublishes, BroadcastBegins
  <2>8. CASE BroadcastTo(p)
    BY <2>8 DEF BroadcastTo
  <2>9. CASE BroadcastEnds(p)
    BY <2>9, ChannelAssumption DEF BroadcastEnds
  <2>10. CASE Throws(p)
    BY <2>10 DEF Throws
  <2>. QED
    BY <1>3, <2>1, <2>2, <2>3, <2>4, <2>5, <2>6, <2>7, <2>8, <2>9, <2>10 DEF ConnectionStep, BroadcastStep
<1>4. CASE BroadcastStep(Worker)
  BY <1>4 DEF BroadcastStep, BroadcastTo, BroadcastEnds, ListInv, TypeOK, Broadcasters
<1>5. CASE WorkerPublishes
  BY <1>5 DEF WorkerPublishes, BroadcastBegins, ListInv, TypeOK, Broadcasters
<1>6. CASE StopBegins
  BY <1>6 DEF StopBegins, ListInv
<1>7. CASE StopSwaps
  BY <1>7 DEF StopSwaps, ListInv
<1>8. CASE StopJoins
  BY <1>8 DEF StopJoins, ListInv
<1>9. CASE Start
  BY <1>9 DEF Start, ListInv
<1>10. ASSUME NEW c \in Clients, Knock(c)
       PROVE  ListInv'
  <2>. DEFINE p == CHOOSE p \in Pipes : phase[p] = "free"
  <2>1. p \in Pipes /\ phase[p] = "free" /\ phase' = [phase EXCEPT ![p] = "knocked"]
    BY <1>10 DEF Knock, Listening
  <2>2. UNCHANGED <<server, accepting, connections, connectionsLock, todo>>
    BY <1>10 DEF Knock
  <2>. HIDE DEF p
  <2>. QED
    BY <2>1, <2>2 DEF ListInv, TypeOK
<1>11. ASSUME NEW c \in Clients,
              Connect(c) \/ ConsoleConnects(c) \/ Reads(c) \/ Call(c) \/ Quit(c) \/ ClientStep(c)
       PROVE  ListInv'
  <2>1. CASE ConsoleConnects(c) \/ JobConnects(c)
    BY <1>10, <2>1 DEF ConsoleConnects, JobConnects
  <2>2. CASE UNCHANGED serverVars
    BY <2>2 DEF ListInv
  <2>. QED
    BY <1>11, <2>1, <2>2 DEF Connect, Reads, Call, Quit, ClientStep, JobFails, Loses, Transmit,
       HandlesMade, HandlesLost, HandlesJobDone, HandlesReply
<1>12. CASE UNCHANGED vars
  BY <1>12 DEF vars, ListInv
<1>. QED
  BY <1>1, <1>2, <1>3, <1>4, <1>5, <1>6, <1>7, <1>8, <1>9, <1>11, <1>12 DEF Next, StopStep

(* A broadcast in progress never writes to a connection that accept or     *)
(* stop() has destroyed, for any number of connections and clients.        *)
THEOREM BroadcastSafety == Spec => []BroadcastsAreSafe
<1>1. ListInv => BroadcastsAreSafe
  BY DEF ListInv, BroadcastsAreSafe
<1>. QED
  BY <1>1, TypeInit, TypeStep, ListInit, ListStep, PTL DEF Spec

-----------------------------------------------------------------------------
(* Replies.  An id in pending_ has not been answered, and neither has one  *)
(* that has not been handed out: running a callback takes the id out of    *)
(* pending_ in the same step.                                              *)
OnceInv ==
  \A c \in Clients : \A id \in Ids :
    /\ answers[c][id] <= 1
    /\ id \in pending[c] => answers[c][id] = 0
    /\ nextId[c] <= id => id \notin pending[c] /\ answers[c][id] = 0

LEMMA OnceInit == Init => OnceInv
BY ChannelAssumption DEF Init, OnceInv, Ids

(* Callbacks of pending requests run as their ids leave pending_.          *)
LEMMA AnsweringOnce ==
  ASSUME TypeOK, OnceInv, NEW c \in Clients, NEW ids \in SUBSET pending[c], NEW gone,
         Answered(c, ids), pending' = [pending EXCEPT ![c] = @ \ gone],
         ids \subseteq gone, UNCHANGED nextId
  PROVE  OnceInv'
<1>. SUFFICES ASSUME NEW d \in Clients, NEW id \in Ids
              PROVE  /\ answers'[d][id] <= 1
                     /\ id \in pending'[d] => answers'[d][id] = 0
                     /\ nextId'[d] <= id => id \notin pending'[d] /\ answers'[d][id] = 0
  BY DEF OnceInv
<1>1. /\ answers[d][id] \in Nat
      /\ answers[d][id] <= 1
      /\ id \in pending[d] => answers[d][id] = 0
      /\ nextId[d] <= id => id \notin pending[d] /\ answers[d][id] = 0
  BY DEF OnceInv, TypeOK
<1>2. /\ answers \in [Clients -> [Ids -> Nat]]
      /\ pending \in [Clients -> SUBSET Ids]
  BY DEF TypeOK
<1>3. answers'[d][id] = IF d = c /\ id \in ids THEN answers[d][id] + 1 ELSE answers[d][id]
  BY <1>2 DEF Answered
<1>4. pending'[d] = IF d = c THEN pending[d] \ gone ELSE pending[d]
  BY <1>2
<1>. QED
  BY <1>1, <1>3, <1>4

LEMMA RegisteringOnce ==
  ASSUME TypeOK, OnceInv, NEW c \in Clients, Register(c)
  PROVE  OnceInv'
<1>. SUFFICES ASSUME NEW d \in Clients, NEW id \in Ids
              PROVE  /\ answers'[d][id] <= 1
                     /\ id \in pending'[d] => answers'[d][id] = 0
                     /\ nextId'[d] <= id => id \notin pending'[d] /\ answers'[d][id] = 0
  BY DEF OnceInv
<1>1. /\ answers[d][id] <= 1
      /\ id \in pending[d] => answers[d][id] = 0
      /\ nextId[d] <= id => id \notin pending[d] /\ answers[d][id] = 0
      /\ nextId[d] \in Nat
      /\ id \in Nat
  BY ChannelAssumption DEF OnceInv, TypeOK, Ids
<1>2. /\ pending'[d] = IF d = c THEN pending[d] \cup {nextId[d]} ELSE pending[d]
      /\ nextId'[d] = IF d = c THEN nextId[d] + 1 ELSE nextId[d]
      /\ UNCHANGED answers
  BY DEF Register, TypeOK
<1>. QED
  BY <1>1, <1>2

LEMMA OnceStep ==
  ASSUME TypeOK, OnceInv, [Next]_vars
  PROVE  OnceInv'
<1>1. CASE UNCHANGED <<nextId, pending, answers>>
  BY <1>1 DEF OnceInv
<1>2. ASSUME NEW c \in Clients, ClientStep(c)
      PROVE  OnceInv'
  <2>1. CASE JobConnects(c) \/ JobFails(c) \/ Loses(c) \/ HandlesJobDone(c)
    BY <1>1, <2>1 DEF JobConnects, Knock, JobFails, Loses, HandlesJobDone, calling
  <2>2. CASE Transmit(c)
    <3>1. CASE pipe[c] \in Pipes
      BY <1>1, <2>2, <3>1 DEF Transmit
    <3>2. CASE pipe[c] \notin Pipes
      BY <2>2, <3>2, AnsweringOnce DEF Transmit
    <3>. QED
      BY <3>1, <3>2
  <2>3. CASE HandlesMade(c)
    <3>1. CASE nextId[c] \in Ids
      BY <2>3, <3>1, RegisteringOnce DEF HandlesMade
    <3>2. CASE nextId[c] \notin Ids
      BY <1>1, <2>3, <3>2 DEF HandlesMade, calling
    <3>. QED
      BY <3>1, <3>2
  <2>4. CASE HandlesLost(c)
    <3>1. pending' = [pending EXCEPT ![c] = @ \ pending[c]]
      BY <2>4 DEF HandlesLost
    <3>. QED
      BY <2>4, <3>1, AnsweringOnce DEF HandlesLost
  <2>5. CASE HandlesReply(c)
    BY <2>5, AnsweringOnce DEF HandlesReply
  <2>. QED
    BY <1>2, <2>1, <2>2, <2>3, <2>4, <2>5 DEF ClientStep
<1>3. ASSUME NEW c \in Clients, Quit(c)
      PROVE  OnceInv'
  <2>1. pending' = [pending EXCEPT ![c] = @ \ pending[c]]
    BY <1>3 DEF Quit
  <2>. QED
    BY <1>3, <2>1, AnsweringOnce DEF Quit
<1>4. ASSUME NEW c \in Clients, Call(c)
      PROVE  OnceInv'
  BY <1>4, RegisteringOnce DEF Call
<1>5. ASSUME NEW c \in Clients, Connect(c) \/ ConsoleConnects(c) \/ Reads(c)
      PROVE  OnceInv'
  BY <1>1, <1>5 DEF Connect, ConsoleConnects, Knock, Reads, calling
<1>6. ASSUME NEW p \in Pipes, ConnectionStep(p) \/ Throws(p)
      PROVE  UNCHANGED <<nextId, pending, answers>>
  BY <1>6 DEF ConnectionStep, Throws, BroadcastStep, Read, ReadEnds, Apply, Snapshot, Answer, AnswerFails,
     CommandPublishes, BroadcastBegins, BroadcastTo, BroadcastEnds, calling
<1>7. CASE Accept \/ AcceptEnds \/ BroadcastStep(Worker) \/ WorkerPublishes \/ StopBegins \/ StopStep \/ Start
  BY <1>1, <1>7 DEF Accept, AcceptEnds, BroadcastStep, BroadcastTo, BroadcastEnds, BroadcastBegins,
     WorkerPublishes, StopBegins, StopStep, StopSwaps, StopJoins, Start, calling
<1>8. CASE UNCHANGED vars
  BY <1>1, <1>8 DEF vars, calling
<1>. QED
  BY <1>1, <1>2, <1>3, <1>4, <1>5, <1>6, <1>7, <1>8 DEF Next

(* No request's callback runs twice, for any number of clients and calls.  *)
THEOREM RepliesOnce == Spec => []AnsweredOnce
<1>1. OnceInv => AnsweredOnce
  BY DEF OnceInv, AnsweredOnce
<1>. QED
  BY <1>1, TypeInit, TypeStep, OnceInit, OnceStep, PTL DEF Spec

-----------------------------------------------------------------------------
(* What a tray shows.  The last "made" or "lost" posted is about the pipe  *)
(* as it is; when none is left to handle, connected is.                    *)
Tells(posted) == posted.what \in {"made", "lost"}

Shows(told, q, open) ==
  /\ (\A i \in 1..Len(q) : ~Tells(q[i])) => (told <=> open)
  /\ \A i \in 1..Len(q) :
       Tells(q[i]) /\ (\A j \in (i + 1)..Len(q) : ~Tells(q[j])) => (q[i].what = "made" <=> open)

LinkInv ==
  \A c \in Clients \ Consoles : Shows(connected[c], queue[c], pipe[c] # Closed)

(* Posting anything else changes nothing of it...                          *)
LEMMA ShowsPosted ==
  ASSUME NEW told \in BOOLEAN, NEW open \in BOOLEAN, NEW q \in Seq(Posted), NEW x \in Posted,
         ~Tells(x), Shows(told, q, open)
  PROVE  Shows(told, Append(q, x), open)
<1>. DEFINE r == Append(q, x)
<1>1. /\ Len(q) \in Nat
      /\ Len(r) = Len(q) + 1
      /\ r[Len(q) + 1] = x
      /\ \A i \in 1..Len(q) : r[i] = q[i]
  OBVIOUS
<1>. HIDE DEF r
<1>2. ASSUME \A i \in 1..Len(r) : ~Tells(r[i])
      PROVE  told <=> open
  <2>1. \A i \in 1..Len(q) : ~Tells(q[i])
    BY <1>1, <1>2
  <2>. QED
    BY <2>1 DEF Shows
<1>3. ASSUME NEW i \in 1..Len(r), Tells(r[i]), \A j \in (i + 1)..Len(r) : ~Tells(r[j])
      PROVE  r[i].what = "made" <=> open
  <2>1. i \in 1..Len(q) /\ r[i] = q[i]
    BY <1>1, <1>3
  <2>2. \A j \in (i + 1)..Len(q) : ~Tells(q[j])
    BY <1>1, <1>3, <2>1
  <2>. QED
    BY <1>3, <2>1, <2>2 DEF Shows
<1>4. Shows(told, r, open)
  BY <1>2, <1>3 DEF Shows
<1>. QED
  BY <1>4 DEF r

(* ...and posting "made" or "lost" says how the pipe is from now on.       *)
LEMMA ShowsTold ==
  ASSUME NEW told \in BOOLEAN, NEW q \in Seq(Posted), NEW x \in Posted, Tells(x),
         NEW open \in BOOLEAN, open <=> x.what = "made"
  PROVE  Shows(told, Append(q, x), open)
<1>. DEFINE r == Append(q, x)
<1>1. /\ Len(q) \in Nat
      /\ Len(r) = Len(q) + 1
      /\ r[Len(q) + 1] = x
  OBVIOUS
<1>. HIDE DEF r
<1>2. ~ \A i \in 1..Len(r) : ~Tells(r[i])
  BY <1>1
<1>3. ASSUME NEW i \in 1..Len(r), Tells(r[i]), \A j \in (i + 1)..Len(r) : ~Tells(r[j])
      PROVE  r[i].what = "made" <=> open
  <2>1. i = Len(q) + 1
    BY <1>1, <1>3
  <2>. QED
    BY <1>1, <2>1
<1>4. Shows(told, r, open)
  BY <1>2, <1>3 DEF Shows
<1>. QED
  BY <1>4 DEF r

(* Handling what was posted first.                                         *)
LEMMA ShowsHandled ==
  ASSUME NEW told \in BOOLEAN, NEW open \in BOOLEAN, NEW q \in Seq(Posted), q # <<>>,
         Shows(told, q, open), NEW after \in BOOLEAN,
         after <=> IF Tells(Head(q)) THEN Head(q).what = "made" ELSE told
  PROVE  Shows(after, Tail(q), open)
<1>. DEFINE r == Tail(q)
<1>1. /\ Len(q) \in Nat \ {0}
      /\ Len(r) = Len(q) - 1
      /\ Head(q) = q[1]
      /\ \A i \in 1..Len(r) : r[i] = q[i + 1]
  OBVIOUS
<1>. HIDE DEF r
<1>2. ASSUME \A i \in 1..Len(r) : ~Tells(r[i])
      PROVE  after <=> open
  <2>1. \A i \in 2..Len(q) : ~Tells(q[i])
    <3>. SUFFICES ASSUME NEW i \in 2..Len(q) PROVE ~Tells(q[i])
      OBVIOUS
    <3>1. i - 1 \in 1..Len(r) /\ r[i - 1] = q[i]
      BY <1>1
    <3>. QED
      BY <1>2, <3>1
  <2>2. CASE Tells(q[1])
    <3>1. q[1].what = "made" <=> open
      BY <1>1, <2>1, <2>2 DEF Shows
    <3>. QED
      BY <1>1, <2>2, <3>1
  <2>3. CASE ~Tells(q[1])
    <3>1. \A i \in 1..Len(q) : ~Tells(q[i])
      BY <1>1, <2>1, <2>3
    <3>2. told <=> open
      BY <3>1 DEF Shows
    <3>. QED
      BY <1>1, <2>3, <3>2
  <2>. QED
    BY <2>2, <2>3
<1>3. ASSUME NEW i \in 1..Len(r), Tells(r[i]), \A j \in (i + 1)..Len(r) : ~Tells(r[j])
      PROVE  r[i].what = "made" <=> open
  <2>1. i + 1 \in 1..Len(q) /\ r[i] = q[i + 1]
    BY <1>1
  <2>2. \A j \in (i + 2)..Len(q) : ~Tells(q[j])
    <3>. SUFFICES ASSUME NEW j \in (i + 2)..Len(q) PROVE ~Tells(q[j])
      OBVIOUS
    <3>1. j - 1 \in (i + 1)..Len(r) /\ r[j - 1] = q[j]
      BY <1>1
    <3>. QED
      BY <1>3, <3>1
  <2>. QED
    BY <1>1, <1>3, <2>1, <2>2 DEF Shows
<1>4. Shows(after, r, open)
  BY <1>2, <1>3 DEF Shows
<1>. QED
  BY <1>4 DEF r

LEMMA LinkInit == Init => LinkInv
<1>. SUFFICES ASSUME Init, NEW c \in Clients \ Consoles
              PROVE  Shows(connected[c], queue[c], pipe[c] # Closed)
  BY DEF LinkInv
<1>1. queue[c] = <<>> /\ connected[c] = FALSE /\ pipe[c] = Closed
  BY DEF Init
<1>. QED
  BY <1>1 DEF Shows

LEMMA LinkStep ==
  ASSUME TypeOK, LinkInv, [Next]_vars
  PROVE  LinkInv'
<1>. SUFFICES ASSUME NEW c \in Clients \ Consoles
              PROVE  Shows(connected'[c], queue'[c], pipe'[c] # Closed)
  BY DEF LinkInv
<1>1. /\ queue[c] \in Seq(Posted)
      /\ connected \in [Clients -> BOOLEAN]
      /\ connected[c] \in BOOLEAN
      /\ queue \in [Clients -> Seq(Posted)]
      /\ pipe \in [Clients -> Pipes \cup {Closed, Broken}]
      /\ Shows(connected[c], queue[c], pipe[c] # Closed)
  BY DEF TypeOK, LinkInv
<1>2. CASE /\ queue'[c] = queue[c]
           /\ connected'[c] = connected[c]
           /\ pipe'[c] # Closed <=> pipe[c] # Closed
  BY <1>1, <1>2 DEF Shows
<1>3. ASSUME NEW gone \in SUBSET Pipes, Disconnect(gone)
      PROVE  Shows(connected'[c], queue'[c], pipe'[c] # Closed)
  <2>1. pipe'[c] = IF pipe[c] \in gone THEN Broken ELSE pipe[c]
    BY <1>3 DEF Disconnect
  <2>2. UNCHANGED <<queue, connected>>
    BY <1>3 DEF Disconnect
  <2>. QED
    BY <1>2, <2>1, <2>2, ChannelAssumption
<1>4. CASE Accept \/ AcceptEnds \/ StopStep
  <2>1. CASE Accept
    <3>. PICK p \in Knocking :
           Disconnect(Finished \cup (IF Cardinality(connections \ Finished) < MaxClients THEN {} ELSE {p}))
      BY <2>1 DEF Accept
    <3>1. Finished \cup (IF Cardinality(connections \ Finished) < MaxClients THEN {} ELSE {p}) \in SUBSET Pipes
      BY DEF Finished, Knocking, TypeOK
    <3>. QED
      BY <1>3, <3>1
  <2>2. CASE AcceptEnds
    BY <1>3, <2>2 DEF AcceptEnds, Knocking
  <2>3. CASE StopSwaps
    BY <1>2, <2>3 DEF StopSwaps, link
  <2>4. CASE StopJoins
    BY <1>3, <2>4 DEF StopJoins
  <2>. QED
    BY <1>4, <2>1, <2>2, <2>3, <2>4 DEF StopStep
<1>5. ASSUME NEW p \in Pipes, ConnectionStep(p) \/ Throws(p)
      PROVE  UNCHANGED link
  BY <1>5 DEF ConnectionStep, BroadcastStep, Read, ReadEnds, Apply, Snapshot, Answer, AnswerFails, Throws,
     CommandPublishes, BroadcastBegins, BroadcastTo, BroadcastEnds
<1>6. CASE UNCHANGED link
  BY <1>2, <1>6 DEF link
<1>7. CASE BroadcastStep(Worker) \/ WorkerPublishes \/ StopBegins \/ Start
  BY <1>6, <1>7 DEF BroadcastStep, BroadcastTo, BroadcastEnds, BroadcastBegins, WorkerPublishes,
     StopBegins, Start
<1>8. ASSUME NEW d \in Clients, Connect(d) \/ ConsoleConnects(d) \/ Reads(d) \/ Call(d) \/ Quit(d)
      PROVE  Shows(connected'[c], queue'[c], pipe'[c] # Closed)
  <2>1. CASE Connect(d)
    BY <1>2, <2>1 DEF Connect
  <2>2. CASE ConsoleConnects(d)
    BY <1>1, <1>2, <2>2 DEF ConsoleConnects, Knock
  <2>3. CASE Call(d)
    BY <1>6, <2>3 DEF Call
  <2>4. CASE Quit(d)
    BY <1>1, <1>2, <2>4 DEF Quit
  <2>5. CASE Reads(d)
    <3>. PICK p \in Pipes :
           Posts(d, IF Head(outbox[p]) = StatusEvent THEN <<>>
                    ELSE <<[what |-> "reply", id |-> Head(outbox[p])]>>) /\ pipe[d] = p /\ outbox[p] # <<>>
      BY <2>5 DEF Reads
    <3>1. UNCHANGED <<pipe, connected>>
      BY <2>5 DEF Reads
    <3>2. CASE d # c \/ Head(outbox[p]) = StatusEvent
      <4>1. queue'[c] = queue[c]
        BY <1>1, <3>2 DEF Posts
      <4>. QED
        BY <1>2, <3>1, <4>1
    <3>3. CASE d = c /\ Head(outbox[p]) # StatusEvent
      <4>. DEFINE x == [what |-> "reply", id |-> Head(outbox[p])]
      <4>1. Head(outbox[p]) \in Frames
        BY DEF TypeOK
      <4>2. x \in Posted /\ ~Tells(x)
        BY <3>3, <4>1 DEF Posted, Frames, Tells
      <4>3. queue'[c] = queue[c] \o <<x>>
        BY <1>1, <3>3 DEF Posts
      <4>. HIDE DEF x
      <4>4. queue'[c] = Append(queue[c], x)
        BY <1>1, <4>2, <4>3
      <4>5. (pipe[c] # Closed) \in BOOLEAN
        OBVIOUS
      <4>6. Shows(connected[c], Append(queue[c], x), pipe[c] # Closed)
        BY <1>1, <4>2, <4>5, ShowsPosted
      <4>. QED
        BY <3>1, <4>4, <4>6
    <3>. QED
      BY <3>2, <3>3
  <2>. QED
    BY <1>8, <2>1, <2>2, <2>3, <2>4, <2>5
<1>9. ASSUME NEW d \in Clients, ClientStep(d), d # c
      PROVE  /\ queue'[c] = queue[c]
             /\ connected'[c] = connected[c]
             /\ pipe'[c] = pipe[c]
  BY <1>1, <1>9 DEF ClientStep, JobConnects, Knock, Posts, JobFails, Loses, Transmit, HandlesMade,
     HandlesLost, HandlesJobDone, HandlesReply, Handles, link
<1>10. CASE ClientStep(c)
  <2>. (pipe[c] # Closed) \in BOOLEAN /\ (pipe'[c] # Closed) \in BOOLEAN
    OBVIOUS
  <2>. Post("made") \in Posted /\ Post("lost") \in Posted /\ Post("jobDone") \in Posted
    BY DEF Post, Posted
  <2>. Tells(Post("made")) /\ Tells(Post("lost")) /\ ~Tells(Post("jobDone"))
    BY DEF Post, Tells
  <2>. Post("made").what = "made" /\ Post("lost").what # "made"
    BY DEF Post
  <2>1. CASE JobConnects(c)
    <3>1. queue'[c] = queue[c] \o <<Post("made"), Post("jobDone")>> /\ UNCHANGED connected
      BY <1>1, <2>1 DEF JobConnects, Posts, Knock
    <3>2. queue'[c] = Append(Append(queue[c], Post("made")), Post("jobDone"))
      BY <1>1, <3>1
    <3>3. pipe'[c] # Closed
      <4>. DEFINE p == CHOOSE p \in Pipes : phase[p] = "free"
      <4>1. p \in Pipes /\ pipe' = [pipe EXCEPT ![c] = p]
        BY <2>1 DEF JobConnects, Knock, Listening
      <4>. HIDE DEF p
      <4>. QED
        BY <1>1, <4>1, ChannelAssumption
    <3>4. Append(queue[c], Post("made")) \in Seq(Posted)
      BY <1>1
    <3>5. Shows(connected[c], Append(queue[c], Post("made")), pipe'[c] # Closed)
      BY <1>1, <3>3, ShowsTold
    <3>6. Shows(connected[c], Append(Append(queue[c], Post("made")), Post("jobDone")), pipe'[c] # Closed)
      BY <1>1, <3>4, <3>5, ShowsPosted
    <3>. QED
      BY <3>1, <3>2, <3>6
  <2>2. CASE JobFails(c)
    <3>1. queue'[c] = queue[c] \o <<Post("jobDone")>> /\ UNCHANGED <<pipe, connected>>
      BY <1>1, <2>2 DEF JobFails, Posts
    <3>2. queue'[c] = Append(queue[c], Post("jobDone"))
      BY <1>1, <3>1
    <3>3. Shows(connected[c], Append(queue[c], Post("jobDone")), pipe[c] # Closed)
      BY <1>1, ShowsPosted
    <3>. QED
      BY <3>1, <3>2, <3>3
  <2>3. CASE Loses(c)
    <3>1. queue'[c] = queue[c] \o <<Post("lost")>> /\ UNCHANGED connected /\ pipe'[c] = Closed
      BY <1>1, <2>3 DEF Loses, Posts
    <3>2. queue'[c] = Append(queue[c], Post("lost"))
      BY <1>1, <3>1
    <3>3. Shows(connected[c], Append(queue[c], Post("lost")), pipe'[c] # Closed)
      BY <1>1, <3>1, ShowsTold
    <3>. QED
      BY <3>1, <3>2, <3>3
  <2>4. CASE Transmit(c)
    BY <1>6, <2>4 DEF Transmit
  <2>5. ASSUME NEW what, Handles(c, what), UNCHANGED pipe, connected'[c] \in BOOLEAN,
               connected'[c] <=> IF what \in {"made", "lost"} THEN what = "made" ELSE connected[c]
        PROVE  Shows(connected'[c], queue'[c], pipe'[c] # Closed)
    <3>1. queue[c] # <<>> /\ queue'[c] = Tail(queue[c]) /\ Head(queue[c]).what = what
      BY <1>1, <2>5 DEF Handles
    <3>2. connected'[c] <=> IF Tells(Head(queue[c])) THEN Head(queue[c]).what = "made" ELSE connected[c]
      BY <2>5, <3>1 DEF Tells
    <3>3. Shows(connected'[c], Tail(queue[c]), pipe[c] # Closed)
      BY <1>1, <2>5, <3>1, <3>2, ShowsHandled
    <3>. QED
      BY <2>5, <3>1, <3>3
  <2>6. CASE HandlesMade(c)
    <3>1. Handles(c, "made") /\ UNCHANGED pipe /\ connected'[c] = TRUE
      BY <1>1, <2>6 DEF HandlesMade
    <3>. QED
      BY <2>5, <3>1
  <2>7. CASE HandlesLost(c)
    <3>1. Handles(c, "lost") /\ UNCHANGED pipe /\ connected'[c] = FALSE
      BY <1>1, <2>7 DEF HandlesLost
    <3>. QED
      BY <2>5, <3>1
  <2>8. CASE HandlesJobDone(c)
    <3>1. Handles(c, "jobDone") /\ UNCHANGED <<pipe, connected>>
      BY <2>8 DEF HandlesJobDone
    <3>. QED
      BY <1>1, <2>5, <3>1
  <2>9. CASE HandlesReply(c)
    <3>1. Handles(c, "reply") /\ UNCHANGED <<pipe, connected>>
      BY <2>9 DEF HandlesReply
    <3>. QED
      BY <1>1, <2>5, <3>1
  <2>. QED
    BY <1>10, <2>1, <2>2, <2>3, <2>4, <2>6, <2>7, <2>8, <2>9 DEF ClientStep
<1>11. CASE UNCHANGED vars
  BY <1>6, <1>11 DEF vars
<1>12. ASSUME NEW d \in Clients, ClientStep(d)
       PROVE  Shows(connected'[c], queue'[c], pipe'[c] # Closed)
  BY <1>2, <1>9, <1>10, <1>12
<1>. QED
  BY <1>4, <1>5, <1>6, <1>7, <1>8, <1>11, <1>12 DEF Next

(* Once a tray has handled what was posted it shows whether it has a       *)
(* connection, for any number of clients.                                  *)
THEOREM TrayIsRight == Spec => []TrayKnows
<1>1. LinkInv => TrayKnows
  <2>. SUFFICES ASSUME LinkInv, NEW c \in Clients \ Consoles, queue[c] = <<>>
                PROVE  connected[c] <=> pipe[c] # Closed
    BY DEF TrayKnows
  <2>1. Shows(connected[c], queue[c], pipe[c] # Closed)
    BY DEF LinkInv
  <2>. QED
    BY <2>1 DEF Shows
<1>. QED
  BY <1>1, TypeInit, TypeStep, LinkInit, LinkStep, PTL DEF Spec
=============================================================================

------------------------ MODULE IrcClientHandlerProofs ------------------------
(***************************************************************************)
(* The message handler and the PINGs it answers, while batches, strand     *)
(* tasks and timer handlers interleave.                                    *)
(***************************************************************************)
EXTENDS IrcClientSessionProofs

USE DEF bufferVars, readVars, poolVars

-------------------------------------------------------------------------------
\* What a queue looks like after a task has been put in or taken out.

LEMMA DispatchSeq ==
  ASSUME connection_strand \in Seq(Task), NEW t \in Task, Dispatch(t)
  PROVE  /\ Len(connection_strand) \in Nat
         /\ DOMAIN connection_strand = 1 .. Len(connection_strand)
         /\ DOMAIN connection_strand' = 1 .. Len(connection_strand) + 1
         /\ \A i \in DOMAIN connection_strand :
              connection_strand'[i] = connection_strand[i]
         /\ connection_strand'[Len(connection_strand) + 1] = t
BY AppendProperties DEF Dispatch

LEMMA NextTaskSeq ==
  ASSUME connection_strand \in Seq(Task), NEW name, NextTask(name)
  PROVE  /\ Len(connection_strand) \in Nat \ {0}
         /\ DOMAIN connection_strand = 1 .. Len(connection_strand)
         /\ DOMAIN connection_strand' = 1 .. Len(connection_strand) - 1
         /\ \A i \in DOMAIN connection_strand' :
              connection_strand'[i] = connection_strand[i + 1]
         /\ Head(connection_strand) = connection_strand[1]
         /\ connection_strand[1].task = name
         /\ 1 \in DOMAIN connection_strand
BY HeadTailProperties DEF NextTask

-------------------------------------------------------------------------------
(***************************************************************************)
(* Timer handlers and connections.  A handler that has not got to its      *)
(* Read() works for the connection the client has; a later connection has  *)
(* no handler yet.                                                         *)
(***************************************************************************)
TimersInOrder ==
  /\ \A c \in Recovering : c = connection
  /\ \A c \in Conn : c > connection => timer[c] = "none"
  /\ timer[1] = "none"
  /\ main # "Run" => connection = 1

LEMMA NextKeepsTimersInOrder ==
  TypeOK /\ OneReadLoop /\ TimersInOrder /\ [Next]_vars => TimersInOrder'
<1> SUFFICES ASSUME TypeOK, OneReadLoop, TimersInOrder, [Next]_vars
             PROVE  TimersInOrder'
  OBVIOUS
<1>0. timer \in [Conn -> TimerStage] /\ connection \in Conn
  BY DEF TypeOK, ClientTypeOK
<1>1. CASE UNCHANGED <<timer, connection, main>>
  BY <1>1 DEF TimersInOrder, Recovering
<1>2. CASE UNCHANGED <<timer, connection>> /\ main # "Run"
  BY <1>2 DEF TimersInOrder, Recovering
<1>3. CASE Reconnect
  <2>1. ReconnectQueued # {}
    BY <1>3, NextTaskReconnect DEF Reconnect, OneReadLoop, TypeOK, HandlerTypeOK
  <2>2. main' = "Run" /\ Recovering = {}
    BY <1>3, <2>1 DEF OneReadLoop, Reconnect
  <2>3. PICK c \in Conn : c > connection /\ connection' = c
                          /\ timer' = [timer EXCEPT ![c] = "Connect"]
    BY <1>3 DEF Reconnect
  <2>4. \A d \in Conn \ {c} : timer'[d] = timer[d]
    BY <1>0, <2>3
  <2>5. c # 1 /\ 1 \in Conn /\ \A d \in Conn : d > c => d > connection /\ d # c
    BY <1>0, <2>3, MaxConnAssumption DEF Conn
  <2>6. \A d \in Recovering' : d = c
    BY <2>2, <2>4 DEF Recovering
  <2> QED BY <2>2, <2>3, <2>4, <2>5, <2>6 DEF TimersInOrder
<1>4. ASSUME NEW c \in Conn, TimerHandler(c)
      PROVE  TimersInOrder'
  <2>1. /\ UNCHANGED <<connection, main>>
        /\ timer[c] # "none"
        /\ \A d \in Conn \ {c} : timer'[d] = timer[d]
        /\ timer'[c] \in {"Connect", "Handshake", "UpdateConnection", "FlushBuffer",
                          "Authorize", "Read"}
             => timer[c] \in {"Connect", "Handshake", "UpdateConnection", "FlushBuffer",
                              "Authorize", "Read"}
    BY <1>0, <1>4 DEF TimerHandler, TimerConnect, TimerUpdateConnection, TimerFlushBuffer,
       TimerAuthorize, TimerRead, TimerCapRequest, TimerJoin, TimerMoves
  <2>2. \A d \in Recovering' : d \in Recovering
    BY <2>1 DEF Recovering
  <2>3. 1 \in Conn
    BY MaxConnAssumption DEF Conn
  <2> QED BY <2>1, <2>2, <2>3 DEF TimersInOrder
<1>5. CASE UNCHANGED vars \/ Application \/ ReadLoop \/ SwitchHandler \/ SendPong
           \/ HandlerPool \/ BotTask \/ WriteCompletes \/ Network
  BY <1>1, <1>5 DEF vars, clientVars, handlerVars, Application, CallJoin, CallPart,
     CallDisconnect, CallSetChatBot, Call, ReadLoop, ReadBytes, ReadNothing,
     ReadBytesAndError, OnReadParse, OnReadContinue, SwitchHandler, SendPong,
     HandlerPool, BotTask, WriteCompletes, Network
<1>6. CASE Main
  BY <1>2, <1>6 DEF Main, MainConnect, MainAuthorize, MainCapRequest, MainJoin, MainRead
<1> QED BY <1>3, <1>4, <1>5, <1>6 DEF Next, ConnectionStrand

LEMMA TimersAreInOrder == Spec => []TimersInOrder
<1>1. Init => TimersInOrder
  <2>1. 1 \in Conn
    BY MaxConnAssumption DEF Conn
  <2> QED BY <2>1 DEF Init, TimersInOrder, Recovering
<1> QED BY <1>1, NextKeepsTimersInOrder, OneReadLoopHolds, TypeCorrect, PTL DEF Spec

-------------------------------------------------------------------------------
(***************************************************************************)
(* The UpdateConnection tasks in the queue name connections in the order   *)
(* they were made: none older than the one the handler has, none newer     *)
(* than the client's.                                                      *)
(***************************************************************************)
IsUpdate(i) == connection_strand[i].task = "UpdateConnection"

UpdatesInOrder ==
  /\ handler_connection <= connection
  /\ \A i \in DOMAIN connection_strand : IsUpdate(i) =>
       /\ handler_connection <= connection_strand[i].conn
       /\ connection_strand[i].conn <= connection
  /\ \A i, j \in DOMAIN connection_strand :
       IsUpdate(i) /\ IsUpdate(j) /\ i < j
         => connection_strand[i].conn <= connection_strand[j].conn

\* The handler and its queue are one invariant.
HandlerInv == HandlerFollows /\ UpdatesInOrder

LEMMA ConnIsNat == \A c \in Conn : c \in Nat
BY MaxConnAssumption DEF Conn

LEMMA UpdateHasConn ==
  ASSUME TypeOK, NEW i \in DOMAIN connection_strand, IsUpdate(i)
  PROVE  connection_strand[i].conn \in Conn
BY TaskFields DEF TypeOK, HandlerTypeOK, IsUpdate

\* A task that is no UpdateConnection is put in.
LEMMA HandlerDispatch ==
  ASSUME TypeOK, HandlerInv, NEW t \in Task, t.task # "UpdateConnection", Dispatch(t),
         UNCHANGED <<handler_connection, connection, timer>>
  PROVE  HandlerInv'
<1>1. /\ DOMAIN connection_strand \subseteq DOMAIN connection_strand'
      /\ \A i \in DOMAIN connection_strand : connection_strand'[i] = connection_strand[i]
      /\ \A i \in DOMAIN connection_strand' : IsUpdate(i)' =>
           i \in DOMAIN connection_strand /\ IsUpdate(i)
  <2>1. connection_strand \in Seq(Task)
    BY DEF TypeOK, HandlerTypeOK
  <2>2. \A i \in DOMAIN connection_strand' :
          i \in DOMAIN connection_strand \/ connection_strand'[i] = t
    BY <2>1, DispatchSeq
  <2> QED BY <2>1, <2>2, DispatchSeq DEF IsUpdate
<1>2. HandlerFollows'
  BY <1>1 DEF HandlerInv, HandlerFollows
<1>3. UpdatesInOrder'
  BY <1>1 DEF HandlerInv, UpdatesInOrder, IsUpdate
<1> QED BY <1>2, <1>3 DEF HandlerInv

\* A task that is no UpdateConnection is taken out.
LEMMA HandlerTaken ==
  ASSUME TypeOK, HandlerInv, NEW name, name # "UpdateConnection", NextTask(name)
  PROVE  /\ UNCHANGED <<handler_connection, connection, timer>> => HandlerInv'
         /\ \A i \in DOMAIN connection_strand' : IsUpdate(i)' =>
              /\ i + 1 \in DOMAIN connection_strand /\ IsUpdate(i + 1)
              /\ connection_strand'[i] = connection_strand[i + 1]
<1>0. connection_strand \in Seq(Task)
  BY DEF TypeOK, HandlerTypeOK
<1>1. \A i \in DOMAIN connection_strand' :
        /\ i \in Nat /\ i + 1 \in DOMAIN connection_strand
        /\ connection_strand'[i] = connection_strand[i + 1]
  BY <1>0, NextTaskSeq
<1>2. \A i \in DOMAIN connection_strand : IsUpdate(i) =>
        /\ i \in Nat /\ i - 1 \in DOMAIN connection_strand' /\ (i - 1) + 1 = i
  BY <1>0, NextTaskSeq DEF IsUpdate
<1>3. ASSUME UNCHANGED <<handler_connection, connection, timer>>
      PROVE  HandlerInv'
  <2>1. HandlerFollows'
    <3>1. CASE \E i \in DOMAIN connection_strand :
                 connection_strand[i] = [task |-> "UpdateConnection", conn |-> connection]
      <4>1. PICK i \in DOMAIN connection_strand :
                 connection_strand[i] = [task |-> "UpdateConnection", conn |-> connection]
        BY <3>1
      <4>2. i - 1 \in DOMAIN connection_strand'
            /\ connection_strand'[i - 1] = connection_strand[i]
        BY <1>1, <1>2, <4>1 DEF IsUpdate
      <4> QED BY <1>3, <4>1, <4>2 DEF HandlerFollows
    <3> QED BY <1>3, <3>1 DEF HandlerInv, HandlerFollows
  <2>2. UpdatesInOrder'
    <3>1. \A i, j \in DOMAIN connection_strand' : i < j => i + 1 < j + 1
      BY <1>1
    <3> QED BY <1>1, <1>3, <3>1 DEF HandlerInv, UpdatesInOrder, IsUpdate
  <2> QED BY <2>1, <2>2 DEF HandlerInv
<1> QED BY <1>1, <1>3 DEF IsUpdate

LEMMA HandlerStrand ==
  ASSUME TypeOK, TimersInOrder, HandlerInv, ConnectionStrand
  PROVE  HandlerInv' /\ handler_connection' >= handler_connection
<1>0. /\ connection_strand \in Seq(Task) /\ handler_connection \in Conn
      /\ connection \in Conn /\ timer \in [Conn -> TimerStage]
  BY DEF TypeOK, HandlerTypeOK, ClientTypeOK
<1>1. CASE Reconnect
  <2>1. PICK c \in Conn : c > connection /\ connection' = c
                          /\ timer' = [timer EXCEPT ![c] = "Connect"]
    BY <1>1 DEF Reconnect
  <2>2. HandlerFollows'
    BY <1>0, <2>1 DEF HandlerFollows
  <2>3. UpdatesInOrder'
    <3>1. \A i \in DOMAIN connection_strand' : IsUpdate(i)' =>
            /\ i + 1 \in DOMAIN connection_strand /\ IsUpdate(i + 1)
            /\ connection_strand'[i] = connection_strand[i + 1]
      BY <1>1, HandlerTaken DEF Reconnect
    <3>2. \A i \in DOMAIN connection_strand' : i \in Nat
      BY <1>0, <1>1, NextTaskSeq DEF Reconnect
    <3>3. UNCHANGED handler_connection
      BY <1>1 DEF Reconnect
    <3>4. \A i \in DOMAIN connection_strand : IsUpdate(i) =>
            connection_strand[i].conn \in Nat
      BY UpdateHasConn, ConnIsNat
    <3>5. \A i, j \in DOMAIN connection_strand' : i < j => i + 1 < j + 1
      BY <3>2
    <3>6. handler_connection \in Nat /\ connection \in Nat /\ c \in Nat
      BY <1>0, ConnIsNat
    <3>7. handler_connection' <= connection'
      BY <2>1, <3>3, <3>6 DEF HandlerInv, UpdatesInOrder
    <3>8. \A i \in DOMAIN connection_strand' : IsUpdate(i)' =>
            /\ handler_connection' <= connection_strand'[i].conn
            /\ connection_strand'[i].conn <= connection'
      BY <2>1, <3>1, <3>3, <3>4, <3>6 DEF HandlerInv, UpdatesInOrder
    <3>9. \A i, j \in DOMAIN connection_strand' : IsUpdate(i)' /\ IsUpdate(j)' /\ i < j
            => connection_strand'[i].conn <= connection_strand'[j].conn
      BY <3>1, <3>5 DEF HandlerInv, UpdatesInOrder
    <3> QED BY <3>7, <3>8, <3>9 DEF UpdatesInOrder, IsUpdate
  <2> QED BY <1>0, <1>1, <2>2, <2>3, ConnIsNat DEF HandlerInv, Reconnect
<1>2. CASE SwitchHandler
  <2>1. /\ \A i \in DOMAIN connection_strand' :
             /\ i \in Nat /\ 1 < i + 1 /\ i + 1 \in DOMAIN connection_strand
             /\ connection_strand'[i] = connection_strand[i + 1]
        /\ 1 \in DOMAIN connection_strand /\ IsUpdate(1)
        /\ handler_connection' = connection_strand[1].conn
        /\ UNCHANGED <<connection, timer>>
    BY <1>0, <1>2, NextTaskSeq DEF SwitchHandler, clientVars, IsUpdate
  <2>2. \A i \in DOMAIN connection_strand : i # 1 => i - 1 \in DOMAIN connection_strand'
                                                     /\ (i - 1) + 1 = i
    BY <1>0, <1>2, NextTaskSeq DEF SwitchHandler
  <2>3. handler_connection' >= handler_connection /\ handler_connection' <= connection
    BY <2>1, <1>0, UpdateHasConn, ConnIsNat DEF HandlerInv, UpdatesInOrder
  <2>4. \A i \in DOMAIN connection_strand' : IsUpdate(i)' => IsUpdate(i + 1)
    BY <2>1 DEF IsUpdate
  <2>5. UpdatesInOrder'
    <3>1. \A i \in DOMAIN connection_strand' : IsUpdate(i)' =>
            /\ handler_connection' <= connection_strand'[i].conn
            /\ connection_strand'[i].conn <= connection'
      BY <2>1, <2>4 DEF HandlerInv, UpdatesInOrder
    <3>2. \A i, j \in DOMAIN connection_strand' : i < j => i + 1 < j + 1
      BY <2>1
    <3>3. \A i, j \in DOMAIN connection_strand' : IsUpdate(i)' /\ IsUpdate(j)' /\ i < j
            => connection_strand'[i].conn <= connection_strand'[j].conn
      BY <2>1, <2>4, <3>2 DEF HandlerInv, UpdatesInOrder
    <3> QED BY <2>1, <2>3, <3>1, <3>3 DEF UpdatesInOrder, IsUpdate
  <2>6. HandlerFollows'
    <3>1. CASE handler_connection = connection
      <4>1. handler_connection' = connection'
        BY <1>0, <2>1, <2>3, <3>1, UpdateHasConn, ConnIsNat
      <4> QED BY <4>1 DEF HandlerFollows
    <3>2. CASE timer[connection] \in {"Connect", "Handshake", "UpdateConnection"}
      BY <2>1, <3>2 DEF HandlerFollows
    <3>3. CASE \E i \in DOMAIN connection_strand :
                 connection_strand[i] = [task |-> "UpdateConnection", conn |-> connection]
      <4>1. PICK i \in DOMAIN connection_strand :
                 connection_strand[i] = [task |-> "UpdateConnection", conn |-> connection]
        BY <3>3
      <4>2. CASE i = 1
        BY <2>1, <4>1, <4>2 DEF HandlerFollows
      <4>3. CASE i # 1
        BY <2>1, <2>2, <4>1, <4>3 DEF HandlerFollows
      <4> QED BY <4>2, <4>3
    <3> QED BY <3>1, <3>2, <3>3 DEF HandlerInv, HandlerFollows
  <2> QED BY <2>3, <2>5, <2>6 DEF HandlerInv
<1>3. CASE SendPong
  <2>1. UNCHANGED <<handler_connection, connection, timer>>
    BY <1>3 DEF SendPong
  <2>2. HandlerInv'
    BY <1>3, <2>1, HandlerTaken DEF SendPong
  <2> QED BY <1>0, <2>1, <2>2, ConnIsNat
<1> QED BY <1>1, <1>2, <1>3 DEF ConnectionStrand

LEMMA HandlerTimer ==
  ASSUME TypeOK, TimersInOrder, HandlerInv, NEW c \in Conn, TimerHandler(c)
  PROVE  HandlerInv'
<1>0. /\ connection_strand \in Seq(Task) /\ handler_connection \in Conn
      /\ connection \in Conn /\ timer \in [Conn -> TimerStage]
      /\ UNCHANGED <<connection, handler_connection>>
  BY DEF TypeOK, HandlerTypeOK, ClientTypeOK, TimerHandler, TimerConnect,
     TimerUpdateConnection, UpdateConnection, TimerFlushBuffer, TimerAuthorize, TimerRead,
     TimerCapRequest, TimerJoin, handlerVars
<1>1. CASE TimerUpdateConnection(c)
  <2>1. c \in Recovering /\ c = connection
    BY <1>1 DEF TimerUpdateConnection, TimerMoves, Recovering, TimersInOrder
  <2> DEFINE t == [task |-> "UpdateConnection", conn |-> connection]
  <2>2. t \in Task /\ Dispatch(t)
    BY <1>0, <1>1 DEF TimerUpdateConnection, UpdateConnection, Task
  <2> DEFINE n == Len(connection_strand) + 1
  <2>3. /\ n \in Nat /\ n \in DOMAIN connection_strand' /\ connection_strand'[n] = t
        /\ \A i \in DOMAIN connection_strand' :
             i # n => /\ i \in DOMAIN connection_strand /\ i < n
                      /\ connection_strand'[i] = connection_strand[i]
        /\ \A i \in DOMAIN connection_strand' : i \in Nat /\ i <= n
    BY <1>0, <2>2, DispatchSeq
  <2> HIDE DEF n
  <2>4. HandlerFollows'
    BY <1>0, <2>3 DEF HandlerFollows
  <2>5. UpdatesInOrder'
    <3>1. \A i \in DOMAIN connection_strand' : IsUpdate(i)' =>
            /\ handler_connection' <= connection_strand'[i].conn
            /\ connection_strand'[i].conn <= connection'
      BY <1>0, <2>3, ConnIsNat DEF HandlerInv, UpdatesInOrder, IsUpdate
    <3>2. ASSUME NEW i \in DOMAIN connection_strand', NEW j \in DOMAIN connection_strand',
                 IsUpdate(i)', IsUpdate(j)', i < j
          PROVE  connection_strand'[i].conn <= connection_strand'[j].conn
      <4>1. i # n
        BY <2>3, <3>2
      <4>2. CASE j = n
        BY <1>0, <2>3, <3>1, <3>2, <4>2
      <4>3. CASE j # n
        BY <2>3, <3>2, <4>1, <4>3 DEF HandlerInv, UpdatesInOrder, IsUpdate
      <4> QED BY <4>2, <4>3
    <3> QED BY <1>0, <3>1, <3>2 DEF HandlerInv, UpdatesInOrder, IsUpdate
  <2> QED BY <2>4, <2>5 DEF HandlerInv
<1>2. CASE TimerConnect(c)
  <2>1. /\ c = connection /\ timer'[c] \in {"Handshake", "UpdateConnection"}
        /\ UNCHANGED connection_strand
    BY <1>0, <1>2 DEF TimerConnect, TimerMoves, AfterConnect, Recovering, TimersInOrder, handlerVars
  <2> QED BY <1>0, <2>1 DEF HandlerInv, HandlerFollows, UpdatesInOrder, IsUpdate
<1>3. CASE \/ TimerFlushBuffer(c) \/ TimerAuthorize(c) \/ TimerRead(c)
           \/ TimerCapRequest(c) \/ TimerJoin(c)
  <2>1. /\ UNCHANGED connection_strand
        /\ timer[c] \notin {"Connect", "Handshake", "UpdateConnection"}
        /\ \A d \in Conn \ {c} : timer'[d] = timer[d]
    BY <1>0, <1>3 DEF TimerFlushBuffer, TimerAuthorize, TimerRead, TimerCapRequest,
       TimerJoin, TimerMoves, handlerVars
  <2> QED BY <1>0, <2>1 DEF HandlerInv, HandlerFollows, UpdatesInOrder, IsUpdate
<1> QED BY <1>1, <1>2, <1>3 DEF TimerHandler

LEMMA HandlerStep ==
  TypeOK /\ TimersInOrder /\ HandlerInv /\ [Next]_vars
    => HandlerInv' /\ handler_connection' >= handler_connection
<1> SUFFICES ASSUME TypeOK, TimersInOrder, HandlerInv, [Next]_vars
             PROVE  HandlerInv' /\ handler_connection' >= handler_connection
  OBVIOUS
<1>0. handler_connection >= handler_connection
  BY ConnIsNat DEF TypeOK, HandlerTypeOK
<1>1. CASE UNCHANGED <<handler_connection, connection_strand, connection, timer>>
  BY <1>0, <1>1 DEF HandlerInv, HandlerFollows, UpdatesInOrder, IsUpdate
<1>2. CASE UNCHANGED vars \/ Main \/ Application \/ BotTask \/ WriteCompletes \/ Network
  BY <1>1, <1>2 DEF vars, clientVars, handlerVars, Main, MainConnect, MainAuthorize,
     MainCapRequest, MainJoin, MainRead, Application, CallJoin, CallPart, CallDisconnect,
     CallSetChatBot, Call, SetChatBot, BotTask, ParseAndExecute, WriteCompletes, Network
<1>3. CASE ReadLoop
  <2>1. PICK r \in reads : \/ ReadBytes(r) \/ ReadNothing(r) \/ ReadBytesAndError(r)
                           \/ OnReadParse(r) \/ OnReadContinue(r)
    BY <1>3 DEF ReadLoop
  <2>2. UNCHANGED <<handler_connection, connection, timer>>
    BY <2>1 DEF ReadBytes, ReadNothing, ReadBytesAndError, OnReadParse, OnReadContinue,
       handlerVars
  <2>3. UNCHANGED connection_strand \/ Dispatch([task |-> "Reconnect"])
    BY <2>1 DEF ReadBytes, ReadNothing, ReadBytesAndError, OnReadParse, OnReadContinue,
       handlerVars
  <2>4. [task |-> "Reconnect"] \in Task
    BY DEF Task
  <2> QED BY <1>0, <1>1, <2>2, <2>3, <2>4, HandlerDispatch
<1>4. CASE HandlerPool
  <2>1. PICK b \in pool : HandleMessage(b)
    BY <1>4 DEF HandlerPool
  <2> DEFINE t == [task |-> "SendPong", ping |-> <<b.id, b.next>>]
  <2>2. t \in Task
    BY DEF Task, TypeOK, HandlerTypeOK, Batch, MessageId
  <2>3. UNCHANGED connection_strand \/ Dispatch(t)
    BY <2>1 DEF HandleMessage, HandlePing, HandleChat, HandleNickless, HandleOther
  <2>4. UNCHANGED <<handler_connection, connection, timer>>
    BY <1>4, <2>1 DEF HandlerPool, clientVars, HandleMessage, HandlePing, HandleChat,
       HandleNickless, HandleOther
  <2>5. t.task # "UpdateConnection"
    OBVIOUS
  <2> HIDE DEF t
  <2> QED BY <1>0, <1>1, <2>2, <2>3, <2>4, <2>5, HandlerDispatch
<1>5. ASSUME NEW c \in Conn, TimerHandler(c)
      PROVE  HandlerInv' /\ handler_connection' >= handler_connection
  <2>1. UNCHANGED handler_connection
    BY <1>5 DEF TimerHandler, TimerConnect, TimerUpdateConnection, UpdateConnection,
       TimerFlushBuffer, TimerAuthorize, TimerRead, TimerCapRequest, TimerJoin, handlerVars
  <2> QED BY <1>0, <1>5, <2>1, HandlerTimer
<1> QED BY <1>2, <1>3, <1>4, <1>5, HandlerStrand DEF Next

LEMMA HandlerInvHolds == Spec => []HandlerInv
<1>1. Init => HandlerInv
  BY DEF Init, HandlerInit, HandlerInv, HandlerFollows, UpdatesInOrder
<1> QED BY <1>1, HandlerStep, TimersAreInOrder, TypeCorrect, PTL DEF Spec

(***************************************************************************)
(* PONGs follow the client, for any number of recoveries.                  *)
(***************************************************************************)
THEOREM HandlerFollowsHolds == Spec => []HandlerFollows
BY HandlerInvHolds, PTL DEF HandlerInv

(***************************************************************************)
(* The message handler never goes back to an older connection.             *)
(***************************************************************************)
THEOREM HandlerNeverGoesBackHolds == Spec => HandlerNeverGoesBack
BY HandlerStep, HandlerInvHolds, TimersAreInOrder, TypeCorrect, PTL
DEF Spec, HandlerNeverGoesBack

-------------------------------------------------------------------------------
(***************************************************************************)
(* Why a PING is in one place: a read that is not parsed yet has an id     *)
(* nothing else uses, and a batch is in the pool once.                     *)
(***************************************************************************)
HandedOver(id) ==
  \/ \E b \in pool : b.id = id
  \/ \E i \in PongQueued : connection_strand[i].ping[1] = id
  \/ \E p \in pongs \cup writing : p.ping[1] = id

OneBatchPerRead == \A b, c \in pool : b.id = c.id => b = c

ReadIdsFresh ==
  /\ OneBatchPerRead
  /\ \A id \in ReadId : HandedOver(id) => id <= started_reads
  /\ \A r \in reads :
       r.id <= started_reads /\ (r.stage # "parsed" => ~HandedOver(r.id))

PingInv == PingHandledOnce /\ ReadIdsFresh

\* The reads of the next state: known ones, or a new one with the next id.
ReadsGoOn ==
  /\ started_reads' >= started_reads /\ started_reads' \in Nat
  /\ \A r \in reads' :
       /\ r.id \in ReadId /\ r.id <= started_reads'
       /\ r.stage # "parsed" => \/ r.id > started_reads
                                \/ \E q \in reads : q.id = r.id /\ q.stage # "parsed"

\* The batches of the next state have nothing that was not there.
PoolGoesOn ==
  /\ OneBatchPerRead'
  /\ \A q \in MessageId : PingInPool(q)' => PingInPool(q)
  /\ \A b \in pool' : \E c \in pool : b.id = c.id

LEMMA PoolSame ==
  ASSUME ReadIdsFresh, UNCHANGED pool
  PROVE  PoolGoesOn
BY DEF PoolGoesOn, OneBatchPerRead, PingInPool, ReadIdsFresh

LEMMA PoolAdvances ==
  ASSUME TypeOK, ReadIdsFresh, NEW b \in pool, Advance(b) \/ Abandon(b)
  PROVE  PoolGoesOn
<1>1. \A c \in pool : c \in Batch
  BY DEF TypeOK, HandlerTypeOK
<1> DEFINE n == [b EXCEPT !.next = @ + 1]
<1>2. n.id = b.id /\ n.msgs = b.msgs /\ n.next = b.next + 1 /\ b.next \in Nat
  BY <1>1 DEF Batch
<1>3. \A c \in pool' : (c \in pool /\ c # b) \/ c = n
  BY DEF Advance, Abandon
<1> HIDE DEF n
<1>4. \A c \in pool' : \E d \in pool : c.id = d.id
  BY <1>2, <1>3
<1>5. OneBatchPerRead'
  BY <1>2, <1>3 DEF OneBatchPerRead, ReadIdsFresh
<1>6. ASSUME NEW q \in MessageId, PingInPool(q)'
      PROVE  PingInPool(q)
  <2>1. PICK c \in pool' : c.id = q[1] /\ c.next <= q[2] /\ q[2] <= Len(c.msgs)
    BY <1>6 DEF PingInPool
  <2>2. CASE c \in pool
    BY <2>1, <2>2 DEF PingInPool
  <2>3. CASE c = n
    <3>1. b.next + 1 <= q[2] /\ q[2] <= Len(b.msgs) /\ b.id = q[1]
      BY <1>2, <2>1, <2>3
    <3>2. q[2] \in Nat
      BY DEF MessageId
    <3>3. b.next <= q[2]
      BY <1>2, <3>1, <3>2
    <3> QED BY <3>1, <3>3 DEF PingInPool
  <2> QED BY <1>3, <2>1, <2>2, <2>3
<1> QED BY <1>4, <1>5, <1>6 DEF PoolGoesOn

\* The queued PONGs of the next state were d places further back.
QueueMoves(d) ==
  \A i \in PongQueued' :
    /\ i \in Nat /\ i + d \in PongQueued
    /\ connection_strand'[i].ping = connection_strand[i + d].ping

LEMMA QueueSame ==
  ASSUME TypeOK, UNCHANGED connection_strand
  PROVE  QueueMoves(0)
<1>1. DOMAIN connection_strand = 1 .. Len(connection_strand)
      /\ Len(connection_strand) \in Nat
  BY DEF TypeOK, HandlerTypeOK
<1>2. \A i \in PongQueued' : i \in Nat /\ i + 0 = i /\ i \in PongQueued
  BY <1>1 DEF PongQueued
<1> QED BY <1>2 DEF QueueMoves

LEMMA QueueDispatch ==
  ASSUME TypeOK, NEW t \in Task, t.task # "SendPong", Dispatch(t)
  PROVE  QueueMoves(0)
<1>1. connection_strand \in Seq(Task)
  BY DEF TypeOK, HandlerTypeOK
<1>2. \A i \in DOMAIN connection_strand' :
        \/ connection_strand'[i] = t
        \/ /\ i \in Nat /\ i + 0 = i /\ i \in DOMAIN connection_strand
           /\ connection_strand'[i] = connection_strand[i]
  BY <1>1, DispatchSeq
<1> QED BY <1>2 DEF QueueMoves, PongQueued

LEMMA QueueTaken ==
  ASSUME TypeOK, NEW name, NextTask(name)
  PROVE  QueueMoves(1) /\ (name # "SendPong" => 1 \notin PongQueued)
<1>1. connection_strand \in Seq(Task)
  BY DEF TypeOK, HandlerTypeOK
<1>2. \A i \in DOMAIN connection_strand' :
        /\ i \in Nat /\ i + 1 \in DOMAIN connection_strand
        /\ connection_strand'[i] = connection_strand[i + 1]
  BY <1>1, NextTaskSeq
<1> QED BY <1>1, <1>2, NextTaskSeq DEF QueueMoves, PongQueued

(***************************************************************************)
(* A step that hands nothing over and sends no PONG.                       *)
(***************************************************************************)
LEMMA PingsGoOn ==
  ASSUME TypeOK, PingInv, PoolGoesOn, ReadsGoOn,
         pongs' \cup writing' \subseteq pongs \cup writing,
         NEW d \in {0, 1}, QueueMoves(d)
  PROVE  PingInv'
<1> USE DEF QueueMoves
<1>0. /\ \A i \in PongQueued : connection_strand[i].ping \in MessageId
      /\ \A p \in pongs \cup writing : p.ping \in MessageId
  BY TaskFields DEF TypeOK, HandlerTypeOK, PongQueued, PongRecord
<1>1. PingHandledOnce'
  <2>1. ASSUME NEW i \in PongQueued', NEW j \in PongQueued',
               connection_strand'[i].ping = connection_strand'[j].ping
        PROVE  i = j
    <3>1. i + d = j + d
      BY <2>1 DEF PingInv, PingHandledOnce
    <3> QED BY <3>1
  <2>2. ASSUME NEW i \in PongQueued', NEW ping, ping = connection_strand'[i].ping
        PROVE  ~PingInPool(ping)' /\ \A p \in pongs' \cup writing' : p.ping # ping
    <3>1. /\ ~PingInPool(connection_strand[i + d].ping)
          /\ \A p \in pongs \cup writing : p.ping # connection_strand[i + d].ping
      BY DEF PingInv, PingHandledOnce
    <3> QED BY <1>0, <2>2, <3>1 DEF PoolGoesOn
  <2>3. \A p, q \in pongs' \cup writing' :
          ~PingInPool(p.ping)' /\ (p.ping = q.ping => p.conn = q.conn)
    BY <1>0 DEF PingInv, PingHandledOnce, PoolGoesOn
  <2> QED BY <2>1, <2>2, <2>3 DEF PingHandledOnce
<1>2. \A id : HandedOver(id)' => HandedOver(id)
  BY DEF HandedOver, PoolGoesOn
<1>3. ReadIdsFresh'
  <2>1. started_reads \in Nat
    BY MaxReadsAssumption DEF TypeOK, ClientTypeOK
  <2>2. \A id \in ReadId : HandedOver(id) => id <= started_reads
    BY DEF PingInv, ReadIdsFresh
  <2>3. \A id \in ReadId : id \in Nat
    BY MaxReadsAssumption DEF ReadId
  <2>4. ASSUME NEW r \in reads', r.stage # "parsed"
        PROVE  ~HandedOver(r.id)
    <3>1. CASE r.id > started_reads
      BY <2>1, <2>2, <2>3, <3>1 DEF ReadsGoOn
    <3>2. CASE \E q \in reads : q.id = r.id /\ q.stage # "parsed"
      BY <3>2 DEF PingInv, ReadIdsFresh
    <3> QED BY <2>4, <3>1, <3>2 DEF ReadsGoOn
  <2>5. \A id \in ReadId : HandedOver(id)' => id <= started_reads'
    BY <1>2, <2>1, <2>2, <2>3 DEF ReadsGoOn
  <2> QED BY <1>2, <2>4, <2>5 DEF ReadIdsFresh, ReadsGoOn, PoolGoesOn
<1> QED BY <1>1, <1>3 DEF PingInv

LEMMA ReadsSame ==
  ASSUME TypeOK, ReadIdsFresh, UNCHANGED <<reads, started_reads>>
  PROVE  ReadsGoOn
BY MaxReadsAssumption DEF ReadsGoOn, ReadIdsFresh, TypeOK, ClientTypeOK, Read

LEMMA ReadStarts ==
  ASSUME TypeOK, ReadIdsFresh, NEW others \in SUBSET reads, StartRead(others)
  PROVE  ReadsGoOn
<1>1. started_reads \in Nat /\ started_reads < MaxReads /\ MaxReads \in Nat
      /\ started_reads' = started_reads + 1
  BY MaxReadsAssumption DEF TypeOK, ClientTypeOK, StartRead
<1>2. NewRead.id = started_reads + 1
  BY DEF NewRead
<1>3. \A r \in reads : r.id \in ReadId /\ r.id \in Nat /\ r.id <= started_reads
  BY MaxReadsAssumption DEF TypeOK, ClientTypeOK, Read, ReadId, ReadIdsFresh
<1>4. NewRead.id \in ReadId /\ NewRead.id > started_reads /\ NewRead.id <= started_reads'
  BY <1>1, <1>2 DEF ReadId
<1>5. \A r \in reads' : r \in reads \/ r = NewRead
  BY DEF StartRead
<1>6. \A r \in reads : r.id <= started_reads'
  BY <1>1, <1>3
<1>7. started_reads' >= started_reads /\ started_reads' \in Nat
  BY <1>1
<1> QED BY <1>3, <1>4, <1>5, <1>6, <1>7 DEF ReadsGoOn

\* A PING leaves its batch for the queue.
LEMMA PingsPing ==
  ASSUME TypeOK, PingInv, NEW b \in pool, HandlePing(b),
         UNCHANGED <<connVars, clientVars>>
  PROVE  PingInv'
<1> DEFINE ping == <<b.id, b.next>>
           t == [task |-> "SendPong", ping |-> ping]
           n == Len(connection_strand) + 1
<1>1. /\ b \in Batch /\ \A c \in pool : c \in Batch
      /\ connection_strand \in Seq(Task)
  BY DEF TypeOK, HandlerTypeOK
<1>2. ping \in MessageId /\ ping[1] = b.id /\ ping[2] = b.next
  BY <1>1 DEF Batch, MessageId
<1>3. t \in Task /\ t.task = "SendPong" /\ t.ping = ping /\ Dispatch(t)
  BY <1>2 DEF Task, HandlePing
<1>4. /\ \A i \in DOMAIN connection_strand' :
           i \in DOMAIN connection_strand \/ i = n
      /\ \A i \in DOMAIN connection_strand :
           connection_strand'[i] = connection_strand[i]
      /\ connection_strand'[n] = t
      /\ n \notin DOMAIN connection_strand
  BY <1>1, <1>3, DispatchSeq
<1> HIDE DEF n, t
<1>5. \A i \in PongQueued' :
        \/ i = n /\ connection_strand'[i].ping = ping
        \/ i \in PongQueued /\ connection_strand'[i].ping = connection_strand[i].ping
  BY <1>3, <1>4 DEF PongQueued
<1>6. PoolGoesOn
  BY PoolAdvances DEF HandlePing, PingInv
<1>7. PingInPool(ping)
  <2>1. b.next \in Nat
    BY <1>1 DEF Batch
  <2>2. b \in pool /\ b.next <= Len(b.msgs)
    BY DEF HandlePing, Unhandled
  <2> HIDE DEF ping
  <2>3. b.id = ping[1] /\ b.next <= ping[2] /\ ping[2] <= Len(b.msgs)
    BY <1>2, <2>1, <2>2
  <2> QED BY <2>2, <2>3 DEF PingInPool
<1>8. ~PingInPool(ping)'
  <2>1. SUFFICES ASSUME NEW c \in pool', c.id = b.id, c.next <= b.next
                 PROVE  FALSE
    BY <1>2 DEF PingInPool
  <2>2. CASE c \in pool /\ c # b
    BY <2>1, <2>2 DEF PingInv, ReadIdsFresh, OneBatchPerRead
  <2>3. CASE c = [b EXCEPT !.next = @ + 1]
    BY <1>1, <2>1, <2>3 DEF Batch
  <2> QED BY <2>1, <2>2, <2>3 DEF HandlePing, Advance
<1> HIDE DEF ping
<1>9. UNCHANGED <<pongs, writing, reads, started_reads>>
  BY DEF connVars, clientVars
<1>10. /\ \A i \in PongQueued : connection_strand[i].ping \in MessageId
       /\ \A p \in pongs \cup writing : p.ping \in MessageId
  BY TaskFields DEF TypeOK, HandlerTypeOK, PongQueued, PongRecord
<1>11. /\ \A i \in PongQueued : connection_strand[i].ping # ping
       /\ \A p \in pongs \cup writing : p.ping # ping
  BY <1>7 DEF PingInv, PingHandledOnce
<1>12. PingHandledOnce'
  <2>1. \A i, j \in PongQueued' :
          connection_strand'[i].ping = connection_strand'[j].ping => i = j
    BY <1>5, <1>11 DEF PingInv, PingHandledOnce
  <2>2. ASSUME NEW i \in PongQueued', NEW q, q = connection_strand'[i].ping
        PROVE  ~PingInPool(q)' /\ \A p \in pongs' \cup writing' : p.ping # q
    <3>1. CASE i = n /\ q = ping
      BY <1>8, <1>9, <1>11, <3>1
    <3>2. CASE i \in PongQueued /\ q = connection_strand[i].ping
      BY <1>6, <1>9, <1>10, <3>2 DEF PingInv, PingHandledOnce, PoolGoesOn
    <3> QED BY <1>5, <2>2, <3>1, <3>2
  <2>3. \A p, q \in pongs' \cup writing' :
          ~PingInPool(p.ping)' /\ (p.ping = q.ping => p.conn = q.conn)
    BY <1>6, <1>9, <1>10 DEF PingInv, PingHandledOnce, PoolGoesOn
  <2> QED BY <2>1, <2>2, <2>3 DEF PingHandledOnce
<1>13. \A id : HandedOver(id)' => HandedOver(id)
  BY <1>2, <1>5, <1>6, <1>9 DEF HandedOver, PoolGoesOn
<1> QED BY <1>6, <1>9, <1>12, <1>13 DEF PingInv, ReadIdsFresh, PoolGoesOn

\* A PING leaves the queue for the connection of the handler.
LEMMA PingsSend ==
  ASSUME TypeOK, PingInv, SendPong
  PROVE  PingInv'
<1> DEFINE ping == connection_strand[1].ping
<1>1. connection_strand \in Seq(Task)
  BY DEF TypeOK, HandlerTypeOK
<1>2. /\ Head(connection_strand) = connection_strand[1]
      /\ 1 \in PongQueued
  BY <1>1, NextTaskSeq DEF SendPong, PongQueued
<1>3. QueueMoves(1)
  BY QueueTaken DEF SendPong
<1>4. UNCHANGED <<pool, reads, started_reads>>
  BY DEF SendPong
<1>5. \A p \in pongs' \cup writing' :
        \/ p \in pongs \cup writing
        \/ p.ping = ping /\ p.conn = handler_connection
  BY <1>2 DEF SendPong, AsyncWrite, Pong, connVars
<1>6. /\ ~PingInPool(ping)
      /\ \A p \in pongs \cup writing : p.ping # ping
      /\ \A i \in PongQueued : connection_strand[i].ping = ping => i = 1
  BY <1>2 DEF PingInv, PingHandledOnce
<1>7. \A q : PingInPool(q)' => PingInPool(q)
  BY <1>4 DEF PingInPool
<1>8. \A i \in PongQueued' :
        /\ i \in Nat /\ i + 1 \in PongQueued /\ i + 1 # 1
        /\ connection_strand'[i].ping = connection_strand[i + 1].ping
        /\ connection_strand'[i].ping # ping
  <2>1. ASSUME NEW i \in PongQueued'
        PROVE  /\ i \in Nat /\ i + 1 \in PongQueued /\ i + 1 # 1
               /\ connection_strand'[i].ping = connection_strand[i + 1].ping
    <3>1. i \in Nat /\ i # 0
      BY <1>1, NextTaskSeq DEF SendPong, PongQueued
    <3> QED BY <1>3, <3>1 DEF QueueMoves
  <2> QED BY <1>6, <2>1
<1>9. PingHandledOnce'
  <2>1. ASSUME NEW i \in PongQueued', NEW j \in PongQueued',
               connection_strand'[i].ping = connection_strand'[j].ping
        PROVE  i = j
    <3>1. i + 1 = j + 1
      BY <1>8, <2>1 DEF PingInv, PingHandledOnce
    <3> QED BY <1>8, <3>1
  <2>2. ASSUME NEW i \in PongQueued', NEW q, q = connection_strand'[i].ping
        PROVE  ~PingInPool(q)' /\ \A p \in pongs' \cup writing' : p.ping # q
    <3>1. /\ ~PingInPool(connection_strand[i + 1].ping)
          /\ \A p \in pongs \cup writing : p.ping # connection_strand[i + 1].ping
      BY <1>8 DEF PingInv, PingHandledOnce
    <3> QED BY <1>5, <1>7, <1>8, <2>2, <3>1
  <2>3. \A p, q \in pongs' \cup writing' :
          ~PingInPool(p.ping)' /\ (p.ping = q.ping => p.conn = q.conn)
    BY <1>5, <1>6, <1>7 DEF PingInv, PingHandledOnce
  <2> QED BY <2>1, <2>2, <2>3 DEF PingHandledOnce
<1>10. \A id : HandedOver(id)' => HandedOver(id)
  BY <1>2, <1>4, <1>5, <1>8 DEF HandedOver
<1> QED BY <1>4, <1>9, <1>10 DEF PingInv, ReadIdsFresh, OneBatchPerRead

\* A read hands its batch over.
LEMMA PingsParse ==
  ASSUME TypeOK, OneReadLoop, PingInv, NEW r \in reads, OnReadParse(r)
  PROVE  PingInv'
<1> DEFINE n == [id |-> r.id, msgs |-> r.msgs, next |-> 1]
<1>1. /\ ~HandedOver(r.id) /\ r.id <= started_reads /\ r.id \in ReadId
      /\ started_reads \in Nat /\ reads = {r} /\ r \in Read
  BY DEF OnReadParse, PingInv, ReadIdsFresh, TypeOK, ClientTypeOK, Read, OneReadLoop, AtMostOne
<1>2. /\ pool' = pool \cup {n} /\ n.id = r.id
      /\ UNCHANGED <<connection_strand, pongs, writing, started_reads>>
  BY DEF OnReadParse, connVars
<1> HIDE DEF n
<1>3. PongQueued' = PongQueued
  BY <1>2 DEF PongQueued
<1>4. OneBatchPerRead'
  BY <1>1, <1>2 DEF OneBatchPerRead, PingInv, ReadIdsFresh, HandedOver
<1>5. \A q : PingInPool(q)' => PingInPool(q) \/ q[1] = r.id
  BY <1>2 DEF PingInPool
<1>6. PingHandledOnce'
  BY <1>1, <1>2, <1>3, <1>5 DEF PingInv, PingHandledOnce, HandedOver
<1>7. \A id : HandedOver(id)' => HandedOver(id) \/ id = r.id
  BY <1>2, <1>3 DEF HandedOver
<1>8. \A q \in reads' : q.id = r.id /\ q.stage = "parsed"
  BY <1>1 DEF OnReadParse, MoveTo, Read
<1> QED BY <1>1, <1>2, <1>4, <1>6, <1>7, <1>8 DEF PingInv, ReadIdsFresh

\* No PING moves, and the reads go on.
LEMMA PingsStay ==
  ASSUME TypeOK, PingInv, ReadsGoOn,
         UNCHANGED <<pool, connection_strand>>,
         pongs' \cup writing' \subseteq pongs \cup writing
  PROVE  PingInv'
<1>1. PoolGoesOn
  BY PoolSame DEF PingInv
<1> QED BY <1>1, QueueSame, PingsGoOn

\* Another task than SendPong is dispatched, and the reads go on.
LEMMA PingsDispatch ==
  ASSUME TypeOK, PingInv, ReadsGoOn, NEW t \in Task, t.task # "SendPong", Dispatch(t),
         UNCHANGED <<pool, pongs, writing>>
  PROVE  PingInv'
<1>1. PoolGoesOn
  BY PoolSame DEF PingInv
<1> QED BY <1>1, QueueDispatch, PingsGoOn

LEMMA PingsReadLoop ==
  ASSUME TypeOK, OneReadLoop, PingInv, ReadLoop
  PROVE  PingInv'
<1>1. /\ started_reads \in Nat /\ \A q \in reads : q \in Read
      /\ \A q \in reads : q.id \in ReadId /\ q.id <= started_reads
  BY MaxReadsAssumption DEF TypeOK, ClientTypeOK, PingInv, ReadIdsFresh, Read
<1>2. ASSUME NEW r \in reads, r.stage # "parsed", UNCHANGED started_reads,
             \/ Finish(r) \/ \E msgs : MoveTo(r, "posted", msgs)
      PROVE  ReadsGoOn
  <2>1. CASE Finish(r)
    BY <1>1, <1>2, <2>1 DEF ReadsGoOn, Finish
  <2>2. ASSUME NEW msgs, MoveTo(r, "posted", msgs)
        PROVE  ReadsGoOn
    <3>1. [r EXCEPT !.stage = "posted", !.msgs = msgs].id = r.id
      BY <1>1 DEF Read
    <3>2. \A q \in reads' : q \in reads \/ q.id = r.id
      BY <2>2, <3>1 DEF MoveTo
    <3> QED BY <1>1, <1>2, <3>2 DEF ReadsGoOn
  <2> QED BY <1>2, <2>1, <2>2
<1>3. ASSUME NEW r \in reads, ReadBytes(r)
      PROVE  PingInv'
  <2>1. ReadsGoOn
    BY <1>2, <1>3 DEF ReadBytes
  <2> QED BY <1>3, <2>1, PingsStay DEF ReadBytes, handlerVars, connVars
<1>4. ASSUME NEW r \in reads, ReadNothing(r)
      PROVE  PingInv'
  <2>1. ReadsGoOn
    BY <1>2, <1>4 DEF ReadNothing
  <2> QED BY <1>4, <2>1, PingsStay DEF ReadNothing, handlerVars, connVars
<1>5. ASSUME NEW r \in reads, ReadBytesAndError(r)
      PROVE  PingInv'
  <2>1. ReadsGoOn
    BY <1>2, <1>5 DEF ReadBytesAndError
  <2> QED BY <1>5, <2>1, PingsStay DEF ReadBytesAndError, RequireReconnect, handlerVars
<1>6. ASSUME NEW r \in reads, OnReadContinue(r)
      PROVE  PingInv'
  <2>1. ReadsGoOn
    <3>1. CASE Finish(r) /\ UNCHANGED started_reads
      BY <1>1, <3>1 DEF ReadsGoOn, Finish
    <3>2. CASE StartRead(reads \ {r})
      BY <3>2, ReadStarts DEF PingInv
    <3> QED BY <1>6, <3>1, <3>2 DEF OnReadContinue
  <2>2. UNCHANGED <<pool, pongs, writing>>
    BY <1>6 DEF OnReadContinue, TakeReconnectRequired, connVars
  <2>3. [task |-> "Reconnect"] \in Task /\ [task |-> "Reconnect"].task # "SendPong"
    BY DEF Task
  <2>4. CASE Dispatch([task |-> "Reconnect"])
    BY <2>1, <2>2, <2>3, <2>4, PingsDispatch
  <2>5. CASE UNCHANGED connection_strand
    BY <2>1, <2>2, <2>5, PingsStay
  <2> QED BY <1>6, <2>4, <2>5 DEF OnReadContinue
<1> QED BY <1>3, <1>4, <1>5, <1>6, PingsParse DEF ReadLoop

LEMMA PingsStrand ==
  ASSUME TypeOK, PingInv, ConnectionStrand
  PROVE  PingInv'
<1>1. CASE Reconnect \/ SwitchHandler
  <2>1. UNCHANGED <<pool, reads, started_reads, pongs, writing>>
    BY <1>1 DEF Reconnect, SwitchHandler, connVars, clientVars
  <2>2. QueueMoves(1)
    BY <1>1, QueueTaken DEF Reconnect, SwitchHandler
  <2> QED BY <2>1, <2>2, PoolSame, ReadsSame, PingsGoOn DEF PingInv
<1> QED BY <1>1, PingsSend DEF ConnectionStrand

LEMMA PingsTimer ==
  ASSUME TypeOK, PingInv, NEW c \in Conn, TimerHandler(c)
  PROVE  PingInv'
<1>1. UNCHANGED <<pool, pongs, writing>>
  BY DEF TimerHandler, TimerConnect, TimerUpdateConnection, UpdateConnection,
     TimerFlushBuffer, TimerAuthorize, TimerRead, TimerCapRequest, TimerJoin,
     Connect, WriteAuth, WriteCap, WriteJoin, Write, handlerVars, connVars
<1>2. CASE TimerRead(c)
  <2>1. ReadsGoOn
    BY <1>2, ReadStarts, ReadsSame DEF TimerRead, PingInv
  <2> QED BY <1>1, <1>2, <2>1, PingsStay DEF TimerRead, handlerVars
<1>3. CASE TimerUpdateConnection(c)
  <2>1. ReadsGoOn
    BY <1>3, ReadsSame DEF TimerUpdateConnection, PingInv
  <2> DEFINE t == [task |-> "UpdateConnection", conn |-> connection]
  <2>2. t \in Task /\ t.task # "SendPong"
    BY DEF Task, TypeOK, ClientTypeOK
  <2> QED BY <1>1, <1>3, <2>1, <2>2, PingsDispatch DEF TimerUpdateConnection, UpdateConnection
<1>4. CASE UNCHANGED <<connection_strand, reads, started_reads>>
  BY <1>1, <1>4, PingsStay, ReadsSame DEF PingInv
<1> QED BY <1>2, <1>3, <1>4 DEF TimerHandler, TimerConnect, TimerFlushBuffer,
     TimerAuthorize, TimerCapRequest, TimerJoin, handlerVars

LEMMA PingsStep ==
  ASSUME TypeOK, OneReadLoop, PingInv, [Next]_vars
  PROVE  PingInv'
<1>1. CASE UNCHANGED <<pool, connection_strand, pongs, writing, reads, started_reads>>
  BY <1>1, PingsStay, ReadsSame DEF PingInv
<1>2. CASE UNCHANGED vars
  BY <1>1, <1>2 DEF vars, connVars, handlerVars, clientVars
<1>3. CASE Main
  <2>1. UNCHANGED <<pool, connection_strand, pongs, writing>>
    BY <1>3 DEF Main, MainConnect, MainAuthorize, MainCapRequest, MainJoin, MainRead,
       Connect, WriteAuth, WriteCap, WriteJoin, Write, connVars, handlerVars
  <2>2. ReadsGoOn
    BY <1>3, ReadStarts, ReadsSame
       DEF Main, MainConnect, MainAuthorize, MainCapRequest, MainJoin, MainRead, PingInv
  <2> QED BY <2>1, <2>2, PingsStay
<1>4. CASE Application
  BY <1>1, <1>4 DEF Application, CallJoin, CallPart, CallDisconnect, CallSetChatBot, Call,
     WriteJoin, WritePart, Write, Disconnect, SetChatBot, handlerVars, connVars
<1>5. CASE HandlerPool
  <2>1. PICK b \in pool : HandleMessage(b)
    BY <1>5 DEF HandlerPool
  <2>2. UNCHANGED <<connVars, clientVars>>
    BY <1>5 DEF HandlerPool
  <2>3. CASE HandlePing(b)
    BY <2>2, <2>3, PingsPing
  <2>4. CASE HandleChat(b) \/ HandleNickless(b) \/ HandleOther(b)
    <3>1. (Advance(b) \/ Abandon(b)) /\ UNCHANGED connection_strand
      BY <2>4 DEF HandleChat, HandleNickless, HandleOther
    <3>2. PoolGoesOn
      BY <3>1, PoolAdvances DEF PingInv
    <3>3. UNCHANGED <<pongs, writing, reads, started_reads>>
      BY <2>2 DEF connVars, clientVars
    <3> QED BY <3>1, <3>2, <3>3, ReadsSame, QueueSame, PingsGoOn DEF PingInv
  <2> QED BY <2>1, <2>3, <2>4 DEF HandleMessage
<1>6. CASE BotTask
  BY <1>1, <1>6 DEF BotTask, ParseAndExecute, handlerVars, connVars
<1>7. CASE WriteCompletes
  <2>1. UNCHANGED <<pool, connection_strand, reads, started_reads>>
    BY <1>7 DEF WriteCompletes, handlerVars, clientVars
  <2>2. pongs' \cup writing' \subseteq pongs \cup writing
    BY <1>7 DEF WriteCompletes, AsyncWriteDone
  <2> QED BY <2>1, <2>2, PingsStay, ReadsSame DEF PingInv
<1>8. CASE Network
  BY <1>1, <1>8 DEF Network, NetworkBreaks, handlerVars, clientVars
<1> QED BY <1>2, <1>3, <1>4, <1>5, <1>6, <1>7, <1>8, PingsReadLoop, PingsStrand, PingsTimer
     DEF Next

(***************************************************************************)
(* A PING is in one place and is answered on one connection, whatever the  *)
(* batches hold and however often the connection is replaced.              *)
(***************************************************************************)
THEOREM PingHandledOnceHolds == Spec => []PingHandledOnce
<1>1. Init => PingInv
  BY DEF Init, ConnectionInit, HandlerInit, PingInv, PingHandledOnce, PongQueued,
     ReadIdsFresh, OneBatchPerRead, HandedOver
<1>2. TypeOK /\ OneReadLoop /\ PingInv /\ [Next]_vars => PingInv'
  BY PingsStep
<1> QED BY <1>1, <1>2, TypeCorrect, OneReadLoopHolds, PTL DEF Spec, PingInv
===============================================================================

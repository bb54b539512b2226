--------------------------- MODULE IrcClientProofs ---------------------------
(***************************************************************************)
(* Theorems about IrcClient for every number of connections and reads,     *)
(* every set of channels and every set of batches.                         *)
(***************************************************************************)
EXTENDS IrcClientProps, SequenceTheorems, TLAPS

USE DEF bufferVars, readVars, poolVars

-------------------------------------------------------------------------------
\* The operations of a Connection keep its types.

LEMMA ConnectTypes ==
  ASSUME ConnectionTypeOK, NEW c \in Conn, NEW outcome, Connect(c, outcome)
  PROVE  ConnectionTypeOK' /\ pongs' = pongs /\ writing' = writing
BY DEF ConnectionTypeOK, Connect, SocketAfter, SocketState

LEMMA DisconnectTypes ==
  ASSUME ConnectionTypeOK, NEW c \in Conn, Disconnect(c)
  PROVE  ConnectionTypeOK' /\ pongs' = pongs /\ writing' = writing
BY DEF ConnectionTypeOK, Disconnect, SocketState

LEMMA WriteTypes ==
  ASSUME ConnectionTypeOK, NEW c \in Conn, NEW said \in SUBSET {"AUTH", "CAP"},
         NEW rooms \in SUBSET Channels, Write(c, said, rooms)
  PROVE  ConnectionTypeOK' /\ pongs' = pongs /\ writing' = writing
<1>1. login' \in [Conn -> SUBSET {"AUTH", "CAP"}]
  BY DEF ConnectionTypeOK, Write
<1>2. room' \in [Conn -> SUBSET Channels]
  BY DEF ConnectionTypeOK, Write
<1> QED BY <1>1, <1>2 DEF ConnectionTypeOK, Write

LEMMA AsyncWriteTypes ==
  ASSUME ConnectionTypeOK, pongs \cup writing \subseteq PongRecord,
         NEW c \in Conn, NEW ping \in MessageId, AsyncWrite(c, ping)
  PROVE  ConnectionTypeOK' /\ pongs' \cup writing' \subseteq PongRecord
BY DEF ConnectionTypeOK, AsyncWrite, Pong, PongRecord

LEMMA FlagTypes ==
  ASSUME ConnectionTypeOK, NEW c \in Conn,
         RequireReconnect(c) \/ TakeReconnectRequired(c) \/ NetworkBreaks(c)
  PROVE  ConnectionTypeOK' /\ pongs' = pongs /\ writing' = writing
BY DEF ConnectionTypeOK, RequireReconnect, TakeReconnectRequired, NetworkBreaks,
       SocketState

-------------------------------------------------------------------------------
\* What the strand does to its queue.

LEMMA DispatchTypes ==
  ASSUME connection_strand \in Seq(Task), NEW t \in Task, Dispatch(t)
  PROVE  connection_strand' \in Seq(Task)
BY AppendProperties DEF Dispatch

LEMMA NextTaskTypes ==
  ASSUME connection_strand \in Seq(Task), NEW name, NextTask(name)
  PROVE  /\ connection_strand' \in Seq(Task)
         /\ Head(connection_strand) \in Task
         /\ Head(connection_strand).task = name
BY HeadTailProperties DEF NextTask

LEMMA TaskFields ==
  ASSUME NEW t \in Task
  PROVE  /\ t.task = "UpdateConnection" => t.conn \in Conn
         /\ t.task = "SendPong" => t.ping \in MessageId
BY DEF Task

-------------------------------------------------------------------------------
\* The actions keep the types, group by group.

LEMMA StartReadTypes ==
  ASSUME ClientTypeOK, NEW others \in SUBSET Read, StartRead(others)
  PROVE  reads' \subseteq Read /\ started_reads' \in 0 .. MaxReads
<1>1. started_reads + 1 \in 1 .. MaxReads
  BY MaxReadsAssumption DEF ClientTypeOK, StartRead
<1>2. <<>> \in Seq(MessageKind)
  OBVIOUS
<1>3. NewRead \in Read
  BY <1>1, <1>2 DEF ClientTypeOK, NewRead, Read, ReadId
<1> QED BY <1>1, <1>3 DEF StartRead

LEMMA MoveToTypes ==
  ASSUME ClientTypeOK, NEW r \in reads, NEW stage \in {"pending", "posted", "parsed"},
         NEW msgs \in Seq(MessageKind), MoveTo(r, stage, msgs)
  PROVE  reads' \subseteq Read
BY DEF ClientTypeOK, MoveTo, Read

LEMMA MainTypes ==
  ASSUME TypeOK, Main
  PROVE  TypeOK'
<1> USE DEF TypeOK
<1>1. CASE MainConnect
  <2>1. PICK outcome \in ConnectOutcome : Connect(connection, outcome)
    BY <1>1 DEF MainConnect
  <2>2. ConnectionTypeOK' /\ pongs' = pongs /\ writing' = writing
    BY <2>1, ConnectTypes DEF ClientTypeOK
  <2> QED BY <1>1, <2>2 DEF MainConnect, AfterConnect, HandlerTypeOK, ClientTypeOK,
             handlerVars, MainStage
<1>2. CASE MainAuthorize
  <2>1. ConnectionTypeOK' /\ pongs' = pongs /\ writing' = writing
    <3>1. CASE WriteAuth
      BY <3>1, WriteTypes DEF WriteAuth, ClientTypeOK, ConnectionTypeOK
    <3>2. CASE UNCHANGED connVars
      BY <3>2 DEF connVars, ConnectionTypeOK
    <3> QED BY <1>2, <3>1, <3>2 DEF MainAuthorize
  <2> QED BY <1>2, <2>1 DEF MainAuthorize, HandlerTypeOK, ClientTypeOK, handlerVars,
             MainStage, Terminate
<1>3. CASE MainCapRequest
  <2>1. ConnectionTypeOK' /\ pongs' = pongs /\ writing' = writing
    BY <1>3, WriteTypes DEF MainCapRequest, WriteCap, ClientTypeOK, ConnectionTypeOK
  <2> QED BY <1>3, <2>1 DEF MainCapRequest, HandlerTypeOK, ClientTypeOK, handlerVars,
             MainStage
<1>4. CASE MainJoin
  <2>1. PICK channels \in SUBSET Channels :
          /\ WriteJoin(channels)
          /\ join_command_buffer' = join_command_buffer \cup channels
          /\ joined_channels' = joined_channels \cup channels
    BY <1>4 DEF MainJoin
  <2>2. ConnectionTypeOK' /\ pongs' = pongs /\ writing' = writing
    <3>1. room[connection] \cup channels \in SUBSET Channels
      BY DEF ClientTypeOK, ConnectionTypeOK
    <3> QED BY <2>1, <3>1, WriteTypes DEF WriteJoin, ClientTypeOK
  <2> QED BY <1>4, <2>1, <2>2 DEF MainJoin, HandlerTypeOK, ClientTypeOK, handlerVars,
             MainStage
<1>5. CASE MainRead
  <2>1. reads' \subseteq Read /\ started_reads' \in 0 .. MaxReads
    BY <1>5, StartReadTypes DEF MainRead, ClientTypeOK
  <2> QED BY <1>5, <2>1 DEF MainRead, ConnectionTypeOK, HandlerTypeOK, ClientTypeOK,
             connVars, handlerVars, MainStage
<1> QED BY <1>1, <1>2, <1>3, <1>4, <1>5 DEF Main

LEMMA ApplicationTypes ==
  ASSUME TypeOK, Application
  PROVE  TypeOK'
<1> USE DEF TypeOK
<1>0. ASSUME Call
      PROVE  calls' \in 0 .. MaxCalls
  BY <1>0, ClientAssumption DEF Call, ClientTypeOK
<1>1. ASSUME NEW channel \in Channels, CallJoin(channel)
      PROVE  TypeOK'
  <2>1. ConnectionTypeOK' /\ pongs' = pongs /\ writing' = writing
    <3>1. CASE WriteJoin({channel})
      <4>1. room[connection] \cup {channel} \in SUBSET Channels
        BY DEF ClientTypeOK, ConnectionTypeOK
      <4> QED BY <3>1, <4>1, WriteTypes DEF WriteJoin, ClientTypeOK
    <3>2. CASE UNCHANGED connVars
      BY <3>2 DEF connVars, ConnectionTypeOK
    <3> QED BY <1>1, <3>1, <3>2 DEF CallJoin
  <2> QED BY <1>0, <1>1, <2>1 DEF CallJoin, Call, HandlerTypeOK, ClientTypeOK, handlerVars
<1>2. ASSUME NEW channel \in Channels, CallPart(channel)
      PROVE  TypeOK'
  <2>1. ConnectionTypeOK' /\ pongs' = pongs /\ writing' = writing
    <3>1. room[connection] \ {channel} \in SUBSET Channels
      BY DEF ClientTypeOK, ConnectionTypeOK
    <3> QED BY <1>2, <3>1, WriteTypes DEF CallPart, WritePart, ClientTypeOK
  <2> QED BY <1>0, <1>2, <2>1 DEF CallPart, Call, HandlerTypeOK, ClientTypeOK, handlerVars
<1>3. CASE CallDisconnect
  <2>1. ConnectionTypeOK' /\ pongs' = pongs /\ writing' = writing
    BY <1>3, DisconnectTypes DEF CallDisconnect, ClientTypeOK
  <2> QED BY <1>0, <1>3, <2>1 DEF CallDisconnect, Call, HandlerTypeOK, ClientTypeOK,
             handlerVars
<1>4. CASE CallSetChatBot
  BY <1>0, <1>4, ClientAssumption DEF CallSetChatBot, Call, SetChatBot, ConnectionTypeOK,
     HandlerTypeOK, ClientTypeOK, connVars
<1> QED BY <1>1, <1>2, <1>3, <1>4 DEF Application

LEMMA ReadLoopTypes ==
  ASSUME TypeOK, ReadLoop
  PROVE  TypeOK'
<1> USE DEF TypeOK
<1>0. \A msgs \in Batches : msgs \in Seq(MessageKind)
  BY BatchesAssumption
<1>1. ASSUME NEW r \in reads, ReadBytes(r)
      PROVE  TypeOK'
  <2>0. \A msgs \in IF IsSecured(r.conn) THEN Batches ELSE {<<>>} : msgs \in Seq(MessageKind)
    <3>1. <<>> \in Seq(MessageKind)
      OBVIOUS
    <3>2. CASE IsSecured(r.conn)
      BY <1>0, <3>2
    <3>3. CASE ~IsSecured(r.conn)
      BY <3>1, <3>3
    <3> QED BY <3>2, <3>3
  <2>1. PICK msgs \in Seq(MessageKind) : MoveTo(r, "posted", msgs)
    BY <1>1, <2>0 DEF ReadBytes
  <2>2. reads' \subseteq Read
    BY <2>1, MoveToTypes
  <2> QED BY <1>1, <2>2 DEF ReadBytes, ConnectionTypeOK, HandlerTypeOK, ClientTypeOK,
             connVars, handlerVars
<1>2. ASSUME NEW r \in reads, ReadNothing(r)
      PROVE  TypeOK'
  BY <1>2 DEF ReadNothing, Finish, ConnectionTypeOK, HandlerTypeOK, ClientTypeOK,
     connVars, handlerVars
<1>3. ASSUME NEW r \in reads, ReadBytesAndError(r)
      PROVE  TypeOK'
  <2>1. reads' \subseteq Read
    BY <1>0, <1>3, MoveToTypes DEF ReadBytesAndError
  <2>2. ConnectionTypeOK' /\ pongs' = pongs /\ writing' = writing
    BY <1>3, FlagTypes DEF ReadBytesAndError, ClientTypeOK, Read
  <2> QED BY <1>3, <2>1, <2>2 DEF ReadBytesAndError, HandlerTypeOK, ClientTypeOK,
             handlerVars
<1>4. ASSUME NEW r \in reads, OnReadParse(r)
      PROVE  TypeOK'
  <2>1. <<>> \in Seq(MessageKind)
    OBVIOUS
  <2>2. reads' \subseteq Read
    BY <1>4, <2>1, MoveToTypes DEF OnReadParse
  <2>3. pool' \subseteq Batch
    BY <1>4 DEF OnReadParse, HandlerTypeOK, ClientTypeOK, Batch, Read
  <2>4. incomplete_from' \in Conn \cup {0}
    BY <1>4 DEF OnReadParse, ClientTypeOK, Read
  <2> QED BY <1>4, <2>2, <2>3, <2>4 DEF OnReadParse, ConnectionTypeOK, HandlerTypeOK,
             ClientTypeOK, connVars
<1>5. ASSUME NEW r \in reads, OnReadContinue(r)
      PROVE  TypeOK'
  <2>1. CASE /\ TakeReconnectRequired(connection)
             /\ Dispatch([task |-> "Reconnect"])
             /\ Finish(r)
             /\ UNCHANGED started_reads
    <3>1. ConnectionTypeOK' /\ pongs' = pongs /\ writing' = writing
      BY <2>1, FlagTypes DEF ClientTypeOK
    <3>2. [task |-> "Reconnect"] \in Task
      BY DEF Task
    <3>3. connection_strand' \in Seq(Task)
      BY <2>1, <3>2, DispatchTypes DEF HandlerTypeOK
    <3> QED BY <1>5, <2>1, <3>1, <3>3 DEF OnReadContinue, Finish, HandlerTypeOK,
               ClientTypeOK
  <2>2. CASE /\ UNCHANGED <<connVars, connection_strand>>
             /\ \/ StartRead(reads \ {r})
                \/ Finish(r) /\ UNCHANGED started_reads
    <3>1. reads' \subseteq Read /\ started_reads' \in 0 .. MaxReads
      <4>1. reads \ {r} \in SUBSET Read
        BY DEF ClientTypeOK
      <4> QED BY <2>2, <4>1, StartReadTypes DEF Finish, ClientTypeOK
    <3> QED BY <1>5, <2>2, <3>1 DEF OnReadContinue, ConnectionTypeOK, HandlerTypeOK,
               ClientTypeOK, connVars
  <2> QED BY <1>5, <2>1, <2>2 DEF OnReadContinue
<1> QED BY <1>1, <1>2, <1>3, <1>4, <1>5 DEF ReadLoop

LEMMA ConnectionStrandTypes ==
  ASSUME TypeOK, ConnectionStrand
  PROVE  TypeOK'
<1> USE DEF TypeOK
<1>1. CASE Reconnect
  <2>1. connection_strand' \in Seq(Task)
    BY <1>1, NextTaskTypes DEF Reconnect, HandlerTypeOK
  <2>2. connection' \in Conn /\ timer' \in [Conn -> TimerStage]
    BY <1>1 DEF Reconnect, ClientTypeOK, TimerStage
  <2> QED BY <1>1, <2>1, <2>2 DEF Reconnect, ConnectionTypeOK, HandlerTypeOK, ClientTypeOK,
             connVars
<1>2. CASE SwitchHandler
  <2>1. connection_strand' \in Seq(Task) /\ handler_connection' \in Conn
    BY <1>2, NextTaskTypes, TaskFields DEF SwitchHandler, HandlerTypeOK
  <2> QED BY <1>2, <2>1 DEF SwitchHandler, ConnectionTypeOK, HandlerTypeOK, ClientTypeOK,
             connVars, clientVars
<1>3. CASE SendPong
  <2>1. /\ connection_strand' \in Seq(Task)
        /\ Head(connection_strand).ping \in MessageId
    BY <1>3, NextTaskTypes, TaskFields DEF SendPong, HandlerTypeOK
  <2>2. ConnectionTypeOK' /\ pongs' \cup writing' \subseteq PongRecord
    <3>1. CASE AsyncWrite(handler_connection, Head(connection_strand).ping)
      BY <2>1, <3>1, AsyncWriteTypes DEF HandlerTypeOK
    <3>2. CASE UNCHANGED connVars
      BY <3>2 DEF connVars, ConnectionTypeOK, HandlerTypeOK
    <3> QED BY <1>3, <3>1, <3>2 DEF SendPong
  <2> QED BY <1>3, <2>1, <2>2 DEF SendPong, HandlerTypeOK, ClientTypeOK, Terminate
<1> QED BY <1>1, <1>2, <1>3 DEF ConnectionStrand

LEMMA TimerTypes ==
  ASSUME TypeOK, NEW c \in Conn, TimerHandler(c)
  PROVE  TypeOK'
<1> USE DEF TypeOK
<1>1. ASSUME NEW from, NEW to \in TimerStage, TimerMoves(c, from, to)
      PROVE  timer' \in [Conn -> TimerStage]
  BY <1>1 DEF TimerMoves, ClientTypeOK
<1>2. /\ "Handshake" \in TimerStage
      /\ "UpdateConnection" \in TimerStage /\ "FlushBuffer" \in TimerStage
      /\ "Authorize" \in TimerStage /\ "Read" \in TimerStage
      /\ "CapRequest" \in TimerStage /\ "Join" \in TimerStage /\ "done" \in TimerStage
  BY DEF TimerStage
<1>3. CASE TimerConnect(c)
  <2>1. PICK outcome \in ConnectOutcome : Connect(connection, outcome)
    BY <1>3 DEF TimerConnect
  <2>2. ConnectionTypeOK' /\ pongs' = pongs /\ writing' = writing
    BY <2>1, ConnectTypes DEF ClientTypeOK
  <2> QED BY <1>1, <1>2, <1>3, <2>2 DEF TimerConnect, AfterConnect, HandlerTypeOK, ClientTypeOK,
             handlerVars
<1>4. CASE TimerUpdateConnection(c)
  <2>1. [task |-> "UpdateConnection", conn |-> connection] \in Task
    BY DEF Task, ClientTypeOK
  <2>2. connection_strand' \in Seq(Task)
    BY <1>4, <2>1, DispatchTypes DEF TimerUpdateConnection, UpdateConnection, HandlerTypeOK
  <2> QED BY <1>1, <1>2, <1>4, <2>2 DEF TimerUpdateConnection, UpdateConnection,
             ConnectionTypeOK, HandlerTypeOK, ClientTypeOK, connVars
<1>5. CASE TimerFlushBuffer(c)
  BY <1>1, <1>2, <1>5 DEF TimerFlushBuffer, ConnectionTypeOK, HandlerTypeOK, ClientTypeOK,
     connVars, handlerVars
<1>6. CASE TimerAuthorize(c)
  <2>1. ConnectionTypeOK' /\ pongs' = pongs /\ writing' = writing
    <3>1. CASE WriteAuth
      BY <3>1, WriteTypes DEF WriteAuth, ClientTypeOK, ConnectionTypeOK
    <3>2. CASE UNCHANGED connVars
      BY <3>2 DEF connVars, ConnectionTypeOK
    <3> QED BY <1>6, <3>1, <3>2 DEF TimerAuthorize
  <2>2. timer' \in [Conn -> TimerStage]
    BY <1>1, <1>2, <1>6 DEF TimerAuthorize, ClientTypeOK
  <2> QED BY <1>6, <2>1, <2>2 DEF TimerAuthorize, HandlerTypeOK, ClientTypeOK, handlerVars,
             Terminate
<1>7. CASE TimerRead(c)
  <2>1. timer' \in [Conn -> TimerStage]
    BY <1>1, <1>2, <1>7 DEF TimerRead, ClientTypeOK
  <2>2. reads' \subseteq Read /\ started_reads' \in 0 .. MaxReads
    BY <1>7, StartReadTypes DEF TimerRead, ClientTypeOK
  <2> QED BY <1>7, <2>1, <2>2 DEF TimerRead, ConnectionTypeOK, HandlerTypeOK, ClientTypeOK,
             connVars, handlerVars, Terminate
<1>8. CASE TimerCapRequest(c)
  <2>1. ConnectionTypeOK' /\ pongs' = pongs /\ writing' = writing
    <3>1. CASE WriteCap
      BY <3>1, WriteTypes DEF WriteCap, ClientTypeOK, ConnectionTypeOK
    <3>2. CASE UNCHANGED connVars
      BY <3>2 DEF connVars, ConnectionTypeOK
    <3> QED BY <1>8, <3>1, <3>2 DEF TimerCapRequest
  <2>2. timer' \in [Conn -> TimerStage]
    BY <1>1, <1>2, <1>8 DEF TimerCapRequest, ClientTypeOK
  <2> QED BY <1>8, <2>1, <2>2 DEF TimerCapRequest, HandlerTypeOK, ClientTypeOK, handlerVars,
             Terminate
<1>9. CASE TimerJoin(c)
  <2>1. ConnectionTypeOK' /\ pongs' = pongs /\ writing' = writing
    <3>1. CASE WriteJoin(join_command_buffer)
      <4>1. room[connection] \cup join_command_buffer \in SUBSET Channels
        BY DEF ClientTypeOK, ConnectionTypeOK
      <4> QED BY <3>1, <4>1, WriteTypes DEF WriteJoin, ClientTypeOK
    <3>2. CASE UNCHANGED connVars
      BY <3>2 DEF connVars, ConnectionTypeOK
    <3> QED BY <1>9, <3>1, <3>2 DEF TimerJoin
  <2>2. timer' \in [Conn -> TimerStage]
    BY <1>1, <1>2, <1>9 DEF TimerJoin, ClientTypeOK
  <2> QED BY <1>9, <2>1, <2>2 DEF TimerJoin, HandlerTypeOK, ClientTypeOK, handlerVars,
             Terminate
<1> QED BY <1>3, <1>4, <1>5, <1>6, <1>7, <1>8, <1>9 DEF TimerHandler

LEMMA PoolTypes ==
  ASSUME TypeOK, HandlerPool
  PROVE  TypeOK'
<1> USE DEF TypeOK
<1>1. PICK b \in pool : HandleMessage(b)
  BY DEF HandlerPool
<1>2. b \in Batch
  BY DEF HandlerTypeOK
<1>3. [b EXCEPT !.next = @ + 1] \in Batch
  BY <1>2 DEF Batch
<1>4. pool' \subseteq Batch
  BY <1>1, <1>3 DEF HandleMessage, HandlePing, HandleChat, HandleNickless, HandleOther,
     Advance, Abandon, HandlerTypeOK
<1>5. <<b.id, b.next>> \in MessageId
  BY <1>2 DEF Batch, MessageId
<1>6. connection_strand' \in Seq(Task)
  <2>1. [task |-> "SendPong", ping |-> <<b.id, b.next>>] \in Task
    BY <1>5 DEF Task
  <2>2. CASE HandlePing(b)
    BY <2>1, <2>2, DispatchTypes DEF HandlePing, HandlerTypeOK
  <2> QED BY <1>1, <2>2 DEF HandleMessage, HandleChat, HandleNickless, HandleOther,
             HandlerTypeOK
<1>7. to_bot' \subseteq MessageId
  BY <1>1, <1>5 DEF HandleMessage, HandlePing, HandleChat, HandleNickless, HandleOther,
     HandlerTypeOK
<1>8. UNCHANGED <<handler_connection, chat_bot>>
  BY <1>1 DEF HandleMessage, HandlePing, HandleChat, HandleNickless, HandleOther
<1> QED BY <1>4, <1>6, <1>7, <1>8 DEF HandlerPool, ConnectionTypeOK, HandlerTypeOK,
           ClientTypeOK, connVars, clientVars

LEMMA BotTaskTypes ==
  ASSUME TypeOK, BotTask
  PROVE  TypeOK'
BY DEF TypeOK, BotTask, ParseAndExecute, Terminate, ConnectionTypeOK, HandlerTypeOK,
       ClientTypeOK, connVars, handlerVars

LEMMA OutsideTypes ==
  ASSUME TypeOK, WriteCompletes \/ Network
  PROVE  TypeOK'
<1> USE DEF TypeOK
<1>1. CASE WriteCompletes
  BY <1>1 DEF WriteCompletes, AsyncWriteDone, ConnectionTypeOK, HandlerTypeOK,
     ClientTypeOK, handlerVars, clientVars
<1>2. CASE Network
  <2>1. ConnectionTypeOK' /\ pongs' = pongs /\ writing' = writing
    BY <1>2, FlagTypes DEF Network
  <2> QED BY <1>2, <2>1 DEF Network, HandlerTypeOK, ClientTypeOK, handlerVars, clientVars
<1> QED BY <1>1, <1>2

LEMMA InitTypes == Init => TypeOK
<1> SUFFICES ASSUME Init PROVE TypeOK
  OBVIOUS
<1>1. 1 \in Conn
  BY MaxConnAssumption DEF Conn
<1>2. ConnectionTypeOK
  BY DEF Init, ConnectionInit, ConnectionTypeOK, SocketState
<1>3. HandlerTypeOK
  BY <1>1, ClientAssumption DEF Init, ConnectionInit, HandlerInit, HandlerTypeOK
<1>4. ClientTypeOK
  <2>1. 0 \in 0 .. MaxReads /\ 0 \in 0 .. MaxCalls
    BY MaxReadsAssumption, ClientAssumption
  <2>2. timer \in [Conn -> TimerStage]
    BY DEF Init, TimerStage
  <2> QED BY <1>1, <2>1, <2>2 DEF Init, ClientTypeOK, MainStage
<1> QED BY <1>2, <1>3, <1>4 DEF TypeOK

LEMMA NextTypes == TypeOK /\ [Next]_vars => TypeOK'
<1> SUFFICES ASSUME TypeOK, [Next]_vars PROVE TypeOK'
  OBVIOUS
<1>1. CASE UNCHANGED vars
  BY <1>1 DEF vars, connVars, handlerVars, clientVars, TypeOK, ConnectionTypeOK,
     HandlerTypeOK, ClientTypeOK
<1>2. CASE Next
  BY <1>2, MainTypes, ApplicationTypes, ReadLoopTypes, ConnectionStrandTypes, TimerTypes,
     PoolTypes, BotTaskTypes, OutsideTypes DEF Next
<1> QED BY <1>1, <1>2

(***************************************************************************)
(* Type correctness of the client, its connections and its handler.        *)
(***************************************************************************)
THEOREM TypeCorrect == Spec => []TypeOK
BY InitTypes, NextTypes, PTL DEF Spec
===============================================================================

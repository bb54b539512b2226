------------------------ MODULE IrcClientRecoveryProofs ------------------------
(***************************************************************************)
(* What a recovered session looks like, and why the process may end.       *)
(***************************************************************************)
EXTENDS IrcClientHandlerProofs

USE DEF bufferVars, readVars, poolVars

-------------------------------------------------------------------------------
(***************************************************************************)
(* How far the login of the connection in use has come: by where main() is *)
(* for the first connection, by its timer handler for every later one.     *)
(* Nothing that was written is lost while the stream stays open.           *)
(***************************************************************************)
RoomsAreBuffered ==
  /\ joined_channels \subseteq join_command_buffer
  /\ \A c \in Conn : room[c] \subseteq join_command_buffer

FirstSession ==
  /\ main = "Connect" => joined_channels = {} /\ room[1] = {}
  /\ connection = 1 /\ socket[1] = "open" =>
       /\ room[1] = joined_channels
       /\ main \notin {"Connect", "Handshake", "Authorize"} => "AUTH" \in login[1]
       /\ main \notin {"Connect", "Handshake", "Authorize", "CapRequest"} =>
            "CAP" \in login[1]

LaterSession ==
  connection # 1 /\ socket[connection] = "open" =>
    /\ timer[connection] \in {"Read", "CapRequest", "Join", "done"} =>
         "AUTH" \in login[connection]
    /\ timer[connection] \in {"Join", "done"} => "CAP" \in login[connection]
    /\ timer[connection] = "done" => joined_channels \subseteq room[connection]

SessionInv == RoomsAreBuffered /\ FirstSession /\ LaterSession

\* A write on the connection in use, when the client is made for TLS.
LEMMA WriteEffect ==
  ASSUME Secured, TypeOK, NEW said, NEW rooms, Write(connection, said, rooms)
  PROVE  /\ UNCHANGED socket
         /\ socket[connection] = "open" =>
              /\ login'[connection] = login[connection] \cup said
              /\ room'[connection] = rooms
         /\ \A c \in Conn : room'[c] = room[c] \/ (c = connection /\ room'[c] = rooms)
         /\ login[connection] \subseteq login'[connection]
<1>1. /\ connection \in Conn
      /\ login \in [Conn -> SUBSET {"AUTH", "CAP"}] /\ room \in [Conn -> SUBSET Channels]
  BY DEF TypeOK, ConnectionTypeOK, ClientTypeOK
<1>2. Reaches(connection) = (socket[connection] = "open")
  BY DEF Reaches, IsSecured
<1>3. /\ login' = [login EXCEPT ![connection] = IF Reaches(connection) THEN @ \cup said ELSE @]
      /\ room' = [room EXCEPT ![connection] = IF Reaches(connection) THEN rooms ELSE @]
      /\ UNCHANGED socket
  BY DEF Write
<1>4. ASSUME NEW c \in Conn
      PROVE  room'[c] = room[c] \/ (c = connection /\ room'[c] = rooms)
  <2>1. CASE c = connection
    BY <1>1, <1>3, <2>1
  <2>2. CASE c # connection
    BY <1>1, <1>3, <2>2
  <2> QED BY <2>1, <2>2
<1>5. socket[connection] = "open" =>
        login'[connection] = login[connection] \cup said /\ room'[connection] = rooms
  BY <1>1, <1>2, <1>3
<1>6. login[connection] \subseteq login'[connection]
  BY <1>1, <1>3
<1> QED BY <1>3, <1>4, <1>5, <1>6

LEMMA SessionQuiet ==
  ASSUME SessionInv, TypeOK,
         UNCHANGED <<login, room, joined_channels, join_command_buffer, main, timer,
                     connection>>,
         \A c \in Conn : socket'[c] = "open" => socket[c] = "open"
  PROVE  SessionInv'
<1>1. connection \in Conn /\ 1 \in Conn
  BY MaxConnAssumption DEF TypeOK, ClientTypeOK, Conn
<1> QED BY <1>1 DEF SessionInv, RoomsAreBuffered, FirstSession, LaterSession

LEMMA SessionMain ==
  ASSUME Secured, SessionInv, TypeOK, TimersInOrder, Main
  PROVE  SessionInv'
<1> USE DEF SessionInv, RoomsAreBuffered, FirstSession, LaterSession
<1>1. connection = 1 /\ 1 \in Conn /\ main # "Run" /\ UNCHANGED connection
  BY MaxConnAssumption
     DEF Main, MainConnect, MainAuthorize, MainCapRequest, MainJoin, MainRead,
         TimersInOrder, Conn
<1>2. CASE MainConnect
  BY <1>1, <1>2 DEF MainConnect, Connect, AfterConnect, SocketAfter
<1>3. CASE MainAuthorize
  <2>1. CASE WriteAuth /\ main' = "CapRequest"
    BY <1>1, <1>3, <2>1, WriteEffect DEF MainAuthorize, WriteAuth
  <2>2. CASE UNCHANGED <<connVars, main>>
    BY <1>1, <1>3, <2>2 DEF MainAuthorize, connVars
  <2> QED BY <1>3, <2>1, <2>2 DEF MainAuthorize
<1>4. CASE MainCapRequest
  BY <1>1, <1>4, WriteEffect DEF MainCapRequest, WriteCap
<1>5. CASE MainJoin
  <2>1. PICK channels \in SUBSET Channels :
          /\ WriteJoin(channels)
          /\ join_command_buffer' = join_command_buffer \cup channels
          /\ joined_channels' = joined_channels \cup channels
    BY <1>5 DEF MainJoin
  <2>2. /\ UNCHANGED socket
        /\ socket[connection] = "open" =>
              /\ login[connection] \subseteq login'[connection]
              /\ room'[connection] = room[connection] \cup channels
        /\ \A c \in Conn :
             room'[c] = room[c] \/ (c = connection /\ room'[c] = room[c] \cup channels)
    BY <2>1, WriteEffect DEF WriteJoin
  <2>3. main = "Join" /\ main' = "Read"
    BY <1>5 DEF MainJoin
  <2>4. RoomsAreBuffered'
    BY <2>1, <2>2
  <2>5. FirstSession'
    BY <1>1, <2>1, <2>2, <2>3
  <2> QED BY <1>1, <2>4, <2>5
<1>6. CASE MainRead
  BY <1>1, <1>6 DEF MainRead, connVars
<1> QED BY <1>2, <1>3, <1>4, <1>5, <1>6 DEF Main

LEMMA SessionApplication ==
  ASSUME Secured, SessionInv, TypeOK, TimersInOrder, Application
  PROVE  SessionInv'
<1> USE DEF SessionInv, RoomsAreBuffered, FirstSession, LaterSession
<1>1. connection \in Conn /\ 1 \in Conn /\ main = "Run"
      /\ UNCHANGED <<connection, main, timer>>
  <2>1. Call
    BY DEF Application, CallJoin, CallPart, CallDisconnect, CallSetChatBot
  <2> QED BY <2>1, MaxConnAssumption DEF TypeOK, ClientTypeOK, Conn, Call
<1>2. ASSUME NEW channel \in Channels, CallJoin(channel)
      PROVE  SessionInv'
  <2>1. join_command_buffer' = join_command_buffer \cup {channel}
    BY <1>2 DEF CallJoin
  <2>2. CASE WriteJoin({channel}) /\ joined_channels' = joined_channels \cup {channel}
    <3>1. /\ UNCHANGED socket
          /\ socket[connection] = "open" =>
                /\ login[connection] \subseteq login'[connection]
                /\ room'[connection] = room[connection] \cup {channel}
          /\ \A c \in Conn :
               room'[c] = room[c] \/ (c = connection /\ room'[c] = room[c] \cup {channel})
      BY <2>2, WriteEffect DEF WriteJoin
    <3> QED BY <1>1, <2>1, <2>2, <3>1
  <2>3. CASE UNCHANGED <<connVars, joined_channels>>
    BY <1>1, <2>1, <2>3 DEF connVars
  <2> QED BY <1>2, <2>2, <2>3 DEF CallJoin
<1>3. ASSUME NEW channel \in Channels, CallPart(channel)
      PROVE  SessionInv'
  <2>1. /\ UNCHANGED socket
        /\ socket[connection] = "open" =>
              /\ login[connection] \subseteq login'[connection]
              /\ room'[connection] = room[connection] \ {channel}
        /\ \A c \in Conn :
             room'[c] = room[c] \/ (c = connection /\ room'[c] = room[c] \ {channel})
    BY <1>3, WriteEffect DEF CallPart, WritePart
  <2> QED BY <1>1, <1>3, <2>1 DEF CallPart
<1>4. CASE CallDisconnect
  <2>1. \A c \in Conn : socket'[c] = "open" => socket[c] = "open"
    BY <1>4 DEF CallDisconnect, Disconnect, TypeOK, ConnectionTypeOK
  <2>2. UNCHANGED <<login, room, joined_channels, join_command_buffer>>
    BY <1>4 DEF CallDisconnect, Disconnect
  <2> QED BY <1>1, <2>1, <2>2, SessionQuiet
<1>5. CASE CallSetChatBot
  BY <1>1, <1>5, SessionQuiet DEF CallSetChatBot, connVars
<1> QED BY <1>2, <1>3, <1>4, <1>5 DEF Application

LEMMA SessionTimer ==
  ASSUME Secured, SessionInv, TypeOK, OneReadLoop, TimersInOrder,
         NEW c \in Conn, TimerHandler(c)
  PROVE  SessionInv'
<1> USE DEF SessionInv, RoomsAreBuffered, FirstSession, LaterSession
<1>1. /\ connection \in Conn /\ connection \in Nat /\ 1 \in Conn
      /\ timer \in [Conn -> TimerStage]
  BY MaxConnAssumption DEF TypeOK, ClientTypeOK, Conn
<1>2. UNCHANGED <<connection, main, joined_channels, join_command_buffer>>
  BY DEF TimerHandler, TimerConnect, TimerUpdateConnection, TimerFlushBuffer,
     TimerAuthorize, TimerRead, TimerCapRequest, TimerJoin
<1>3. timer[c] # "none"
  BY DEF TimerHandler, TimerConnect, TimerUpdateConnection, TimerFlushBuffer,
     TimerAuthorize, TimerRead, TimerCapRequest, TimerJoin, TimerMoves
<1>4. connection # 1
  <2>1. c # 1 /\ ~(c > connection) /\ c \in Nat
    BY <1>3 DEF TimersInOrder, Conn
  <2> QED BY <1>1, <2>1 DEF Conn
<1>5. main = "Run"
  BY <1>4 DEF TimersInOrder
<1>6. c \in Recovering => c = connection
  BY DEF TimersInOrder
<1>7. CASE TimerConnect(c)
  <2>1. c = connection
    BY <1>6, <1>7 DEF TimerConnect, TimerMoves, Recovering
  <2>2. timer'[connection] \in {"Handshake", "UpdateConnection"} /\ UNCHANGED room
    BY <1>1, <1>7, <2>1 DEF TimerConnect, TimerMoves, AfterConnect, Connect
  <2> QED BY <1>2, <1>4, <1>5, <2>2
<1>8. CASE TimerUpdateConnection(c) \/ TimerFlushBuffer(c)
  <2>1. c = connection
    BY <1>6, <1>8 DEF TimerUpdateConnection, TimerFlushBuffer, TimerMoves, Recovering
  <2>2. timer'[connection] \in {"FlushBuffer", "Authorize"} /\ UNCHANGED room
    BY <1>1, <1>8, <2>1
       DEF TimerUpdateConnection, TimerFlushBuffer, TimerMoves, connVars
  <2> QED BY <1>2, <1>4, <1>5, <2>2
<1>9. CASE UNCHANGED <<connVars, timer>>
  BY <1>2, <1>9, SessionQuiet DEF connVars
<1>10. CASE TimerAuthorize(c)
  <2>1. c = connection
    BY <1>6, <1>10 DEF TimerAuthorize, TimerMoves, Recovering
  <2>2. CASE WriteAuth /\ TimerMoves(c, "Authorize", "Read")
    BY <1>1, <1>2, <1>4, <1>5, <2>1, <2>2, WriteEffect DEF WriteAuth, TimerMoves
  <2> QED BY <1>9, <1>10, <2>2 DEF TimerAuthorize
<1>11. CASE TimerRead(c)
  <2>1. c = connection
    BY <1>6, <1>11 DEF TimerRead, TimerMoves, Recovering
  <2>2. CASE TimerMoves(c, "Read", "CapRequest") /\ UNCHANGED connVars
    BY <1>1, <1>2, <1>4, <1>5, <2>1, <2>2 DEF TimerMoves, connVars
  <2> QED BY <1>9, <1>11, <2>2 DEF TimerRead
<1>12. CASE TimerCapRequest(c)
  <2>1. CASE WriteCap /\ TimerMoves(c, "CapRequest", "Join")
    <3>1. \/ timer'[connection] = timer[connection]
          \/ timer[connection] = "CapRequest" /\ timer'[connection] = "Join"
      <4>1. CASE c = connection
        BY <1>1, <2>1, <4>1 DEF TimerMoves
      <4>2. CASE c # connection
        BY <1>1, <2>1, <4>2 DEF TimerMoves
      <4> QED BY <4>1, <4>2
    <3>2. /\ UNCHANGED socket
          /\ socket[connection] = "open" =>
               /\ login'[connection] = login[connection] \cup {"CAP"}
               /\ room'[connection] = room[connection]
          /\ \A d \in Conn : room'[d] = room[d]
      BY <2>1, WriteEffect DEF WriteCap
    <3> QED BY <1>1, <1>2, <1>4, <1>5, <3>1, <3>2
  <2> QED BY <1>9, <1>12, <2>1 DEF TimerCapRequest
<1>13. CASE TimerJoin(c)
  <2>1. CASE WriteJoin(join_command_buffer) /\ TimerMoves(c, "Join", "done")
    <3>1. \/ timer'[connection] = timer[connection]
          \/ timer[connection] = "Join" /\ timer'[connection] = "done"
      <4>1. CASE c = connection
        BY <1>1, <2>1, <4>1 DEF TimerMoves
      <4>2. CASE c # connection
        BY <1>1, <2>1, <4>2 DEF TimerMoves
      <4> QED BY <4>1, <4>2
    <3>2. /\ UNCHANGED socket
          /\ socket[connection] = "open" =>
               /\ login[connection] \subseteq login'[connection]
               /\ room'[connection] = room[connection] \cup join_command_buffer
          /\ \A d \in Conn :
               \/ room'[d] = room[d]
               \/ d = connection /\ room'[d] = room[d] \cup join_command_buffer
      BY <2>1, WriteEffect DEF WriteJoin
    <3> QED BY <1>1, <1>2, <1>4, <1>5, <3>1, <3>2
  <2> QED BY <1>9, <1>13, <2>1 DEF TimerJoin
<1> QED BY <1>7, <1>8, <1>10, <1>11, <1>12, <1>13 DEF TimerHandler

LEMMA SessionStep ==
  ASSUME Secured, SessionInv, TypeOK, OneReadLoop, TimersInOrder, [Next]_vars
  PROVE  SessionInv'
<1>1. CASE UNCHANGED vars
  BY <1>1, SessionQuiet DEF vars, connVars, clientVars
<1>2. CASE ReadLoop
  BY <1>2, SessionQuiet
     DEF ReadLoop, ReadBytes, ReadNothing, ReadBytesAndError, OnReadParse,
         OnReadContinue, RequireReconnect, TakeReconnectRequired, connVars
<1>3. CASE Reconnect
  <2>1. PICK c \in Conn : c > connection /\ connection' = c
                          /\ timer' = [timer EXCEPT ![c] = "Connect"]
    BY <1>3 DEF Reconnect
  <2>2. c # 1 /\ timer'[c] = "Connect"
    BY <2>1 DEF TypeOK, ClientTypeOK, Conn
  <2>3. UNCHANGED <<room, joined_channels, join_command_buffer, main>>
    BY <1>3 DEF Reconnect, connVars
  <2> QED BY <2>1, <2>2, <2>3 DEF SessionInv, RoomsAreBuffered, FirstSession, LaterSession
<1>4. CASE SwitchHandler \/ SendPong
  BY <1>4, SessionQuiet DEF SwitchHandler, SendPong, AsyncWrite, connVars, clientVars
<1>5. CASE HandlerPool \/ BotTask \/ WriteCompletes
  BY <1>5, SessionQuiet DEF HandlerPool, BotTask, WriteCompletes, AsyncWriteDone,
     connVars, clientVars
<1>6. CASE Network
  <2>1. \A c \in Conn : socket'[c] = "open" => socket[c] = "open"
    BY <1>6 DEF Network, NetworkBreaks, TypeOK, ConnectionTypeOK
  <2> QED BY <1>6, <2>1, SessionQuiet DEF Network, NetworkBreaks, clientVars
<1> QED BY <1>1, <1>2, <1>3, <1>4, <1>5, <1>6, SessionMain, SessionApplication, SessionTimer
     DEF Next, ConnectionStrand

(***************************************************************************)
(* A session that is set up is complete, for any channels, any number of   *)
(* recoveries and any calls of the application, when the client is made    *)
(* for TLS.                                                                *)
(***************************************************************************)
THEOREM SessionRestoredHolds ==
  ASSUME Secured
  PROVE  Spec => []SessionRestored
<1>1. Init => SessionInv
  <2>1. 1 \in Conn
    BY MaxConnAssumption DEF Conn
  <2> QED BY <2>1 DEF Init, ConnectionInit, SessionInv, RoomsAreBuffered, FirstSession,
       LaterSession
<1>2. TypeOK /\ OneReadLoop /\ TimersInOrder /\ SessionInv /\ [Next]_vars => SessionInv'
  BY SessionStep
<1>3. TypeOK /\ SessionInv => SessionRestored
  <2> SUFFICES ASSUME TypeOK, SessionInv, SessionUp
               PROVE  SessionRestored
    BY DEF SessionRestored
  <2>1. login[connection] \subseteq {"AUTH", "CAP"} /\ connection \in Conn
    BY DEF TypeOK, ConnectionTypeOK, ClientTypeOK
  <2> QED BY <2>1 DEF SessionRestored, SessionUp, SessionInv, RoomsAreBuffered,
       FirstSession, LaterSession
<1> QED BY <1>1, <1>2, <1>3, TypeCorrect, OneReadLoopHolds, TimersAreInOrder, PTL DEF Spec

-------------------------------------------------------------------------------
(***************************************************************************)
(* A connection that anyone writes to has been connected, so an operation  *)
(* that throws finds a stream that never came up or that was closed.  One  *)
(* whose peer is silent is used by nobody but the thread that waits.       *)
(***************************************************************************)
NotUp == {"new", "silent"}

Opening == {"Connect", "Handshake"}

DownHasReason ==
  \A c \in Conn : connected[c] \/ socket[c] \in {"new", "failed", "closed", "silent"}

UsedIsUp ==
  /\ main \notin Opening => socket[1] \notin NotUp
  /\ connection # 1 /\ timer[connection] \notin Opening => socket[connection] \notin NotUp
  /\ \A i \in DOMAIN connection_strand :
       IsUpdate(i) => socket[connection_strand[i].conn] \notin NotUp
  /\ handler_connection # 1 => socket[handler_connection] \notin NotUp

NewIsUnused ==
  timer[connection] \in Opening =>
    /\ handler_connection # connection
    /\ \A i \in DOMAIN connection_strand :
         IsUpdate(i) => connection_strand[i].conn # connection

StartsInOrder ==
  /\ main # "Run" => connection_strand = <<>> /\ pool = {}
  /\ main \notin Opening \cup {"Authorize"} => auth_data_buffer

CauseInv ==
  TerminationHasCause /\ DownHasReason /\ UsedIsUp /\ NewIsUnused /\ StartsInOrder

\* A connection that was used and is not up.
LEMMA CannotWrite ==
  ASSUME DownHasReason, NEW c \in Conn, socket[c] \notin NotUp, ~CanWrite(c)
  PROVE  \E d \in Conn : socket[d] \in {"failed", "closed"}
BY DEF DownHasReason, CanWrite, NotUp

\* But for Connect, streams break or are closed, and are never new again.
SocketsGoOn ==
  \A c \in Conn :
    /\ socket'[c] \in NotUp => socket[c] \in NotUp
    /\ connected'[c] \/ socket'[c] \in {"new", "failed", "closed", "silent"}

LEMMA SocketsSame ==
  ASSUME DownHasReason, UNCHANGED <<socket, connected>>
  PROVE  SocketsGoOn
BY DEF DownHasReason, SocketsGoOn

LEMMA SocketsWrite ==
  ASSUME DownHasReason, NEW c, NEW said, NEW rooms, Write(c, said, rooms)
  PROVE  SocketsGoOn
BY SocketsSame DEF Write

LEMMA SocketsConnect ==
  ASSUME TypeOK, DownHasReason, NEW c \in Conn, NEW outcome \in ConnectOutcome,
         Connect(c, outcome)
  PROVE  /\ DownHasReason'
         /\ outcome # "silent" => socket'[c] \notin NotUp
         /\ outcome = "unresolved" => socket'[c] = "failed"
         /\ \A d \in Conn \ {c} : socket'[d] = socket[d]
<1>1. socket \in [Conn -> SocketState] /\ connected \in [Conn -> BOOLEAN]
  BY DEF TypeOK, ConnectionTypeOK
<1>2. /\ socket' = [socket EXCEPT ![c] = SocketAfter(outcome)]
      /\ connected' = [connected EXCEPT ![c] = @ \/ outcome = "up"]
  BY DEF Connect
<1>3. /\ socket'[c] \in {"open", "failed", "silent"}
      /\ socket'[c] = "open" => outcome = "up"
      /\ socket'[c] = "silent" => outcome = "silent"
      /\ outcome = "unresolved" => socket'[c] = "failed"
  BY <1>1, <1>2 DEF SocketAfter, ConnectOutcome
<1>4. outcome = "up" => connected'[c]
  BY <1>1, <1>2
<1>5. \A d \in Conn \ {c} : socket'[d] = socket[d] /\ connected'[d] = connected[d]
  BY <1>1, <1>2
<1> QED BY <1>3, <1>4, <1>5 DEF DownHasReason, NotUp

LEMMA SocketsDisconnect ==
  ASSUME TypeOK, DownHasReason, NEW c \in Conn, Disconnect(c)
  PROVE  SocketsGoOn
BY DEF TypeOK, ConnectionTypeOK, Disconnect, SocketsGoOn, DownHasReason, NotUp

LEMMA SocketsNetwork ==
  ASSUME TypeOK, DownHasReason, Network
  PROVE  SocketsGoOn
BY DEF TypeOK, ConnectionTypeOK, Network, NetworkBreaks, SocketsGoOn, DownHasReason, NotUp

LEMMA SocketsStep ==
  ASSUME TypeOK, DownHasReason, [Next]_vars, ~MainConnect, \A c \in Conn : ~TimerConnect(c)
  PROVE  SocketsGoOn
<1>0. connection \in Conn
  BY DEF TypeOK, ClientTypeOK
<1>1. CASE UNCHANGED <<socket, connected>>
  BY <1>1, SocketsSame
<1>2. CASE UNCHANGED vars \/ ReadLoop \/ ConnectionStrand \/ HandlerPool \/ BotTask
           \/ WriteCompletes
  BY <1>1, <1>2 DEF vars, connVars, ReadLoop, ReadBytes, ReadNothing, ReadBytesAndError,
     OnReadParse, OnReadContinue, RequireReconnect, TakeReconnectRequired,
     ConnectionStrand, Reconnect, SwitchHandler, SendPong, AsyncWrite, HandlerPool,
     BotTask, WriteCompletes, AsyncWriteDone
<1>3. CASE Main
  BY <1>1, <1>3 DEF Main, MainAuthorize, MainCapRequest, MainJoin, MainRead, WriteAuth,
     WriteCap, WriteJoin, Write, connVars
<1>4. CASE Application
  <2>1. CASE CallDisconnect
    BY <1>0, <2>1, SocketsDisconnect DEF CallDisconnect
  <2>2. CASE CallSetChatBot \/ \E channel \in Channels : CallJoin(channel) \/ CallPart(channel)
    BY <1>1, <2>2 DEF CallSetChatBot, CallJoin, CallPart, WriteJoin, WritePart, Write,
       connVars
  <2> QED BY <1>4, <2>1, <2>2 DEF Application
<1>5. ASSUME NEW c \in Conn, TimerHandler(c)
      PROVE  SocketsGoOn
  BY <1>1, <1>5 DEF TimerHandler, TimerUpdateConnection, TimerFlushBuffer,
     TimerAuthorize, TimerRead, TimerCapRequest, TimerJoin, WriteAuth, WriteCap,
     WriteJoin, Write, connVars
<1> QED BY <1>2, <1>3, <1>4, <1>5, SocketsNetwork DEF Next

\* A timer handler only works for a client that runs and has reconnected.
LEMMA TimerHasReconnected ==
  ASSUME TypeOK, TimersInOrder, NEW c \in Conn, TimerHandler(c)
  PROVE  connection # 1 /\ main = "Run"
<1>1. timer[c] # "none"
  BY DEF TimerHandler, TimerConnect, TimerUpdateConnection, TimerFlushBuffer,
     TimerAuthorize, TimerRead, TimerCapRequest, TimerJoin, TimerMoves
<1>2. c # 1 /\ ~(c > connection) /\ c \in Nat
  BY <1>1 DEF TimersInOrder, Conn
<1> QED BY <1>2 DEF TimersInOrder, Conn

LEMMA StartsStep ==
  ASSUME TypeOK, OneReadLoop, TimersInOrder, StartsInOrder, [Next]_vars
  PROVE  StartsInOrder'
<1> USE DEF StartsInOrder
<1>1. CASE UNCHANGED vars
  BY <1>1 DEF vars, handlerVars, clientVars
<1>2. CASE Main
  BY <1>2 DEF Main, MainConnect, AfterConnect, MainAuthorize, MainCapRequest, MainJoin,
     MainRead, Opening, handlerVars
<1>3. CASE main = "Run"
  <2>1. CASE Next
    <3>1. UNCHANGED main \/ Main
      BY <2>1 DEF Next, Application, CallJoin, CallPart, CallDisconnect, CallSetChatBot,
         Call, ReadLoop, ReadBytes, ReadNothing, ReadBytesAndError, OnReadParse,
         OnReadContinue, ConnectionStrand, Reconnect, SwitchHandler, SendPong,
         TimerHandler, TimerConnect, TimerUpdateConnection, TimerFlushBuffer,
         TimerAuthorize, TimerRead, TimerCapRequest, TimerJoin, HandlerPool, BotTask,
         WriteCompletes, Network, clientVars
    <3>2. UNCHANGED auth_data_buffer \/ Main
      BY <2>1 DEF Next, Application, CallJoin, CallPart, CallDisconnect, CallSetChatBot,
         Call, ReadLoop, ReadBytes, ReadNothing, ReadBytesAndError, OnReadParse,
         OnReadContinue, ConnectionStrand, Reconnect, SwitchHandler, SendPong,
         TimerHandler, TimerConnect, TimerUpdateConnection, TimerFlushBuffer,
         TimerAuthorize, TimerRead, TimerCapRequest, TimerJoin, HandlerPool, BotTask,
         WriteCompletes, Network, clientVars
    <3> QED BY <1>2, <1>3, <3>1, <3>2
  <2> QED BY <1>1, <2>1
<1>4. CASE main # "Run" /\ Next /\ ~Main
  <2>1. reads = {} /\ connection_strand = <<>> /\ pool = {} /\ \A c \in Conn : ~TimerHandler(c)
    BY <1>4, TimerHasReconnected DEF OneReadLoop
  <2>2. BotTask \/ WriteCompletes \/ Network
    BY <1>4, <2>1 DEF Next, Application, CallJoin, CallPart, CallDisconnect,
       CallSetChatBot, Call, ReadLoop, ConnectionStrand, Reconnect, SwitchHandler,
       SendPong, NextTask, HandlerPool
  <2> QED BY <2>2 DEF BotTask, ParseAndExecute, WriteCompletes, Network, handlerVars,
       clientVars
<1> QED BY <1>1, <1>2, <1>3, <1>4

\* The connections that UpdateConnection tasks name.
QueuedIsUp ==
  \A i \in DOMAIN connection_strand :
    IsUpdate(i) => socket[connection_strand[i].conn] \notin NotUp

LEMMA QueueIsUp ==
  ASSUME TypeOK, SocketsGoOn, QueuedIsUp,
         \/ UNCHANGED connection_strand
         \/ \E name : NextTask(name)
         \/ \E t \in Task : Dispatch(t) /\ (t.task = "UpdateConnection" => socket'[t.conn] \notin NotUp)
  PROVE  QueuedIsUp'
<1>1. connection_strand \in Seq(Task)
  BY DEF TypeOK, HandlerTypeOK
<1>2. \A i \in DOMAIN connection_strand :
        IsUpdate(i) => socket'[connection_strand[i].conn] \notin NotUp
  BY UpdateHasConn DEF QueuedIsUp, SocketsGoOn
<1>3. CASE UNCHANGED connection_strand
  BY <1>2, <1>3 DEF QueuedIsUp, IsUpdate
<1>4. CASE \E name : NextTask(name)
  BY <1>1, <1>2, <1>4, NextTaskSeq DEF QueuedIsUp, IsUpdate
<1>5. ASSUME NEW t \in Task, Dispatch(t), t.task = "UpdateConnection" => socket'[t.conn] \notin NotUp
      PROVE  QueuedIsUp'
  <2>1. \A i \in DOMAIN connection_strand' :
          \/ i \in DOMAIN connection_strand /\ connection_strand'[i] = connection_strand[i]
          \/ connection_strand'[i] = t
    BY <1>1, <1>5, DispatchSeq
  <2> QED BY <1>2, <1>5, <2>1 DEF QueuedIsUp, IsUpdate
<1> QED BY <1>3, <1>4, <1>5

\* Connect: main() uses it for the first connection, the timer handler for the
\* one the client has.
LEMMA ConnectUses ==
  ASSUME TypeOK, TimersInOrder, CauseInv,
         MainConnect \/ \E c \in Conn : TimerConnect(c)
  PROVE  UsedIsUp' /\ DownHasReason'
<1>0. /\ connection \in Conn /\ handler_connection \in Conn /\ 1 \in Conn
      /\ timer \in [Conn -> TimerStage]
      /\ \A i \in DOMAIN connection_strand : IsUpdate(i) => connection_strand[i].conn \in Conn
  BY MaxConnAssumption, UpdateHasConn DEF TypeOK, ClientTypeOK, HandlerTypeOK, Conn
<1>1. PICK outcome \in ConnectOutcome :
        /\ Connect(connection, outcome)
        /\ \/ MainConnect /\ main' = AfterConnect(outcome, "Authorize")
           \/ \E c \in Conn : /\ TimerConnect(c)
                             /\ TimerMoves(c, "Connect", AfterConnect(outcome, "UpdateConnection"))
  BY DEF MainConnect, TimerConnect
<1>2. /\ DownHasReason'
      /\ outcome # "silent" => socket'[connection] \notin NotUp
      /\ \A d \in Conn \ {connection} : socket'[d] = socket[d]
  BY <1>0, <1>1, SocketsConnect DEF CauseInv
<1>3. CASE MainConnect /\ main' = AfterConnect(outcome, "Authorize")
  <2>1. /\ connection = 1 /\ connection_strand = <<>>
        /\ UNCHANGED <<connection, handler_connection, connection_strand>>
    BY <1>3 DEF MainConnect, TimersInOrder, CauseInv, StartsInOrder, handlerVars
  <2>2. main' \notin Opening => socket'[1] \notin NotUp
    BY <1>2, <1>3, <2>1 DEF AfterConnect, Opening
  <2> QED BY <1>0, <1>2, <2>1, <2>2 DEF UsedIsUp, CauseInv
<1>4. ASSUME NEW c \in Conn, TimerConnect(c),
             TimerMoves(c, "Connect", AfterConnect(outcome, "UpdateConnection"))
      PROVE  UsedIsUp'
  <2>1. c = connection /\ timer[c] = "Connect"
    BY <1>4 DEF TimerMoves, Recovering, TimersInOrder
  <2>2. connection # 1 /\ UNCHANGED <<connection, main, handler_connection, connection_strand>>
    BY <1>4, <2>1 DEF TimerConnect, TimersInOrder, handlerVars
  <2>3. timer'[connection] \notin Opening => socket'[connection] \notin NotUp
    BY <1>0, <1>2, <1>4, <2>1 DEF TimerMoves, AfterConnect, Opening
  <2>4. /\ handler_connection # connection
        /\ \A i \in DOMAIN connection_strand :
             IsUpdate(i) => connection_strand[i].conn # connection
    BY <2>1 DEF CauseInv, NewIsUnused, Opening
  <2> QED BY <1>0, <1>2, <2>2, <2>3, <2>4 DEF UsedIsUp, CauseInv, IsUpdate
<1> QED BY <1>1, <1>2, <1>3, <1>4

LEMMA UsedStep ==
  ASSUME TypeOK, OneReadLoop, TimersInOrder, DownHasReason, UsedIsUp, [Next]_vars,
         ~MainConnect, \A c \in Conn : ~TimerConnect(c)
  PROVE  UsedIsUp'
<1>0. /\ connection \in Conn /\ handler_connection \in Conn /\ 1 \in Conn
      /\ timer \in [Conn -> TimerStage] /\ connection_strand \in Seq(Task)
  BY MaxConnAssumption DEF TypeOK, ClientTypeOK, HandlerTypeOK, Conn
<1>1. SocketsGoOn
  BY SocketsStep
<1>2. QueuedIsUp
  BY DEF UsedIsUp, QueuedIsUp
<1> DEFINE First == main \notin Opening => socket[1] \notin NotUp
           Later == connection # 1 /\ timer[connection] \notin Opening => socket[connection] \notin NotUp
           Handler == handler_connection # 1 => socket[handler_connection] \notin NotUp
<1>3. First /\ Later /\ Handler
  BY DEF UsedIsUp
<1>4. UNCHANGED main => First'
  BY <1>0, <1>1, <1>3 DEF SocketsGoOn
<1>5. UNCHANGED <<connection, timer>> => Later'
  BY <1>0, <1>1, <1>3 DEF SocketsGoOn
<1>6. UNCHANGED handler_connection => Handler'
  BY <1>0, <1>1, <1>3 DEF SocketsGoOn
<1>7. UNCHANGED connection_strand => QueuedIsUp'
  BY <1>1, <1>2, QueueIsUp
<1>8. (First /\ Later /\ Handler /\ QueuedIsUp)' => UsedIsUp'
  BY DEF UsedIsUp, QueuedIsUp
<1> HIDE DEF First, Later, Handler
<1>9. CASE UNCHANGED vars
  BY <1>4, <1>5, <1>6, <1>7, <1>8, <1>9 DEF vars, handlerVars, clientVars
<1>10. CASE Application \/ BotTask \/ WriteCompletes \/ Network
  BY <1>4, <1>5, <1>6, <1>7, <1>8, <1>10 DEF Application, CallJoin, CallPart,
     CallDisconnect, CallSetChatBot, SetChatBot, Call, BotTask, ParseAndExecute,
     WriteCompletes, Network, handlerVars, clientVars
<1>11. CASE Main
  <2>1. UNCHANGED <<connection, timer, handler_connection, connection_strand>>
    BY <1>11 DEF Main, MainConnect, MainAuthorize, MainCapRequest, MainJoin, MainRead,
       handlerVars
  <2>2. First'
    <3>1. main \notin Opening
      BY <1>11 DEF Main, MainAuthorize, MainCapRequest, MainJoin, MainRead, Opening
    <3> QED BY <1>0, <1>1, <1>3, <3>1 DEF First, SocketsGoOn
  <2> QED BY <1>5, <1>6, <1>7, <1>8, <2>1, <2>2
<1>12. CASE ReadLoop
  <2>1. UNCHANGED <<connection, timer, main, handler_connection>>
    BY <1>12 DEF ReadLoop, ReadBytes, ReadNothing, ReadBytesAndError, OnReadParse,
       OnReadContinue, handlerVars
  <2>2. [task |-> "Reconnect"] \in Task /\ [task |-> "Reconnect"].task # "UpdateConnection"
    BY DEF Task
  <2>3. UNCHANGED connection_strand \/ Dispatch([task |-> "Reconnect"])
    BY <1>12 DEF ReadLoop, ReadBytes, ReadNothing, ReadBytesAndError, OnReadParse,
       OnReadContinue, handlerVars
  <2>4. QueuedIsUp'
    BY <1>1, <1>2, <2>2, <2>3, QueueIsUp
  <2> QED BY <1>4, <1>5, <1>6, <1>8, <2>1, <2>4
<1>13. CASE HandlerPool
  <2>1. PICK b \in pool : HandleMessage(b)
    BY <1>13 DEF HandlerPool
  <2>2. UNCHANGED <<connection, timer, main, handler_connection>>
    BY <1>13, <2>1 DEF HandlerPool, clientVars, HandleMessage, HandlePing, HandleChat,
       HandleNickless, HandleOther
  <2>3. QueuedIsUp'
    <3>1. CASE HandlePing(b)
      <4> DEFINE t == [task |-> "SendPong", ping |-> <<b.id, b.next>>]
      <4>1. b.id \in ReadId /\ b.next \in Nat \ {0}
        BY DEF TypeOK, HandlerTypeOK, Batch
      <4>2. t \in Task /\ t.task # "UpdateConnection" /\ Dispatch(t)
        BY <3>1, <4>1 DEF Task, MessageId, HandlePing
      <4> QED BY <1>1, <1>2, <4>2, QueueIsUp
    <3> QED BY <1>7, <2>1, <3>1 DEF HandleMessage, HandleChat, HandleNickless, HandleOther
  <2> QED BY <1>4, <1>5, <1>6, <1>8, <2>2, <2>3
<1>14. CASE Reconnect
  <2>1. PICK c \in Conn : connection' = c /\ timer' = [timer EXCEPT ![c] = "Connect"]
    BY <1>14 DEF Reconnect
  <2>2. Later'
    BY <1>0, <2>1 DEF Later, Opening
  <2>3. QueuedIsUp'
    BY <1>1, <1>2, <1>14, QueueIsUp DEF Reconnect
  <2> QED BY <1>4, <1>6, <1>8, <1>14, <2>2, <2>3 DEF Reconnect
<1>15. CASE SwitchHandler
  <2>1. /\ 1 \in DOMAIN connection_strand /\ IsUpdate(1)
        /\ handler_connection' = connection_strand[1].conn
    BY <1>0, <1>15, NextTaskSeq DEF SwitchHandler, IsUpdate
  <2>2. Handler'
    BY <1>1, <1>2, <2>1, UpdateHasConn DEF Handler, QueuedIsUp, SocketsGoOn
  <2>3. QueuedIsUp'
    BY <1>1, <1>2, <1>15, QueueIsUp DEF SwitchHandler
  <2> QED BY <1>4, <1>5, <1>8, <1>15, <2>2, <2>3 DEF SwitchHandler, clientVars
<1>16. CASE SendPong
  <2>1. QueuedIsUp'
    BY <1>1, <1>2, <1>16, QueueIsUp DEF SendPong
  <2> QED BY <1>4, <1>5, <1>6, <1>8, <1>16, <2>1 DEF SendPong
<1>17. ASSUME NEW c \in Conn, TimerHandler(c)
       PROVE  UsedIsUp'
  <2>1. UNCHANGED <<connection, main, handler_connection>>
    BY <1>17 DEF TimerHandler, TimerConnect, TimerUpdateConnection, UpdateConnection,
       TimerFlushBuffer, TimerAuthorize, TimerRead, TimerCapRequest, TimerJoin, handlerVars
  <2>2. Later'
    <3>1. timer[connection] \in Opening => timer'[connection] \in Opening
      BY <1>0, <1>17 DEF TimerHandler, TimerUpdateConnection, TimerFlushBuffer,
         TimerAuthorize, TimerRead, TimerCapRequest, TimerJoin, TimerMoves, Opening
    <3> QED BY <1>0, <1>1, <1>3, <2>1, <3>1 DEF Later, SocketsGoOn
  <2>3. QueuedIsUp'
    <3>1. CASE TimerUpdateConnection(c)
      <4>1. connection # 1 /\ timer[connection] \notin Opening
        <5>1. c = connection
          BY <3>1 DEF TimerUpdateConnection, TimerMoves, Recovering, TimersInOrder
        <5> QED BY <1>17, <3>1, <5>1, TimerHasReconnected
            DEF TimerUpdateConnection, TimerMoves, Opening
      <4>2. socket'[connection] \notin NotUp
        BY <1>0, <1>1, <1>3, <4>1 DEF Later, SocketsGoOn
      <4> DEFINE t == [task |-> "UpdateConnection", conn |-> connection]
      <4>3. t \in Task /\ t.conn = connection /\ Dispatch(t)
        BY <1>0, <3>1 DEF Task, TimerUpdateConnection, UpdateConnection
      <4> QED BY <1>1, <1>2, <4>2, <4>3, QueueIsUp
    <3> QED BY <1>7, <1>17, <3>1 DEF TimerHandler, TimerConnect, TimerFlushBuffer,
         TimerAuthorize, TimerRead, TimerCapRequest, TimerJoin, handlerVars
  <2> QED BY <1>4, <1>6, <1>8, <2>1, <2>2, <2>3
<1> QED BY <1>9, <1>10, <1>11, <1>12, <1>13, <1>14, <1>15, <1>16, <1>17
     DEF Next, ConnectionStrand

(***************************************************************************)
(* What the strand is told of the new connection comes from the timer      *)
(* handler, after its Connect.                                             *)
(***************************************************************************)
LEMMA QueueStaysUnused ==
  ASSUME TypeOK, NewIsUnused, timer[connection] \in Opening,
         \/ UNCHANGED connection_strand
         \/ \E name : NextTask(name)
         \/ \E t \in Task : Dispatch(t) /\ t.task # "UpdateConnection"
  PROVE  \A i \in DOMAIN connection_strand' :
           IsUpdate(i)' => connection_strand'[i].conn # connection
<1>1. connection_strand \in Seq(Task)
  BY DEF TypeOK, HandlerTypeOK
<1>2. \A i \in DOMAIN connection_strand :
        IsUpdate(i) => connection_strand[i].conn # connection
  BY DEF NewIsUnused
<1>3. CASE UNCHANGED connection_strand
  BY <1>2, <1>3 DEF IsUpdate
<1>4. CASE \E name : NextTask(name)
  BY <1>1, <1>2, <1>4, NextTaskSeq DEF IsUpdate
<1>5. ASSUME NEW t \in Task, Dispatch(t), t.task # "UpdateConnection"
      PROVE  \A i \in DOMAIN connection_strand' :
               IsUpdate(i)' => connection_strand'[i].conn # connection
  <2>1. \A i \in DOMAIN connection_strand' :
          \/ i \in DOMAIN connection_strand /\ connection_strand'[i] = connection_strand[i]
          \/ connection_strand'[i] = t
    BY <1>1, <1>5, DispatchSeq
  <2> QED BY <1>2, <1>5, <2>1 DEF IsUpdate
<1> QED BY <1>3, <1>4, <1>5

LEMMA UnusedStep ==
  ASSUME TypeOK, TimersInOrder, HandlerInv, NewIsUnused, [Next]_vars
  PROVE  NewIsUnused'
<1>0. /\ connection \in Conn /\ handler_connection \in Conn
      /\ timer \in [Conn -> TimerStage] /\ connection_strand \in Seq(Task)
  BY DEF TypeOK, ClientTypeOK, HandlerTypeOK
<1>1. ASSUME UNCHANGED connection,
             timer'[connection] \in Opening => timer[connection] \in Opening,
             UNCHANGED handler_connection \/ SwitchHandler,
             \/ UNCHANGED connection_strand
             \/ \E name : NextTask(name)
             \/ \E t \in Task : Dispatch(t) /\ t.task # "UpdateConnection"
      PROVE  NewIsUnused'
  <2> SUFFICES ASSUME timer[connection] \in Opening
               PROVE  /\ handler_connection' # connection
                      /\ \A i \in DOMAIN connection_strand' :
                           IsUpdate(i)' => connection_strand'[i].conn # connection
    BY <1>1 DEF NewIsUnused, IsUpdate
  <2>1. CASE SwitchHandler
    <3>1. /\ 1 \in DOMAIN connection_strand /\ IsUpdate(1)
          /\ handler_connection' = connection_strand[1].conn
      BY <1>0, <2>1, NextTaskSeq DEF SwitchHandler, IsUpdate
    <3> QED BY <1>1, <3>1, QueueStaysUnused DEF NewIsUnused
  <2>2. CASE UNCHANGED handler_connection
    BY <1>1, <2>2, QueueStaysUnused DEF NewIsUnused
  <2> QED BY <1>1, <2>1, <2>2
<1>2. CASE UNCHANGED vars \/ Main \/ Application \/ BotTask \/ WriteCompletes \/ Network
  <2>1. UNCHANGED <<connection, timer, handler_connection, connection_strand>>
    BY <1>2 DEF vars, handlerVars, clientVars, Main, MainConnect, MainAuthorize,
       MainCapRequest, MainJoin, MainRead, Application, CallJoin, CallPart,
       CallDisconnect, CallSetChatBot, SetChatBot, Call, BotTask, ParseAndExecute,
       WriteCompletes, Network
  <2> QED BY <1>1, <2>1
<1>3. CASE ReadLoop
  <2>1. UNCHANGED <<connection, timer, handler_connection>>
    BY <1>3 DEF ReadLoop, ReadBytes, ReadNothing, ReadBytesAndError, OnReadParse,
       OnReadContinue, handlerVars
  <2>2. [task |-> "Reconnect"] \in Task /\ [task |-> "Reconnect"].task # "UpdateConnection"
    BY DEF Task
  <2>3. UNCHANGED connection_strand \/ Dispatch([task |-> "Reconnect"])
    BY <1>3 DEF ReadLoop, ReadBytes, ReadNothing, ReadBytesAndError, OnReadParse,
       OnReadContinue, handlerVars
  <2> QED BY <1>1, <2>1, <2>2, <2>3
<1>4. CASE HandlerPool
  <2>1. PICK b \in pool : HandleMessage(b)
    BY <1>4 DEF HandlerPool
  <2>2. UNCHANGED <<connection, timer, handler_connection>>
    BY <1>4, <2>1 DEF HandlerPool, clientVars, HandleMessage, HandlePing, HandleChat,
       HandleNickless, HandleOther
  <2>3. CASE HandlePing(b)
    <3> DEFINE t == [task |-> "SendPong", ping |-> <<b.id, b.next>>]
    <3>1. b.id \in ReadId /\ b.next \in Nat \ {0}
      BY DEF TypeOK, HandlerTypeOK, Batch
    <3>2. t \in Task /\ t.task # "UpdateConnection" /\ Dispatch(t)
      BY <2>3, <3>1 DEF Task, MessageId, HandlePing
    <3> QED BY <1>1, <2>2, <3>2
  <2>4. CASE UNCHANGED connection_strand
    BY <1>1, <2>2, <2>4
  <2> QED BY <2>1, <2>3, <2>4 DEF HandleMessage, HandleChat, HandleNickless, HandleOther
<1>5. CASE Reconnect
  <2>1. PICK c \in Conn : c > connection /\ connection' = c
    BY <1>5 DEF Reconnect
  <2>2. UNCHANGED handler_connection /\ NextTask("Reconnect")
    BY <1>5 DEF Reconnect
  <2>3. handler_connection # c
    BY <1>0, <2>1, ConnIsNat DEF HandlerInv, UpdatesInOrder
  <2>4. \A i \in DOMAIN connection_strand : IsUpdate(i) => connection_strand[i].conn # c
    <3> SUFFICES ASSUME NEW i \in DOMAIN connection_strand, IsUpdate(i)
                 PROVE  connection_strand[i].conn # c
      OBVIOUS
    <3>1. connection_strand[i].conn \in Conn /\ connection_strand[i].conn <= connection
      BY UpdateHasConn DEF HandlerInv, UpdatesInOrder
    <3> QED BY <1>0, <2>1, <3>1, ConnIsNat
  <2>5. \A i \in DOMAIN connection_strand' :
          IsUpdate(i)' => connection_strand'[i].conn # c
    BY <1>0, <2>2, <2>4, NextTaskSeq DEF IsUpdate
  <2> QED BY <2>1, <2>2, <2>3, <2>5 DEF NewIsUnused, IsUpdate
<1>6. CASE SwitchHandler \/ SendPong
  <2>1. UNCHANGED <<connection, timer>> /\ \E name : NextTask(name)
    BY <1>6 DEF SwitchHandler, SendPong, clientVars
  <2> QED BY <1>1, <1>6, <2>1 DEF SendPong
<1>7. ASSUME NEW c \in Conn, TimerHandler(c)
      PROVE  NewIsUnused'
  <2>1. UNCHANGED <<connection, handler_connection>>
    BY <1>7 DEF TimerHandler, TimerConnect, TimerUpdateConnection, UpdateConnection,
       TimerFlushBuffer, TimerAuthorize, TimerRead, TimerCapRequest, TimerJoin, handlerVars
  <2>2. CASE TimerUpdateConnection(c)
    <3>1. c = connection
      BY <2>2 DEF TimerUpdateConnection, TimerMoves, Recovering, TimersInOrder
    <3>2. timer'[connection'] \notin Opening
      BY <1>0, <2>1, <2>2, <3>1 DEF TimerUpdateConnection, TimerMoves, Opening
    <3> QED BY <3>2 DEF NewIsUnused
  <2>3. CASE ~TimerUpdateConnection(c)
    <3>1. UNCHANGED connection_strand
      BY <1>7, <2>3 DEF TimerHandler, TimerConnect, TimerFlushBuffer, TimerAuthorize,
         TimerRead, TimerCapRequest, TimerJoin, handlerVars
    <3>2. timer'[connection] \in Opening => timer[connection] \in Opening
      BY <1>0, <1>7, <2>3 DEF TimerHandler, TimerConnect, TimerFlushBuffer, TimerAuthorize,
         TimerRead, TimerCapRequest, TimerJoin, TimerMoves, Opening
    <3> QED BY <1>1, <2>1, <3>1, <3>2
  <2> QED BY <2>2, <2>3
<1> QED BY <1>2, <1>3, <1>4, <1>5, <1>6, <1>7 DEF Next, ConnectionStrand

\* A step that ends the process has a cause at that moment.
LEMMA CauseStep ==
  ASSUME TypeOK, OneReadLoop, TimersInOrder, CauseInv, Next
  PROVE  TerminationHasCause'
<1> USE DEF TerminationHasCause
<1>0. /\ connection \in Conn /\ handler_connection \in Conn /\ 1 \in Conn
      /\ connection_strand \in Seq(Task)
  BY MaxConnAssumption DEF TypeOK, ClientTypeOK, HandlerTypeOK, Conn
<1>1. alive
  BY DEF Next, Main, MainConnect, MainAuthorize, MainCapRequest, MainJoin, MainRead,
     Application, CallJoin, CallPart, CallDisconnect, CallSetChatBot, Call, ReadLoop,
     ReadBytes, ReadNothing, ReadBytesAndError, OnReadParse, OnReadContinue,
     ConnectionStrand, Reconnect, SwitchHandler, SendPong, NextTask, TimerHandler,
     TimerConnect, TimerUpdateConnection, TimerFlushBuffer, TimerAuthorize, TimerRead,
     TimerCapRequest, TimerJoin, HandlerPool, BotTask, WriteCompletes, Network
<1>2. CASE UNCHANGED alive
  BY <1>1, <1>2
<1>3. ASSUME NEW c \in Conn, socket[c] \notin NotUp, ~CanWrite(c), UNCHANGED connVars
      PROVE  TerminationHasCause'
  <2>1. \E d \in Conn : socket'[d] \in {"failed", "closed"}
    BY <1>3, CannotWrite DEF CauseInv, connVars
  <2> QED BY <2>1
<1>4. ASSUME NEW outcome \in ConnectOutcome, Connect(connection, outcome),
             alive' = (outcome # "unresolved")
      PROVE  TerminationHasCause'
  <2>1. outcome = "unresolved" => socket'[connection] = "failed"
    BY <1>0, <1>4, SocketsConnect DEF CauseInv
  <2> QED BY <1>0, <1>4, <2>1
<1>5. CASE Main
  <2>1. CASE MainAuthorize
    <3>1. main \notin Opening /\ connection = 1
      BY <2>1 DEF MainAuthorize, TimersInOrder, Opening
    <3>2. socket[1] \notin NotUp
      BY <3>1 DEF CauseInv, UsedIsUp
    <3> QED BY <1>0, <1>2, <1>3, <2>1, <3>1, <3>2 DEF MainAuthorize
  <2> QED BY <1>2, <1>4, <1>5, <2>1 DEF Main, MainConnect, MainCapRequest, MainJoin, MainRead
<1>6. CASE SendPong
  <2>1. main = "Run"
    BY <1>6 DEF CauseInv, StartsInOrder, SendPong, NextTask
  <2>2. socket[handler_connection] \notin NotUp
    BY <2>1 DEF CauseInv, UsedIsUp, Opening
  <2> QED BY <1>0, <1>2, <1>3, <1>6, <2>2 DEF SendPong
<1>7. ASSUME NEW c \in Conn, TimerHandler(c)
      PROVE  TerminationHasCause'
  <2>1. connection # 1 /\ auth_data_buffer
    BY <1>7, TimerHasReconnected DEF CauseInv, StartsInOrder, Opening
  <2>3. timer[connection] \notin Opening => socket[connection] \notin NotUp
    BY <2>1 DEF CauseInv, UsedIsUp
  <2>4. ~CanWrite(connection) /\ timer[connection] \notin Opening /\ UNCHANGED connVars
          => TerminationHasCause'
    BY <1>0, <1>3, <2>3
  <2>5. CASE TimerConnect(c)
    BY <1>4, <2>5 DEF TimerConnect
  <2>6. CASE TimerUpdateConnection(c) \/ TimerFlushBuffer(c)
    BY <1>2, <2>6 DEF TimerUpdateConnection, TimerFlushBuffer
  <2>7. CASE TimerAuthorize(c)
    <3>1. timer[c] \notin Opening /\ c = connection
      BY <2>7 DEF TimerAuthorize, TimerMoves, Recovering, TimersInOrder, Opening
    <3> QED BY <1>2, <2>1, <2>4, <2>7, <3>1 DEF TimerAuthorize
  <2>8. CASE TimerRead(c)
    <3>1. timer[c] \notin Opening /\ c = connection
      BY <2>8 DEF TimerRead, TimerMoves, Recovering, TimersInOrder, Opening
    <3> QED BY <1>2, <2>4, <2>8, <3>1 DEF TimerRead, CanRead, CanWrite
  <2>9. ASSUME timer[c] \in {"CapRequest", "Join"}, UNCHANGED <<timer, connVars, connection>>,
               ~CanWrite(connection) \/ join_command_buffer' = {}
        PROVE  TerminationHasCause'
    <3>1. CASE c # connection
      BY <2>9, <3>1
    <3>2. CASE c = connection
      BY <2>4, <2>9, <3>2 DEF Opening
    <3> QED BY <3>1, <3>2
  <2>10. CASE TimerCapRequest(c)
    BY <1>2, <2>9, <2>10 DEF TimerCapRequest
  <2>11. CASE TimerJoin(c)
    BY <1>2, <2>9, <2>11 DEF TimerJoin
  <2> QED BY <1>7, <2>5, <2>6, <2>7, <2>8, <2>10, <2>11 DEF TimerHandler
<1>8. CASE BotTask
  BY <1>1, <1>8 DEF BotTask, handlerVars
<1> QED BY <1>2, <1>5, <1>6, <1>7, <1>8
     DEF Next, Application, CallJoin, CallPart, CallDisconnect, CallSetChatBot, Call,
         ReadLoop, ReadBytes, ReadNothing, ReadBytesAndError, OnReadParse, OnReadContinue,
         ConnectionStrand, Reconnect, SwitchHandler, HandlerPool, WriteCompletes, Network,
         clientVars

(***************************************************************************)
(* The process terminates for the listed causes only, whatever the         *)
(* threads, the network and the application do.                            *)
(***************************************************************************)
THEOREM TerminationHasCauseHolds == Spec => []TerminationHasCause
<1>1. Init => CauseInv
  <2>1. 1 \in Conn
    BY MaxConnAssumption DEF Conn
  <2> QED BY <2>1 DEF Init, ConnectionInit, HandlerInit, CauseInv, TerminationHasCause,
       DownHasReason, UsedIsUp, NewIsUnused, StartsInOrder, IsUpdate, Opening, NotUp
<1>2. TypeOK /\ OneReadLoop /\ TimersInOrder /\ HandlerInv /\ CauseInv /\ [Next]_vars
        => CauseInv'
  <2> SUFFICES ASSUME TypeOK, OneReadLoop, TimersInOrder, HandlerInv, CauseInv, [Next]_vars
               PROVE  CauseInv'
    OBVIOUS
  <2>1. TerminationHasCause'
    <3>1. CASE UNCHANGED vars
      BY <3>1 DEF CauseInv, TerminationHasCause, vars, connVars, handlerVars, clientVars
    <3> QED BY <3>1, CauseStep
  <2>2. UsedIsUp' /\ DownHasReason'
    <3>1. CASE MainConnect \/ \E c \in Conn : TimerConnect(c)
      BY <3>1, ConnectUses
    <3>2. CASE ~(MainConnect \/ \E c \in Conn : TimerConnect(c))
      BY <3>2, SocketsStep, UsedStep DEF CauseInv, SocketsGoOn, DownHasReason
    <3> QED BY <3>1, <3>2
  <2> QED BY <2>1, <2>2, UnusedStep, StartsStep DEF CauseInv
<1> QED BY <1>1, <1>2, TypeCorrect, OneReadLoopHolds, TimersAreInOrder, HandlerInvHolds, PTL
     DEF Spec, CauseInv
===============================================================================

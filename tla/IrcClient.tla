------------------------------- MODULE IrcClient -------------------------------
(***************************************************************************)
(* irc::Client driven by main(), with its Connection objects, its message  *)
(* handler, the read completions, the strand connection_strand_ and the    *)
(* reconnect timer.  Handlers run on a pool of threads, so every action    *)
(* below interleaves with every other; what one action does is what the    *)
(* code does without giving up anything another thread needs to see.       *)
(*                                                                         *)
(* An exception that leaves a handler leaves io_context::run (or a thread  *)
(* of the system pool), and no caller catches it: the process terminates.  *)
(***************************************************************************)
EXTENDS MessageHandler

CONSTANTS
  BotChoices,      \* the values of the chat_bot argument: TRUE is non-null
  ErrorWithBytes,  \* external: a failed async_read may also deliver bytes
  MaxCalls         \* bound: calls the application makes once it is running

ASSUME ClientAssumption ==
  /\ BotChoices \subseteq BOOLEAN /\ BotChoices # {}
  /\ ErrorWithBytes \in BOOLEAN
  /\ MaxCalls \in Nat

VARIABLES
  connection,          \* connection_
  auth_data_buffer,    \* auth_data_buffer_ has a value
  join_command_buffer, \* the channels named in join_command_buffer_
  joined_channels,     \* joined_channels_
  incomplete_from,     \* the connection whose bytes are in the buffer
                       \* last_read_incomplete_message_, 0 when it is empty
  reads,               \* the asynchronous reads in progress
  started_reads,       \* how many have been started
  timer,               \* per connection made by Reconnect: its timer handler
  main,                \* where main() is
  calls,               \* application calls so far
  alive                \* the process has not terminated

bufferVars == <<auth_data_buffer, join_command_buffer, joined_channels>>
readVars == <<reads, started_reads>>

clientVars == <<connection, bufferVars, incomplete_from, readVars, timer, main, calls,
                alive>>

vars == <<connVars, handlerVars, clientVars>>

(***************************************************************************)
(* A read is "pending" in the network, then "posted" (its bytes are in a   *)
(* handler queued on the read strand), then "parsed" (OnRead is running    *)
(* and has handed the batch over).                                         *)
(***************************************************************************)
Read == [id : ReadId, conn : Conn, stage : {"pending", "posted", "parsed"},
         msgs : Seq(MessageKind)]

\* Where the handler of the reconnect timer is: what it does next, or the
\* handshake it never returns from.
TimerStage == {"none", "Connect", "Handshake", "UpdateConnection", "FlushBuffer",
               "Authorize", "Read", "CapRequest", "Join", "done"}

MainStage == {"Connect", "Handshake", "Authorize", "CapRequest", "Join", "Read", "Run"}

ClientTypeOK ==
  /\ connection \in Conn
  /\ auth_data_buffer \in BOOLEAN
  /\ join_command_buffer \subseteq Channels
  /\ joined_channels \subseteq Channels
  /\ incomplete_from \in Conn \cup {0}
  /\ reads \subseteq Read
  /\ started_reads \in 0 .. MaxReads
  /\ timer \in [Conn -> TimerStage]
  /\ main \in MainStage
  /\ calls \in 0 .. MaxCalls
  /\ alive \in BOOLEAN

Terminate == alive' = FALSE

Init ==
  /\ ConnectionInit
  /\ \E bot \in BotChoices : HandlerInit(bot)
  /\ connection = 1
  /\ auth_data_buffer = FALSE
  /\ join_command_buffer = {}
  /\ joined_channels = {}
  /\ incomplete_from = 0
  /\ reads = {}
  /\ started_reads = 0
  /\ timer = [c \in Conn |-> "none"]
  /\ main = "Connect"
  /\ calls = 0
  /\ alive = TRUE

-------------------------------------------------------------------------------
\* Client operations that main(), the application and the timer handler share.

\* Where the thread that called Connect is then.
AfterConnect(outcome, next) == IF outcome = "silent" THEN "Handshake" ELSE next

\* Authorize(): the PASS and NICK lines.
WriteAuth == Write(connection, {"AUTH"}, room[connection])

\* CapRequest()
WriteCap == Write(connection, {"CAP"}, room[connection])

\* Join(channels), and Join() with the channels of the buffer
WriteJoin(channels) == Write(connection, {}, room[connection] \cup channels)

\* Part(channel)
WritePart(channel) == Write(connection, {}, room[connection] \ {channel})

\* Read(): AsyncRead throws unless the connection is up.
CanRead == connected[connection]

NewRead == [id |-> started_reads + 1, conn |-> connection, stage |-> "pending",
            msgs |-> <<>>]

StartRead(others) ==
  /\ started_reads < MaxReads
  /\ reads' = others \cup {NewRead}
  /\ started_reads' = started_reads + 1

-------------------------------------------------------------------------------
(***************************************************************************)
(* main(): Connect, Authorize, CapRequest, Join and Read before any thread *)
(* runs the io_context.  Every operation but Connect throws when the       *)
(* connection is not up, and main() catches nothing.                       *)
(***************************************************************************)
MainConnect ==
  /\ alive /\ main = "Connect"
  /\ \E outcome \in ConnectOutcome :
       /\ Connect(connection, outcome)
       /\ alive' = (outcome # "unresolved")
       /\ main' = AfterConnect(outcome, "Authorize")
  /\ UNCHANGED <<handlerVars, connection, bufferVars, incomplete_from, readVars,
                 timer, calls>>

\* Authorize(auth_data) fills the buffer before it writes.
MainAuthorize ==
  /\ alive /\ main = "Authorize"
  /\ auth_data_buffer' = TRUE
  /\ \/ WriteAuth /\ main' = "CapRequest" /\ UNCHANGED alive
     \/ ~CanWrite(connection) /\ Terminate /\ UNCHANGED <<connVars, main>>
  /\ UNCHANGED <<handlerVars, connection, join_command_buffer, joined_channels,
                 incomplete_from, readVars, timer, calls>>

MainCapRequest ==
  /\ alive /\ main = "CapRequest"
  /\ WriteCap
  /\ main' = "Join"
  /\ UNCHANGED <<handlerVars, connection, bufferVars, incomplete_from, readVars,
                 timer, calls, alive>>

\* Join(channels): buffer, write, remember.  No channels: no call.
MainJoin ==
  /\ alive /\ main = "Join"
  /\ \E channels \in SUBSET Channels :
       /\ WriteJoin(channels)
       /\ join_command_buffer' = join_command_buffer \cup channels
       /\ joined_channels' = joined_channels \cup channels
  /\ main' = "Read"
  /\ UNCHANGED <<handlerVars, connection, auth_data_buffer, incomplete_from,
                 readVars, timer, calls, alive>>

MainRead ==
  /\ alive /\ main = "Read"
  /\ CanRead
  /\ StartRead(reads)
  /\ main' = "Run"
  /\ UNCHANGED <<connVars, handlerVars, connection, bufferVars, incomplete_from,
                 timer, calls, alive>>

Main == MainConnect \/ MainAuthorize \/ MainCapRequest \/ MainJoin \/ MainRead

-------------------------------------------------------------------------------
(***************************************************************************)
(* Calls the application makes from a thread of its own once the threads   *)
(* run.  An exception goes back to the application, which survives it.     *)
(***************************************************************************)
Call ==
  /\ alive /\ main = "Run"
  /\ calls < MaxCalls
  /\ calls' = calls + 1
  /\ UNCHANGED <<connection, auth_data_buffer, incomplete_from, readVars, timer,
                 main, alive>>

\* Mutant: the channel is not added to join_command_buffer_.
CallJoinUnbuffered(channel) ==
  /\ Call
  /\ WriteJoin({channel})
  /\ joined_channels' = joined_channels \cup {channel}
  /\ UNCHANGED <<handlerVars, join_command_buffer>>

\* The channel is in the buffer even when the write then throws.
CallJoin(channel) ==
  /\ Call
  /\ join_command_buffer' = join_command_buffer \cup {channel}
  /\ \/ /\ WriteJoin({channel})
        /\ joined_channels' = joined_channels \cup {channel}
     \/ /\ ~CanWrite(connection)
        /\ UNCHANGED <<connVars, joined_channels>>
  /\ UNCHANGED handlerVars

\* Part forgets the channel in joined_channels_ and not in the buffer.
CallPart(channel) ==
  /\ Call
  /\ WritePart(channel)
  /\ joined_channels' = joined_channels \ {channel}
  /\ UNCHANGED <<handlerVars, join_command_buffer>>

CallDisconnect ==
  /\ Call
  /\ Disconnect(connection)
  /\ UNCHANGED <<handlerVars, join_command_buffer, joined_channels>>

CallSetChatBot ==
  /\ Call
  /\ \E bot \in BotChoices : SetChatBot(bot)
  /\ UNCHANGED <<connVars, join_command_buffer, joined_channels>>

Application ==
  \/ \E channel \in Channels : CallJoin(channel) \/ CallPart(channel)
  \/ CallDisconnect
  \/ CallSetChatBot

-------------------------------------------------------------------------------
(***************************************************************************)
(* The read loop.  Completions and OnRead run on the strand the connection *)
(* was given as its read strand.  The constructor of Connection names its  *)
(* two strand parameters the other way round than the class, so the first  *)
(* connection gets write_strand_ and the ones Reconnect makes get          *)
(* read_strand_: two connections need not share a strand.                  *)
(***************************************************************************)
ReadStrand(c) == IF c = 1 THEN "write_strand_" ELSE "read_strand_"

StrandIsFree(c) ==
  ~ \E r \in reads : r.stage = "parsed" /\ ReadStrand(r.conn) = ReadStrand(c)

Finish(r) == reads' = reads \ {r}

MoveTo(r, stage, msgs) ==
  reads' = (reads \ {r}) \cup {[r EXCEPT !.stage = stage, !.msgs = msgs]}

\* The completion with bytes and no error posts the handler.  What the TLS
\* port sends to a plain stream is no line.
ReadBytes(r) ==
  /\ alive /\ r \in reads /\ r.stage = "pending"
  /\ socket[r.conn] = "open"
  /\ started_reads < MaxReads
  /\ \E msgs \in IF IsSecured(r.conn) THEN Batches ELSE {<<>>} :
       MoveTo(r, "posted", msgs)
  /\ UNCHANGED <<connVars, handlerVars, connection, bufferVars, incomplete_from,
                 started_reads, timer, main, calls, alive>>

\* Mutant: a completion without bytes asks for a reconnect too.
ReadNothingReconnects(r) ==
  /\ alive /\ r \in reads /\ r.stage = "pending"
  /\ socket[r.conn] # "open"
  /\ started_reads < MaxReads /\ connection < MaxConn
  /\ RequireReconnect(r.conn)
  /\ MoveTo(r, "posted", <<>>)
  /\ UNCHANGED <<handlerVars, connection, bufferVars, incomplete_from,
                 started_reads, timer, main, calls, alive>>

\* The completion without bytes only logs: nothing is read again.
ReadNothing(r) ==
  /\ alive /\ r \in reads /\ r.stage = "pending"
  /\ socket[r.conn] # "open"
  /\ Finish(r)
  /\ UNCHANGED <<connVars, handlerVars, connection, bufferVars, incomplete_from,
                 started_reads, timer, main, calls, alive>>

\* An error that comes with bytes asks for a reconnect and posts the handler.
ReadBytesAndError(r) ==
  /\ ErrorWithBytes
  /\ alive /\ r \in reads /\ r.stage = "pending"
  /\ socket[r.conn] # "open"
  /\ started_reads < MaxReads /\ connection < MaxConn
  /\ RequireReconnect(r.conn)
  /\ \E msgs \in Batches : MoveTo(r, "posted", msgs)
  /\ UNCHANGED <<handlerVars, connection, bufferVars, incomplete_from,
                 started_reads, timer, main, calls, alive>>

\* OnRead: parse, keep an incomplete last line, post the batch to the handler.
OnReadParse(r) ==
  /\ alive /\ r \in reads /\ r.stage = "posted"
  /\ StrandIsFree(r.conn)
  /\ incomplete_from' \in {0, r.conn}
  /\ pool' = pool \cup {[id |-> r.id, msgs |-> r.msgs, next |-> 1]}
  /\ MoveTo(r, "parsed", <<>>)
  /\ UNCHANGED <<connVars, handler_connection, chat_bot, connection_strand,
                 to_bot, connection, bufferVars, started_reads, timer, main,
                 calls, alive>>

\* Mutant: OnRead reads again even when it asked for a reconnect.
OnReadContinueAnyway(r) ==
  /\ alive /\ r \in reads /\ r.stage = "parsed"
  /\ \/ /\ TakeReconnectRequired(connection)
        /\ Dispatch([task |-> "Reconnect"])
     \/ /\ ~reconnect_required[connection]
        /\ UNCHANGED <<connVars, connection_strand>>
  /\ \/ CanRead /\ StartRead(reads \ {r})
     \/ ~CanRead /\ Finish(r) /\ UNCHANGED started_reads
  /\ UNCHANGED <<handler_connection, poolVars, connection, bufferVars,
                 incomplete_from, timer, main, calls, alive>>

\* OnRead, the rest: reconnect, or read again; OnRead catches Read's exception.
OnReadContinue(r) ==
  /\ alive /\ r \in reads /\ r.stage = "parsed"
  /\ \/ /\ TakeReconnectRequired(connection)
        /\ Dispatch([task |-> "Reconnect"])
        /\ Finish(r)
        /\ UNCHANGED started_reads
     \/ /\ ~reconnect_required[connection]
        /\ \/ CanRead /\ StartRead(reads \ {r})
           \/ ~CanRead /\ Finish(r) /\ UNCHANGED started_reads
        /\ UNCHANGED <<connVars, connection_strand>>
  /\ UNCHANGED <<handler_connection, poolVars, connection, bufferVars,
                 incomplete_from, timer, main, calls, alive>>

ReadLoop ==
  \/ \E r \in reads : ReadBytes(r)
  \/ \E r \in reads : ReadNothing(r)
  \/ \E r \in reads : ReadBytesAndError(r)
  \/ \E r \in reads : OnReadParse(r)
  \/ \E r \in reads : OnReadContinue(r)

-------------------------------------------------------------------------------
\* The tasks of connection_strand_, first in first out.
NextTask(name) ==
  /\ alive
  /\ connection_strand # <<>>
  /\ Head(connection_strand).task = name
  /\ connection_strand' = Tail(connection_strand)

\* Mutant: the timer is armed again for the connection there already is.
ReconnectSameConnection ==
  /\ NextTask("Reconnect")
  /\ timer' = [timer EXCEPT ![connection] = "Connect"]
  /\ UNCHANGED <<connVars, handler_connection, poolVars, connection, bufferVars,
                 incomplete_from, readVars, main, calls, alive>>

(***************************************************************************)
(* Reconnect(): a new connection and a timer that will use it.  Setting    *)
(* the timer may throw; Reconnect then starts over with yet another        *)
(* connection, so the one that gets the timer may be any later one.        *)
(***************************************************************************)
Reconnect ==
  /\ NextTask("Reconnect")
  /\ \E c \in Conn :
       /\ c > connection
       /\ connection' = c
       /\ timer' = [timer EXCEPT ![c] = "Connect"]
  /\ UNCHANGED <<connVars, handler_connection, poolVars, bufferVars,
                 incomplete_from, readVars, main, calls, alive>>

\* The task MessageHandler::UpdateConnection dispatched.
SwitchHandler ==
  /\ NextTask("UpdateConnection")
  /\ handler_connection' = Head(connection_strand).conn
  /\ UNCHANGED <<connVars, poolVars, clientVars>>

\* Mutant: a PONG on a stream that is no longer open throws too.
SendPongThrows ==
  /\ NextTask("SendPong")
  /\ \/ /\ socket[handler_connection] = "open"
        /\ AsyncWrite(handler_connection, Head(connection_strand).ping)
        /\ UNCHANGED alive
     \/ /\ socket[handler_connection] # "open"
        /\ Terminate
        /\ UNCHANGED connVars
  /\ UNCHANGED <<handler_connection, poolVars, connection, bufferVars,
                 incomplete_from, readVars, timer, main, calls>>

\* The task MessageHandler::SendPong dispatched.
SendPong ==
  /\ NextTask("SendPong")
  /\ \/ /\ AsyncWrite(handler_connection, Head(connection_strand).ping)
        /\ UNCHANGED alive
     \/ /\ ~CanWrite(handler_connection)
        /\ Terminate
        /\ UNCHANGED connVars
  /\ UNCHANGED <<handler_connection, poolVars, connection, bufferVars,
                 incomplete_from, readVars, timer, main, calls>>

ConnectionStrand == Reconnect \/ SwitchHandler \/ SendPong

-------------------------------------------------------------------------------
(***************************************************************************)
(* The handler of the reconnect timer, on a thread of no strand.  It does  *)
(* its steps even when the wait was cancelled (the error is only logged),  *)
(* and always on the connection the client has at that moment.             *)
(***************************************************************************)
TimerMoves(c, from, to) == timer[c] = from /\ timer' = [timer EXCEPT ![c] = to]

\* Mutant: the handler returns when the connect is refused.
TimerConnectGivesUp(c) ==
  /\ alive
  /\ \E outcome \in ConnectOutcome :
       /\ Connect(connection, outcome)
       /\ TimerMoves(c, "Connect", IF outcome = "refused" THEN "none"
                                   ELSE AfterConnect(outcome, "UpdateConnection"))
       /\ alive' = (outcome # "unresolved")
  /\ UNCHANGED <<handlerVars, connection, bufferVars, incomplete_from, readVars,
                 main, calls>>

TimerConnect(c) ==
  /\ alive
  /\ \E outcome \in ConnectOutcome :
       /\ Connect(connection, outcome)
       /\ TimerMoves(c, "Connect", AfterConnect(outcome, "UpdateConnection"))
       /\ alive' = (outcome # "unresolved")
  /\ UNCHANGED <<handlerVars, connection, bufferVars, incomplete_from, readVars,
                 main, calls>>

\* Mutant: the message handler is not told of the new connection.
TimerUpdateConnectionSkipped(c) ==
  /\ alive
  /\ TimerMoves(c, "UpdateConnection", "FlushBuffer")
  /\ UNCHANGED <<connVars, handlerVars, connection, bufferVars, incomplete_from,
                 readVars, main, calls, alive>>

TimerUpdateConnection(c) ==
  /\ alive
  /\ TimerMoves(c, "UpdateConnection", "FlushBuffer")
  /\ UpdateConnection(connection)
  /\ UNCHANGED <<connVars, connection, bufferVars, incomplete_from, readVars,
                 main, calls, alive>>

\* Mutant: the incomplete line of the old connection is kept.
TimerFlushBufferSkipped(c) ==
  /\ alive
  /\ TimerMoves(c, "FlushBuffer", "Authorize")
  /\ UNCHANGED <<connVars, handlerVars, connection, bufferVars, incomplete_from,
                 readVars, main, calls, alive>>

TimerFlushBuffer(c) ==
  /\ alive
  /\ TimerMoves(c, "FlushBuffer", "Authorize")
  /\ incomplete_from' = 0
  /\ UNCHANGED <<connVars, handlerVars, connection, bufferVars, readVars, main,
                 calls, alive>>

TimerAuthorize(c) ==
  /\ alive
  /\ \/ /\ auth_data_buffer
        /\ WriteAuth
        /\ TimerMoves(c, "Authorize", "Read")
        /\ UNCHANGED alive
     \/ /\ timer[c] = "Authorize"
        /\ ~auth_data_buffer \/ ~CanWrite(connection)
        /\ Terminate
        /\ UNCHANGED <<connVars, timer>>
  /\ UNCHANGED <<handlerVars, connection, bufferVars, incomplete_from, readVars,
                 main, calls>>

TimerRead(c) ==
  /\ alive
  /\ \/ /\ CanRead
        /\ TimerMoves(c, "Read", "CapRequest")
        /\ StartRead(reads)
        /\ UNCHANGED alive
     \/ /\ timer[c] = "Read"
        /\ ~CanRead
        /\ Terminate
        /\ UNCHANGED <<readVars, timer>>
  /\ UNCHANGED <<connVars, handlerVars, connection, bufferVars, incomplete_from,
                 main, calls>>

TimerCapRequest(c) ==
  /\ alive
  /\ \/ /\ WriteCap
        /\ TimerMoves(c, "CapRequest", "Join")
        /\ UNCHANGED alive
     \/ /\ timer[c] = "CapRequest"
        /\ ~CanWrite(connection)
        /\ Terminate
        /\ UNCHANGED <<connVars, timer>>
  /\ UNCHANGED <<handlerVars, connection, bufferVars, incomplete_from, readVars,
                 main, calls>>

\* Join() throws when nothing was ever joined.
TimerJoin(c) ==
  /\ alive
  /\ \/ /\ join_command_buffer # {}
        /\ WriteJoin(join_command_buffer)
        /\ TimerMoves(c, "Join", "done")
        /\ UNCHANGED alive
     \/ /\ timer[c] = "Join"
        /\ join_command_buffer = {} \/ ~CanWrite(connection)
        /\ Terminate
        /\ UNCHANGED <<connVars, timer>>
  /\ UNCHANGED <<handlerVars, connection, bufferVars, incomplete_from, readVars,
                 main, calls>>

TimerHandler(c) ==
  \/ TimerConnect(c) \/ TimerUpdateConnection(c) \/ TimerFlushBuffer(c)
  \/ TimerAuthorize(c) \/ TimerRead(c) \/ TimerCapRequest(c) \/ TimerJoin(c)

-------------------------------------------------------------------------------
\* The system thread pool, the completion of writes, and the network.
HandlerPool ==
  /\ alive
  /\ \E b \in pool : HandleMessage(b)
  /\ UNCHANGED <<connVars, clientVars>>

\* A null pointer is used: the process ends, unless the text is empty.
BotTask ==
  /\ alive
  /\ \E m \in to_bot :
       \/ ParseAndExecute(m) /\ UNCHANGED alive
       \/ ~chat_bot /\ Terminate /\ UNCHANGED handlerVars
  /\ UNCHANGED <<connVars, connection, bufferVars, incomplete_from, readVars, timer,
                 main, calls>>

WriteCompletes ==
  /\ alive
  /\ \E w \in writing : AsyncWriteDone(w)
  /\ UNCHANGED <<handlerVars, clientVars>>

Network ==
  /\ alive
  /\ \E c \in Conn : NetworkBreaks(c)
  /\ UNCHANGED <<handlerVars, clientVars>>

Next ==
  \/ Main
  \/ Application
  \/ ReadLoop
  \/ ConnectionStrand
  \/ \E c \in Conn : TimerHandler(c)
  \/ HandlerPool
  \/ BotTask
  \/ WriteCompletes
  \/ Network

Spec == Init /\ [][Next]_vars

(***************************************************************************)
(* Fairness.  A handler that is queued on the io_context, on a strand, on  *)
(* the system pool or behind an expired timer is eventually run, because   *)
(* the worker threads only run handlers; a blocking call returns, but for  *)
(* the handshake with a silent peer, which takes the thread for good: at   *)
(* most one of them is lost so, since no second recovery can begin; and a  *)
(* read of a stream that is no longer open eventually completes.  Nothing  *)
(* is assumed of the application, nor that the server ever answers.        *)
(***************************************************************************)
OnRead == \E r \in reads : OnReadParse(r) \/ OnReadContinue(r)

ReadFails == \E r \in reads : ReadNothing(r) \/ ReadBytesAndError(r)

HandleBatch(id) ==
  /\ alive
  /\ \E b \in pool : b.id = id /\ HandleMessage(b)
  /\ UNCHANGED <<connVars, clientVars>>

Fairness ==
  /\ WF_vars(Main)
  /\ WF_vars(OnRead)
  /\ WF_vars(ReadFails)
  /\ WF_vars(ConnectionStrand)
  /\ \A c \in Conn : WF_vars(TimerHandler(c))
  /\ \A id \in ReadId : WF_vars(HandleBatch(id))
  /\ WF_vars(BotTask)
  /\ WF_vars(WriteCompletes)

FairSpec == Spec /\ Fairness
===============================================================================

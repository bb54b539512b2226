---------------------------- MODULE MessageHandler ----------------------------
(***************************************************************************)
(* handler::MessageHandler.  Client::OnRead posts each batch of parsed     *)
(* messages with net::post and no executor, which is Asio's system thread  *)
(* pool: batches are handled concurrently, in no particular order, and off *)
(* every strand.  What touches the connection is dispatched to             *)
(* connection_strand_, a FIFO queue whose tasks run one at a time.         *)
(***************************************************************************)
EXTENDS Connection, Sequences

CONSTANTS
  MaxReads,   \* bound: how many asynchronous reads a behaviour may start
  Batches     \* external: what one chunk of bytes can parse to

\* NICKLESS is a PRIVMSG whose tags have no display-name; OTHER is every
\* type that operator() has no case for.
MessageKind == {"PING", "PRIVMSG", "NICKLESS", "OTHER"}

ASSUME MaxReadsAssumption == MaxReads \in Nat \ {0}
ASSUME BatchesAssumption == Batches \subseteq Seq(MessageKind)

\* A message is named by its read and its index in the batch.
ReadId == 1 .. MaxReads
MessageId == ReadId \X (Nat \ {0})

VARIABLES
  handler_connection, \* MessageHandler::connection_
  chat_bot,           \* chat_bot_ is set
  pool,               \* batches in the system thread pool: the read they came
                      \* from, the messages, the index of the next one
  connection_strand,  \* queued tasks of connection_strand_
  to_bot              \* chat messages posted to ChatBot::ParseAndExecute

poolVars == <<chat_bot, pool, to_bot>>

handlerVars == <<handler_connection, poolVars, connection_strand>>

Batch == [id : ReadId, msgs : Seq(MessageKind), next : Nat \ {0}]

Task ==
  [task : {"Reconnect"}]
    \cup [task : {"UpdateConnection"}, conn : Conn]
    \cup [task : {"SendPong"}, ping : MessageId]

\* What Pong(c, ping, call) is.
PongRecord == [conn : Conn, ping : MessageId, call : {"write", "async_write"}]

HandlerTypeOK ==
  /\ handler_connection \in Conn
  /\ chat_bot \in BOOLEAN
  /\ pool \subseteq Batch
  /\ connection_strand \in Seq(Task)
  /\ to_bot \subseteq MessageId
  /\ pongs \cup writing \subseteq PongRecord

HandlerInit(bot) ==
  /\ handler_connection = 1
  /\ chat_bot = bot
  /\ pool = {}
  /\ connection_strand = <<>>
  /\ to_bot = {}

SetChatBot(bot) ==
  /\ chat_bot' = bot
  /\ UNCHANGED <<handler_connection, pool, connection_strand, to_bot>>

\* Mutant: the strand runs what was dispatched last first.
DispatchFirst(task) == connection_strand' = <<task>> \o connection_strand

Dispatch(task) == connection_strand' = Append(connection_strand, task)

\* Mutant: the task holds no connection.
UpdateConnectionNull(c) ==
  /\ Dispatch([task |-> "UpdateConnection", conn |-> 0])
  /\ UNCHANGED <<handler_connection, chat_bot, pool, to_bot>>

UpdateConnection(c) ==
  /\ Dispatch([task |-> "UpdateConnection", conn |-> c])
  /\ UNCHANGED <<handler_connection, chat_bot, pool, to_bot>>

-------------------------------------------------------------------------------
(***************************************************************************)
(* operator()(messages): one iteration of the loop is one step, since      *)
(* other threads run between two iterations.                               *)
(***************************************************************************)
Current(b) == b.msgs[b.next]
Unhandled(b) == b.next <= Len(b.msgs)
Advance(b) == pool' = (pool \ {b}) \cup {[b EXCEPT !.next = @ + 1]}
Abandon(b) == pool' = pool \ {b}

\* Mutant: the loop stays at the PING it has dispatched.
HandlePingAgain(b) ==
  /\ b \in pool /\ Unhandled(b) /\ Current(b) = "PING"
  /\ Dispatch([task |-> "SendPong", ping |-> <<b.id, b.next>>])
  /\ Len(connection_strand) < 3
  /\ UNCHANGED <<handler_connection, chat_bot, pool, to_bot>>

HandlePing(b) ==
  /\ b \in pool /\ Unhandled(b) /\ Current(b) = "PING"
  /\ Dispatch([task |-> "SendPong", ping |-> <<b.id, b.next>>])
  /\ Advance(b)
  /\ UNCHANGED <<handler_connection, chat_bot, to_bot>>

\* Mutant: the loop is left after a chat message.
HandleChatOnce(b) ==
  /\ b \in pool /\ Unhandled(b) /\ Current(b) = "PRIVMSG"
  /\ to_bot' = IF chat_bot THEN to_bot \cup {<<b.id, b.next>>} ELSE to_bot
  /\ Abandon(b)
  /\ UNCHANGED <<handler_connection, chat_bot, connection_strand>>

\* With no chat bot set the code returns, leaving the rest of the batch.
HandleChat(b) ==
  /\ b \in pool /\ Unhandled(b) /\ Current(b) = "PRIVMSG"
  /\ \/ /\ chat_bot
        /\ to_bot' = to_bot \cup {<<b.id, b.next>>}
        /\ Advance(b)
     \/ /\ ~chat_bot
        /\ Abandon(b)
        /\ UNCHANGED to_bot
  /\ UNCHANGED <<handler_connection, chat_bot, connection_strand>>

\* GetNick throws; the handler of the exception is outside the loop.
HandleNickless(b) ==
  /\ b \in pool /\ Unhandled(b) /\ Current(b) = "NICKLESS"
  /\ Abandon(b)
  /\ UNCHANGED <<handler_connection, chat_bot, connection_strand, to_bot>>

\* A type with no case, or the end of the loop.
HandleOther(b) ==
  /\ b \in pool
  /\ \/ Unhandled(b) /\ Current(b) = "OTHER" /\ Advance(b)
     \/ ~Unhandled(b) /\ Abandon(b)
  /\ UNCHANGED <<handler_connection, chat_bot, connection_strand, to_bot>>

(***************************************************************************)
(* The task posted for a chat message.  It asks for chat_bot_ again: if    *)
(* SetChatBot has taken the bot away since, ParseAndExecute is called on a *)
(* null pointer, which only an empty text survives.                        *)
(***************************************************************************)
ParseAndExecute(m) ==
  /\ m \in to_bot
  /\ to_bot' = to_bot \ {m}
  /\ UNCHANGED <<handler_connection, chat_bot, pool, connection_strand>>

HandleMessage(b) ==
  HandlePing(b) \/ HandleChat(b) \/ HandleNickless(b) \/ HandleOther(b)
===============================================================================

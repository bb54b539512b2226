--------------------------- MODULE IrcClientProps ---------------------------
(***************************************************************************)
(* What the client promises: invariants, action properties, the abstract   *)
(* Session it implements, and liveness under FairSpec.                     *)
(***************************************************************************)
EXTENDS IrcClient

\* The variables of the client and of its components have their types.
TypeOK ==
  /\ ConnectionTypeOK
  /\ HandlerTypeOK
  /\ ClientTypeOK

(***************************************************************************)
(* Who may start the next read: main() before it runs the io_context, a    *)
(* read in progress, a queued Reconnect, a timer handler up to its Read(). *)
(* One that waits in a handshake still has the client in its hands.        *)
(***************************************************************************)
ReconnectQueued ==
  {i \in DOMAIN connection_strand : connection_strand[i].task = "Reconnect"}

Recovering ==
  {c \in Conn : timer[c] \in {"Connect", "Handshake", "UpdateConnection",
                              "FlushBuffer", "Authorize", "Read"}}

AtMostOne(S) == \A x, y \in S : x = y

(***************************************************************************)
(* There is never a second read loop.  message_processor_ (the buffer of   *)
(* the incomplete line) has no lock, and OnRead of two connections runs on *)
(* different strands, so nothing else keeps two OnRead from running at     *)
(* once.  The loop always reads the connection the client has now.         *)
(***************************************************************************)
OneReadLoop ==
  /\ AtMostOne(reads) /\ AtMostOne(ReconnectQueued) /\ AtMostOne(Recovering)
  /\ main # "Run" => reads = {} /\ ReconnectQueued = {} /\ Recovering = {}
  /\ reads # {} => ReconnectQueued = {} /\ Recovering = {}
  /\ ReconnectQueued # {} => Recovering = {}
  /\ \A r \in reads : r.conn = connection

(***************************************************************************)
(* The incomplete last line of one connection is never completed with the  *)
(* bytes of another one: while a read is in progress the buffer is empty   *)
(* or holds bytes of the connection that is read (Reconnect's FlushBuffer).*)
(***************************************************************************)
NoCrossSessionFraming == \A r \in reads : incomplete_from \in {0, r.conn}

(***************************************************************************)
(* A session that is set up, by main() or by the timer handler, and whose  *)
(* stream is still open has been authorized, has asked for the             *)
(* capabilities, and the server has us in every joined channel, and in no  *)
(* other that was never joined: Part is forgotten by a recovery, which     *)
(* joins what is in join_command_buffer_.  The application may call Join,  *)
(* Part and Disconnect all the while.                                      *)
(***************************************************************************)
SessionUp ==
  /\ IF connection = 1 THEN main = "Run" ELSE timer[connection] = "done"
  /\ socket[connection] = "open"

SessionRestored ==
  SessionUp => /\ login[connection] = {"AUTH", "CAP"}
               /\ joined_channels \subseteq room[connection]
               /\ room[connection] \subseteq IF connection = 1 THEN joined_channels
                                             ELSE join_command_buffer

(***************************************************************************)
(* PONGs follow the client: once the timer handler has posted the new      *)
(* connection to the message handler and that task has run, the message    *)
(* handler answers on the client's connection.                             *)
(***************************************************************************)
HandlerFollows ==
  \/ handler_connection = connection
  \/ timer[connection] \in {"Connect", "Handshake", "UpdateConnection"}
  \/ \E i \in DOMAIN connection_strand :
       connection_strand[i] = [task |-> "UpdateConnection", conn |-> connection]

(***************************************************************************)
(* A PING is in one place: still ahead in its batch, in one task of the    *)
(* strand, or written; and it is answered on one connection only, also     *)
(* when the connection is replaced between the handling and the write.     *)
(***************************************************************************)
PingInPool(ping) ==
  \E b \in pool : b.id = ping[1] /\ b.next <= ping[2] /\ ping[2] <= Len(b.msgs)

PongQueued ==
  {i \in DOMAIN connection_strand : connection_strand[i].task = "SendPong"}

PingHandledOnce ==
  /\ \A i, j \in PongQueued :
       connection_strand[i].ping = connection_strand[j].ping => i = j
  /\ \A i \in PongQueued :
       LET ping == connection_strand[i].ping IN
       ~PingInPool(ping) /\ \A p \in pongs \cup writing : p.ping # ping
  /\ \A p, q \in pongs \cup writing :
       ~PingInPool(p.ping) /\ (p.ping = q.ping => p.conn = q.conn)

(***************************************************************************)
(* The process terminates only when a stream never came up, when the       *)
(* application closed one or took the chat bot away, when no channel was   *)
(* ever joined, or when a timer handler went on after its connection had   *)
(* been replaced.                                                          *)
(***************************************************************************)
TerminationHasCause ==
  \/ alive
  \/ \E c \in Conn : socket[c] \in {"failed", "closed"}
  \/ join_command_buffer = {}
  \/ ~chat_bot /\ to_bot # {}
  \/ \E c \in Conn : c # connection /\ timer[c] \in {"CapRequest", "Join"}

(***************************************************************************)
(* The message handler never goes back to an older connection, whatever    *)
(* order recoveries, timer handlers and strand tasks come in.              *)
(***************************************************************************)
HandlerNeverGoesBack == [][handler_connection' >= handler_connection]_vars

(***************************************************************************)
(* Every recovery ends: the timer handler gets to the end of its Join(),   *)
(* or an exception in it terminates the process, or the handler waits for  *)
(* good in the handshake, because the peer of the new connection is silent *)
(* (connection.cpp:149 has no timeout).                                    *)
(***************************************************************************)
RecoveryEnds ==
  \A c \in Conn :
    timer[c] = "Connect" ~> \/ timer[c] = "done"
                            \/ ~alive
                            \/ [](timer[c] = "Handshake" /\ socket[connection] # "open")

(***************************************************************************)
(* A PING that OnRead handed over is answered on some connection, unless   *)
(* the stream the message handler writes to goes down or the process       *)
(* terminates first.  Only the PINGs behind a chat message without a nick  *)
(* are left out: its exception is caught outside the loop.                 *)
(***************************************************************************)
PingAhead(id, i) ==
  \E b \in pool :
    /\ b.id = id /\ i \in b.next .. Len(b.msgs)
    /\ b.msgs[i] = "PING"
    /\ \A j \in b.next .. i : b.msgs[j] # "NICKLESS"

PingAnswered ==
  \A id \in ReadId, i \in 1 .. 2 :
    PingAhead(id, i) ~> \/ \E p \in pongs : p.ping = <<id, i>>
                        \/ socket[handler_connection] # "open"
                        \/ ~alive

-------------------------------------------------------------------------------
(***************************************************************************)
(* The life of a session, as the abstract module Session has it.           *)
(***************************************************************************)
InHandshake == main = "Handshake" \/ \E c \in Conn : timer[c] = "Handshake"

SessionPhase ==
  IF ~alive THEN "dead"
  ELSE IF InHandshake THEN "waiting"
  ELSE IF main # "Run" THEN "starting"
  ELSE IF Recovering # {} THEN "recovering"
  ELSE IF reads # {} \/ ReconnectQueued # {} THEN "online"
  ELSE "lost"

S == INSTANCE Session WITH phase <- SessionPhase, epoch <- connection

(***************************************************************************)
(* The client implements Session: a new connection is only made when an    *)
(* online session breaks, a recovery goes back online, kills the process   *)
(* or waits in a handshake, and a session whose read loop ended or whose   *)
(* peer is silent never reads again.                                       *)
(***************************************************************************)
ImplementsSession == S!Spec

\* The start and every recovery come to an end, online or dead, unless the
\* peer is silent.
SessionSettles == S!Settles

-------------------------------------------------------------------------------
(***************************************************************************)
(* With the stream operations of Boost.Asio an error comes without bytes,  *)
(* and the completion of such a read only logs: the client never makes a   *)
(* second connection and never arms the reconnect timer.                   *)
(***************************************************************************)
NeverReconnects ==
  ~ErrorWithBytes => connection = 1 /\ \A c \in Conn : timer[c] = "none"

(***************************************************************************)
(* So a stream that breaks ends the reading for good, although the         *)
(* connection still counts as connected.                                   *)
(***************************************************************************)
BrokenStreamEndsReading ==
  socket[1] = "broken" ~> (~alive \/ [](reads = {} /\ (socket[1] = "broken" => connected[1])))

-------------------------------------------------------------------------------
(***************************************************************************)
(* What the documentation says and the code does not do.                   *)
(*                                                                         *)
(* Every method but Connect is asynchronous (README.md:14): a PONG given   *)
(* to AsyncWrite goes to the server once.                                  *)
(***************************************************************************)
OnePongPerPing == \A p, q \in pongs : p.ping = q.ping => p = q
===============================================================================

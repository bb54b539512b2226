------------------------------ MODULE Connection ------------------------------
(***************************************************************************)
(* The Connection objects of connection.h / connection.cpp.  The client    *)
(* starts with one and Reconnect makes a new one each time, so they are    *)
(* numbered in the order in which they are made.  The tcp::socket and the  *)
(* ssl::stream visitors differ only in the flag they keep (connected_ and  *)
(* ssl_connected_) and in how a name that does not resolve is thrown: one  *)
(* flag stands for both.                                                   *)
(*                                                                         *)
(* The module has no next-state relation: Client and MessageHandler call   *)
(* its operations, and the network changes the sockets behind its back.    *)
(***************************************************************************)
EXTENDS Naturals

CONSTANTS
  MaxConn,    \* bound: how many Connection objects a behaviour may make
  Channels,   \* the names of chat channels
  Secured     \* the argument secured of the client's constructor

ASSUME MaxConnAssumption == MaxConn \in Nat \ {0}
ASSUME SecuredAssumption == Secured \in BOOLEAN

Conn == 1 .. MaxConn

VARIABLES
  socket,             \* the stream: new, open, broken (by the peer or the
                      \* network), closed (by us), failed (never came up),
                      \* silent (the peer never answers the handshake)
  connected,          \* connected_ or ssl_connected_
  reconnect_required, \* reconnect_required_
  login,              \* external: which of AUTH, CAP reached the server
  room,               \* external: the channels the server has us in
  pongs,              \* external: the PONGs that reached the server
  writing             \* async_write operations that have not completed

connVars == <<socket, connected, reconnect_required, login, room, pongs, writing>>

SocketState == {"new", "open", "broken", "closed", "failed", "silent"}

ConnectionTypeOK ==
  /\ socket \in [Conn -> SocketState]
  /\ connected \in [Conn -> BOOLEAN]
  /\ reconnect_required \in [Conn -> BOOLEAN]
  /\ login \in [Conn -> SUBSET {"AUTH", "CAP"}]
  /\ room \in [Conn -> SUBSET Channels]

ConnectionInit ==
  /\ socket = [c \in Conn |-> "new"]
  /\ connected = [c \in Conn |-> FALSE]
  /\ reconnect_required = [c \in Conn |-> FALSE]
  /\ login = [c \in Conn |-> {}]
  /\ room = [c \in Conn |-> {}]
  /\ pongs = {}
  /\ writing = {}

(***************************************************************************)
(* The stream of a connection: the first has the kind the client was made  *)
(* with, Reconnect is only called with its default argument.  Connect of   *)
(* the client always goes to the TLS port, where a plain stream comes up   *)
(* and nothing that is written to it means anything.                       *)
(***************************************************************************)
IsSecured(c) == c > 1 \/ Secured

Reaches(c) == socket[c] = "open" /\ IsSecured(c)

(***************************************************************************)
(* Connect(host, port).  "up": resolved, connected, handshake done.        *)
(* "refused": net::connect or the handshake failed, the error code is      *)
(* reported and Connect returns.  "unresolved": the visitor throws.        *)
(* "silent": the peer takes the connection and never answers the           *)
(* handshake, a blocking call without a timeout, so that Connect never     *)
(* returns; a plain stream has no handshake.  A peer that answers late is  *)
(* one of the others.                                                      *)
(***************************************************************************)
ConnectOutcome == {"up", "refused", "unresolved", "silent"}

SocketAfter(outcome) ==
  CASE outcome = "up" -> "open"
    [] outcome = "silent" -> "silent"
    [] OTHER -> "failed"

Connect(c, outcome) ==
  /\ outcome = "silent" => IsSecured(c)
  /\ socket' = [socket EXCEPT ![c] = SocketAfter(outcome)]
  /\ connected' = [connected EXCEPT ![c] = @ \/ outcome = "up"]
  /\ UNCHANGED <<reconnect_required, login, room, pongs, writing>>

\* Disconnect(): shutdown with its error ignored, close, flag down.
Disconnect(c) ==
  /\ socket' = [socket EXCEPT ![c] = "closed"]
  /\ connected' = [connected EXCEPT ![c] = FALSE]
  /\ UNCHANGED <<reconnect_required, login, room, pongs, writing>>

(***************************************************************************)
(* Write(data): the blocking write.  It throws when the flag is down; on a *)
(* stream that is no longer open the error code is reported and nothing    *)
(* else happens.  "said" is the login step the data is, "rooms" the        *)
(* channels the server has us in once it has read the data.                *)
(***************************************************************************)
CanWrite(c) == connected[c]

Write(c, said, rooms) ==
  /\ CanWrite(c)
  /\ login' = [login EXCEPT ![c] = IF Reaches(c) THEN @ \cup said ELSE @]
  /\ room' = [room EXCEPT ![c] = IF Reaches(c) THEN rooms ELSE @]
  /\ UNCHANGED <<socket, connected, reconnect_required, pongs, writing>>

(***************************************************************************)
(* AsyncWrite(data): the visitor first writes the data with net::write and *)
(* then starts an async_write of the same data.  PONG is the only user.    *)
(***************************************************************************)
Pong(c, ping, call) == [conn |-> c, ping |-> ping, call |-> call]

AsyncWrite(c, ping) ==
  /\ CanWrite(c)
  /\ pongs' = IF Reaches(c) THEN pongs \cup {Pong(c, ping, "write")} ELSE pongs
  /\ writing' = writing \cup {Pong(c, ping, "async_write")}
  /\ UNCHANGED <<socket, connected, reconnect_required, login, room>>

\* The async_write completes; with an error its handler only logs.
AsyncWriteDone(w) ==
  /\ w \in writing
  /\ writing' = writing \ {w}
  /\ pongs' = IF Reaches(w.conn) THEN pongs \cup {w} ELSE pongs
  /\ UNCHANGED <<socket, connected, reconnect_required, login, room>>

\* AsyncReadVisitor::OnRead with an error code: the flag the client polls.
RequireReconnect(c) ==
  /\ reconnect_required' = [reconnect_required EXCEPT ![c] = TRUE]
  /\ UNCHANGED <<socket, connected, login, room, pongs, writing>>

\* IsReconnectRequired() answered TRUE: asking resets the flag.
TakeReconnectRequired(c) ==
  /\ reconnect_required[c]
  /\ reconnect_required' = [reconnect_required EXCEPT ![c] = FALSE]
  /\ UNCHANGED <<socket, connected, login, room, pongs, writing>>

\* External: the peer closes the stream or the network drops it.
NetworkBreaks(c) ==
  /\ socket[c] = "open"
  /\ socket' = [socket EXCEPT ![c] = "broken"]
  /\ UNCHANGED <<connected, reconnect_required, login, room, pongs, writing>>
===============================================================================

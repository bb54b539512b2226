--------------------------- MODULE MessageProcessor ---------------------------
(***************************************************************************)
(* message_processor::MessageProcessor, fed with what asynchronous reads   *)
(* of one connection deliver: chunks of at most 128 bytes that end         *)
(* anywhere.  One iteration of the loop in GetMessagesFromRawBytes is one  *)
(* step.                                                                   *)
(***************************************************************************)
EXTENDS MessageContents

CONSTANTS
  ServerLines,     \* external: the lines the server sends, with their types,
                   \* and with who says what in a chat message
  ReadBufferSize,  \* read_buffer_size_
  MaxLines         \* bound: how many lines the server sends on a connection

Statement == [nick : Seq(Byte), role : RoleLevel, said : Seq(Byte)]

ServerLine ==
  [text : Seq(Byte \ {CR, LF}), type : MessageType, saying : Statement]

ASSUME ProcessorAssumption ==
  /\ ServerLines \subseteq ServerLine
  /\ ReadBufferSize \in Nat \ {0}
  /\ MaxLines \in Nat

VARIABLES
  sent,         \* external: the lines sent on this connection
  wire,         \* external: the bytes of them that no read has delivered
  raw_bytes,    \* the argument of GetMessagesFromRawBytes
  index,        \* the loop variable (from 1), 0 when nothing is parsed
  raw_message,  \* the line that is put together
  last_read_incomplete_message,
  messages,     \* the messages returned, with their lines, on this connection
  cut           \* history: a chunk has ended between a CR and its LF

processorVars == <<sent, wire, raw_bytes, index, raw_message,
                   last_read_incomplete_message, messages, cut>>

Message == [type : MessageType, raw : Seq(Byte)]

ProcessorTypeOK ==
  /\ sent \in Seq(ServerLines)
  /\ wire \in Seq(Byte)
  /\ raw_bytes \in Seq(Byte)
  /\ index \in 0 .. Len(raw_bytes) + 1
  /\ raw_message \in Seq(Byte)
  /\ last_read_incomplete_message \in Seq(Byte)
  /\ messages \in Seq(Message)
  /\ cut \in BOOLEAN

Init ==
  /\ sent = <<>> /\ wire = <<>>
  /\ raw_bytes = <<>> /\ index = 0 /\ raw_message = <<>>
  /\ last_read_incomplete_message = <<>>
  /\ messages = <<>>
  /\ cut = FALSE

-------------------------------------------------------------------------------
ServerSends ==
  /\ Len(sent) < MaxLines
  /\ \E line \in ServerLines :
       /\ sent' = Append(sent, line)
       /\ wire' = wire \o line.text \o <<CR, LF>>
  /\ UNCHANGED <<raw_bytes, index, raw_message, last_read_incomplete_message,
                 messages, cut>>

EndsWith(line, byte) == line # <<>> /\ line[Len(line)] = byte

\* A read delivers a chunk; the loop starts from the incomplete line.
GetMessagesFromRawBytes ==
  /\ index = 0
  /\ \E n \in 1 .. ReadBufferSize :
       /\ n <= Len(wire)
       /\ raw_bytes' = SubSeq(wire, 1, n)
       /\ wire' = SubSeq(wire, n + 1, Len(wire))
  /\ index' = 1
  /\ raw_message' = last_read_incomplete_message
  /\ last_read_incomplete_message' = <<>>
  /\ cut' = (cut \/ (EndsWith(last_read_incomplete_message, CR) /\ wire[1] = LF))
  /\ UNCHANGED <<sent, messages>>

\* Mutant: the index goes one too far.
CompleteLineTooFar ==
  /\ index \in DOMAIN raw_bytes
  /\ IsCRLF(raw_bytes, index)
  /\ messages' = Append(messages, [type |-> IdentifyMessageType(raw_message),
                                   raw |-> raw_message])
  /\ raw_message' = <<>>
  /\ index' = index + 3
  /\ UNCHANGED <<sent, wire, raw_bytes, last_read_incomplete_message, cut>>

\* An iteration at a CRLF, which lies in this chunk as a whole.
CompleteLine ==
  /\ index \in DOMAIN raw_bytes
  /\ IsCRLF(raw_bytes, index)
  /\ messages' = Append(messages, [type |-> IdentifyMessageType(raw_message),
                                   raw |-> raw_message])
  /\ raw_message' = <<>>
  /\ index' = index + 2
  /\ UNCHANGED <<sent, wire, raw_bytes, last_read_incomplete_message, cut>>

\* Any other iteration.
AppendByte ==
  /\ index \in DOMAIN raw_bytes
  /\ ~IsCRLF(raw_bytes, index)
  /\ raw_message' = Append(raw_message, raw_bytes[index])
  /\ index' = index + 1
  /\ UNCHANGED <<sent, wire, raw_bytes, last_read_incomplete_message, messages, cut>>

\* The loop is over: what is left waits for the next chunk.
KeepIncomplete ==
  /\ index = Len(raw_bytes) + 1
  /\ raw_bytes # <<>>
  /\ last_read_incomplete_message' = raw_message
  /\ index' = 0 /\ raw_bytes' = <<>> /\ raw_message' = <<>>
  /\ UNCHANGED <<sent, wire, messages, cut>>

\* Mutant: nothing is flushed.
FlushBufferSkipped ==
  /\ index = 0
  /\ sent' = <<>> /\ wire' = <<>> /\ messages' = <<>> /\ cut' = FALSE
  /\ UNCHANGED <<raw_bytes, index, raw_message, last_read_incomplete_message>>

\* FlushBuffer, called between two reads when there is a new connection.
FlushBuffer ==
  /\ index = 0
  /\ last_read_incomplete_message' = <<>>
  /\ sent' = <<>> /\ wire' = <<>> /\ messages' = <<>> /\ cut' = FALSE
  /\ UNCHANGED <<raw_bytes, index, raw_message>>

Next ==
  \/ ServerSends
  \/ GetMessagesFromRawBytes
  \/ CompleteLine
  \/ AppendByte
  \/ KeepIncomplete
  \/ FlushBuffer

Spec == Init /\ [][Next]_processorVars

-------------------------------------------------------------------------------
NoCRLF(line) == \A i \in 1 .. Len(line) - 1 : ~(line[i] = CR /\ line[i + 1] = LF)

(***************************************************************************)
(* As long as no chunk ends between a CR and its LF, a message is made of  *)
(* one line only (IsCRLF looks at one chunk).                              *)
(***************************************************************************)
OneLinePerMessage == ~cut => \A k \in DOMAIN messages : NoCRLF(messages[k].raw)

\* Everything the server sent has been read and parsed.
Settled == index = 0 /\ wire = <<>>

(***************************************************************************)
(* Up to such a cut reading is what LineStream has: the messages are the   *)
(* lines the server sent on this connection, in their order, each of the   *)
(* type it has in the protocol, and nothing of an older connection is in   *)
(* them, however the chunks cut the lines.                                 *)
(***************************************************************************)
ServerMessage(line) == [type |-> line.type, raw |-> line.text]

Stream ==
  INSTANCE LineStream WITH
    Lines <- {ServerMessage(line) : line \in ServerLines},
    lines <- IF cut THEN <<>> ELSE [k \in DOMAIN sent |-> ServerMessage(sent[k])],
    received <- IF cut THEN <<>> ELSE messages,
    torn <- cut

ImplementsLineStream == Stream!Spec

\* And none is held back: once all bytes are parsed, all lines are messages.
NothingHeldBack == ~cut /\ Settled => Len(messages) = Len(sent)

(***************************************************************************)
(* A chat message is said by the one who said it: the nick, the role and   *)
(* the text a message yields are those the server put into the line, even  *)
(* when several reads delivered it; every content that is kept or thrown   *)
(* away in between, and every badge that does not count, included.         *)
(***************************************************************************)
SpeakersAreKnown ==
  ~cut => \A k \in DOMAIN messages \cap DOMAIN sent :
            sent[k].type = "PRIVMSG" => Saying(messages[k].raw) = sent[k].saying

(***************************************************************************)
(* The client handles PINGs (README.md:5) and finds out the type of a      *)
(* message (README.md:7): a PING the server sent is a PING message.        *)
(***************************************************************************)
PingsAreIdentified ==
  Settled => Cardinality({k \in DOMAIN sent : sent[k].type = "PING"})
             = Cardinality({k \in DOMAIN messages : messages[k].type = "PING"})
===============================================================================

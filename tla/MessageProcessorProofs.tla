------------------------ MODULE MessageProcessorProofs ------------------------
(***************************************************************************)
(* Theorems about MessageProcessor for every alphabet, every set of lines  *)
(* and every size of the read buffer.                                      *)
(***************************************************************************)
EXTENDS MessageProcessor, SequenceTheorems, TLAPS

LEMMA MessageTypeIdentified ==
  ASSUME NEW line PROVE IdentifyMessageType(line) \in MessageType
BY DEF IdentifyMessageType, MessageType

LEMMA ByteCRLF == CR \in Byte /\ LF \in Byte /\ CR # LF
BY DEF Byte, CR, LF

LEMMA NothingRead == <<>> \in Seq(Byte) /\ Len(<<>>) = 0 /\ 0 \in 0 .. 0 + 1
OBVIOUS

LEMMA InitTypes == Init => ProcessorTypeOK
<1> SUFFICES ASSUME Init PROVE ProcessorTypeOK
  OBVIOUS
<1>1. index \in 0 .. Len(raw_bytes) + 1
  BY NothingRead DEF Init
<1>2. /\ wire \in Seq(Byte) /\ raw_bytes \in Seq(Byte) /\ raw_message \in Seq(Byte)
      /\ last_read_incomplete_message \in Seq(Byte)
  BY NothingRead DEF Init
<1>3. sent \in Seq(ServerLines) /\ messages \in Seq(Message)
  BY DEF Init
<1> QED BY <1>1, <1>2, <1>3 DEF Init, ProcessorTypeOK

LEMMA ServerSendsTypes == ASSUME ProcessorTypeOK, ServerSends PROVE ProcessorTypeOK'
<1>1. PICK line \in ServerLines :
        sent' = Append(sent, line) /\ wire' = wire \o line.text \o <<CR, LF>>
  BY DEF ServerSends
<1>2. line.text \in Seq(Byte)
  BY ProcessorAssumption DEF ServerLine, Byte
<1>3. <<CR, LF>> \in Seq(Byte)
  BY ByteCRLF
<1>4. wire' \in Seq(Byte)
  BY <1>1, <1>2, <1>3, ConcatProperties DEF ProcessorTypeOK
<1>5. sent' \in Seq(ServerLines)
  BY <1>1, AppendProperties DEF ProcessorTypeOK
<1> QED BY <1>4, <1>5 DEF ServerSends, ProcessorTypeOK

\* What a read delivers, and what it leaves.
LEMMA ChunkOfWire ==
  ASSUME ProcessorTypeOK, GetMessagesFromRawBytes
  PROVE  /\ raw_bytes' \in Seq(Byte) /\ wire' \in Seq(Byte)
         /\ Len(raw_bytes') >= 1 /\ Len(raw_bytes') \in Nat
         /\ raw_bytes'[1] = wire[1]
<1>1. PICK n \in 1 .. ReadBufferSize :
        /\ n <= Len(wire)
        /\ raw_bytes' = SubSeq(wire, 1, n)
        /\ wire' = SubSeq(wire, n + 1, Len(wire))
  BY DEF GetMessagesFromRawBytes
<1>2. wire \in Seq(Byte) /\ Len(wire) \in Nat /\ n \in Nat /\ n >= 1
  BY ProcessorAssumption DEF ProcessorTypeOK
<1>3. \A i \in 1 .. Len(wire) : wire[i] \in Byte
  BY <1>2
<1>4. raw_bytes' \in Seq(Byte) /\ Len(raw_bytes') = n /\ raw_bytes'[1] = wire[1]
  BY <1>1, <1>2, <1>3, SubSeqProperties
<1>5. wire' \in Seq(Byte)
  BY <1>1, <1>2, <1>3, SubSeqProperties
<1> QED BY <1>2, <1>4, <1>5

LEMMA ParsingTypes ==
  ASSUME ProcessorTypeOK,
         \/ GetMessagesFromRawBytes \/ CompleteLine \/ AppendByte \/ KeepIncomplete
  PROVE  ProcessorTypeOK'
<1>1. CASE GetMessagesFromRawBytes
  <2>1. 1 \in 0 .. Len(raw_bytes') + 1
    BY <1>1, ChunkOfWire
  <2>2. cut' \in BOOLEAN
    BY <1>1 DEF GetMessagesFromRawBytes, ProcessorTypeOK
  <2> QED BY <1>1, <2>1, <2>2, ChunkOfWire DEF GetMessagesFromRawBytes, ProcessorTypeOK
<1>2. CASE CompleteLine
  <2>1. [type |-> IdentifyMessageType(raw_message), raw |-> raw_message] \in Message
    BY MessageTypeIdentified DEF Message, ProcessorTypeOK
  <2>2. messages' \in Seq(Message)
    BY <1>2, <2>1, AppendProperties DEF CompleteLine, ProcessorTypeOK
  <2>3. index' \in 0 .. Len(raw_bytes) + 1
    BY <1>2 DEF CompleteLine, IsCRLF, ProcessorTypeOK
  <2> QED BY <1>2, <2>2, <2>3 DEF CompleteLine, ProcessorTypeOK
<1>3. CASE AppendByte
  <2>1. raw_message' \in Seq(Byte)
    BY <1>3, AppendProperties DEF AppendByte, ProcessorTypeOK
  <2>2. index' \in 0 .. Len(raw_bytes) + 1
    BY <1>3 DEF AppendByte, ProcessorTypeOK
  <2> QED BY <1>3, <2>1, <2>2 DEF AppendByte, ProcessorTypeOK
<1>4. CASE KeepIncomplete
  <2>1. index' \in 0 .. Len(raw_bytes') + 1
    BY <1>4, NothingRead DEF KeepIncomplete
  <2>2. raw_bytes' \in Seq(Byte) /\ raw_message' \in Seq(Byte)
    BY <1>4, NothingRead DEF KeepIncomplete
  <2> QED BY <1>4, <2>1, <2>2 DEF KeepIncomplete, ProcessorTypeOK
<1> QED BY <1>1, <1>2, <1>3, <1>4

LEMMA NextTypes == ProcessorTypeOK /\ [Next]_processorVars => ProcessorTypeOK'
<1> SUFFICES ASSUME ProcessorTypeOK, [Next]_processorVars PROVE ProcessorTypeOK'
  OBVIOUS
<1>1. CASE FlushBuffer
  <2>1. /\ wire' \in Seq(Byte) /\ last_read_incomplete_message' \in Seq(Byte)
        /\ sent' \in Seq(ServerLines) /\ messages' \in Seq(Message)
    BY <1>1, NothingRead DEF FlushBuffer
  <2> QED BY <1>1, <2>1 DEF FlushBuffer, ProcessorTypeOK
<1>2. CASE UNCHANGED processorVars
  BY <1>2 DEF processorVars, ProcessorTypeOK
<1> QED BY <1>1, <1>2, ServerSendsTypes, ParsingTypes DEF Next

(***************************************************************************)
(* The variables of the message processor have their types; above all the  *)
(* loop never leaves the chunk by more than one.                           *)
(***************************************************************************)
THEOREM ProcessorTypeCorrect == Spec => []ProcessorTypeOK
<1> QED BY InitTypes, NextTypes, PTL DEF Spec

-------------------------------------------------------------------------------
(***************************************************************************)
(* The strengthening: no line that is put together or kept has a CRLF in   *)
(* it, and a CR at its end is not followed by an LF in the chunk, since    *)
(* the loop looks one byte ahead.  Between two chunks there is no line     *)
(* under way, so a new connection starts with whole lines even if the old  *)
(* one was cut.                                                            *)
(***************************************************************************)
Whole ==
  /\ NoCRLF(raw_message)
  /\ NoCRLF(last_read_incomplete_message)
  /\ \A k \in DOMAIN messages : NoCRLF(messages[k].raw)
  /\ EndsWith(raw_message, CR) /\ index \in DOMAIN raw_bytes => raw_bytes[index] # LF

WholeUnlessCut == /\ ~cut => Whole
                  /\ index = 0 => raw_bytes = <<>> /\ raw_message = <<>>

LEMMA EmptyLine == NoCRLF(<<>>) /\ ~EndsWith(<<>>, CR)
BY DEF NoCRLF, EndsWith

LEMMA LineGrows ==
  ASSUME NEW line \in Seq(Byte), NEW byte \in Byte, NoCRLF(line),
         ~(EndsWith(line, CR) /\ byte = LF)
  PROVE  NoCRLF(Append(line, byte)) /\ (EndsWith(Append(line, byte), CR) => byte = CR)
<1> DEFINE longer == Append(line, byte)
<1>1. /\ Len(longer) = Len(line) + 1 /\ Len(line) \in Nat
      /\ \A i \in 1 .. Len(line) : longer[i] = line[i]
      /\ longer[Len(line) + 1] = byte
  BY AppendProperties
<1>2. ASSUME NEW i \in 1 .. Len(longer) - 1
      PROVE  ~(longer[i] = CR /\ longer[i + 1] = LF)
  <2>1. CASE i = Len(line)
    BY <1>1, <2>1 DEF EndsWith
  <2>2. CASE i # Len(line)
    BY <1>1, <2>2 DEF NoCRLF
  <2> QED BY <2>1, <2>2
<1> QED BY <1>1, <1>2 DEF NoCRLF, EndsWith

LEMMA NextKeepsIdle ==
  ASSUME ProcessorTypeOK, WholeUnlessCut, [Next]_processorVars
  PROVE  (index = 0 => raw_bytes = <<>> /\ raw_message = <<>>)'
<1>1. CASE CompleteLine \/ AppendByte
  <2>1. index' # 0
    BY <1>1 DEF CompleteLine, AppendByte, ProcessorTypeOK
  <2> QED BY <2>1
<1>2. CASE ~(CompleteLine \/ AppendByte)
  BY <1>2 DEF Next, ServerSends, GetMessagesFromRawBytes, KeepIncomplete, FlushBuffer,
              processorVars, WholeUnlessCut
<1> QED BY <1>1, <1>2

LEMMA NextKeepsWhole ==
  ProcessorTypeOK /\ WholeUnlessCut /\ [Next]_processorVars => WholeUnlessCut'
<1> SUFFICES ASSUME ProcessorTypeOK, WholeUnlessCut, [Next]_processorVars, ~cut'
             PROVE  Whole'
  BY NextKeepsIdle DEF WholeUnlessCut
<1>1. CASE ServerSends \/ UNCHANGED processorVars
  BY <1>1 DEF ServerSends, processorVars, WholeUnlessCut, Whole
<1>2. CASE GetMessagesFromRawBytes
  <2>1. /\ ~cut /\ ~(EndsWith(last_read_incomplete_message, CR) /\ wire[1] = LF)
        /\ raw_message' = last_read_incomplete_message /\ index' = 1
        /\ last_read_incomplete_message' = <<>> /\ messages' = messages
    BY <1>2 DEF GetMessagesFromRawBytes
  <2>2. raw_bytes'[1] = wire[1]
    BY <1>2, ChunkOfWire
  <2> QED BY <2>1, <2>2, EmptyLine DEF WholeUnlessCut, Whole
<1>3. CASE CompleteLine
  <2> DEFINE new == [type |-> IdentifyMessageType(raw_message), raw |-> raw_message]
  <2>1. /\ ~cut /\ raw_message' = <<>> /\ messages' = Append(messages, new)
        /\ last_read_incomplete_message' = last_read_incomplete_message
    BY <1>3 DEF CompleteLine
  <2>2. messages \in Seq(Message) /\ new \in Message
    BY MessageTypeIdentified DEF ProcessorTypeOK, Message
  <2>3. \A k \in DOMAIN messages' :
          messages'[k] = new \/ (k \in DOMAIN messages /\ messages'[k] = messages[k])
    BY <2>1, <2>2, AppendProperties
  <2>4. NoCRLF(new.raw)
    BY <2>1 DEF WholeUnlessCut, Whole
  <2> HIDE DEF new
  <2> QED BY <2>1, <2>3, <2>4, EmptyLine DEF WholeUnlessCut, Whole
<1>4. CASE AppendByte
  <2>1. /\ ~cut /\ index \in DOMAIN raw_bytes /\ ~IsCRLF(raw_bytes, index)
        /\ raw_message' = Append(raw_message, raw_bytes[index])
        /\ index' = index + 1 /\ raw_bytes' = raw_bytes
        /\ UNCHANGED <<last_read_incomplete_message, messages>>
    BY <1>4 DEF AppendByte
  <2>2. raw_message \in Seq(Byte) /\ raw_bytes[index] \in Byte
    BY <2>1 DEF ProcessorTypeOK
  <2>3. NoCRLF(raw_message') /\ (EndsWith(raw_message', CR) => raw_bytes[index] = CR)
    BY <2>1, <2>2, LineGrows DEF WholeUnlessCut, Whole
  <2>4. raw_bytes[index] = CR /\ index + 1 \in DOMAIN raw_bytes => raw_bytes[index + 1] # LF
    BY <2>1 DEF IsCRLF, ProcessorTypeOK
  <2> QED BY <2>1, <2>3, <2>4 DEF WholeUnlessCut, Whole
<1>5. CASE KeepIncomplete
  BY <1>5, EmptyLine DEF KeepIncomplete, WholeUnlessCut, Whole
<1>6. CASE FlushBuffer
  <2>1. /\ last_read_incomplete_message' = <<>> /\ messages' = <<>>
        /\ raw_message' = <<>>
    BY <1>6 DEF FlushBuffer, WholeUnlessCut
  <2> QED BY <2>1, EmptyLine DEF Whole
<1> QED BY <1>1, <1>2, <1>3, <1>4, <1>5, <1>6 DEF Next

(***************************************************************************)
(* As long as no chunk ends between a CR and its LF, a message is made of  *)
(* one line only, whatever the size of the read buffer and wherever else   *)
(* the chunks end.                                                         *)
(***************************************************************************)
THEOREM OneLinePerMessageHolds == Spec => []OneLinePerMessage
<1>1. Init => WholeUnlessCut
  BY EmptyLine DEF Init, WholeUnlessCut, Whole
<1>2. WholeUnlessCut => OneLinePerMessage
  BY DEF WholeUnlessCut, Whole, OneLinePerMessage
<1> QED BY <1>1, <1>2, ProcessorTypeCorrect, NextKeepsWhole, PTL DEF Spec
===============================================================================

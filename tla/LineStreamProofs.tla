--------------------------- MODULE LineStreamProofs ---------------------------
(***************************************************************************)
(* The message processor implements LineStream: for every set of lines and *)
(* however the chunks cut them, the messages are the lines the server      *)
(* sent.                                                                   *)
(***************************************************************************)
EXTENDS MessageProcessorProofs

CRLF == <<CR, LF>>

-------------------------------------------------------------------------------
\* Sequences of bytes.

LEMMA CRLFBytes ==
  /\ CRLF \in Seq(Byte) /\ Len(CRLF) = 2 /\ CRLF[1] = CR /\ CRLF[2] = LF
  /\ CR # LF /\ CR \in Byte /\ LF \in Byte
BY ByteCRLF DEF CRLF

LEMMA BytesConcat ==
  ASSUME NEW a \in Seq(Byte), NEW b \in Seq(Byte)
  PROVE  a \o b \in Seq(Byte) /\ <<>> \o a = a /\ a \o <<>> = a
BY ConcatProperties, ConcatEmptySeq

LEMMA BytesAssociative ==
  ASSUME NEW a \in Seq(Byte), NEW b \in Seq(Byte), NEW c \in Seq(Byte)
  PROVE  (a \o b) \o c = a \o (b \o c)
BY ConcatAssociative

LEMMA CRLFIsTwoBytes == CRLF = <<CR>> \o <<LF>>
<1>1. <<CR>> \in Seq(Byte) /\ <<LF>> \in Seq(Byte)
  BY ByteCRLF
<1>2. /\ <<CR>> \o <<LF>> \in Seq(Byte) /\ Len(<<CR>> \o <<LF>>) = 2
      /\ (<<CR>> \o <<LF>>)[1] = CR /\ (<<CR>> \o <<LF>>)[2] = LF
  BY <1>1, ConcatProperties
<1>3. \A i \in 1 .. 2 : CRLF[i] = (<<CR>> \o <<LF>>)[i]
  BY <1>2, CRLFBytes
<1> QED BY <1>2, <1>3, CRLFBytes, SeqEqual

LEMMA CRLFThenBytes ==
  ASSUME NEW a \in Seq(Byte)
  PROVE  /\ CRLF \o a \in Seq(Byte) /\ Len(CRLF \o a) \in Nat /\ Len(CRLF \o a) >= 2
         /\ (CRLF \o a)[1] = CR /\ (CRLF \o a)[2] = LF
<1>1. /\ CRLF \o a \in Seq(Byte) /\ Len(CRLF \o a) = Len(CRLF) + Len(a)
      /\ \A i \in 1 .. Len(CRLF) + Len(a) :
           (CRLF \o a)[i] = IF i <= Len(CRLF) THEN CRLF[i] ELSE a[i - Len(CRLF)]
  BY CRLFBytes, ConcatProperties
<1>2. 1 \in 1 .. Len(CRLF) + Len(a) /\ 2 \in 1 .. Len(CRLF) + Len(a)
  BY CRLFBytes
<1> QED BY <1>1, <1>2, CRLFBytes

(***************************************************************************)
(* A line without a CRLF in it, followed by one, and a text without line   *)
(* ends, followed by a CRLF, begin the same bytes only if they are the     *)
(* same.                                                                   *)
(***************************************************************************)
LEMMA FirstLine ==
  ASSUME NEW line \in Seq(Byte), NoCRLF(line), NEW text \in Seq(Byte \ {CR, LF}),
         NEW a \in Seq(Byte), NEW b \in Seq(Byte),
         line \o (CRLF \o a) = text \o (CRLF \o b)
  PROVE  line = text /\ a = b
<1> DEFINE ca == CRLF \o a
           cb == CRLF \o b
           bytes == line \o ca
<1>1. /\ ca \in Seq(Byte) /\ Len(ca) >= 2 /\ ca[1] = CR /\ ca[2] = LF
      /\ cb \in Seq(Byte) /\ Len(cb) >= 2 /\ cb[1] = CR /\ cb[2] = LF
      /\ Len(ca) \in Nat /\ Len(cb) \in Nat
  BY CRLFThenBytes
<1>2. text \in Seq(Byte) /\ Len(text) \in Nat /\ Len(line) \in Nat
  OBVIOUS
<1>3. /\ Len(bytes) = Len(line) + Len(ca)
      /\ \A i \in 1 .. Len(line) : bytes[i] = line[i]
      /\ bytes[Len(line) + 1] = CR /\ bytes[Len(line) + 2] = LF
  <2> HIDE DEF ca
  <2> QED BY <1>1, <1>2, ConcatProperties
<1>4. /\ Len(bytes) = Len(text) + Len(cb)
      /\ \A i \in 1 .. Len(text) : bytes[i] = text[i]
      /\ bytes[Len(text) + 1] = CR /\ bytes[Len(text) + 2] = LF
  <2>1. bytes = text \o cb
    OBVIOUS
  <2> HIDE DEF ca, cb, bytes
  <2> QED BY <1>1, <1>2, <2>1, ConcatProperties
<1>5. \A i \in 1 .. Len(text) : text[i] # CR /\ text[i] # LF
  OBVIOUS
<1>0. bytes = line \o ca /\ bytes = text \o cb
  OBVIOUS
<1> HIDE DEF ca, cb, bytes
<1>6. ~(Len(line) < Len(text))
  <2> SUFFICES ASSUME Len(line) < Len(text) PROVE FALSE
    OBVIOUS
  <2>1. Len(line) + 1 \in 1 .. Len(text)
    BY <1>2
  <2> QED BY <2>1, <1>3, <1>4, <1>5
<1>7. ~(Len(line) > Len(text))
  <2> SUFFICES ASSUME Len(line) > Len(text) PROVE FALSE
    OBVIOUS
  <2>1. CASE Len(line) = Len(text) + 1
    BY <2>1, <1>3, <1>4, CRLFBytes
  <2>2. CASE Len(line) > Len(text) + 1
    <3>1. Len(text) + 1 \in 1 .. Len(line) - 1 /\ Len(text) + 2 \in 1 .. Len(line)
      BY <1>2, <2>2
    <3>2. line[Len(text) + 1] = CR /\ line[Len(text) + 2] = LF
      BY <1>2, <1>3, <1>4, <3>1
    <3> QED BY <1>2, <3>1, <3>2 DEF NoCRLF
  <2> QED BY <1>2, <2>1, <2>2
<1>8. line = text
  <2>1. Len(line) = Len(text)
    BY <1>2, <1>6, <1>7
  <2>2. \A i \in 1 .. Len(line) : line[i] = text[i]
    BY <2>1, <1>3, <1>4
  <2> QED BY <2>1, <2>2, <1>2, SeqEqual
<1>9. ca = cb
  <2>1. line \o ca = line \o cb
    BY <1>0, <1>8
  <2> QED BY <1>1, <2>1, ConcatSimplifications
<1>10. a = b
  BY <1>9, CRLFBytes, ConcatSimplifications DEF ca, cb
<1> QED BY <1>8, <1>10
-------------------------------------------------------------------------------
(***************************************************************************)
(* The bytes that no message was made of yet: the line under way, the rest *)
(* of the chunk, the wire.                                                 *)
(***************************************************************************)
Kept == IF index = 0 THEN last_read_incomplete_message ELSE raw_message

Unparsed == IF index = 0 THEN <<>> ELSE SubSeq(raw_bytes, index, Len(raw_bytes))

Ahead == Kept \o (Unparsed \o wire)

LEMMA NoBytes == <<>> \in Seq(Byte) /\ Len(<<>>) = 0
OBVIOUS

LEMMA AheadTypes ==
  ASSUME ProcessorTypeOK
  PROVE  /\ Kept \in Seq(Byte) /\ Unparsed \in Seq(Byte) /\ wire \in Seq(Byte)
         /\ Unparsed \o wire \in Seq(Byte) /\ Ahead \in Seq(Byte)
<1>1. Kept \in Seq(Byte) /\ wire \in Seq(Byte)
  BY DEF Kept, ProcessorTypeOK
<1>2. Unparsed \in Seq(Byte)
  <2>1. CASE index = 0
    BY <2>1, NoBytes DEF Unparsed
  <2>2. CASE index # 0
    <3>1. \A i \in index .. Len(raw_bytes) : raw_bytes[i] \in Byte
      BY <2>2 DEF ProcessorTypeOK
    <3>2. index \in Int /\ Len(raw_bytes) \in Int
      BY DEF ProcessorTypeOK
    <3> QED BY <2>2, <3>1, <3>2, SubSeqProperties DEF Unparsed
  <2> QED BY <2>1, <2>2
<1> QED BY <1>1, <1>2, ConcatProperties DEF Ahead

\* What is put on the wire comes last.
LEMMA AheadGrows ==
  ASSUME ProcessorTypeOK, NEW bytes \in Seq(Byte), wire' = wire \o bytes,
         UNCHANGED <<index, raw_bytes, raw_message, last_read_incomplete_message>>
  PROVE  Ahead' = Ahead \o bytes
<1>1. Kept' = Kept /\ Unparsed' = Unparsed
  BY DEF Kept, Unparsed
<1>2. (Unparsed \o wire) \o bytes = Unparsed \o (wire \o bytes)
  BY AheadTypes, BytesAssociative
<1>3. (Kept \o (Unparsed \o wire)) \o bytes = Kept \o ((Unparsed \o wire) \o bytes)
  <2> DEFINE tail == Unparsed \o wire
  <2>1. Kept \in Seq(Byte) /\ tail \in Seq(Byte) /\ bytes \in Seq(Byte)
    BY AheadTypes
  <2> HIDE DEF tail
  <2>2. (Kept \o tail) \o bytes = Kept \o (tail \o bytes)
    BY <2>1, BytesAssociative
  <2> QED BY <2>2 DEF tail
<1> QED BY <1>1, <1>2, <1>3 DEF Ahead

\* A read changes nothing of what is ahead.
LEMMA AheadWhenRead ==
  ASSUME ProcessorTypeOK, ProcessorTypeOK', GetMessagesFromRawBytes
  PROVE  Ahead' = Ahead
<1>1. PICK n \in 1 .. ReadBufferSize :
        /\ n <= Len(wire)
        /\ raw_bytes' = SubSeq(wire, 1, n)
        /\ wire' = SubSeq(wire, n + 1, Len(wire))
  BY DEF GetMessagesFromRawBytes
<1>2. /\ index = 0 /\ index' = 1 /\ raw_message' = last_read_incomplete_message
      /\ wire \in Seq(Byte) /\ Len(wire) \in Nat /\ n \in Nat /\ raw_bytes' \in Seq(Byte)
  BY ProcessorAssumption DEF GetMessagesFromRawBytes, ProcessorTypeOK
<1>3. raw_bytes' \o wire' = wire
  <2>1. 1 \in 1 .. Len(wire) + 1 /\ n \in 1 - 1 .. Len(wire) /\ Len(wire) \in n .. Len(wire)
    BY <1>1, <1>2
  <2>2. SubSeq(wire, 1, n) \o SubSeq(wire, n + 1, Len(wire)) = SubSeq(wire, 1, Len(wire))
    BY <1>2, <2>1, ConcatAdjacentSubSeq
  <2> QED BY <1>1, <1>2, <2>2, SubSeqFull
<1>4. Unparsed' = raw_bytes' /\ Kept' = Kept
  BY <1>2, SubSeqFull DEF Unparsed, Kept
<1>5. Unparsed \o wire = wire
  BY <1>2, ConcatEmptySeq DEF Unparsed
<1> QED BY <1>3, <1>4, <1>5 DEF Ahead

\* The first byte that is not parsed, and those after it.
LEMMA UnparsedByte ==
  ASSUME ProcessorTypeOK, NEW i \in DOMAIN raw_bytes
  PROVE  /\ SubSeq(raw_bytes, i, Len(raw_bytes))
              = <<raw_bytes[i]>> \o SubSeq(raw_bytes, i + 1, Len(raw_bytes))
         /\ SubSeq(raw_bytes, i + 1, Len(raw_bytes)) \in Seq(Byte)
         /\ <<raw_bytes[i]>> \in Seq(Byte)
<1>1. raw_bytes \in Seq(Byte) /\ i \in 1 .. Len(raw_bytes) /\ raw_bytes[i] \in Byte
  BY DEF ProcessorTypeOK
<1>2. \A j \in i + 1 .. Len(raw_bytes) : raw_bytes[j] \in Byte
  BY <1>1
<1>3. Len(raw_bytes) \in i .. Len(raw_bytes) /\ i + 1 \in Int /\ Len(raw_bytes) \in Int
  BY <1>1
<1> QED BY <1>1, <1>2, <1>3, SubSeqRecursiveFirst, SubSeqProperties

LEMMA AheadWhenAppended ==
  ASSUME ProcessorTypeOK, AppendByte
  PROVE  Ahead' = Ahead
<1> DEFINE byte == <<raw_bytes[index]>>
           rest == SubSeq(raw_bytes, index + 1, Len(raw_bytes))
<1>1. /\ index \in DOMAIN raw_bytes /\ raw_message' = Append(raw_message, raw_bytes[index])
      /\ index' = index + 1 /\ index # 0 /\ index' # 0
      /\ UNCHANGED <<raw_bytes, wire>>
  BY DEF AppendByte, ProcessorTypeOK
<1>2. /\ Unparsed = byte \o rest /\ byte \in Seq(Byte) /\ rest \in Seq(Byte)
      /\ raw_message \in Seq(Byte) /\ wire \in Seq(Byte) /\ raw_bytes[index] \in Byte
  <2>1. Unparsed = SubSeq(raw_bytes, index, Len(raw_bytes))
    BY <1>1 DEF Unparsed
  <2>2. Unparsed = byte \o rest /\ byte \in Seq(Byte) /\ rest \in Seq(Byte)
    BY <1>1, <2>1, UnparsedByte
  <2> QED BY <1>1, <2>2 DEF ProcessorTypeOK
<1>3. Kept = raw_message /\ Kept' = raw_message \o byte /\ Unparsed' = rest
  BY <1>1, <1>2, AppendIsConcat DEF Kept, Unparsed
<1> HIDE DEF byte, rest
<1>4. rest \o wire \in Seq(Byte)
  BY <1>2, ConcatProperties
<1>5. (raw_message \o byte) \o (rest \o wire) = raw_message \o (byte \o (rest \o wire))
  BY <1>2, <1>4, BytesAssociative
<1>6. (byte \o rest) \o wire = byte \o (rest \o wire)
  BY <1>2, BytesAssociative
<1> QED BY <1>1, <1>2, <1>3, <1>5, <1>6 DEF Ahead

LEMMA AheadWhenCompleted ==
  ASSUME ProcessorTypeOK, CompleteLine
  PROVE  Ahead = raw_message \o (CRLF \o Ahead') /\ Ahead' \in Seq(Byte)
<1> DEFINE rest == SubSeq(raw_bytes, index + 2, Len(raw_bytes))
<1>1. /\ index \in DOMAIN raw_bytes /\ index + 1 \in DOMAIN raw_bytes
      /\ raw_bytes[index] = CR /\ raw_bytes[index + 1] = LF
      /\ raw_message' = <<>> /\ index' = index + 2 /\ index # 0 /\ index' # 0
      /\ UNCHANGED <<raw_bytes, wire>> /\ index \in Nat
  BY DEF CompleteLine, IsCRLF, ProcessorTypeOK
<1>2. /\ Unparsed = <<CR>> \o SubSeq(raw_bytes, index + 1, Len(raw_bytes))
      /\ <<CR>> \in Seq(Byte)
  BY <1>1, UnparsedByte DEF Unparsed
<1>3. /\ SubSeq(raw_bytes, index + 1, Len(raw_bytes)) = <<LF>> \o rest
      /\ <<LF>> \in Seq(Byte) /\ rest \in Seq(Byte)
  <2>1. index + 1 + 1 = index + 2
    BY <1>1
  <2> QED BY <1>1, <2>1, UnparsedByte
<1>4. Kept = raw_message /\ Kept' = <<>> /\ Unparsed' = rest
  BY <1>1 DEF Kept, Unparsed
<1> HIDE DEF rest
<1>5. raw_message \in Seq(Byte) /\ wire \in Seq(Byte) /\ rest \o wire \in Seq(Byte)
  BY <1>3, ConcatProperties DEF ProcessorTypeOK
<1>6. Ahead' = rest \o wire
  BY <1>1, <1>4, <1>5, ConcatEmptySeq DEF Ahead
<1>7. Unparsed = CRLF \o rest
  <2>1. (<<CR>> \o <<LF>>) \o rest = <<CR>> \o (<<LF>> \o rest)
    BY <1>2, <1>3, BytesAssociative
  <2> QED BY <1>2, <1>3, <2>1, CRLFIsTwoBytes
<1>8. (CRLF \o rest) \o wire = CRLF \o (rest \o wire)
  BY <1>3, <1>5, CRLFBytes, BytesAssociative
<1> QED BY <1>4, <1>5, <1>6, <1>7, <1>8 DEF Ahead

LEMMA AheadWhenKept ==
  ASSUME ProcessorTypeOK, KeepIncomplete
  PROVE  Ahead' = Ahead
<1>1. /\ index = Len(raw_bytes) + 1 /\ index' = 0 /\ index # 0
      /\ last_read_incomplete_message' = raw_message /\ UNCHANGED wire
  BY DEF KeepIncomplete, ProcessorTypeOK
<1>2. SubSeq(raw_bytes, index, Len(raw_bytes)) = <<>>
  <2>1. Len(raw_bytes) \in Nat /\ index \in Int /\ Len(raw_bytes) < index
    BY <1>1 DEF ProcessorTypeOK
  <2> QED BY <2>1, SubSeqEmpty
<1> QED BY <1>1, <1>2 DEF Ahead, Kept, Unparsed
-------------------------------------------------------------------------------
(***************************************************************************)
(* bytes are the lines from the n-th on, one after the other, each with    *)
(* its CRLF: rest[k] are the bytes from line k on.                         *)
(***************************************************************************)
Carries(bytes, n, lines) ==
  \E rest \in [n .. Len(lines) + 1 -> Seq(Byte)] :
    /\ rest[n] = bytes
    /\ rest[Len(lines) + 1] = <<>>
    /\ \A k \in n .. Len(lines) : rest[k] = lines[k].text \o (CRLF \o rest[k + 1])

LEMMA LineText ==
  ASSUME NEW line \in ServerLines
  PROVE  line.text \in Seq(Byte) /\ line.text \in Seq(Byte \ {CR, LF})
BY ProcessorAssumption DEF ServerLine

LEMMA CarriesNothing == Carries(<<>>, 1, <<>>)
<1> DEFINE rest == [k \in 1 .. 1 |-> <<>>]
<1>1. rest \in [1 .. Len(<<>>) + 1 -> Seq(Byte)] /\ rest[1] = <<>>
  BY NoBytes
<1>2. Len(<<>>) + 1 = 1 /\ 1 .. Len(<<>>) = {}
  OBVIOUS
<1> HIDE DEF rest
<1> QED BY <1>1, <1>2 DEF Carries

LEMMA CarriesNone ==
  ASSUME NEW lines \in Seq(ServerLines), NEW bytes, Carries(bytes, Len(lines) + 1, lines)
  PROVE  bytes = <<>>
BY DEF Carries

LEMMA CarriesLine ==
  ASSUME NEW lines \in Seq(ServerLines), NEW n \in 1 .. Len(lines), NEW bytes,
         Carries(bytes, n, lines)
  PROVE  \E b \in Seq(Byte) :
           bytes = lines[n].text \o (CRLF \o b) /\ Carries(b, n + 1, lines)
<1>1. PICK rest \in [n .. Len(lines) + 1 -> Seq(Byte)] :
        /\ rest[n] = bytes
        /\ rest[Len(lines) + 1] = <<>>
        /\ \A k \in n .. Len(lines) : rest[k] = lines[k].text \o (CRLF \o rest[k + 1])
  BY DEF Carries
<1>2. /\ n \in Nat /\ Len(lines) \in Nat /\ n \in n .. Len(lines)
      /\ n + 1 \in n .. Len(lines) + 1
      /\ \A k \in n + 1 .. Len(lines) :
           k \in n .. Len(lines) /\ k \in n + 1 .. Len(lines) + 1
             /\ k + 1 \in n + 1 .. Len(lines) + 1
      /\ \A k \in n + 1 .. Len(lines) + 1 : k \in n .. Len(lines) + 1
      /\ Len(lines) + 1 \in n + 1 .. Len(lines) + 1
  OBVIOUS
<1> DEFINE fewer == [k \in n + 1 .. Len(lines) + 1 |-> rest[k]]
<1>3. fewer \in [n + 1 .. Len(lines) + 1 -> Seq(Byte)]
  BY <1>2
<1>4. \A k \in n + 1 .. Len(lines) + 1 : fewer[k] = rest[k]
  OBVIOUS
<1> HIDE DEF fewer
<1>5. Carries(rest[n + 1], n + 1, lines)
  <2>1. fewer[n + 1] = rest[n + 1] /\ fewer[Len(lines) + 1] = <<>>
    BY <1>1, <1>2, <1>4
  <2>2. ASSUME NEW k \in n + 1 .. Len(lines)
        PROVE  fewer[k] = lines[k].text \o (CRLF \o fewer[k + 1])
    BY <1>1, <1>2, <1>4
  <2> QED BY <1>3, <2>1, <2>2 DEF Carries
<1> QED BY <1>1, <1>2, <1>5

LEMMA CarriesMore ==
  ASSUME NEW lines \in Seq(ServerLines), NEW n \in 1 .. Len(lines) + 1, NEW bytes,
         Carries(bytes, n, lines), NEW line \in ServerLines
  PROVE  Carries(bytes \o (line.text \o CRLF), n, Append(lines, line))
<1>1. PICK rest \in [n .. Len(lines) + 1 -> Seq(Byte)] :
        /\ rest[n] = bytes
        /\ rest[Len(lines) + 1] = <<>>
        /\ \A k \in n .. Len(lines) : rest[k] = lines[k].text \o (CRLF \o rest[k + 1])
  BY DEF Carries
<1> DEFINE last == line.text \o CRLF
           all == Append(lines, line)
           longer == [k \in n .. Len(lines) + 2 |->
                        IF k = Len(lines) + 2 THEN <<>> ELSE rest[k] \o last]
<1>2. line.text \in Seq(Byte) /\ last \in Seq(Byte)
  BY LineText, CRLFBytes, BytesConcat
<1>3. /\ Len(all) = Len(lines) + 1 /\ all[Len(lines) + 1] = line
      /\ \A k \in 1 .. Len(lines) : all[k] = lines[k]
      /\ Len(lines) \in Nat /\ n \in Nat
  BY AppendProperties
<1> HIDE DEF all, last
<1>4. longer[Len(lines) + 2] = <<>>
  <2>1. Len(lines) + 2 \in n .. Len(lines) + 2
    BY <1>3
  <2> QED BY <2>1
<1>5. \A k \in n .. Len(lines) + 1 : longer[k] = rest[k] \o last
  <2>1. \A k \in n .. Len(lines) + 1 : k \in n .. Len(lines) + 2 /\ k # Len(lines) + 2
    BY <1>3
  <2> QED BY <2>1
<1>6. longer \in [n .. Len(lines) + 2 -> Seq(Byte)]
  <2>1. ASSUME NEW k \in n .. Len(lines) + 2
        PROVE  (IF k = Len(lines) + 2 THEN <<>> ELSE rest[k] \o last) \in Seq(Byte)
    <3>1. CASE k = Len(lines) + 2
      BY <3>1, NoBytes
    <3>2. CASE k # Len(lines) + 2
      <4>1. rest[k] \in Seq(Byte)
        BY <1>3, <3>2
      <4> QED BY <1>2, <3>2, <4>1, BytesConcat
    <3> QED BY <3>1, <3>2
  <2> QED BY <2>1
<1> HIDE DEF longer
<1>7. ASSUME NEW k \in n .. Len(lines) + 1
      PROVE  longer[k] = all[k].text \o (CRLF \o longer[k + 1])
  <2>1. CASE k = Len(lines) + 1
    <3>1. longer[k + 1] = <<>>
      <4>1. k + 1 = Len(lines) + 2
        BY <1>3, <2>1
      <4> QED BY <1>4, <4>1
    <3>2. longer[k] = last
      BY <1>1, <1>2, <1>5, <2>1, BytesConcat
    <3>3. CRLF \o <<>> = CRLF
      BY CRLFBytes, BytesConcat
    <3> QED BY <1>3, <2>1, <3>1, <3>2, <3>3 DEF last
  <2>2. CASE k # Len(lines) + 1
    <3>1. k \in n .. Len(lines) /\ k \in 1 .. Len(lines) /\ k + 1 \in n .. Len(lines) + 1
      BY <1>3, <2>2
    <3>2. lines[k].text \in Seq(Byte) /\ rest[k + 1] \in Seq(Byte)
      <4>1. lines[k] \in ServerLines
        BY <3>1
      <4> QED BY <3>1, <4>1, LineText
    <3>3. CRLF \o rest[k + 1] \in Seq(Byte)
      BY <3>2, CRLFBytes, BytesConcat
    <3>4. (lines[k].text \o (CRLF \o rest[k + 1])) \o last
            = lines[k].text \o ((CRLF \o rest[k + 1]) \o last)
      BY <1>2, <3>2, <3>3, BytesAssociative
    <3>5. (CRLF \o rest[k + 1]) \o last = CRLF \o (rest[k + 1] \o last)
      BY <1>2, <3>2, CRLFBytes, BytesAssociative
    <3>6. /\ longer[k] = (lines[k].text \o (CRLF \o rest[k + 1])) \o last
          /\ longer[k + 1] = rest[k + 1] \o last /\ all[k] = lines[k]
      BY <1>1, <1>3, <1>5, <3>1
    <3> QED BY <3>4, <3>5, <3>6
  <2> QED BY <2>1, <2>2
<1>8. longer[n] = bytes \o last
  <2>1. n \in n .. Len(lines) + 1
    BY <1>3
  <2> QED BY <1>1, <1>5, <2>1
<1>9. Carries(bytes \o last, n, all)
  <2>1. Len(all) + 1 = Len(lines) + 2
    BY <1>3
  <2> QED BY <1>3, <1>4, <1>6, <1>7, <1>8, <2>1 DEF Carries
<1> QED BY <1>9 DEF all, last

-------------------------------------------------------------------------------
(***************************************************************************)
(* The strengthening: the messages are the first lines sent, and what is   *)
(* ahead are the others.                                                   *)
(***************************************************************************)
LineMessage(line) == [type |-> IdentifyMessageType(line.text), raw |-> line.text]

InStep ==
  /\ Len(messages) <= Len(sent)
  /\ \A k \in 1 .. Len(messages) : messages[k] = LineMessage(sent[k])
  /\ Carries(Ahead, Len(messages) + 1, sent)

InStepUnlessCut == ~cut => InStep

LEMMA StepWhenNothingChanges ==
  ASSUME InStep, UNCHANGED <<sent, messages>>, Ahead' = Ahead
  PROVE  InStep'
BY DEF InStep

LEMMA StepWhenSent ==
  ASSUME ProcessorTypeOK, InStep, ServerSends
  PROVE  InStep'
<1>1. PICK line \in ServerLines :
        sent' = Append(sent, line) /\ wire' = wire \o line.text \o CRLF
  BY DEF ServerSends, CRLF
<1>2. /\ line.text \in Seq(Byte) /\ line.text \o CRLF \in Seq(Byte) /\ wire \in Seq(Byte)
      /\ UNCHANGED messages
  BY LineText, CRLFBytes, BytesConcat DEF ProcessorTypeOK, ServerSends
<1>3. wire' = wire \o (line.text \o CRLF)
  BY <1>1, <1>2, CRLFBytes, BytesAssociative
<1>4. Ahead' = Ahead \o (line.text \o CRLF)
  BY <1>2, <1>3, AheadGrows DEF ServerSends
<1>5. /\ sent \in Seq(ServerLines) /\ Len(messages) + 1 \in 1 .. Len(sent) + 1
      /\ Len(messages) \in Nat /\ Len(sent) \in Nat
  BY DEF ProcessorTypeOK, InStep
<1>6. Carries(Ahead', Len(messages') + 1, sent')
  BY <1>1, <1>2, <1>4, <1>5, CarriesMore DEF InStep
<1>7. Len(sent') = Len(sent) + 1 /\ \A k \in 1 .. Len(sent) : sent'[k] = sent[k]
  BY <1>1, <1>5, AppendProperties
<1>8. ASSUME NEW k \in 1 .. Len(messages)
      PROVE  messages[k] = LineMessage(sent'[k])
  <2>1. k \in 1 .. Len(sent)
    BY <1>5
  <2> QED BY <1>7, <2>1 DEF InStep
<1>9. Len(messages) <= Len(sent')
  BY <1>5, <1>7
<1> QED BY <1>2, <1>6, <1>8, <1>9 DEF InStep

LEMMA StepWhenCompleted ==
  ASSUME ProcessorTypeOK, InStep, NoCRLF(raw_message), CompleteLine
  PROVE  /\ InStep'
         /\ Len(messages) < Len(sent)
         /\ messages' = Append(messages, LineMessage(sent[Len(messages) + 1]))
<1>1. Ahead = raw_message \o (CRLF \o Ahead') /\ Ahead' \in Seq(Byte)
  BY AheadWhenCompleted
<1>2. /\ raw_message \in Seq(Byte) /\ Len(messages) \in Nat /\ Len(sent) \in Nat
      /\ sent \in Seq(ServerLines) /\ messages \in Seq(Message)
      /\ Len(messages) <= Len(sent) /\ UNCHANGED sent
  BY DEF ProcessorTypeOK, InStep, CompleteLine
<1>3. Len(messages) < Len(sent)
  <2> SUFFICES ASSUME Len(messages) = Len(sent) PROVE FALSE
    BY <1>2
  <2> DEFINE end == CRLF \o Ahead'
  <2>1. raw_message \o end = <<>>
    BY <1>1, <1>2, CarriesNone DEF InStep
  <2>2. end \in Seq(Byte) /\ Len(end) >= 2 /\ Len(end) \in Nat
    BY <1>1, CRLFThenBytes
  <2> HIDE DEF end
  <2>3. Len(raw_message \o end) = Len(raw_message) + Len(end)
    BY <1>2, <2>2, ConcatProperties
  <2> QED BY <1>2, <2>1, <2>2, <2>3
<1> DEFINE n == Len(messages) + 1
<1>4. n \in 1 .. Len(sent) /\ Carries(Ahead, n, sent)
  BY <1>2, <1>3 DEF InStep
<1>5. PICK b \in Seq(Byte) :
        Ahead = sent[n].text \o (CRLF \o b) /\ Carries(b, n + 1, sent)
  BY <1>2, <1>4, CarriesLine
<1>6. sent[n].text \in Seq(Byte) /\ sent[n].text \in Seq(Byte \ {CR, LF})
  <2>1. sent[n] \in ServerLines
    BY <1>2, <1>4
  <2> QED BY <2>1, LineText
<1>7. raw_message = sent[n].text /\ Ahead' = b
  <2>1. raw_message \o (CRLF \o Ahead') = sent[n].text \o (CRLF \o b)
    BY <1>1, <1>5
  <2> DEFINE line == raw_message
             text == sent[n].text
             ahead == Ahead'
  <2>2. /\ line \in Seq(Byte) /\ NoCRLF(line) /\ text \in Seq(Byte \ {CR, LF})
        /\ ahead \in Seq(Byte) /\ b \in Seq(Byte)
        /\ line \o (CRLF \o ahead) = text \o (CRLF \o b)
    BY <1>1, <1>2, <1>6, <2>1
  <2> HIDE DEF n, line, text, ahead
  <2>3. line = text /\ ahead = b
    BY <2>2, FirstLine
  <2> QED BY <2>3 DEF line, text, ahead
<1>8. messages' = Append(messages, LineMessage(sent[n]))
  BY <1>7 DEF CompleteLine, LineMessage
<1>9. LineMessage(sent[n]) \in Message
  BY <1>6, MessageTypeIdentified DEF LineMessage, Message
<1>10. /\ Len(messages') = n
       /\ \A k \in 1 .. Len(messages) : messages'[k] = messages[k]
       /\ messages'[n] = LineMessage(sent[n])
  BY <1>2, <1>8, <1>9, AppendProperties
<1>11. \A k \in 1 .. Len(messages') : messages'[k] = LineMessage(sent'[k])
  <2>1. ASSUME NEW k \in 1 .. n
        PROVE  messages'[k] = LineMessage(sent[k])
    <3>1. CASE k = n
      BY <1>10, <3>1
    <3>2. CASE k # n
      <4>1. k \in 1 .. Len(messages)
        BY <1>2, <3>2
      <4> QED BY <1>10, <4>1 DEF InStep
    <3> QED BY <3>1, <3>2
  <2> QED BY <1>2, <1>10, <2>1
<1>12. Len(messages') <= Len(sent')
  BY <1>2, <1>4, <1>10
<1>13. Carries(Ahead', Len(messages') + 1, sent')
  BY <1>2, <1>5, <1>7, <1>10
<1> QED BY <1>3, <1>8, <1>11, <1>12, <1>13 DEF InStep

LEMMA NextKeepsInStep ==
  ProcessorTypeOK /\ ProcessorTypeOK' /\ WholeUnlessCut /\ InStepUnlessCut
    /\ [Next]_processorVars => InStepUnlessCut'
<1> SUFFICES ASSUME ProcessorTypeOK, ProcessorTypeOK', WholeUnlessCut, InStepUnlessCut,
                    [Next]_processorVars, ~cut'
             PROVE  InStep'
  BY DEF InStepUnlessCut
<1>1. CASE FlushBuffer
  <2>1. sent' = <<>> /\ messages' = <<>> /\ wire' = <<>> /\ index' = 0
        /\ last_read_incomplete_message' = <<>>
    BY <1>1 DEF FlushBuffer
  <2>2. Ahead' = <<>>
    BY <2>1, NoBytes, BytesConcat DEF Ahead, Kept, Unparsed
  <2>3. Len(messages') = 0 /\ Len(sent') = 0
    BY <2>1
  <2> QED BY <2>1, <2>2, <2>3, CarriesNothing DEF InStep
<1>2. CASE ~FlushBuffer
  <2>1. ~cut
    BY <1>2 DEF Next, ServerSends, GetMessagesFromRawBytes, CompleteLine, AppendByte,
       KeepIncomplete, processorVars
  <2>2. InStep /\ NoCRLF(raw_message)
    BY <2>1 DEF InStepUnlessCut, WholeUnlessCut, Whole
  <2>3. CASE GetMessagesFromRawBytes \/ AppendByte \/ KeepIncomplete
    <3>1. UNCHANGED <<sent, messages>>
      BY <2>3 DEF GetMessagesFromRawBytes, AppendByte, KeepIncomplete
    <3> QED BY <2>2, <2>3, <3>1, AheadWhenRead, AheadWhenAppended, AheadWhenKept,
               StepWhenNothingChanges
  <2>4. CASE UNCHANGED processorVars
    BY <2>2, <2>4, StepWhenNothingChanges DEF processorVars, Ahead, Kept, Unparsed
  <2> QED BY <1>2, <2>2, <2>3, <2>4, StepWhenSent, StepWhenCompleted DEF Next
<1> QED BY <1>1, <1>2

LEMMA WholeHolds == Spec => []WholeUnlessCut
<1>1. Init => WholeUnlessCut
  BY EmptyLine DEF Init, WholeUnlessCut, Whole
<1> QED BY <1>1, ProcessorTypeCorrect, NextKeepsWhole, PTL DEF Spec

LEMMA InStepHolds == Spec => []InStepUnlessCut
<1>1. Init => InStepUnlessCut
  <2> SUFFICES ASSUME Init PROVE InStep
    BY DEF InStepUnlessCut
  <2>1. Ahead = <<>> /\ sent = <<>> /\ messages = <<>>
    BY NoBytes, BytesConcat DEF Init, Ahead, Kept, Unparsed
  <2>2. Len(messages) = 0 /\ Len(sent) = 0
    BY <2>1
  <2> QED BY <2>1, <2>2, CarriesNothing DEF InStep
<1> QED BY <1>1, ProcessorTypeCorrect, WholeHolds, NextKeepsInStep, PTL DEF Spec

-------------------------------------------------------------------------------
(***************************************************************************)
(* Up to a cut every message is the line the server sent in its place,     *)
(* whole, for any lines, any size of the read buffer and any chunks.       *)
(***************************************************************************)
LinesArrive ==
  ~cut => /\ Len(messages) <= Len(sent)
          /\ \A k \in 1 .. Len(messages) : messages[k] = LineMessage(sent[k])

(***************************************************************************)
(* Message processor: the n-th line GetMessagesFromRawBytes finds is the   *)
(* n-th the server sent, since the bytes ahead are the lines after it.     *)
(***************************************************************************)
THEOREM LinesArriveHolds == Spec => []LinesArrive
<1>1. InStepUnlessCut => LinesArrive
  BY DEF InStepUnlessCut, InStep, LinesArrive
<1> QED BY <1>1, InStepHolds, PTL

(***************************************************************************)
(* And when all bytes are parsed no line is left: one that no message was  *)
(* made of would be in the buffer of the incomplete line, CRLF and all.    *)
(***************************************************************************)
THEOREM NothingHeldBackHolds == Spec => []NothingHeldBack
<1>1. ProcessorTypeOK /\ WholeUnlessCut /\ InStepUnlessCut => NothingHeldBack
  <2> SUFFICES ASSUME ProcessorTypeOK, Whole, InStep, Settled,
                      Len(messages) # Len(sent)
               PROVE  FALSE
    BY DEF NothingHeldBack, InStepUnlessCut, WholeUnlessCut
  <2> DEFINE text == sent[Len(messages) + 1].text
  <2>1. Len(messages) \in Nat /\ Len(sent) \in Nat /\ Len(messages) < Len(sent)
    BY DEF InStep, ProcessorTypeOK
  <2>2. PICK b \in Seq(Byte) : Ahead = text \o (CRLF \o b)
    <3> DEFINE n == Len(messages) + 1
    <3>1. sent \in Seq(ServerLines) /\ n \in 1 .. Len(sent) /\ Carries(Ahead, n, sent)
      BY <2>1 DEF ProcessorTypeOK, InStep
    <3> HIDE DEF n
    <3>2. PICK b \in Seq(Byte) :
            Ahead = sent[n].text \o (CRLF \o b) /\ Carries(b, n + 1, sent)
      BY <3>1, CarriesLine
    <3> QED BY <3>2 DEF n
  <2>3. Ahead = last_read_incomplete_message
    BY NoBytes, ConcatEmptySeq DEF Settled, Ahead, Kept, Unparsed, ProcessorTypeOK
  <2>4. text \in Seq(Byte) /\ Len(text) \in Nat
    <3>1. sent[Len(messages) + 1] \in ServerLines
      BY <2>1 DEF ProcessorTypeOK
    <3> QED BY <3>1, LineText
  <2> DEFINE end == CRLF \o b
  <2>5. end \in Seq(Byte) /\ Len(end) \in Nat /\ Len(end) >= 2 /\ end[1] = CR /\ end[2] = LF
    BY CRLFThenBytes
  <2>6. Ahead = text \o end
    BY <2>2
  <2> HIDE DEF text, end
  <2>7. /\ Len(Ahead) = Len(text) + Len(end)
        /\ Ahead[Len(text) + 1] = CR /\ Ahead[Len(text) + 2] = LF
    BY <2>4, <2>5, <2>6, ConcatProperties
  <2>8. Len(text) + 1 \in 1 .. Len(Ahead) - 1 /\ Len(text) + 1 + 1 = Len(text) + 2
    BY <2>4, <2>5, <2>7
  <2> QED BY <2>3, <2>7, <2>8 DEF Whole, NoCRLF
<1> QED BY <1>1, ProcessorTypeCorrect, WholeHolds, InStepHolds, PTL

(***************************************************************************)
(* If a chat line on its own yields who says what in it, it does so when   *)
(* reads deliver it in pieces.                                             *)
(***************************************************************************)
ChatLinesAreUnderstood ==
  \A line \in ServerLines : line.type = "PRIVMSG" => Saying(line.text) = line.saying

(***************************************************************************)
(* The nick, the role and the text of a chat message are those of the line *)
(* it was made from, which is the one the server sent in its place.        *)
(***************************************************************************)
THEOREM SpeakersAreKnownHolds ==
  ASSUME ChatLinesAreUnderstood
  PROVE  Spec => []SpeakersAreKnown
<1>1. ProcessorTypeOK /\ InStepUnlessCut => SpeakersAreKnown
  <2> SUFFICES ASSUME ProcessorTypeOK, InStep,
                      NEW k \in DOMAIN messages \cap DOMAIN sent, sent[k].type = "PRIVMSG"
               PROVE  Saying(messages[k].raw) = sent[k].saying
    BY DEF SpeakersAreKnown, InStepUnlessCut
  <2>1. k \in 1 .. Len(messages) /\ sent[k] \in ServerLines
    BY DEF ProcessorTypeOK
  <2>2. messages[k] = LineMessage(sent[k])
    BY <2>1 DEF InStep
  <2>3. messages[k].raw = sent[k].text
    BY <2>2 DEF LineMessage
  <2> QED BY <2>1, <2>3 DEF ChatLinesAreUnderstood
<1> QED BY <1>1, ProcessorTypeCorrect, InStepHolds, PTL

-------------------------------------------------------------------------------
\* The lines on their own are of the type they have in the protocol.
TypesAreIdentified ==
  \A line \in ServerLines : IdentifyMessageType(line.text) = line.type

LEMMA MessageOfLine ==
  ASSUME TypesAreIdentified, NEW line \in ServerLines
  PROVE  LineMessage(line) = ServerMessage(line)
BY DEF TypesAreIdentified, LineMessage, ServerMessage

LEMMA SendStep ==
  ASSUME ProcessorTypeOK, ServerSends
  PROVE  [Stream!Next]_(Stream!streamVars)
<1>1. CASE cut
  BY <1>1 DEF ServerSends, Stream!streamVars
<1>2. CASE ~cut
  <2>1. PICK line \in ServerLines : sent' = Append(sent, line)
    BY DEF ServerSends
  <2> DEFINE old == [k \in DOMAIN sent |-> ServerMessage(sent[k])]
             new == [k \in DOMAIN sent' |-> ServerMessage(sent'[k])]
  <2>2. sent \in Seq(ServerLines) /\ Len(sent) \in Nat /\ DOMAIN sent = 1 .. Len(sent)
    BY DEF ProcessorTypeOK
  <2>3. /\ DOMAIN sent' = 1 .. Len(sent) + 1 /\ sent'[Len(sent) + 1] = line
        /\ \A k \in 1 .. Len(sent) : sent'[k] = sent[k]
    BY <2>1, <2>2, AppendProperties
  <2>4. /\ old \in Seq({ServerMessage(l) : l \in ServerLines}) /\ Len(old) = Len(sent)
        /\ new \in Seq({ServerMessage(l) : l \in ServerLines}) /\ Len(new) = Len(sent) + 1
    <3>1. \A k \in 1 .. Len(sent) : sent[k] \in ServerLines
      BY <2>2
    <3>2. \A k \in 1 .. Len(sent) + 1 : sent'[k] \in ServerLines
      BY <2>2, <2>3, <3>1
    <3> QED BY <2>2, <2>3, <3>1, <3>2
  <2>5. new = Append(old, ServerMessage(line))
    <3> DEFINE L == {ServerMessage(l) : l \in ServerLines}
               longer == Append(old, ServerMessage(line))
    <3>1. ServerMessage(line) \in L
      OBVIOUS
    <3>2. /\ longer \in Seq(L) /\ Len(longer) = Len(sent) + 1
          /\ longer[Len(sent) + 1] = ServerMessage(line)
          /\ \A k \in 1 .. Len(sent) : longer[k] = old[k]
      <4> HIDE DEF old, L
      <4> QED BY <2>4, <3>1, AppendProperties DEF L
    <3>3. \A k \in 1 .. Len(sent) + 1 : longer[k] = new[k]
      <4>1. new[Len(sent) + 1] = ServerMessage(line)
        BY <2>2, <2>3
      <4>2. \A k \in 1 .. Len(sent) : new[k] = old[k]
        BY <2>2, <2>3
      <4> HIDE DEF new, old, longer
      <4> QED BY <2>2, <3>2, <4>1, <4>2
    <3> HIDE DEF new, old, longer, L
    <3> QED BY <2>2, <2>4, <3>2, <3>3, SeqEqual DEF L, longer
  <2>6. Stream!Send
    BY <1>2, <2>5 DEF ServerSends, Stream!Send
  <2> QED BY <2>6 DEF Stream!Next
<1> QED BY <1>1, <1>2

LEMMA ReceiveStep ==
  ASSUME TypesAreIdentified, ProcessorTypeOK, InStepUnlessCut, WholeUnlessCut, CompleteLine
  PROVE  [Stream!Next]_(Stream!streamVars)
<1>1. CASE cut
  BY <1>1 DEF CompleteLine, Stream!streamVars
<1>2. CASE ~cut
  <2> DEFINE n == Len(messages) + 1
             lines == [k \in DOMAIN sent |-> ServerMessage(sent[k])]
  <2>1. Len(messages) < Len(sent) /\ messages' = Append(messages, LineMessage(sent[n]))
    BY <1>2, StepWhenCompleted DEF InStepUnlessCut, WholeUnlessCut, Whole
  <2>2. n \in DOMAIN sent /\ sent[n] \in ServerLines /\ DOMAIN sent = 1 .. Len(sent)
    BY <2>1 DEF ProcessorTypeOK
  <2>3. lines[n] = LineMessage(sent[n]) /\ Len(lines) = Len(sent)
    BY <2>2, MessageOfLine DEF ProcessorTypeOK
  <2>4. UNCHANGED <<sent, cut>>
    BY DEF CompleteLine
  <2>5. Stream!Receive
    BY <1>2, <2>1, <2>3, <2>4 DEF Stream!Receive
  <2> QED BY <2>5 DEF Stream!Next
<1> QED BY <1>1, <1>2

LEMMA ReadStep ==
  ASSUME ProcessorTypeOK, GetMessagesFromRawBytes
  PROVE  [Stream!Next]_(Stream!streamVars)
<1>1. CASE cut' = cut
  BY <1>1 DEF GetMessagesFromRawBytes, Stream!streamVars
<1>2. CASE cut' # cut
  <2>1. cut' = TRUE
    BY <1>2 DEF GetMessagesFromRawBytes, ProcessorTypeOK
  <2> QED BY <2>1 DEF Stream!Tear, Stream!Next
<1> QED BY <1>1, <1>2

LEMMA FlushStep ==
  ASSUME FlushBuffer
  PROVE  [Stream!Next]_(Stream!streamVars)
<1>1. sent' = <<>> /\ messages' = <<>> /\ cut' = FALSE
  BY DEF FlushBuffer
<1>2. [k \in DOMAIN sent' |-> ServerMessage(sent'[k])] = <<>>
  BY <1>1
<1> QED BY <1>1, <1>2 DEF Stream!Reconnect, Stream!Next

(***************************************************************************)
(* The message processor implements LineStream: what it hands on are the   *)
(* lines the server sent, whole, once, in their order and of their types,  *)
(* until a chunk cuts a CRLF, and again with the next connection.          *)
(***************************************************************************)
THEOREM LineStreamImplemented ==
  ASSUME TypesAreIdentified
  PROVE  Spec => ImplementsLineStream
<1>1. Init => Stream!Init
  BY DEF Init, Stream!Init
<1>2. ProcessorTypeOK /\ WholeUnlessCut /\ InStepUnlessCut /\ [Next]_processorVars
        => [Stream!Next]_(Stream!streamVars)
  <2> SUFFICES ASSUME ProcessorTypeOK, WholeUnlessCut, InStepUnlessCut,
                      [Next]_processorVars
               PROVE  [Stream!Next]_(Stream!streamVars)
    OBVIOUS
  <2>1. CASE AppendByte \/ KeepIncomplete \/ UNCHANGED processorVars
    BY <2>1 DEF AppendByte, KeepIncomplete, processorVars, Stream!streamVars
  <2> QED BY <2>1, SendStep, ReceiveStep, ReadStep, FlushStep DEF Next
<1> QED BY <1>1, <1>2, ProcessorTypeCorrect, WholeHolds, InStepHolds, PTL
        DEF Spec, Stream!Spec, ImplementsLineStream
===============================================================================

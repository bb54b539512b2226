----------------------------- MODULE MessageTypes -----------------------------
(***************************************************************************)
(* What a line of the chat server is.  A run of characters without blanks  *)
(* and line ends never needs to be looked into, except for being a number  *)
(* and for the marks that the tags and the text are taken apart at: what   *)
(* is between them is one "byte" here, next to the blank, CR and LF.       *)
(***************************************************************************)
EXTENDS Naturals, Sequences, SequencesExt

CONSTANTS
  Words,    \* the runs of characters the server uses
  Numbers   \* those that are made of digits

SP == "SP"
CR == "CR"
LF == "LF"

EQ == "="
SEMI == ";"
COMMA == ","
SLASH == "/"
COLON == ":"

Marks == {EQ, SEMI, COMMA, SLASH, COLON}

ASSUME WordsAssumption ==
  Numbers \subseteq Words /\ Words \cap (Marks \cup {SP, CR, LF}) = {}

Byte == Words \cup Marks \cup {SP, CR, LF}

MessageType == {"ROOMSTATE", "JOIN", "PART", "PRIVMSG", "PING", "STATUSCODE", "CAPRES",
                "UNKNOWN", "EMPTY", "CLEARCHAT", "USERNOTICE"}

\* Mutant: the first byte of a chunk is not looked at.
IsCRLFPastFirst(buff, index) ==
  1 < index /\ index < Len(buff) /\ buff[index] = CR /\ buff[index + 1] = LF

\* Mutant: the last two bytes of a chunk are not looked at.
IsCRLFInside(buff, index) ==
  index + 1 < Len(buff) /\ buff[index] = CR /\ buff[index + 1] = LF

IsCRLF(buff, index) == index < Len(buff) /\ buff[index] = CR /\ buff[index + 1] = LF

\* The words of a line: what is between blanks, CR and LF included.
TakeByte(acc, byte) ==
  IF byte # SP THEN [acc EXCEPT !.word = Append(@, byte)]
  ELSE IF acc.word = <<>> THEN acc
  ELSE [words |-> Append(acc.words, acc.word), word |-> <<>>]

Split(str) ==
  FoldLeft(TakeByte, [words |-> <<>>, word |-> <<>>], Append(str, SP)).words

IsNumber(word) == word # <<>> /\ \A i \in DOMAIN word : word[i] \in Numbers

(***************************************************************************)
(* IdentifyMessageType: the checks in the order of the code, each with the *)
(* number of words it asks for.  A line of three words is nothing but a    *)
(* JOIN or a PART.                                                         *)
(***************************************************************************)
IdentifyMessageType(raw_message) ==
  LET split_raw_message == Split(raw_message)
      size == Len(split_raw_message)
      Tag(i, command) == split_raw_message[i] = <<command>>
  IN
  IF size >= 4 /\ Tag(3, "PRIVMSG") THEN "PRIVMSG"
  ELSE IF size >= 4 /\ Tag(3, "USERNOTICE") THEN "USERNOTICE"
  ELSE IF size = 0 THEN "EMPTY"
  ELSE IF size = 3 THEN IF Tag(2, "JOIN") THEN "JOIN"
                        ELSE IF Tag(2, "PART") THEN "PART" ELSE "UNKNOWN"
  ELSE IF size >= 2 /\ Tag(1, "PING") THEN "PING"
  ELSE IF size > 2 /\ Tag(3, "ROOMSTATE") THEN "ROOMSTATE"
  ELSE IF size >= 3 /\ IsNumber(split_raw_message[2]) THEN "STATUSCODE"
  ELSE IF size >= 4 /\ Tag(2, "CAP") THEN "CAPRES"
  ELSE IF size >= 4 /\ Tag(3, "CLEARCHAT") THEN "CLEARCHAT"
  ELSE "UNKNOWN"
===============================================================================

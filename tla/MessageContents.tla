---------------------------- MODULE MessageContents ----------------------------
(***************************************************************************)
(* domain::Message: what the message made of a line says (content_), and,  *)
(* for a chat message, by whom: the tags of the line, its first word, give *)
(* the nick and the role.  All of it is a function of the line, since a    *)
(* Message never changes once it is returned.                              *)
(***************************************************************************)
EXTENDS MessageTypes

\* The greatest role a badge of the server stands for; 0 is Role::EMPTY.
BadgeRole == [subscriber |-> 1, vip |-> 2, moderator |-> 3, broadcaster |-> 4]
RoleLevel == 0 .. 4

(***************************************************************************)
(* The constructor: badges_ as the pairs it pushes, in their order.  What  *)
(* comes before '=' is the name, ',' and ';' end a value, '=' in a value   *)
(* is left out, and a last value that no ';' ends is not pushed.           *)
(***************************************************************************)
NoBadges == [badges |-> <<>>, badge |-> <<>>, seted |-> FALSE, value |-> <<>>]

PushBack(acc) ==
  [acc EXCEPT !.badges = Append(@, [badge |-> acc.badge, value |-> acc.value]),
              !.value = <<>>]

\* Mutant: the name is not cleared at the end of a tag.
TakeBadgeByteKeepingName(acc, ch) ==
  IF ~acc.seted /\ ch # EQ THEN [acc EXCEPT !.badge = Append(@, ch)]
  ELSE IF ch = COMMA THEN PushBack(acc)
  ELSE IF ch = SEMI THEN [PushBack(acc) EXCEPT !.seted = FALSE]
  ELSE [acc EXCEPT !.seted = TRUE, !.value = IF ch = EQ THEN @ ELSE Append(@, ch)]

TakeBadgeByte(acc, ch) ==
  IF ~acc.seted /\ ch # EQ THEN [acc EXCEPT !.badge = Append(@, ch)]
  ELSE IF ch = COMMA THEN PushBack(acc)
  ELSE IF ch = SEMI THEN [PushBack(acc) EXCEPT !.badge = <<>>, !.seted = FALSE]
  ELSE [acc EXCEPT !.seted = TRUE, !.value = IF ch = EQ THEN @ ELSE Append(@, ch)]

Badges(tags) == FoldLeft(TakeBadgeByte, NoBadges, tags).badges

\* badges_.find(name): the values of a name.
Values(badges, name) ==
  LET named == SelectSeq(badges, LAMBDA b : b.badge = <<name>>)
  IN  [i \in DOMAIN named |-> named[i].value]

\* GetNick(): throws (NoNick) when there is no display-name.
NoNick == <<CR>>

GetNick(badges) ==
  LET names == Values(badges, "display-name")
  IN  IF names = <<>> THEN NoNick ELSE names[1]

(***************************************************************************)
(* SetRole(): the first badge of a known name, with a value other than     *)
(* "0", decides.                                                           *)
(***************************************************************************)
Delimer(raw_badge) == SelectInSeq(raw_badge, LAMBDA ch : ch = SLASH)

BadgeName(raw_badge) == SubSeq(raw_badge, 1, Delimer(raw_badge) - 1)
BadgeValue(raw_badge) == SubSeq(raw_badge, Delimer(raw_badge) + 1, Len(raw_badge))

Counts(raw_badge) ==
  /\ Delimer(raw_badge) # 0
  /\ BadgeValue(raw_badge) # <<"0">>
  /\ \E name \in DOMAIN BadgeRole : BadgeName(raw_badge) = <<name>>

GetRole(badges) ==
  LET counted == SelectSeq(Values(badges, "badges"), Counts)
  IN  IF counted = <<>> THEN 0 ELSE BadgeRole[BadgeName(counted[1])[1]]

-------------------------------------------------------------------------------
\* The text of a chat message: the words from the fifth on, without a ':'.
UserMessage(split_raw_message) ==
  LET words == SubSeq(split_raw_message, 5, Len(split_raw_message))
      content == Tail(FlattenSeq([i \in DOMAIN words |-> <<SP>> \o words[i]]))
  IN  IF words = <<>> THEN <<>>
      ELSE IF content[1] = COLON THEN Tail(content) ELSE content

(***************************************************************************)
(* GetContent() of the message made of a line.  TakeTypeAndMegre appends   *)
(* what was found to the whole line.                                       *)
(***************************************************************************)
GetContent(type, raw_message) ==
  LET split_raw_message == Split(raw_message) IN
  CASE type \in {"PRIVMSG", "USERNOTICE"} -> UserMessage(split_raw_message)
    [] type = "EMPTY" -> <<>>
    [] type \in {"JOIN", "PART"} -> split_raw_message[3]
    [] type = "PING" -> Tail(raw_message)
    [] type \in {"ROOMSTATE", "STATUSCODE"} -> raw_message \o split_raw_message[2]
    [] OTHER -> raw_message

\* Who says what in a chat message.
Saying(raw_message) ==
  LET badges == Badges(Split(raw_message)[1])
  IN  [nick |-> GetNick(badges), role |-> GetRole(badges),
       said |-> GetContent("PRIVMSG", raw_message)]
===============================================================================

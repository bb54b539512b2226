-------------------------- MODULE MCMessageProcessor --------------------------
(***************************************************************************)
(* Instances of MessageProcessor for TLC: a line of every type, as the     *)
(* chat server sends it to a client with the three capabilities.           *)
(***************************************************************************)
EXTENDS MessageProcessor

MCNumbers == {"0", "1", "12", "376"}
MCWords == {"PING", "PRIVMSG", "USERNOTICE", "JOIN", "PART", "ROOMSTATE", "CAP",
            "CLEARCHAT", "NOTICE", "@tags", "@badge-info", "badges", "display-name",
            "user-type", "broadcaster", "moderator", "vip", "subscriber", "premium",
            "Ann", "tmi", "user", "#c", "hi", "all", "ACK"} \cup MCNumbers

\* Nobody says anything in a line that is no chat message.
Nobody == [nick |-> NoNick, role |-> 0, said |-> <<>>]

Line(a, b, c, d, type) ==
  [text |-> <<a, SP, COLON, b, SP, c, SP, d>>, type |-> type, saying |-> Nobody]

PingLine ==
  [text |-> <<"PING", SP, COLON, "tmi">>, type |-> "PING", saying |-> Nobody]

\* The tags of a chat message, with the badges of its author.
ChatLine(badges, name, role, said) ==
  [text |-> <<"@badge-info", EQ, SEMI, "badges", EQ>> \o badges
              \o <<SEMI, "display-name", EQ>> \o name
              \o <<SEMI, "user-type", EQ, SP, COLON, "user", SP, "PRIVMSG", SP, "#c", SP,
                   COLON>> \o said,
   type |-> "PRIVMSG",
   saying |-> [nick |-> name, role |-> role, said |-> said]]

ModeratorLine ==
  ChatLine(<<"moderator", SLASH, "1", COMMA, "subscriber", SLASH, "12">>, <<"Ann">>, 3,
           <<"hi", SP, "all">>)

ViewerLine == ChatLine(<<>>, <<"user">>, 0, <<COLON, "hi">>)

\* A badge that says nothing of a role, one that does not count, one that does.
VipLine ==
  ChatLine(<<"premium", SLASH, "1", COMMA, "subscriber", SLASH, "0", COMMA, "vip", SLASH,
             "1">>, <<"Ann">>, 2, <<"hi">>)

TwoLines == {PingLine, ViewerLine}

AllLines ==
  {PingLine, ViewerLine, VipLine, ModeratorLine} \cup
  {[text |-> <<COLON, "user", SP, "JOIN", SP, "#c">>, type |-> "JOIN", saying |-> Nobody],
   [text |-> <<COLON, "user", SP, "PART", SP, "#c">>, type |-> "PART", saying |-> Nobody],
   Line("@tags", "tmi", "USERNOTICE", "#c", "USERNOTICE"),
   Line("@tags", "tmi", "ROOMSTATE", "#c", "ROOMSTATE"),
   Line("@tags", "tmi", "CLEARCHAT", "#c", "CLEARCHAT"),
   Line("@tags", "tmi", "NOTICE", "#c", "UNKNOWN"),
   [text |-> <<COLON, "tmi", SP, "376", SP, "user", SP, "hi">>, type |-> "STATUSCODE",
    saying |-> Nobody],
   [text |-> <<COLON, "tmi", SP, "CAP", SP, "user", SP, "ACK">>, type |-> "CAPRES",
    saying |-> Nobody]}
===============================================================================

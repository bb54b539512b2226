----------------------------- MODULE MCIrcClient -----------------------------
(***************************************************************************)
(* Instances of IrcClient for TLC: channels, values of the chat_bot        *)
(* argument, and what a chunk of bytes may parse to.                       *)
(***************************************************************************)
EXTENDS IrcClientProps, TLC

CONSTANTS c1, c2

OneChannel == {c1}
TwoChannels == {c1, c2}

\* Nothing tells one channel from another.
ChannelSymmetry == Permutations(TwoChannels)

WithBot == {TRUE}
WithoutBot == {FALSE}
AnyBot == BOOLEAN

\* For the recovery: a chunk that is part of a line, and one PING.
PingBatches == {<<>>, <<"PING">>}

\* The same with a chat message, for the bot that may be gone.
PingAndChatBatches == {<<"PING">>, <<"PRIVMSG">>}

SilentBatches == {<<>>}

\* For the message handler: what precedes or follows a PING in its batch.
AnswerableBatches == {<<"PRIVMSG", "PING">>, <<"PING", "NICKLESS">>, <<"NICKLESS", "PING">>}

MixedBatches == {<<"PING">>, <<"OTHER", "PING">>, <<"PRIVMSG", "PING">>,
                 <<"NICKLESS", "PING">>}
===============================================================================

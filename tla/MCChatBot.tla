------------------------------ MODULE MCChatBot ------------------------------
(***************************************************************************)
(* Instances of ChatBot for TLC: two users of different roles, one command *)
(* and one mode.                                                           *)
(***************************************************************************)
EXTENDS ChatBot

CONSTANTS viewer, mod, cmd, mode, w1, w2

MCUsers == {viewer, mod}
MCCommands == {cmd}
OneMode == {mode}
NoModes == {}
TwoWorkers == {w1, w2}

OneStart == {"!"}
TwoStarts == {"!", "?"}

\* A viewer and a moderator who write the command, and a moderator who writes
\* it with another character.
MCChats ==
  {[nick |-> viewer, role |-> 0, start |-> "!", command |-> cmd],
   [nick |-> mod, role |-> MODERATOR, start |-> "!", command |-> cmd]}

BothStarts ==
  MCChats \cup {[nick |-> mod, role |-> MODERATOR, start |-> "?", command |-> cmd]}

MCLevels == {0}
BroadcasterOnly == {4}

DefaultSettings == {NewVerificator}

\* The role decides, one user only, and one user excluded.
Listed == AddUserInWhiteList(NewVerificator, viewer)
Excluded == AddUserInBlackList(NewVerificator, mod)
ListSettings ==
  {NewVerificator, Listed, SetWhiteListOnly(Listed, TRUE),
   Excluded, SetRoleLevel(Excluded, 0)}

\* A mode that serves everybody.
OpenMode == {SetRoleLevel(NewVerificator, 0)}
===============================================================================

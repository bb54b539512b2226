---------------------------- MODULE UserVerificator ----------------------------
(***************************************************************************)
(* commands::user_validator::UserVerificator: the lists and the role       *)
(* filter of one command or mode, as a record.                             *)
(***************************************************************************)
EXTENDS Integers

CONSTANT Users   \* names of chat users

\* EMPTY, SUBSCRIBER, VIP, MODERATOR, BROADCASTER
Role == 0 .. 4
MODERATOR == 3

\* accept_from_ takes whatever int SetRoleLevel casts to a Role.
Verificator ==
  [black_list : SUBSET Users, white_list : SUBSET Users, whitelist_only : BOOLEAN,
   accept_from : Int]

NewVerificator ==
  [black_list |-> {}, white_list |-> {}, whitelist_only |-> FALSE,
   accept_from |-> MODERATOR]

CheckRole(v, role) == role >= v.accept_from

\* The black list is asked first, then the white list, then the role.
Verify(v, user, role) ==
  /\ user \notin v.black_list
  /\ \/ user \in v.white_list
     \/ ~v.whitelist_only /\ CheckRole(v, role)

SetWhiteListOnly(v, status) == [v EXCEPT !.whitelist_only = status]
AddUserInWhiteList(v, user) == [v EXCEPT !.white_list = @ \cup {user}]
RemoveUserFromWhiteList(v, user) == [v EXCEPT !.white_list = @ \ {user}]
AddUserInBlackList(v, user) == [v EXCEPT !.black_list = @ \cup {user}]
RemoveUserFromBlackList(v, user) == [v EXCEPT !.black_list = @ \ {user}]
SetRoleLevel(v, level) == [v EXCEPT !.accept_from = level]
===============================================================================

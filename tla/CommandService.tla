---------------------------- MODULE CommandService ----------------------------
(***************************************************************************)
(* What a chat bot promises its users, without threads, queues and texts:  *)
(* every message asks for all the modes and for at most one command; what  *)
(* it asks for is called once, for a user who is allowed to use it, or     *)
(* refused, for one who is not.  Only a mode that throws takes other       *)
(* requests with it: modes of the same message, never a command.           *)
(***************************************************************************)
EXTENDS Naturals

CONSTANTS Commands, Modes

VARIABLES
  offered,  \* the commands and modes there are
  given,    \* how many messages there were
  allowed,  \* <<message, object>>: the author may use it
  pending,  \* <<message, object>>: asked for and not yet answered
  called    \* <<message, object>>: the executor was called

serviceVars == <<offered, given, allowed, pending, called>>

Init == offered = {} /\ given = 0 /\ allowed = {} /\ pending = {} /\ called = {}

\* The offer is made before the first message.
Offer ==
  /\ given = 0
  /\ \E x \in Commands \cup Modes : offered' = offered \cup {x}
  /\ UNCHANGED <<given, allowed, pending, called>>

Ask ==
  /\ given' = given + 1
  /\ \E some \in SUBSET (Commands \cup Modes) : allowed' = allowed \cup {given'} \X some
  /\ \E command \in {{}} \cup {{c} : c \in Commands \cap offered} :
       pending' = pending \cup {given'} \X ((Modes \cap offered) \cup command)
  /\ UNCHANGED <<offered, called>>

\* The other requests that end with r when its executor throws.
TakenAlong(r) == IF r[2] \in Modes THEN pending \cap ({r[1]} \X Modes) ELSE {}

Call ==
  \E r \in pending :
    /\ called' = called \cup {r}
    /\ r \in allowed
    /\ \E lost \in SUBSET TakenAlong(r) : pending' = pending \ ({r} \cup lost)
    /\ UNCHANGED <<offered, given, allowed>>

Refuse ==
  \E r \in pending :
    /\ pending' = pending \ {r}
    /\ r \notin allowed
    /\ UNCHANGED <<offered, given, allowed, called>>

Next == Offer \/ Ask \/ Call \/ Refuse

Spec == Init /\ [][Next]_serviceVars
===============================================================================

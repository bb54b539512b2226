------------------------------- MODULE Session -------------------------------
(***************************************************************************)
(* What a client session is, seen from outside: it starts, it is online    *)
(* while something will be read, and when the stream breaks it is either   *)
(* recovered on a new connection or lost.  It may also wait for ever for   *)
(* the peer's part of a handshake.  Waiting, lost and dead are final as    *)
(* far as reading is concerned.                                            *)
(***************************************************************************)
EXTENDS Naturals

VARIABLES
  phase,  \* "starting", "online", "recovering", "waiting", "lost" or "dead"
  epoch   \* number of the connection in use

sessionVars == <<phase, epoch>>

Init == phase = "starting" /\ epoch = 1

GoOnline == phase = "starting" /\ phase' = "online" /\ UNCHANGED epoch

Break == phase = "online" /\ phase' = "recovering" /\ epoch' \in Nat /\ epoch' > epoch

Recover == phase = "recovering" /\ phase' = "online" /\ UNCHANGED epoch

Wait == phase \in {"starting", "recovering"} /\ phase' = "waiting" /\ UNCHANGED epoch

Lose == phase = "online" /\ phase' = "lost" /\ UNCHANGED epoch

Die == phase # "dead" /\ phase' = "dead" /\ UNCHANGED epoch

Next == GoOnline \/ Break \/ Recover \/ Wait \/ Lose \/ Die

Spec == Init /\ [][Next]_sessionVars

\* The liveness of a session whose handlers are run.
Settles ==
  phase \in {"starting", "recovering"} ~> phase \in {"online", "waiting", "dead"}
===============================================================================

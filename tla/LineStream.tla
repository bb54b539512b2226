------------------------------ MODULE LineStream ------------------------------
(***************************************************************************)
(* What reading from a chat server is meant to be: the messages are the    *)
(* lines the server sent, whole, in their order, one after the other; a    *)
(* new connection starts anew.  Once a line was torn apart (see            *)
(* MessageProcessor) nothing is promised until there is a new connection.  *)
(***************************************************************************)
EXTENDS Sequences, Naturals

CONSTANT Lines

VARIABLES
  lines,     \* what the server has sent on this connection
  received,  \* the messages that were made of it
  torn       \* a line has been torn apart

streamVars == <<lines, received, torn>>

Init == lines = <<>> /\ received = <<>> /\ torn = FALSE

Send ==
  /\ ~torn
  /\ \E line \in Lines : lines' = Append(lines, line)
  /\ UNCHANGED <<received, torn>>

Receive ==
  /\ ~torn
  /\ Len(received) < Len(lines)
  /\ received' = Append(received, lines[Len(received) + 1])
  /\ UNCHANGED <<lines, torn>>

Tear == torn' = TRUE /\ lines' = <<>> /\ received' = <<>>

Reconnect == torn' = FALSE /\ lines' = <<>> /\ received' = <<>>

Next == Send \/ Receive \/ Tear \/ Reconnect

Spec == Init /\ [][Next]_streamVars
===============================================================================

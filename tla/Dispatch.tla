------------------------------ MODULE Dispatch ------------------------------
(***************************************************************************)
(* What the intake of the cluster server promises its clients: accepted    *)
(* clients wait in line, the first in line is handed to one reactor with   *)
(* room for it, and keeps that reactor until it hangs up.                  *)
(***************************************************************************)
EXTENDS Integers, Sequences, FiniteSets, Functions

CONSTANTS Clients, Servers, Room, Nobody

VARIABLES waiting, server

vars == <<waiting, server>>

Init == waiting = <<>> /\ server = [c \in Clients |-> Nobody]

Arrive(c) ==
  /\ c \notin Range(waiting) /\ server[c] = Nobody
  /\ waiting' = Append(waiting, c)
  /\ UNCHANGED server

Assign(s) ==
  /\ waiting # <<>>
  /\ Cardinality({c \in Clients : server[c] = s}) < Room
  /\ server' = [server EXCEPT ![Head(waiting)] = s]
  /\ waiting' = Tail(waiting)

Leave(c) ==
  /\ server[c] # Nobody
  /\ server' = [server EXCEPT ![c] = Nobody]
  /\ UNCHANGED waiting

Next ==
  \/ \E c \in Clients : Arrive(c) \/ Leave(c)
  \/ \E s \in Servers : Assign(s)

Spec == Init /\ [][Next]_vars
=============================================================================

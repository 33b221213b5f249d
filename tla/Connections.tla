---------------------------- MODULE Connections ----------------------------
(***************************************************************************)
(* What a reactor promises the clients it has been given, without events,  *)
(* lists, locks or threads: what a client has sent is received while it is *)
(* connected, a reset is noticed by one failed read, and a client is       *)
(* dropped once and only after it has hung up; or at any time once the     *)
(* server has been disturbed.                                              *)
(***************************************************************************)
CONSTANT Clients

VARIABLES
  connected,
  inbox,     \* what a read of each connection would find
  disturbed  \* the server can no longer tell who has hung up

vars == <<connected, inbox, disturbed>>

Init == connected = {} /\ inbox = [c \in Clients |-> "none"] /\ disturbed = FALSE

Connect(c) ==
  /\ c \notin connected
  /\ connected' = connected \cup {c}
  /\ UNCHANGED <<inbox, disturbed>>

Becomes(c, from, to) ==
  /\ c \in connected /\ inbox[c] \in from
  /\ inbox' = [inbox EXCEPT ![c] = to]
  /\ UNCHANGED <<connected, disturbed>>

Send(c)   == Becomes(c, {"none"}, "data")
HangUp(c) == Becomes(c, {"none"}, "eof")
Break(c)  == Becomes(c, {"none", "data"}, "reset")

Receive(c) == Becomes(c, {"data"}, "none")
Notice(c)  == Becomes(c, {"reset"}, "eof")

Drop(c) ==
  /\ c \in connected /\ (inbox[c] = "eof" \/ disturbed)
  /\ connected' = connected \ {c}
  /\ inbox' = [inbox EXCEPT ![c] = "none"]
  /\ UNCHANGED disturbed

Disturb == disturbed' = TRUE /\ UNCHANGED <<connected, inbox>>

Next ==
  \/ \E c \in Clients :
       Connect(c) \/ Send(c) \/ HangUp(c) \/ Break(c) \/ Receive(c) \/ Notice(c) \/ Drop(c)
  \/ Disturb

Spec == Init /\ [][Next]_vars
=============================================================================

---------------------------- MODULE MCChatServer ----------------------------
(* Instances of ChatServer for TLC. *)
EXTENDS ChatServer

CONSTANTS a, b

(* Odd descriptors belong to user a, even ones to user b. *)
Users == [f \in Fds |-> IF f % 2 = 1 THEN a ELSE b]
=============================================================================

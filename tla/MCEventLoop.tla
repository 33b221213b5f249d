---------------------------- MODULE MCEventLoop ----------------------------
(* Instances of EventLoop for TLC. *)
EXTENDS EventLoop, TLC

Symmetry == Permutations(Fds) \cup Permutations(Cells) \cup Permutations(Workers)
=============================================================================

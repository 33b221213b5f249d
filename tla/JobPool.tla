------------------------------ MODULE JobPool ------------------------------
(***************************************************************************)
(* What a thread pool promises its callers, without lists, locks or        *)
(* condition variables: an accepted job waits in a bounded queue, a worker *)
(* that has nothing to run starts the oldest one, each job is run by one   *)
(* worker, and only a pool that is being shut down drops a waiting job.    *)
(***************************************************************************)
EXTENDS Integers, Sequences, Functions

CONSTANTS Workers, Jobs, Nothing, Capacity

VARIABLES pending, running, stopping

vars == <<pending, running, stopping>>

Init ==
  /\ pending = <<>>
  /\ running = [w \in Workers |-> Nothing]
  /\ stopping = FALSE

Accept(j) ==
  /\ j \notin Range(pending) \cup Range(running)
  /\ Len(pending) < Capacity
  /\ pending' = Append(pending, j)
  /\ UNCHANGED <<running, stopping>>

Start(w) ==
  /\ running[w] = Nothing /\ pending # <<>>
  /\ running' = [running EXCEPT ![w] = Head(pending)]
  /\ pending' = Tail(pending)
  /\ UNCHANGED stopping

Finish(w) ==
  /\ running[w] # Nothing
  /\ running' = [running EXCEPT ![w] = Nothing]
  /\ UNCHANGED <<pending, stopping>>

Stop ==
  /\ stopping' = TRUE
  /\ UNCHANGED <<pending, running>>

Drop ==
  /\ stopping /\ pending # <<>>
  /\ pending' = Tail(pending)
  /\ UNCHANGED <<running, stopping>>

Next ==
  \/ \E j \in Jobs : Accept(j)
  \/ \E w \in Workers : Start(w) \/ Finish(w)
  \/ Stop \/ Drop

Spec == Init /\ [][Next]_vars
=============================================================================

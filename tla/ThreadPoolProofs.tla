-------------------------- MODULE ThreadPoolProofs --------------------------
(* Theorems about the thread pool, for any number of workers, callers and  *)
(* job cells and any limit.                                                *)
EXTENDS ThreadPool, QueueLemmas, FiniteSetTheorems, TLAPS

LEMMA InitIInv == Init => IInv
<1> SUFFICES ASSUME Init PROVE IInv
  OBVIOUS
<1> USE PoolAssumption DEF Init
<1>1. TypeOK
  <2>1. <<>> \in Seq(Jobs)
    OBVIOUS
  <2> QED BY <2>1 DEF TypeOK
<1>2. LockInv /\ TestInv /\ HandInv
  BY DEF LockInv, TestInv, HandInv
<1>3. ListInv
  BY DEF ListInv
<1>4. JobOwnership
  <2>1. Range(fifo) = {} /\ InHand \ {NULL} = {} /\ IsInjective(fifo)
    BY DEF InHand, Range, IsInjective
  <2> QED BY <2>1 DEF JobOwnership
<1> QED BY <1>1, <1>2, <1>3, <1>4 DEF IInv

LEMMA StepAdd ==
  ASSUME IInv, NEW s \in Submitters, Submits(s)
  PROVE  IInv'
<1> USE PoolAssumption DEF IInv
<1>1. CASE AddFails(s)
  BY <1>1 DEF AddFails, Calls, list, workers, TypeOK, LockInv, TestInv, HandInv, ListInv, JobOwnership, InHand
<1>2. CASE AddBegins(s)
  <2>1. TypeOK'
    BY <1>2 DEF AddBegins, Calls, workers, TypeOK
  <2>2. LockInv' /\ TestInv'
    BY <1>2 DEF AddBegins, Calls, workers, TypeOK, LockInv, TestInv
  <2>3. HandInv'
    BY <1>2 DEF AddBegins, Calls, workers, TypeOK, HandInv
  <2>4. ListInv'
    BY <1>2 DEF AddBegins, Calls, workers, TypeOK, ListInv, JobOwnership, Range
  <2>5. JobOwnership'
    <3>1. PICK j \in Jobs \ heap :
            heap' = heap \cup {j} /\ work' = [work EXCEPT ![s] = j]
      BY <1>2 DEF AddBegins
    <3>2. work[s] = NULL /\ InHand' = (InHand \ {NULL}) \cup {j} \cup (InHand' \cap {NULL})
      BY <1>2, <3>1 DEF AddBegins, Calls, workers, TypeOK, HandInv, InHand
    <3>3. j \notin Range(fifo) \cup InHand /\ NULL \notin Range(fifo) \cup heap
      BY <3>1 DEF TypeOK, JobOwnership
    <3>4. heap' = Range(fifo) \cup (InHand' \ {NULL}) /\ Range(fifo) \cap InHand' = {}
      BY <3>1, <3>2, <3>3 DEF JobOwnership
    <3>5. /\ \A t \in Submitters : t # s => work'[t] = work[t] /\ work[t] # j
          /\ \A w \in Workers : job_temp[w] # j
          /\ work'[s] = j
      BY <3>1, <3>3 DEF TypeOK, InHand
    <3> QED BY <1>2, <3>4, <3>5 DEF AddBegins, workers, TypeOK, JobOwnership
  <2> QED BY <2>1, <2>2, <2>3, <2>4, <2>5
<1>3. CASE AddLinks(s)
  <2> DEFINE j == work[s]
  <2>1. /\ mutex_job_lock = NULL /\ dpc # "purge" /\ spc[s] = "link"
        /\ fifo' = Append(fifo, j) /\ work' = [work EXCEPT ![s] = NULL]
        /\ UNCHANGED <<heap, job_temp, dpc, pthread_close>>
    BY <1>3 DEF AddLinks, Link, LockInv
  <2>2. j \in Jobs /\ j \notin Range(fifo) /\ j \in InHand /\ next[j] = NULL
    BY <2>1 DEF TypeOK, HandInv, JobOwnership, InHand
  <2>3. job_tail \in Jobs \/ fifo = <<>>
    BY <2>1 DEF TypeOK, ListInv
  <2>4. /\ Append(fifo, j) \in Seq(Jobs) /\ Append(fifo, j) # <<>>
        /\ Len(Append(fifo, j)) = Len(fifo) + 1
        /\ \A i \in 1..Len(fifo) : Append(fifo, j)[i] = fifo[i]
        /\ Append(fifo, j)[Len(fifo) + 1] = j
        /\ Range(Append(fifo, j)) = Range(fifo) \cup {j}
        /\ IsInjective(Append(fifo, j))
    BY <2>2, AppendFacts DEF TypeOK, JobOwnership
  <2> HIDE DEF j
  <2>5. /\ job_head' = IF fifo = <<>> THEN j ELSE job_head
        /\ next' = IF fifo = <<>> THEN next ELSE [next EXCEPT ![job_tail] = j]
        /\ job_tail' = j /\ job_current_num' = job_current_num + 1
    BY <1>3, <2>1, <2>2 DEF AddLinks, Link, j, TypeOK, ListInv
  <2>6. TypeOK'
    <3>1. wpc' \in [Workers -> {"lock", "test", "wait", "asleep", "take", "run", "exited"}]
      BY <1>3 DEF AddLinks, Signal, Asleep, TypeOK
    <3> QED BY <1>3, <2>1, <2>2, <2>3, <2>4, <2>5, <3>1 DEF AddLinks, TypeOK
  <2>7. LockInv' /\ TestInv'
    BY <1>3, <2>1, <2>5 DEF AddLinks, Signal, Asleep, TypeOK, LockInv, TestInv
  <2>8. HandInv'
    <3>1. \A t \in Submitters : t # s /\ spc[t] = "link" => work[t] # job_tail
      <4>1. CASE fifo = <<>>
        BY <2>1, <4>1 DEF HandInv, ListInv
      <4>2. CASE fifo # <<>>
        <5>1. Len(fifo) \in 1..Len(fifo) /\ DOMAIN fifo = 1..Len(fifo)
          BY <4>2 DEF TypeOK
        <5>2. job_tail \in Range(fifo)
          BY <2>1, <4>2, <5>1 DEF ListInv, Range
        <5> QED BY <5>2 DEF JobOwnership, InHand
      <4> QED BY <4>1, <4>2
    <3>2. \A w \in Workers : wpc'[w] = "run" <=> wpc[w] = "run"
      BY <1>3 DEF AddLinks, Signal, Asleep, TypeOK
    <3> QED BY <1>3, <2>1, <2>3, <2>5, <3>1, <3>2 DEF AddLinks, TypeOK, HandInv
  <2>9. ListInv'
    <3>1. \A i \in 1..Len(fifo) : i # Len(fifo) => fifo[i] # job_tail
      BY <2>1 DEF TypeOK, ListInv, JobOwnership, IsInjective
    <3>2. Len(fifo) \in Nat /\ (fifo = <<>> <=> Len(fifo) = 0)
      BY DEF TypeOK
    <3>3. j # job_tail \/ fifo = <<>>
      BY <2>1, <2>2, <3>2 DEF ListInv, TypeOK, Range
    <3>4. job_head' = fifo'[1] /\ job_tail' = fifo'[Len(fifo')] /\ job_current_num' = Len(fifo')
      BY <2>1, <2>4, <2>5, <3>2 DEF ListInv
    <3>5. ASSUME NEW i \in 1..Len(fifo')
          PROVE next'[fifo'[i]] = IF i = Len(fifo') THEN NULL ELSE fifo'[i + 1]
      <4>1. CASE i = Len(fifo')
        BY <2>1, <2>2, <2>3, <2>4, <2>5, <3>3, <4>1 DEF TypeOK
      <4>2. CASE i = Len(fifo)
        BY <2>1, <2>3, <2>4, <2>5, <3>2, <4>2 DEF TypeOK, ListInv
      <4>3. CASE i < Len(fifo)
        <5>1. fifo'[i] = fifo[i] /\ fifo'[i + 1] = fifo[i + 1] /\ fifo[i] # job_tail
          BY <2>1, <2>4, <3>1, <3>2, <4>3
        <5>2. next'[fifo[i]] = next[fifo[i]]
          BY <2>5, <5>1 DEF TypeOK
        <5> QED BY <2>1, <2>4, <3>2, <4>3, <5>1, <5>2 DEF ListInv
      <4> QED BY <2>1, <2>4, <3>2, <4>1, <4>2, <4>3
    <3> QED BY <2>1, <2>4, <3>4, <3>5 DEF ListInv
  <2>10. JobOwnership'
    <3>1. InHand' \ {NULL} = (InHand \ {NULL}) \ {j} /\ j # NULL
      BY <2>1, <2>2 DEF TypeOK, JobOwnership, InHand, j
    <3>2. Range(fifo)' = Range(fifo) \cup {j}
      BY <2>1, <2>4
    <3>3. heap' = Range(fifo)' \cup (InHand' \ {NULL})
      BY <2>1, <2>2, <3>1, <3>2 DEF JobOwnership
    <3>4. Range(fifo)' \cap InHand' = {}
      BY <2>1, <2>2, <3>1, <3>2 DEF JobOwnership, TypeOK, Range
    <3>5. \A t \in Submitters : work'[t] = work[t] \/ work'[t] = NULL
      BY <2>1 DEF TypeOK
    <3> QED BY <2>1, <2>4, <3>3, <3>4, <3>5 DEF JobOwnership, TypeOK
  <2> QED BY <2>6, <2>7, <2>8, <2>9, <2>10
<1> QED BY <1>1, <1>2, <1>3 DEF Submits

LEMMA StepWork ==
  ASSUME IInv, NEW w \in Workers, Works(w) \/ SpuriousWakeup(w)
  PROVE  IInv'
<1> USE PoolAssumption DEF IInv, Goto
<1>1. CASE WorkerLocks(w)
  BY <1>1 DEF WorkerLocks, list, callers, TypeOK, LockInv, TestInv, HandInv, ListInv, JobOwnership, InHand
<1>2. CASE WorkerTests(w)
  BY <1>2 DEF WorkerTests, list, callers, TypeOK, LockInv, TestInv, HandInv, ListInv, JobOwnership, InHand
<1>3. CASE WorkerWaits(w)
  BY <1>3 DEF WorkerWaits, list, callers, TypeOK, LockInv, TestInv, HandInv, ListInv, JobOwnership, InHand
<1>4. CASE SpuriousWakeup(w)
  BY <1>4 DEF SpuriousWakeup, list, callers, TypeOK, LockInv, TestInv, HandInv, ListInv, JobOwnership, InHand
<1>5. CASE WorkerExits(w)
  BY <1>5 DEF WorkerExits, list, callers, TypeOK, LockInv, TestInv, HandInv, ListInv, JobOwnership, InHand
<1>6. CASE WorkerTakes(w)
  <2>1. fifo # <<>> /\ dpc # "purge" /\ job_head = fifo[1] /\ job_head \in Jobs
    BY <1>6 DEF WorkerTakes, TypeOK, LockInv, TestInv, ListInv
  <2>2. /\ Tail(fifo) \in Seq(Jobs) /\ Len(Tail(fifo)) = Len(fifo) - 1
        /\ \A i \in 1..Len(fifo) - 1 : Tail(fifo)[i] = fifo[i + 1]
        /\ Tail(fifo) = <<>> <=> Len(fifo) = 1
        /\ Range(Tail(fifo)) = Range(fifo) \ {fifo[1]} /\ fifo[1] \in Range(fifo)
        /\ IsInjective(Tail(fifo))
    BY <2>1, TailFacts DEF TypeOK, JobOwnership
  <2>3. Len(fifo) \in Nat /\ Len(fifo) # 0
    BY <2>1 DEF TypeOK
  <2>4. /\ fifo' = Tail(fifo) /\ next' = next /\ heap' = heap /\ work' = work /\ dpc' = dpc
        /\ job_current_num' = Len(fifo) - 1
        /\ job_head' = IF Len(fifo) = 1 THEN NULL ELSE fifo[2]
        /\ job_tail' = IF Len(fifo) = 1 THEN NULL ELSE job_tail
        /\ job_temp' = [job_temp EXCEPT ![w] = fifo[1]]
    BY <1>6, <2>1, <2>3 DEF WorkerTakes, Unlink, callers, ListInv
  <2>5. TypeOK'
    BY <1>6, <2>1, <2>2, <2>3, <2>4 DEF WorkerTakes, callers, TypeOK, ListInv
  <2>6. LockInv' /\ TestInv' /\ HandInv'
    BY <1>6, <2>1, <2>4 DEF WorkerTakes, callers, TypeOK, LockInv, TestInv, HandInv
  <2>7. ListInv'
    <3>1. \A i \in 1..Len(fifo') : fifo'[i] = fifo[i + 1] /\ i + 1 \in 1..Len(fifo)
      BY <2>2, <2>3, <2>4
    <3>2. job_head' = IF fifo' = <<>> THEN NULL ELSE fifo'[1]
      BY <2>2, <2>3, <2>4, <3>1
    <3>3. job_tail' = IF fifo' = <<>> THEN NULL ELSE fifo'[Len(fifo')]
      BY <2>1, <2>2, <2>3, <2>4, <3>1 DEF ListInv
    <3> QED BY <2>1, <2>2, <2>3, <2>4, <3>1, <3>2, <3>3 DEF ListInv
  <2>8. JobOwnership'
    <3>1. job_temp[w] = NULL /\ fifo[1] # NULL /\ NULL \notin Range(fifo)
      BY <1>6, <2>1 DEF WorkerTakes, TypeOK, HandInv, Range
    <3>2. fifo[1] \notin InHand
      BY <2>2 DEF JobOwnership
    <3>3. InHand' \ {NULL} = (InHand \ {NULL}) \cup {fifo[1]}
      BY <2>4, <3>1 DEF TypeOK, InHand
    <3>4. heap' = Range(fifo') \cup (InHand' \ {NULL}) /\ Range(fifo') \cap InHand' = {}
      BY <2>2, <2>4, <3>1, <3>2, <3>3 DEF JobOwnership
    <3>5. /\ \A v \in Workers : v # w => job_temp'[v] = job_temp[v] /\ job_temp[v] # fifo[1]
          /\ \A s \in Submitters : work[s] # fifo[1]
          /\ job_temp'[w] = fifo[1]
      BY <2>4, <3>2 DEF TypeOK, InHand
    <3> QED BY <2>2, <2>4, <3>4, <3>5 DEF JobOwnership
  <2> QED BY <2>5, <2>6, <2>7, <2>8
<1>7. CASE WorkerFinishes(w)
  <2>1. TypeOK' /\ LockInv' /\ TestInv' /\ HandInv' /\ ListInv'
    BY <1>7 DEF WorkerFinishes, list, callers, TypeOK, LockInv, TestInv, HandInv, ListInv
  <2>2. JobOwnership'
    BY <1>7 DEF WorkerFinishes, list, callers, TypeOK, HandInv, JobOwnership, InHand
  <2> QED BY <2>1, <2>2
<1> QED BY <1>1, <1>2, <1>3, <1>4, <1>5, <1>6, <1>7 DEF Works

LEMMA StepDestroy ==
  ASSUME IInv, Destroys
  PROVE  IInv'
<1> USE PoolAssumption DEF IInv
<1>1. CASE DestroyLocks
  BY <1>1 DEF DestroyLocks, list, workers, callers, TypeOK, LockInv, TestInv, HandInv, ListInv, JobOwnership, InHand
<1>2. CASE DestroyFrees
  <2>1. fifo # <<>> /\ job_head = fifo[1] /\ job_head \in Jobs
    BY <1>2 DEF DestroyFrees, TypeOK, ListInv
  <2>2. /\ Tail(fifo) \in Seq(Jobs) /\ Len(Tail(fifo)) = Len(fifo) - 1
        /\ \A i \in 1..Len(fifo) - 1 : Tail(fifo)[i] = fifo[i + 1]
        /\ Tail(fifo) = <<>> <=> Len(fifo) = 1
        /\ Range(Tail(fifo)) = Range(fifo) \ {fifo[1]} /\ fifo[1] \in Range(fifo)
        /\ IsInjective(Tail(fifo))
    BY <2>1, TailFacts DEF TypeOK, JobOwnership
  <2>3. Len(fifo) \in Nat /\ Len(fifo) # 0
    BY <2>1 DEF TypeOK
  <2>4. TypeOK' /\ LockInv' /\ TestInv' /\ HandInv'
    BY <1>2, <2>1, <2>2 DEF DestroyFrees, workers, callers, TypeOK, LockInv, TestInv, HandInv
  <2>5. ListInv'
    <3>1. fifo' = Tail(fifo) /\ next' = next /\ dpc' = "purge"
      BY <1>2 DEF DestroyFrees
    <3>2. job_head' = IF Len(fifo) = 1 THEN NULL ELSE fifo[2]
      <4>1. next[fifo[1]] = IF Len(fifo) = 1 THEN NULL ELSE fifo[2]
        <5>1. 1 \in 1..Len(fifo) /\ 1 + 1 = 2
          BY <2>3
        <5> QED BY <5>1 DEF ListInv
      <4> QED BY <1>2, <2>1, <4>1 DEF DestroyFrees
    <3>3. \A i \in 1..Len(fifo') : fifo'[i] = fifo[i + 1] /\ i + 1 \in 1..Len(fifo)
      BY <2>2, <2>3, <3>1
    <3>4. \A i \in 1..Len(fifo') :
            next'[fifo'[i]] = IF i = Len(fifo') THEN NULL ELSE fifo'[i + 1]
      <4> TAKE i \in 1..Len(fifo')
      <4>1. next[fifo[i + 1]] = IF i + 1 = Len(fifo) THEN NULL ELSE fifo[(i + 1) + 1]
        BY <3>3 DEF ListInv
      <4>2. i # Len(fifo') => fifo'[i + 1] = fifo[(i + 1) + 1]
        <5>1. i # Len(fifo') => i + 1 \in 1..Len(fifo')
          <6>1. Len(fifo') = Len(fifo) - 1 /\ i \in Int /\ 1 <= i /\ i <= Len(fifo')
            BY <2>2, <2>3, <3>1
          <6> HIDE DEF IInv
          <6> QED BY <2>3, <6>1
        <5> QED BY <3>3, <5>1
      <4>3. i = Len(fifo') <=> i + 1 = Len(fifo)
        BY <2>2, <2>3, <3>1
      <4> QED BY <3>1, <3>3, <4>1, <4>2, <4>3
    <3>5. job_head' = IF fifo' = <<>> THEN NULL ELSE fifo'[1]
      BY <2>2, <2>3, <3>1, <3>2
    <3> QED BY <3>1, <3>4, <3>5 DEF ListInv
  <2>6. JobOwnership'
    <3>1. NULL \notin Range(fifo) /\ fifo[1] \notin InHand
      BY <2>2 DEF TypeOK, JobOwnership, Range
    <3> QED BY <1>2, <2>1, <2>2, <3>1 DEF DestroyFrees, workers, callers, JobOwnership, InHand
  <2> QED BY <2>4, <2>5, <2>6
<1>3. CASE DestroyUnlocks
  BY <1>3 DEF DestroyUnlocks, list, workers, callers, TypeOK, LockInv, TestInv, HandInv, ListInv, JobOwnership, InHand
<1>4. CASE DestroyCloses
  BY <1>4 DEF DestroyCloses, list, workers, callers, TypeOK, LockInv, TestInv, HandInv, ListInv, JobOwnership, InHand
<1>5. CASE DestroyBroadcasts
  BY <1>5 DEF DestroyBroadcasts, list, callers, TypeOK, LockInv, TestInv, HandInv, ListInv, JobOwnership, InHand
<1>6. CASE DestroyJoins
  BY <1>6 DEF DestroyJoins, list, workers, callers, TypeOK, LockInv, TestInv, HandInv, ListInv, JobOwnership, InHand
<1> QED BY <1>1, <1>2, <1>3, <1>4, <1>5, <1>6 DEF Destroys

LEMMA IInvIsInductive == IInv /\ [Next]_vars => IInv'
<1> SUFFICES ASSUME IInv, [Next]_vars PROVE IInv'
  OBVIOUS
<1>1. CASE UNCHANGED vars
  BY <1>1 DEF vars, list, workers, callers, IInv, TypeOK, LockInv, TestInv, HandInv,
              ListInv, JobOwnership, InHand
<1>2. CASE Next
  BY <1>2, StepAdd, StepWork, StepDestroy DEF Next
<1> QED BY <1>1, <1>2

(* The inductive invariant holds in every reachable state. *)
THEOREM Inductive == Spec => []IInv
BY InitIInv, IInvIsInductive, PTL DEF Spec

(* Every variable of the pool keeps its type: in particular the head a     *)
(* worker takes and the tail add_pthread_job writes through are job cells. *)
THEOREM TypeCorrect == Spec => []TypeOK
<1>1. IInv => TypeOK
  BY DEF IInv
<1> QED BY <1>1, Inductive, PTL

(* However the threads interleave, the pointers, the counter and the order *)
(* in which the jobs were added agree.                                     *)
THEOREM ListIsSound == Spec => []ListInv
<1>1. IInv => ListInv
  BY DEF IInv
<1> QED BY <1>1, Inductive, PTL

(* However the threads interleave, no job is lost, run twice, freed twice  *)
(* or used after it was freed.                                             *)
THEOREM JobsAreOwned == Spec => []JobOwnership
<1>1. IInv => JobOwnership
  BY DEF IInv
<1> QED BY <1>1, Inductive, PTL

-----------------------------------------------------------------------------

LEMMA ExcessStep == TypeOK /\ BoundedExcess /\ [Next]_vars => BoundedExcess'
<1> SUFFICES ASSUME TypeOK, BoundedExcess, [Next]_vars PROVE BoundedExcess'
  OBVIOUS
<1>1. /\ IsFiniteSet(Submitters) /\ InCall \subseteq Submitters /\ InCall' \subseteq Submitters
      /\ IsFiniteSet(InCall) /\ IsFiniteSet(InCall')
  <2>1. InCall \subseteq Submitters /\ InCall' \subseteq Submitters
    BY DEF InCall
  <2> QED BY <2>1, PoolAssumption, FS_Subset
<1>2. /\ Cardinality(Submitters) \in Nat /\ Cardinality(InCall) \in Nat
      /\ Cardinality(InCall') \in Nat /\ Cardinality(InCall') <= Cardinality(Submitters)
      /\ pjob_max \in Nat \ {0} /\ job_current_num \in Nat
  BY <1>1, PoolAssumption, FS_CardinalityType, FS_Subset DEF TypeOK
<1>3. job_current_num + Cardinality(InCall) < pjob_max + Cardinality(Submitters)
  BY DEF BoundedExcess
<1>4. ASSUME spc' = spc, \/ job_current_num' = job_current_num
                         \/ job_current_num' = job_current_num - 1
      PROVE  BoundedExcess'
  <2>1. InCall' = InCall
    BY <1>4 DEF InCall
  <2> QED BY <1>2, <1>3, <1>4, <2>1 DEF BoundedExcess
<1>5. ASSUME NEW s \in Submitters, AddBegins(s) PROVE BoundedExcess'
  BY <1>2, <1>5 DEF AddBegins, BoundedExcess
<1>6. ASSUME NEW s \in Submitters, AddFails(s) PROVE BoundedExcess'
  <2>1. InCall' = InCall
    BY <1>6 DEF AddFails, Calls, InCall, TypeOK
  <2> QED BY <1>3, <1>6, <2>1 DEF AddFails, list, BoundedExcess
<1>7. ASSUME NEW s \in Submitters, AddLinks(s) PROVE BoundedExcess'
  <2>1. s \in InCall /\ InCall' = InCall \ {s} /\ job_current_num' = job_current_num + 1
    BY <1>7 DEF AddLinks, Link, InCall, TypeOK
  <2>2. Cardinality(InCall') = Cardinality(InCall) - 1
    BY <1>1, <2>1, FS_RemoveElement
  <2> QED BY <1>2, <1>3, <2>1, <2>2 DEF BoundedExcess
<1>8. ASSUME DestroyUnlocks PROVE BoundedExcess'
  BY <1>2, <1>8 DEF DestroyUnlocks, BoundedExcess
<1>9. ASSUME NEW w \in Workers, Works(w) \/ SpuriousWakeup(w) PROVE BoundedExcess'
  BY <1>4, <1>9 DEF Works, WorkerLocks, WorkerTests, WorkerWaits, WorkerExits, WorkerTakes,
     WorkerFinishes, SpuriousWakeup, Unlink, list, callers
<1>10. ASSUME Destroys PROVE BoundedExcess'
  BY <1>4, <1>8, <1>10 DEF Destroys, DestroyLocks, DestroyFrees, DestroyCloses,
     DestroyBroadcasts, DestroyJoins, list, callers
<1>11. CASE UNCHANGED vars
  BY <1>4, <1>11 DEF vars, list, callers
<1> QED BY <1>5, <1>6, <1>7, <1>9, <1>10, <1>11 DEF Next, Submits

(* The unlocked test of the limit lets the list grow past it, but never by *)
(* more than one job per caller but the first.                             *)
THEOREM ExcessIsBounded == Spec => []BoundedExcess
<1>1. Init => BoundedExcess
  <2> SUFFICES ASSUME Init PROVE BoundedExcess
    OBVIOUS
  <2>1. InCall = {} /\ job_current_num = 0
    BY DEF Init, InCall
  <2>2. Cardinality({}) = 0 /\ Cardinality(Submitters) \in Nat
    BY FS_EmptySet, FS_CardinalityType, PoolAssumption
  <2> QED BY <2>1, <2>2, PoolAssumption DEF BoundedExcess
<1> QED BY <1>1, TypeCorrect, ExcessStep, PTL DEF Spec

-----------------------------------------------------------------------------

(* Sizes of the set of awake workers when one of them comes or goes. *)
LEMMA HeadingSizes ==
  ASSUME TypeOK, NEW S \in SUBSET Workers
  PROVE  /\ IsFiniteSet(S) /\ Cardinality(S) \in Nat
         /\ \A w \in Workers \ S : Cardinality(S \cup {w}) = Cardinality(S) + 1
         /\ \A w \in S : Cardinality(S \ {w}) = Cardinality(S) - 1
<1>1. IsFiniteSet(S) /\ Cardinality(S) \in Nat
  BY PoolAssumption, FS_Subset, FS_CardinalityType
<1> QED BY <1>1, FS_AddElement, FS_RemoveElement

LEMMA OversleptStep == IInv /\ NoJobOverslept /\ [Next]_vars => NoJobOverslept'
<1> SUFFICES ASSUME IInv, NoJobOverslept, [Next]_vars, ~pthread_close', Asleep' # {}
             PROVE  job_current_num' <= Cardinality(Heading')
  BY DEF NoJobOverslept
<1> USE DEF IInv
<1>1. /\ Heading \in SUBSET Workers /\ Heading' \in SUBSET Workers
      /\ Cardinality(Heading) \in Nat /\ Cardinality(Heading') \in Nat
      /\ job_current_num \in Nat
  BY HeadingSizes DEF Heading, TypeOK
<1>2. ~pthread_close
  BY DEF Next, Submits, AddFails, AddBegins, AddLinks, Works, WorkerLocks, WorkerTests,
     WorkerWaits, WorkerExits, WorkerTakes, WorkerFinishes, SpuriousWakeup, Destroys, DestroyLocks,
     DestroyFrees, DestroyUnlocks, DestroyCloses, DestroyBroadcasts, DestroyJoins, vars
<1>3. Asleep # {} => job_current_num <= Cardinality(Heading)
  BY <1>2 DEF NoJobOverslept
<1>4. ASSUME wpc' = wpc, job_current_num' = job_current_num
      PROVE  job_current_num' <= Cardinality(Heading')
  BY <1>3, <1>4 DEF Asleep, Heading
<1>5. ASSUME job_current_num' = 0 PROVE job_current_num' <= Cardinality(Heading')
  BY <1>1, <1>5
<1>6. ASSUME NEW s \in Submitters, AddLinks(s)
      PROVE  job_current_num' <= Cardinality(Heading')
  <2>1. job_current_num' = job_current_num + 1 /\ Signal
    BY <1>2, <1>6 DEF AddLinks, Link
  <2>2. PICK w \in Asleep : wpc' = [wpc EXCEPT ![w] = "lock"]
    BY <2>1 DEF Signal, Asleep
  <2>3. w \notin Heading /\ Heading' = Heading \cup {w} /\ w \in Workers
    BY <2>2 DEF Heading, Asleep, TypeOK
  <2>4. Cardinality(Heading') = Cardinality(Heading) + 1
    BY <1>1, <2>3, HeadingSizes
  <2> QED BY <1>1, <1>3, <2>1, <2>2, <2>4
<1>7. ASSUME NEW w \in Workers, WorkerLocks(w)
      PROVE  job_current_num' <= Cardinality(Heading')
  <2>1. Heading' = Heading /\ Asleep' = Asleep
    BY <1>7 DEF WorkerLocks, Goto, Heading, Asleep, TypeOK
  <2> QED BY <1>3, <1>7, <2>1 DEF WorkerLocks, list
<1>8. ASSUME NEW w \in Workers, WorkerTests(w)
      PROVE  job_current_num' <= Cardinality(Heading')
  <2>1. CASE job_current_num = 0
    BY <1>5, <1>8, <2>1 DEF WorkerTests, list
  <2>2. CASE job_current_num # 0
    <3>1. Heading' = Heading /\ Asleep' = Asleep
      BY <1>8, <2>2 DEF WorkerTests, Goto, Heading, Asleep, TypeOK
    <3> QED BY <1>3, <1>8, <3>1 DEF WorkerTests, list
  <2> QED BY <2>1, <2>2
<1>9. ASSUME NEW w \in Workers, WorkerWaits(w)
      PROVE  job_current_num' <= Cardinality(Heading')
  BY <1>5, <1>9 DEF WorkerWaits, list, TestInv
<1>10. ASSUME NEW w \in Workers, WorkerTakes(w)
       PROVE  job_current_num' <= Cardinality(Heading')
  <2>1. job_current_num' = job_current_num - 1
    BY <1>10 DEF WorkerTakes, Unlink
  <2>2. w \in Heading /\ Heading' = Heading \ {w} /\ Asleep' = Asleep
    BY <1>10 DEF WorkerTakes, Goto, Heading, Asleep, TypeOK
  <2>3. Cardinality(Heading') = Cardinality(Heading) - 1
    BY <1>1, <2>2, HeadingSizes
  <2> QED BY <1>1, <1>3, <2>1, <2>2, <2>3
<1>11. ASSUME NEW w \in Workers, WorkerFinishes(w) \/ SpuriousWakeup(w)
       PROVE  job_current_num' <= Cardinality(Heading')
  <2>1. /\ job_current_num' = job_current_num /\ wpc' = [wpc EXCEPT ![w] = "lock"]
        /\ wpc[w] \in {"run", "asleep"}
    BY <1>11 DEF WorkerFinishes, SpuriousWakeup, Goto, list
  <2>2. w \notin Heading /\ Heading' = Heading \cup {w} /\ Asleep' \subseteq Asleep
    BY <2>1 DEF Heading, Asleep, TypeOK
  <2>3. Cardinality(Heading') = Cardinality(Heading) + 1
    BY <1>1, <2>2, HeadingSizes
  <2> QED BY <1>1, <1>3, <2>1, <2>2, <2>3
<1>12. ASSUME NEW w \in Workers, WorkerExits(w) PROVE FALSE
  BY <1>2, <1>12 DEF WorkerExits
<1>13. ASSUME DestroyCloses \/ DestroyBroadcasts \/ DestroyJoins PROVE FALSE
  BY <1>2, <1>13 DEF DestroyCloses, DestroyBroadcasts, DestroyJoins, LockInv
<1>14. ASSUME DestroyLocks \/ DestroyFrees PROVE job_current_num' <= Cardinality(Heading')
  BY <1>4, <1>14 DEF DestroyLocks, DestroyFrees, list, workers
<1>15. ASSUME DestroyUnlocks PROVE job_current_num' <= Cardinality(Heading')
  BY <1>5, <1>15 DEF DestroyUnlocks
<1>16. ASSUME NEW s \in Submitters, AddFails(s) \/ AddBegins(s)
       PROVE  job_current_num' <= Cardinality(Heading')
  BY <1>4, <1>16 DEF AddFails, AddBegins, list, workers
<1>17. CASE UNCHANGED vars
  BY <1>4, <1>17 DEF vars, list, workers
<1> QED
  BY <1>6, <1>7, <1>8, <1>9, <1>10, <1>11, <1>12, <1>13, <1>14, <1>15, <1>16, <1>17
     DEF Next, Submits, Works, Destroys

(* No wakeup is lost while the pool serves: the signal sent with each job  *)
(* is enough, although it is sent to one worker and a worker's test and    *)
(* its wait are two steps.                                                 *)
THEOREM NoLostWakeup == Spec => []NoJobOverslept
<1>1. Init => NoJobOverslept
  BY DEF Init, NoJobOverslept, Asleep
<1> QED BY <1>1, Inductive, OversleptStep, PTL DEF Spec

-----------------------------------------------------------------------------
(* The pool implements JobPool. *)

LEMMA RefinementStep == IInv /\ IInv' /\ BoundedExcess' /\ [Next]_vars => [Pool!Next]_(Pool!vars)
<1> SUFFICES ASSUME IInv, IInv', BoundedExcess', [Next]_vars PROVE [Pool!Next]_(Pool!vars)
  OBVIOUS
<1> USE DEF IInv, Pool!vars
<1>1. ASSUME UNCHANGED <<fifo, job_temp>>, (dpc # "idle")' = (dpc # "idle")
      PROVE  [Pool!Next]_(Pool!vars)
  BY <1>1
<1>2. ASSUME NEW s \in Submitters, AddLinks(s) PROVE Pool!Next
  <2>1. /\ fifo' = Append(fifo, work[s]) /\ UNCHANGED <<job_temp, dpc>>
        /\ job_current_num' = job_current_num + 1 /\ dpc # "purge"
        /\ work[s] \in Jobs /\ work[s] \in InHand /\ work[s] # NULL
    BY <1>2, PoolAssumption DEF AddLinks, Link, LockInv, TypeOK, HandInv, InHand
  <2>2. work[s] \notin Range(fifo) \cup Range(job_temp)
    BY <1>2, <2>1 DEF JobOwnership, TypeOK, Range
  <2>3. Len(fifo) < pjob_max + Cardinality(Submitters) - 1
    <3>1. Cardinality(InCall') \in Nat /\ Cardinality(Submitters) \in Nat
      BY PoolAssumption, FS_Subset, FS_CardinalityType DEF InCall
    <3>2. job_current_num = Len(fifo) /\ Len(fifo) \in Nat /\ pjob_max \in Nat
      BY <2>1, PoolAssumption DEF ListInv, TypeOK
    <3> QED BY <2>1, <3>1, <3>2 DEF BoundedExcess
  <2>4. Pool!Accept(work[s])
    BY <2>1, <2>2, <2>3 DEF Pool!Accept, Pool!Range, Range
  <2> QED BY <2>1, <2>4 DEF Pool!Next
<1>3. ASSUME NEW w \in Workers, WorkerTakes(w) PROVE Pool!Next
  <2>1. fifo # <<>> /\ job_head = fifo[1]
    BY <1>3, PoolAssumption DEF WorkerTakes, TestInv, ListInv, LockInv, TypeOK
  <2>2. Pool!Start(w)
    BY <1>3, <2>1 DEF WorkerTakes, Unlink, HandInv, TypeOK, Pool!Start
  <2> QED BY <2>2 DEF Pool!Next
<1>4. ASSUME NEW w \in Workers, WorkerFinishes(w) PROVE Pool!Next
  BY <1>4 DEF WorkerFinishes, list, HandInv, Pool!Finish, Pool!Next
<1>5. ASSUME DestroyLocks PROVE Pool!Next
  BY <1>5 DEF DestroyLocks, list, workers, Pool!Stop, Pool!Next
<1>6. ASSUME DestroyFrees PROVE Pool!Next
  BY <1>6 DEF DestroyFrees, workers, ListInv, Pool!Drop, Pool!Next
<1>7. ASSUME NEW s \in Submitters, AddFails(s) \/ AddBegins(s) PROVE [Pool!Next]_(Pool!vars)
  BY <1>1, <1>7 DEF AddFails, AddBegins, list, workers
<1>8. ASSUME NEW w \in Workers,
             \/ WorkerLocks(w) \/ WorkerTests(w) \/ WorkerWaits(w)
             \/ WorkerExits(w) \/ SpuriousWakeup(w)
      PROVE  [Pool!Next]_(Pool!vars)
  BY <1>1, <1>8 DEF WorkerLocks, WorkerTests, WorkerWaits, WorkerExits, SpuriousWakeup, list
<1>9. ASSUME DestroyUnlocks \/ DestroyCloses \/ DestroyBroadcasts \/ DestroyJoins
      PROVE  [Pool!Next]_(Pool!vars)
  BY <1>1, <1>9 DEF DestroyUnlocks, DestroyCloses, DestroyBroadcasts, DestroyJoins, list, workers
<1>10. CASE UNCHANGED vars
  BY <1>1, <1>10 DEF vars, list, workers
<1> QED
  BY <1>2, <1>3, <1>4, <1>5, <1>6, <1>7, <1>8, <1>9, <1>10
     DEF Next, Submits, Works, Destroys

(* For any number of workers, callers and jobs the linked list under its   *)
(* mutex behaves as a bounded first-in first-out queue of jobs.            *)
THEOREM PoolRefined == Spec => RefinesJobPool
<1>1. Init => Pool!Init
  BY DEF Init, Pool!Init
<1> QED BY <1>1, Inductive, ExcessIsBounded, RefinementStep, PTL DEF Spec, RefinesJobPool, Pool!Spec
=============================================================================

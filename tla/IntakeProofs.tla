---------------------------- MODULE IntakeProofs ----------------------------
(* Theorems about the intake, for any number of reactors, descriptors and  *)
(* slots and any batch size.                                               *)
EXTENDS Intake, QueueLemmas, FiniteSetTheorems

LEMMA InitIInv == Init => IInv
<1> SUFFICES ASSUME Init PROVE IInv
  OBVIOUS
<1> USE IntakeAssumption DEF Init
<1>1. TypeOK
  <2>1. <<>> \in Seq(Fds) /\ 0 \in Slots
    BY DEF Slots
  <2> QED BY <2>1 DEF TypeOK
<1>2. ListInv /\ FillInv /\ MaxfdCovers
  BY DEF ListInv, FillInv, MaxfdCovers
<1>3. FdOwnership
  <2>1. Seated = {} /\ Range(queue) = {} /\ IsInjective(queue)
    BY DEF Seated, Range, IsInjective
  <2> QED BY <2>1 DEF FdOwnership
<1> QED BY <1>1, <1>2, <1>3 DEF IInv

LEMMA StepAccept == ASSUME IInv, NEW f \in Fds, Accept(f) PROVE IInv'
<1> USE IntakeAssumption DEF IInv, Accept, links, reactors
<1>1. TypeOK' /\ FillInv' /\ ListInv' /\ MaxfdCovers'
  BY DEF TypeOK, FillInv, ListInv, MaxfdCovers
<1>2. Seated' = Seated
  BY DEF Seated
<1>3. FdOwnership'
  BY <1>2 DEF FdOwnership, TypeOK
<1> QED BY <1>1, <1>3

LEMMA StepAdd == ASSUME IInv, add_sockfd PROVE IInv'
<1> USE IntakeAssumption DEF IInv
<1>1. /\ sockfd \in Fds /\ sockfd \notin Range(queue) \cup Seated /\ Len(queue) \in Nat
      /\ queue = <<>> <=> Len(queue) = 0
  <2>1. sockfd \in Fds /\ sockfd \notin Range(queue) \cup Seated
    BY DEF add_sockfd, TypeOK, FdOwnership
  <2> QED BY <2>1 DEF TypeOK
<1>2. /\ queue' = Append(queue, sockfd) /\ sockfd' = NoFd
      /\ sock_head' = sockfd /\ sockfd_current_num' = sockfd_current_num + 1
      /\ UNCHANGED <<mutex_sock_lock, sockfd_set, maxfd, rpc, set_num, event_num, open>>
  BY DEF add_sockfd, Link, reactors
<1>3. /\ Append(queue, sockfd) \in Seq(Fds) /\ Append(queue, sockfd) # <<>>
      /\ Len(Append(queue, sockfd)) = Len(queue) + 1
      /\ \A i \in 1..Len(queue) : Append(queue, sockfd)[i] = queue[i]
      /\ Append(queue, sockfd)[Len(queue) + 1] = sockfd
      /\ Range(Append(queue, sockfd)) = Range(queue) \cup {sockfd}
      /\ IsInjective(Append(queue, sockfd))
  BY <1>1, AppendFacts DEF TypeOK, FdOwnership
<1>4. /\ sock_tail' = IF queue = <<>> THEN sockfd ELSE sock_tail
      /\ next' = IF queue = <<>> THEN [next EXCEPT ![sockfd] = NULL]
                 ELSE [next EXCEPT ![sockfd] = NULL, ![sock_head] = sockfd]
  BY <1>1 DEF add_sockfd, Link, ListInv
<1>5. queue # <<>> => sock_head \in Range(queue) /\ sock_head # sockfd /\ sock_head \in Fds
  <2>1. queue # <<>> => Len(queue) \in DOMAIN queue /\ sock_head = queue[Len(queue)]
    BY <1>1 DEF ListInv, TypeOK
  <2> QED BY <1>1, <2>1 DEF Range, TypeOK
<1>6. TypeOK'
  <2>1. next' \in [Fds -> Fds \cup {NULL}]
    BY <1>1, <1>4, <1>5 DEF TypeOK
  <2>2. sock_tail' \in Fds \cup {NULL} /\ sockfd_current_num' \in Nat
    BY <1>1, <1>2, <1>4 DEF TypeOK
  <2> QED BY <1>1, <1>2, <1>3, <2>1, <2>2 DEF TypeOK
<1>7. FillInv' /\ MaxfdCovers'
  BY <1>2 DEF FillInv, MaxfdCovers
<1>8. ListInv'
  <2>1. sockfd_current_num' = Len(queue') /\ sock_head' = queue'[Len(queue')]
    BY <1>1, <1>2, <1>3 DEF ListInv
  <2>2. sock_tail' = queue'[1]
    BY <1>1, <1>2, <1>3, <1>4 DEF ListInv
  <2>3. \A i \in 1..Len(queue) : queue[i] # sockfd /\ queue[i] \in Fds
    BY <1>1 DEF Range, TypeOK
  <2>4. \A i \in 1..Len(queue) : queue[i] = sock_head <=> i = Len(queue)
    BY <1>1 DEF ListInv, FdOwnership, IsInjective, TypeOK
  <2>5. ASSUME NEW i \in 1..Len(queue')
        PROVE  next'[queue'[i]] = IF i = Len(queue') THEN NULL ELSE queue'[i + 1]
    <3>1. CASE i = Len(queue')
      BY <1>1, <1>2, <1>3, <1>4, <1>5, <3>1 DEF TypeOK
    <3>2. CASE i = Len(queue)
      <4>1. queue # <<>> /\ queue'[i] = sock_head /\ queue'[i + 1] = sockfd /\ i # Len(queue')
        BY <1>1, <1>2, <1>3, <2>4, <3>2
      <4> QED BY <1>4, <1>5, <4>1 DEF TypeOK
    <3>3. CASE i < Len(queue)
      <4>1. /\ i \in 1..Len(queue) /\ i + 1 \in 1..Len(queue) /\ queue # <<>>
            /\ queue'[i] = queue[i] /\ queue'[i + 1] = queue[i + 1] /\ i # Len(queue')
        BY <1>1, <1>2, <1>3, <3>3
      <4>2. queue[i] # sock_head /\ queue[i] # sockfd
        BY <2>3, <2>4, <3>3, <4>1
      <4>3. next'[queue[i]] = next[queue[i]]
        BY <1>4, <2>3, <4>1, <4>2 DEF TypeOK
      <4> QED BY <3>3, <4>1, <4>3 DEF ListInv
    <3>4. i = Len(queue') \/ i = Len(queue) \/ i < Len(queue)
      BY <1>1, <1>2, <1>3
    <3> QED BY <3>1, <3>2, <3>3, <3>4
  <2> QED BY <1>2, <1>3, <2>1, <2>2, <2>5 DEF ListInv
<1>9. FdOwnership'
  <2>1. Seated' = Seated /\ NoFd \notin Range(queue) \cup Seated
    BY <1>2 DEF Seated, Range, TypeOK
  <2> QED BY <1>1, <1>2, <1>3, <2>1 DEF FdOwnership
<1> QED BY <1>6, <1>7, <1>8, <1>9

LEMMA StepSeats == ASSUME IInv, NEW r \in Reactors, InSeats(r) PROVE IInv'
<1> USE IntakeAssumption DEF IInv
<1>1. queue # <<>> /\ Len(queue) \in Nat \ {0}
  BY DEF InSeats, MoreToTake, ListInv, TypeOK
<1>2. /\ Tail(queue) \in Seq(Fds) /\ Len(Tail(queue)) = Len(queue) - 1
      /\ \A i \in 1..Len(queue) - 1 : Tail(queue)[i] = queue[i + 1]
      /\ Tail(queue) = <<>> <=> Len(queue) = 1
      /\ Range(Tail(queue)) = Range(queue) \ {queue[1]} /\ queue[1] \in Range(queue)
      /\ IsInjective(Tail(queue))
  BY <1>1, TailFacts DEF TypeOK, FdOwnership
<1> DEFINE f == queue[1]
<1>3. f \in Fds /\ f \notin Seated /\ f # sockfd /\ sock_tail = f
  BY <1>1, <1>2 DEF TypeOK, FdOwnership, ListInv
<1>4. next[f] = IF Len(queue) = 1 THEN NULL ELSE queue[2]
  <2>1. 1 \in 1..Len(queue) /\ 1 + 1 = 2
    BY <1>1
  <2> QED BY <2>1 DEF ListInv
<1> HIDE DEF f
<1>5. PICK i \in Free(r) :
        /\ \A k \in Free(r) : i <= k
        /\ sockfd_set' = [sockfd_set EXCEPT ![r][i] = sock_tail]
        /\ set_num' = [set_num EXCEPT ![r] = i]
  BY DEF InSeats
<1>6. /\ i \in Slots /\ i >= set_num[r] /\ sockfd_set[r][i] = NoFd /\ set_num[r] \in Slots
      /\ sockfd_set'[r][i] = f
      /\ \A s \in Reactors, k \in Slots : s # r \/ k # i => sockfd_set'[s][k] = sockfd_set[s][k]
      /\ sockfd_set' \in [Reactors -> [Slots -> Fds \cup {NoFd}]]
  BY <1>3, <1>5 DEF Free, TypeOK
<1>7. /\ queue' = Tail(queue) /\ sock_tail' = next[sock_tail] /\ next' = next
      /\ sockfd_current_num' = sockfd_current_num - 1 /\ sock_head' = sock_head
      /\ event_num' = [event_num EXCEPT ![r] = event_num[r] + 1]
      /\ UNCHANGED <<mutex_sock_lock, sockfd, maxfd, rpc, open>> /\ rpc[r] = "fill"
  BY DEF InSeats, rm_sockfd
<1>8. TypeOK'
  <2>1. set_num' \in [Reactors -> Slots] /\ event_num' \in [Reactors -> Nat]
    BY <1>5, <1>6, <1>7 DEF TypeOK
  <2>2. sock_tail' \in Fds \cup {NULL} /\ sockfd_current_num' \in Nat
    BY <1>1, <1>3, <1>7 DEF TypeOK, ListInv
  <2> QED BY <1>2, <1>6, <1>7, <2>1, <2>2 DEF TypeOK
<1>9. FillInv'
  <2>1. i \in Int /\ set_num[r] \in Int /\ Slots \subseteq Int
    BY <1>6 DEF Slots
  <2>2. ASSUME NEW s \in Reactors, rpc'[s] = "fill" PROVE s = r /\ mutex_sock_lock' = s
    BY <1>7, <2>2 DEF FillInv
  <2>3. ASSUME NEW k \in Slots, sockfd_set'[r][k] # NoFd PROVE k <= maxfd[r] \/ k <= i
    <3>1. CASE k = i
      BY <2>1, <3>1
    <3>2. CASE k # i
      <4>1. k <= maxfd[r] \/ k <= set_num[r]
        BY <1>6, <1>7, <2>3, <3>2 DEF FillInv
      <4> QED BY <1>6, <2>1, <4>1
    <3> QED BY <3>1, <3>2
  <2>4. set_num'[r] = i
    BY <1>5 DEF TypeOK
  <2> QED BY <1>7, <2>2, <2>3, <2>4 DEF FillInv
<1>10. ListInv'
  <2>1. \A m \in 1..Len(queue') : queue'[m] = queue[m + 1] /\ m + 1 \in 1..Len(queue)
    BY <1>1, <1>2, <1>7
  <2>2. sock_tail' = IF queue' = <<>> THEN NULL ELSE queue'[1]
    <3>1. Len(queue) # 1 => 1 \in 1..Len(queue') /\ queue'[1] = queue[2]
      BY <1>1, <1>2, <1>7
    <3> QED BY <1>2, <1>3, <1>4, <1>7, <3>1
  <2>3. queue' # <<>> => sock_head' = queue'[Len(queue')]
    BY <1>1, <1>2, <1>7, <2>1 DEF ListInv
  <2>4. \A m \in 1..Len(queue') :
          next'[queue'[m]] = IF m = Len(queue') THEN NULL ELSE queue'[m + 1]
    <3> TAKE m \in 1..Len(queue')
    <3>1. next[queue[m + 1]] = IF m + 1 = Len(queue) THEN NULL ELSE queue[(m + 1) + 1]
      BY <2>1 DEF ListInv
    <3>2. /\ m = Len(queue') <=> m + 1 = Len(queue)
          /\ m # Len(queue') => m + 1 \in 1..Len(queue')
      <4>1. Len(queue') = Len(queue) - 1 /\ m \in Int /\ 1 <= m /\ m <= Len(queue')
        BY <1>1, <1>2, <1>7
      <4> HIDE DEF IInv
      <4> QED BY <1>1, <4>1
    <3> QED BY <1>7, <2>1, <3>1, <3>2
  <2>5. sockfd_current_num' = Len(queue')
    BY <1>1, <1>2, <1>7 DEF ListInv
  <2> QED BY <2>2, <2>3, <2>4, <2>5 DEF ListInv
<1>11. FdOwnership'
  <2>1. Seated' = Seated \cup {f}
    <3>1. \A s \in Reactors, k \in Slots : sockfd_set[s][k] # NoFd => s # r \/ k # i
      BY <1>6
    <3> QED BY <1>3, <1>6, <3>1 DEF Seated
  <2>2. \A s \in Reactors, k \in Slots : sockfd_set[s][k] # f
    BY <1>3 DEF Seated
  <2>3. f = queue[1]
    BY DEF f
  <2>4. /\ open' = ({sockfd'} \ {NoFd}) \cup Range(queue') \cup Seated'
        /\ sockfd' \notin Range(queue') \cup Seated'
        /\ IsInjective(queue') /\ Range(queue') \cap Seated' = {}
    BY <1>2, <1>3, <1>7, <2>1, <2>3 DEF FdOwnership
  <2>5. \A s, t \in Reactors, k, m \in Slots :
          sockfd_set'[s][k] # NoFd /\ sockfd_set'[s][k] = sockfd_set'[t][m] => s = t /\ k = m
    BY <1>6, <2>2 DEF FdOwnership
  <2> QED BY <2>4, <2>5 DEF FdOwnership
<1>12. MaxfdCovers'
  BY <1>6, <1>7 DEF MaxfdCovers, FillInv
<1> QED BY <1>8, <1>9, <1>10, <1>11, <1>12

LEMMA StepRemoves ==
  ASSUME IInv, NEW r \in Reactors, NEW i \in Slots, rm_sockFdSet(r, i)
  PROVE  IInv'
<1> USE IntakeAssumption DEF IInv
<1>1. /\ sockfd_set' = [sockfd_set EXCEPT ![r][i] = NoFd] /\ sockfd_set[r][i] # NoFd
      /\ open' = open \ {sockfd_set[r][i]} /\ rpc[r] = "serve"
      /\ UNCHANGED <<sock_head, sock_tail, next, sockfd_current_num, queue,
                     mutex_sock_lock, sockfd, rpc, set_num, event_num>>
  BY DEF rm_sockFdSet, links
<1>2. /\ sockfd_set'[r][i] = NoFd
      /\ \A s \in Reactors, k \in Slots : s # r \/ k # i => sockfd_set'[s][k] = sockfd_set[s][k]
      /\ sockfd_set' \in [Reactors -> [Slots -> Fds \cup {NoFd}]]
  BY <1>1 DEF TypeOK
<1>3. maxfd' = maxfd
  <2>1. ASSUME i = maxfd[r] PROVE maxfd' = maxfd
    <3>1. PICK k \in 0..i : /\ \A m \in k + 1..i : sockfd_set'[r][m] # NoFd
                            /\ maxfd' = [maxfd EXCEPT ![r] = k]
      BY <2>1 DEF rm_sockFdSet
    <3>2. k = i
      <4>1. i \in Int /\ k \in Int /\ (k # i => i \in k + 1..i)
        BY DEF Slots
      <4> QED BY <1>2, <3>1, <4>1
    <3> QED BY <2>1, <3>1, <3>2 DEF TypeOK
  <2> QED BY <2>1 DEF rm_sockFdSet
<1>4. TypeOK' /\ ListInv' /\ FillInv' /\ MaxfdCovers'
  BY <1>1, <1>2, <1>3 DEF TypeOK, ListInv, FillInv, MaxfdCovers
<1>5. Seated' = Seated \ {sockfd_set[r][i]}
  <2>1. \A s \in Reactors, k \in Slots :
          sockfd_set[s][k] = sockfd_set[r][i] => s = r /\ k = i
    BY <1>1 DEF FdOwnership
  <2> QED BY <1>2, <2>1 DEF Seated
<1>6. sockfd_set[r][i] \in Seated
  BY <1>1 DEF Seated
<1>7. FdOwnership'
  BY <1>1, <1>2, <1>5, <1>6 DEF FdOwnership
<1> QED BY <1>4, <1>7

LEMMA StepOther ==
  ASSUME IInv, NEW r \in Reactors, InLocks(r) \/ InFull(r) \/ InLeaves(r) \/ Loops(r)
  PROVE  IInv'
<1> USE IntakeAssumption DEF IInv
<1>1. /\ UNCHANGED <<sock_head, sock_tail, next, sockfd_current_num, queue, sockfd, sockfd_set, open>>
      /\ 0 \in Slots
  BY DEF InLocks, InFull, InLeaves, Loops, links, Slots
<1>2. ListInv' /\ FdOwnership'
  BY <1>1 DEF ListInv, FdOwnership, Seated
<1>3. CASE InLocks(r)
  <2>1. TypeOK'
    BY <1>1, <1>3 DEF InLocks, TypeOK
  <2>2. FillInv' /\ MaxfdCovers'
    BY <1>1, <1>3 DEF InLocks, TypeOK, FillInv, MaxfdCovers
  <2> QED BY <1>2, <2>1, <2>2
<1>4. CASE InFull(r)
  <2>1. TypeOK'
    BY <1>1, <1>4 DEF InFull, Returns, TypeOK
  <2>2. FillInv' /\ MaxfdCovers'
    BY <1>1, <1>4 DEF InFull, Returns, TypeOK, FillInv, MaxfdCovers
  <2> QED BY <1>2, <2>1, <2>2
<1>5. CASE InLeaves(r)
  <2>1. TypeOK'
    BY <1>1, <1>5 DEF InLeaves, Returns, Raised, TypeOK
  <2>2. /\ maxfd'[r] = IF maxfd[r] < set_num[r] THEN set_num[r] ELSE maxfd[r]
        /\ maxfd[r] \in Int /\ set_num[r] \in Int /\ Slots \subseteq Int
        /\ \A s \in Reactors : s # r => maxfd'[s] = maxfd[s] /\ mutex_sock_lock # s /\ rpc'[s] # "fill"
        /\ rpc'[r] = "serve" /\ mutex_sock_lock = r
    BY <1>5 DEF InLeaves, Returns, Raised, TypeOK, FillInv, Slots
  <2>3. \A k \in Slots : sockfd_set[r][k] # NoFd => k <= maxfd[r] \/ k <= set_num[r]
    BY <1>5 DEF InLeaves, FillInv
  <2>4. \A k \in Slots : sockfd_set[r][k] # NoFd => k <= maxfd'[r]
    BY <2>2, <2>3
  <2>5. FillInv' /\ MaxfdCovers'
    BY <1>1, <2>2, <2>4 DEF FillInv, MaxfdCovers
  <2> QED BY <1>2, <2>1, <2>5
<1>6. CASE Loops(r)
  BY <1>1, <1>2, <1>6 DEF Loops, TypeOK, FillInv, MaxfdCovers
<1> QED BY <1>3, <1>4, <1>5, <1>6

LEMMA IInvIsInductive == IInv /\ [Next]_vars => IInv'
<1> SUFFICES ASSUME IInv, [Next]_vars PROVE IInv'
  OBVIOUS
<1>1. CASE UNCHANGED vars
  BY <1>1 DEF vars, links, reactors, IInv, TypeOK, FillInv, ListInv, FdOwnership, Seated, MaxfdCovers
<1>2. CASE Next
  BY <1>2, StepAccept, StepAdd, StepSeats, StepRemoves, StepOther DEF Next, Reactor, In_reactor_event
<1> QED BY <1>1, <1>2

THEOREM Inductive == Spec => []IInv
BY InitIInv, IInvIsInductive, PTL DEF Spec

(* Every field and local keeps to its values; in particular maxfd is       *)
(* always a slot number.                                                   *)
THEOREM TypeCorrect == Spec => []TypeOK
<1>1. IInv => TypeOK
  BY DEF IInv
<1> QED BY <1>1, Inductive, PTL

(* Every open descriptor is in exactly one place, whatever the threads do. *)
THEOREM ClientsAreOwned == Spec => []FdOwnership
<1>1. IInv => FdOwnership
  BY DEF IInv
<1> QED BY <1>1, Inductive, PTL

(* The queue between accept_thread and the reactors stays well linked,     *)
(* although sock_head dangles whenever the queue has been emptied.         *)
THEOREM QueueIsSound == Spec => []ListInv
<1>1. IInv => ListInv
  BY DEF IInv
<1> QED BY <1>1, Inductive, PTL

(* No slot in use lies above maxfd of a reactor that left In_reactor_event *)
(* the regular way.                                                        *)
THEOREM MaxfdIsABound == Spec => []MaxfdCovers
<1>1. IInv => MaxfdCovers
  BY DEF IInv
<1> QED BY <1>1, Inductive, PTL

-----------------------------------------------------------------------------
(* The intake implements Dispatch: add_sockfd is the arrival of a client,  *)
(* InSeats its assignment, rm_sockFdSet its departure; the other steps     *)
(* change nothing Dispatch has.                                            *)

Server == [f \in Fds |-> ServerOf(f)]

(* The reactor a client has is the one with a slot that holds it.          *)
LEMMA ServerFacts ==
  ASSUME TypeOK, FdOwnership, NEW f \in Fds
  PROVE  /\ ServerOf(f) \in Reactors \cup {NULL}
         /\ \A r \in Reactors : ServerOf(f) = r <=> Serves(r, f)
         /\ ServerOf(f) = NULL <=> f \notin Seated
<1>1. f # NoFd /\ NULL \notin Reactors
  BY IntakeAssumption
<1>2. \A r, s \in Reactors : Serves(r, f) /\ Serves(s, f) => r = s
  BY <1>1 DEF Serves, FdOwnership
<1>3. f \in Seated <=> \E r \in Reactors : Serves(r, f)
  BY <1>1 DEF Seated, Serves
<1>4. CASE \E r \in Reactors : Serves(r, f)
  <2>1. ServerOf(f) \in Reactors /\ Serves(ServerOf(f), f)
    BY <1>4 DEF ServerOf
  <2> QED BY <1>1, <1>2, <1>3, <1>4, <2>1
<1>5. CASE ~\E r \in Reactors : Serves(r, f)
  <2>1. ServerOf(f) = NULL
    BY <1>5 DEF ServerOf
  <2> QED BY <1>1, <1>3, <1>5, <2>1
<1> QED BY <1>4, <1>5

(* A reactor with a free slot has fewer clients than slots.                *)
LEMMA RoomFacts ==
  ASSUME TypeOK, FdOwnership, NEW r \in Reactors, NEW i \in Slots, sockfd_set[r][i] = NoFd
  PROVE  Cardinality({f \in Fds : Server[f] = r}) < MAXCLIENT
<1> DEFINE used == {k \in Slots : sockfd_set[r][k] # NoFd}
           at == [k \in used |-> sockfd_set[r][k]]
           has == {f \in Fds : Server[f] = r}
<1>1. IsFiniteSet(Slots) /\ Cardinality(Slots) = MAXCLIENT /\ MAXCLIENT \in Nat
  BY FS_Interval, IntakeAssumption DEF Slots
<1>2. IsFiniteSet(Slots \ {i}) /\ Cardinality(Slots \ {i}) = MAXCLIENT - 1
  BY <1>1, FS_RemoveElement
<1>3. used \subseteq Slots \ {i}
  OBVIOUS
<1>4. IsFiniteSet(used) /\ Cardinality(used) <= MAXCLIENT - 1
  BY <1>2, <1>3, FS_Subset
<1>5. at \in [used -> has] /\ \A f \in has : \E k \in used : at[k] = f
  <2>1. ASSUME NEW k \in used PROVE sockfd_set[r][k] \in has
    <3>1. sockfd_set[r][k] \in Fds /\ Serves(r, sockfd_set[r][k])
      BY DEF TypeOK, Serves
    <3> QED BY <3>1, ServerFacts DEF Server
  <2>2. ASSUME NEW f \in has PROVE \E k \in used : at[k] = f
    <3>1. Serves(r, f) /\ f # NoFd
      BY ServerFacts, IntakeAssumption DEF Server
    <3> QED BY <3>1 DEF Serves
  <2> QED BY <2>1, <2>2
<1> HIDE DEF used, at, has
<1>6. at \in Surjection(used, has)
  BY <1>5 DEF Surjection
<1>7. Cardinality(has) <= Cardinality(used) /\ IsFiniteSet(has)
  BY <1>4, <1>6, FS_Surjection
<1>8. Cardinality(has) \in Nat /\ Cardinality(used) \in Nat
  BY <1>4, <1>7, FS_CardinalityType
<1>9. Cardinality(has) < MAXCLIENT
  BY <1>1, <1>4, <1>7, <1>8
<1> QED BY <1>9 DEF has

(* The same before and after a step. *)
ServersKnown ==
  \A f \in Fds :
    /\ ServerOf(f) \in Reactors \cup {NULL}
    /\ \A r \in Reactors : ServerOf(f) = r <=> Serves(r, f)
    /\ ServerOf(f) = NULL <=> f \notin Seated

LEMMA ServersBefore == IInv => ServersKnown
BY ServerFacts DEF IInv, ServersKnown

LEMMA ServersAfter == IInv' => ServersKnown'
BY ServersBefore, PTL

(* Whose slots do not change keeps its reactor, or its lack of one. *)
LEMMA SameServer ==
  ASSUME IInv, IInv', NEW f \in Fds, \A r \in Reactors : Serves(r, f) <=> Serves(r, f)'
  PROVE  ServerOf(f)' = ServerOf(f)
<1>1. /\ ServerOf(f) \in Reactors \cup {NULL} /\ ServerOf(f)' \in Reactors \cup {NULL}
      /\ \A r \in Reactors : ServerOf(f) = r <=> Serves(r, f)
      /\ \A r \in Reactors : ServerOf(f)' = r <=> Serves(r, f)'
  BY ServersBefore, ServersAfter DEF ServersKnown
<1> QED BY <1>1, IntakeAssumption

LEMMA Arrives ==
  ASSUME IInv, IInv', add_sockfd
  PROVE  HandOut!Arrive(sockfd) /\ sockfd \in Fds
<1>1. sockfd \in Fds /\ sockfd \notin Range(queue) /\ sockfd \notin Seated
  BY DEF add_sockfd, IInv, TypeOK, FdOwnership
<1>2. queue' = Append(queue, sockfd) /\ UNCHANGED sockfd_set
  BY DEF add_sockfd, Link, reactors
<1>3. Server[sockfd] = NULL
  BY <1>1, ServersBefore DEF ServersKnown, Server
<1>4. Server' = Server
  BY <1>2 DEF Server, ServerOf, Serves
<1> QED BY <1>1, <1>2, <1>3, <1>4 DEF HandOut!Arrive, HandOut!Range, Range, Server

LEMMA Assigns ==
  ASSUME IInv, IInv', NEW r \in Reactors, InSeats(r)
  PROVE  HandOut!Assign(r)
<1>1. /\ queue # <<>> /\ Head(queue) = sock_tail /\ Head(queue) \in Range(queue)
      /\ Head(queue) \in Fds /\ queue' = Tail(queue)
  <2>1. queue # <<>> /\ queue' = Tail(queue) /\ queue \in Seq(Fds)
    BY DEF InSeats, MoreToTake, rm_sockfd, IInv, ListInv, TypeOK
  <2>2. Head(queue) = queue[1] /\ 1 \in DOMAIN queue /\ queue[1] \in Fds
    BY <2>1
  <2> QED BY <2>1, <2>2 DEF IInv, ListInv, Range
<1>2. PICK c \in Fds : c = Head(queue)
  BY <1>1
<1>3. PICK i \in Slots : sockfd_set[r][i] = NoFd /\ sockfd_set' = [sockfd_set EXCEPT ![r][i] = c]
  BY <1>1, <1>2 DEF InSeats, Free
<1>4. Cardinality({f \in Fds : Server[f] = r}) < MAXCLIENT
  BY <1>3, RoomFacts DEF IInv
<1>5. /\ sockfd_set'[r][i] = c
      /\ \A s \in Reactors, k \in Slots : s # r \/ k # i => sockfd_set'[s][k] = sockfd_set[s][k]
  BY <1>3 DEF IInv, TypeOK
<1>6. ServerOf(c)' = r
  BY <1>5, ServersAfter DEF ServersKnown, Serves
<1>7. ASSUME NEW f \in Fds, f # c PROVE ServerOf(f)' = ServerOf(f)
  <2>1. ASSUME NEW s \in Reactors PROVE Serves(s, f) <=> Serves(s, f)'
    BY <1>3, <1>5, <1>7, IntakeAssumption DEF Serves
  <2> QED BY <2>1, SameServer
<1>8. Server' = [Server EXCEPT ![c] = r]
  BY <1>6, <1>7 DEF Server
<1>9. HandOut!Cardinality({f \in Fds : Server[f] = r}) = Cardinality({f \in Fds : Server[f] = r})
  BY DEF HandOut!Cardinality, Cardinality, HandOut!IsFiniteSet, IsFiniteSet
<1> QED BY <1>1, <1>2, <1>4, <1>8, <1>9 DEF HandOut!Assign, Server

LEMMA Departs ==
  ASSUME IInv, IInv', NEW r \in Reactors, NEW i \in Slots, rm_sockFdSet(r, i)
  PROVE  HandOut!Leave(sockfd_set[r][i]) /\ sockfd_set[r][i] \in Fds
<1>1. sockfd_set[r][i] \in Fds
  BY DEF rm_sockFdSet, IInv, TypeOK
<1>2. PICK c \in Fds : c = sockfd_set[r][i]
  BY <1>1
<1>3. /\ sockfd_set' = [sockfd_set EXCEPT ![r][i] = NoFd] /\ UNCHANGED queue
  BY DEF rm_sockFdSet, links, IInv, TypeOK
<1>4. /\ sockfd_set'[r][i] = NoFd
      /\ \A s \in Reactors, k \in Slots : s # r \/ k # i => sockfd_set'[s][k] = sockfd_set[s][k]
  BY <1>3 DEF IInv, TypeOK
<1>5. \A s \in Reactors, k \in Slots : s # r \/ k # i => sockfd_set[s][k] # c
  BY <1>2, IntakeAssumption DEF IInv, FdOwnership
<1>6. Server[c] # NULL
  <2>1. Serves(r, c)
    BY <1>2 DEF Serves
  <2> QED BY <2>1, ServersBefore, IntakeAssumption DEF ServersKnown, Server
<1>7. ServerOf(c)' = NULL
  <2>1. \A s \in Reactors : ~Serves(s, c)'
    BY <1>4, <1>5, IntakeAssumption DEF Serves
  <2> QED BY <2>1, ServersAfter DEF ServersKnown
<1>8. ASSUME NEW f \in Fds, f # c PROVE ServerOf(f)' = ServerOf(f)
  <2>1. ASSUME NEW s \in Reactors PROVE Serves(s, f) <=> Serves(s, f)'
    BY <1>2, <1>4, <1>8, IntakeAssumption DEF Serves
  <2> QED BY <2>1, SameServer
<1>9. Server' = [Server EXCEPT ![c] = NULL]
  BY <1>7, <1>8 DEF Server
<1> QED BY <1>1, <1>2, <1>3, <1>6, <1>9 DEF HandOut!Leave, Server

(* The intake implements Dispatch: clients are handed out in the order in  *)
(* which they were accepted, each to one reactor with room for it, which   *)
(* it keeps until it hangs up.                                             *)
THEOREM DispatchRefined == Spec => RefinesDispatch
<1>1. Init => HandOut!Init
  <2> SUFFICES ASSUME Init PROVE HandOut!Init
    OBVIOUS
  <2>1. IInv /\ Seated = {} /\ queue = <<>>
    BY InitIInv DEF Init, Seated
  <2>2. \A f \in Fds : ServerOf(f) = NULL
    BY <2>1, ServersBefore DEF ServersKnown
  <2> QED BY <2>1, <2>2 DEF HandOut!Init
<1>2. ASSUME IInv, IInv', [Next]_vars PROVE [HandOut!Next]_(HandOut!vars)
  <2>1. ASSUME UNCHANGED <<queue, sockfd_set>> PROVE UNCHANGED HandOut!vars
    BY <2>1 DEF HandOut!vars, ServerOf, Serves
  <2>2. ASSUME NEW f \in Fds, Accept(f) PROVE UNCHANGED HandOut!vars
    BY <2>1, <2>2 DEF Accept, links, reactors
  <2>3. CASE add_sockfd
    BY <1>2, <2>3, Arrives DEF HandOut!Next
  <2>4. ASSUME NEW r \in Reactors, InSeats(r) PROVE HandOut!Next
    BY <1>2, <2>4, Assigns DEF HandOut!Next
  <2>5. ASSUME NEW r \in Reactors, NEW i \in Slots, rm_sockFdSet(r, i) PROVE HandOut!Next
    BY <1>2, <2>5, Departs DEF HandOut!Next
  <2>6. ASSUME NEW r \in Reactors, InLocks(r) \/ InFull(r) \/ InLeaves(r) \/ Loops(r)
        PROVE  UNCHANGED HandOut!vars
    BY <2>1, <2>6 DEF InLocks, InFull, InLeaves, Loops, links
  <2>7. CASE UNCHANGED vars
    BY <2>1, <2>7 DEF vars, links, reactors
  <2> QED BY <1>2, <2>2, <2>3, <2>4, <2>5, <2>6, <2>7 DEF Next, Reactor, In_reactor_event
<1> QED BY <1>1, <1>2, Inductive, PTL DEF Spec, RefinesDispatch, HandOut!Spec
=============================================================================

-------------------------- MODULE EventLoopProofs --------------------------
(* Theorems about a reactor and its workers, for any number of             *)
(* descriptors, memory cells and workers and any limit of the pool.        *)
EXTENDS EventLoop, QueueLemmas

LEMMA InitIInv == Init => IInv
<1> SUFFICES ASSUME Init PROVE IInv
  OBVIOUS
<1> USE EventLoopAssumption DEF Init
<1>1. TypeOK
  <2>1. <<>> \in Seq(Cells)
    OBVIOUS
  <2>2. strayed \in BOOLEAN
    OBVIOUS
  <2> QED BY <2>1, <2>2 DEF TypeOK
<1>2. Range(evs) = {} /\ IsInjective(evs) /\ Len(evs) = 0
  BY DEF Range, IsInjective
<1>3. ListInv /\ WalkInv /\ NodesAreSeated /\ LiveNotClosed
  BY <1>2 DEF ListInv, WalkInv, Walking, NodesAreSeated, LiveNotClosed
<1> QED BY <1>1, <1>3 DEF IInv

(* The node after one of the list is in the list, or there is none. *)
LEMMA NextInList ==
  ASSUME TypeOK, ListInv, NEW c \in Range(evs)
  PROVE  c \in Cells /\ isopen[c] # "freed" /\ next[c] \in Range(evs) \cup {NULL}
<1>1. PICK i \in 1..Len(evs) : c = evs[i]
  BY DEF Range, TypeOK
<1>2. next[c] = IF i = Len(evs) THEN NULL ELSE evs[i + 1]
  BY <1>1 DEF ListInv
<1>3. i # Len(evs) => i + 1 \in DOMAIN evs
  BY DEF TypeOK
<1> QED BY <1>2, <1>3 DEF Range, ListInv

(* While nobody has the lock, nobody walks. *)
LEMMA NobodyWalks ==
  ASSUME IInv, mutex_EVENT_lock = NULL
  PROVE  \A w \in Workers : ~Walking(w)
BY EventLoopAssumption DEF IInv, WalkInv

LEMMA StepKernel ==
  ASSUME IInv, NEW f \in Fds, Seat(f) \/ Talks(f) \/ Resets(f)
  PROVE  IInv'
<1> USE EventLoopAssumption DEF IInv
<1>1. /\ UNCHANGED <<evs, next, fd, isopen, temp, mutex_EVENT_lock, rpc, events, perevise>>
      /\ UNCHANGED <<jobs, wpc, cur, arg, strayed>>
      /\ seated \subseteq seated' /\ seated' \subseteq Fds
      /\ rx' \in [Fds -> {"none", "data", "eof", "reset"}]
      /\ \A g \in Fds : rx[g] = "eof" => rx'[g] = "eof"
  BY DEF Seat, Talks, Resets, nodes, reactor, workers, TypeOK
<1>2. TypeOK' /\ WalkInv' /\ ListInv' /\ NodesAreSeated'
  BY <1>1 DEF TypeOK, WalkInv, Walking, ListInv, NodesAreSeated
<1>3. LiveNotClosed'
  BY <1>1 DEF LiveNotClosed, NodesAreSeated, TypeOK
<1> QED BY <1>2, <1>3

LEMMA StepReactor ==
  ASSUME IInv, Waits \/ Looks \/ Submits \/ Keeps \/ SweepEnds
  PROVE  IInv'
<1> USE EventLoopAssumption DEF IInv
<1>1. /\ UNCHANGED <<evs, next, fd, isopen, temp, mutex_EVENT_lock, seated, rx>>
      /\ UNCHANGED <<wpc, cur, arg, strayed>>
  BY DEF Waits, Looks, Submits, Keeps, SweepEnds, nodes, kernel, workers
<1>2. temp = NULL
  BY DEF Waits, Looks, Submits, Keeps, SweepEnds, ListInv
<1>3. perevise' \in Range(evs) \cup {NULL}
  <2>1. CASE Keeps
    <3>1. evs # <<>> => evs[1] \in Range(evs)
      BY DEF TypeOK, Range
    <3> QED BY <2>1, <3>1, NextInList DEF Keeps, Candidate, head, ListInv
  <2>2. CASE ~Keeps
    BY <2>2 DEF Waits, Looks, Submits, SweepEnds, ListInv
  <2> QED BY <2>1, <2>2
<1>4. TypeOK'
  <2>1. perevise' \in Cells \cup {NULL}
    BY <1>3, NextInList
  <2>2. /\ rpc' \in {"wait", "mark", "look", "submit", "sweep"} /\ events' \subseteq Fds
        /\ jobs' \in 0..MaxJobs
    BY DEF Waits, Looks, Submits, Keeps, SweepEnds, Ready, TypeOK
  <2> QED BY <1>1, <2>1, <2>2 DEF TypeOK
<1>5. WalkInv'
  <2>1. rpc' # "mark" => events' = {}
    BY DEF Waits, Looks, Submits, Keeps, SweepEnds, WalkInv
  <2> QED BY <1>1, <2>1 DEF WalkInv, Walking
<1>6. events' \subseteq seated
  BY DEF Waits, Looks, Submits, Keeps, SweepEnds, reactor, Ready, NodesAreSeated
<1>7. ListInv' /\ NodesAreSeated' /\ LiveNotClosed'
  BY <1>1, <1>2, <1>3, <1>6 DEF ListInv, NodesAreSeated, LiveNotClosed
<1> QED BY <1>4, <1>5, <1>7

LEMMA StepAllocates == ASSUME IInv, NEW f \in Fds, Allocates(f) PROVE IInv'
<1> USE EventLoopAssumption DEF IInv
<1>1. PICK c \in Cells :
        /\ isopen[c] = "freed" /\ isopen' = [isopen EXCEPT ![c] = "open"]
        /\ fd' = [fd EXCEPT ![c] = f] /\ next' = [next EXCEPT ![c] = NULL] /\ temp' = c
  BY DEF Allocates
<1>2. /\ rpc = "mark" /\ temp = NULL /\ f \in events
      /\ UNCHANGED <<evs, mutex_EVENT_lock, seated, rx, rpc, events, perevise, jobs>>
      /\ UNCHANGED <<wpc, cur, arg, strayed>>
  BY DEF Allocates, kernel, reactor, workers
<1>3. c \notin Range(evs) /\ c # NULL
  BY <1>1 DEF ListInv
<1>4. TypeOK'
  BY <1>1, <1>2 DEF TypeOK
<1>5. \A d \in Range(evs) : isopen'[d] = isopen[d] /\ fd'[d] = fd[d] /\ next'[d] = next[d]
  BY <1>1, <1>3 DEF TypeOK, ListInv
<1>6. ListInv'
  <2>1. Range(evs) = {d \in Cells : isopen'[d] # "freed"} \ {c}
    BY <1>1, <1>2, <1>3 DEF ListInv, TypeOK
  <2>2. \A i \in 1..Len(evs) : next'[evs[i]] = next[evs[i]]
    BY <1>5 DEF Range, TypeOK
  <2>3. isopen'[c] = "open" /\ next'[c] = NULL
    BY <1>1 DEF TypeOK
  <2> QED BY <1>1, <1>2, <2>1, <2>2, <2>3 DEF ListInv
<1>7. NodesAreSeated'
  <2>1. fd'[c] = f
    BY <1>1 DEF TypeOK
  <2> QED BY <1>1, <1>2, <1>5, <2>1 DEF NodesAreSeated
<1>8. LiveNotClosed'
  BY <1>2, <1>5 DEF LiveNotClosed
<1>9. WalkInv'
  <2>1. isopen'[c] = "open"
    BY <1>1 DEF TypeOK
  <2>2. \A w \in Workers : ~strayed /\ Walking(w) /\ wpc[w] = "read" => fd'[cur[w]] = fd[cur[w]]
    BY <1>5 DEF WalkInv
  <2> QED BY <1>1, <1>2, <2>1, <2>2 DEF WalkInv, Walking
<1> QED BY <1>4, <1>6, <1>7, <1>8, <1>9

LEMMA StepAdd == ASSUME IInv, add_epollevent PROVE IInv'
<1> USE EventLoopAssumption DEF IInv
<1>1. PICK c, f : c = temp /\ f = fd[c]
  OBVIOUS
<1>2. /\ c # NULL /\ c \in Cells /\ c \notin Range(evs) /\ isopen[c] # "freed" /\ next[c] = NULL
      /\ f \in events /\ f \in seated /\ f \in Fds /\ rpc = "mark" /\ mutex_EVENT_lock = NULL
      /\ temp' = NULL /\ events' = events \ {f}
      /\ rpc' = IF events' = {} THEN "look" ELSE "mark"
      /\ UNCHANGED <<mutex_EVENT_lock, seated, rx, perevise, jobs, wpc, cur, arg, strayed>>
  BY <1>1 DEF add_epollevent, kernel, workers, ListInv, NodesAreSeated, TypeOK
<1>3. WalkInv'
  <2>1. \A w \in Workers : ~Walking(w)
    BY <1>2, NobodyWalks
  <2> QED BY <1>2, <2>1 DEF WalkInv, Walking
<1>4. ASSUME NEW d \in NodesOf(f), Marks(d) PROVE IInv'
  <2>1. d \in Range(evs) /\ fd[d] = f /\ d \in Cells /\ d # c
    BY <1>2, <1>4 DEF NodesOf, ListInv
  <2>2. /\ isopen' = [isopen EXCEPT ![d] = "open", ![c] = "freed"]
        /\ fd' = [fd EXCEPT ![c] = NoFd] /\ UNCHANGED <<evs, next>>
    BY <1>1, <1>4 DEF Marks
  <2>3. TypeOK'
    BY <1>2, <2>1, <2>2 DEF TypeOK
  <2>4. \A e \in Cells : isopen'[e] = "freed" <=> isopen[e] = "freed" \/ e = c
    BY <1>2, <2>1, <2>2 DEF TypeOK, ListInv
  <2>5. Range(evs) = {e \in Cells : isopen[e] # "freed"} \ {c}
    BY <1>1 DEF ListInv
  <2>6. ListInv'
    BY <1>2, <2>2, <2>4, <2>5 DEF ListInv
  <2>7. \A e \in Range(evs) : fd'[e] = fd[e] /\ (isopen'[e] = isopen[e] \/ isopen'[e] = "open")
    BY <1>2, <2>1, <2>2 DEF TypeOK, ListInv
  <2>8. NodesAreSeated'
    BY <1>2, <2>2, <2>7 DEF NodesAreSeated
  <2>9. LiveNotClosed'
    <3>1. ASSUME ~strayed, NEW e \in Range(evs), isopen'[e] = "close" PROVE rx[fd'[e]] = "eof"
      <4>1. fd'[e] = fd[e] /\ isopen[e] = "close"
        BY <2>7, <3>1
      <4> QED BY <3>1, <4>1 DEF LiveNotClosed
    <3> QED BY <1>2, <2>2, <3>1 DEF LiveNotClosed
  <2> QED BY <1>3, <2>3, <2>6, <2>8, <2>9
<1>5. ASSUME NodesOf(f) = {}, Appends PROVE IInv'
  <2>1. /\ \A d \in Range(evs) : fd[d] # f
        /\ Len(evs) \in Nat /\ (evs = <<>> <=> Len(evs) = 0)
    BY <1>5 DEF NodesOf, TypeOK
  <2>2. /\ UNCHANGED <<isopen, fd>> /\ evs' = Append(evs, c)
        /\ next' = IF evs = <<>> THEN next ELSE [next EXCEPT ![evs[Len(evs)]] = c]
    BY <1>1, <1>5 DEF Appends
  <2>3. /\ Append(evs, c) \in Seq(Cells) /\ Append(evs, c) # <<>>
        /\ Len(Append(evs, c)) = Len(evs) + 1
        /\ \A i \in 1..Len(evs) : Append(evs, c)[i] = evs[i]
        /\ Append(evs, c)[Len(evs) + 1] = c
        /\ Range(Append(evs, c)) = Range(evs) \cup {c}
        /\ IsInjective(Append(evs, c))
    BY <1>2, <2>1, AppendFacts DEF TypeOK, ListInv
  <2>4. evs # <<>> => evs[Len(evs)] \in Range(evs) /\ evs[Len(evs)] \in Cells
    BY <2>1 DEF TypeOK, Range
  <2>5. TypeOK'
    <3>1. next' \in [Cells -> Cells \cup {NULL}]
      BY <1>2, <2>2, <2>4 DEF TypeOK
    <3> QED BY <1>2, <2>2, <2>3, <3>1 DEF TypeOK
  <2>6. Range(evs') = Range(evs) \cup {c}
    BY <2>2, <2>3
  <2>7. ListInv'
    <3>1. Range(evs') = {d \in Cells : isopen'[d] # "freed"} \ {temp'}
      <4>1. Range(evs) = {d \in Cells : isopen[d] # "freed"} \ {c}
        BY <1>1 DEF ListInv
      <4> QED BY <1>2, <2>2, <2>6, <4>1
    <3>2. ASSUME NEW i \in 1..Len(evs')
          PROVE next'[evs'[i]] = IF i = Len(evs') THEN NULL ELSE evs'[i + 1]
      <4>1. CASE i = Len(evs')
        <5>1. evs'[i] = c /\ (evs # <<>> => evs[Len(evs)] # c)
          BY <1>2, <2>2, <2>3, <2>4, <4>1
        <5> QED BY <1>2, <2>2, <2>4, <4>1, <5>1 DEF TypeOK
      <4>2. CASE i = Len(evs)
        <5>1. evs # <<>> /\ evs'[i] = evs[Len(evs)] /\ evs'[i + 1] = c /\ i # Len(evs')
          BY <2>1, <2>2, <2>3, <4>2
        <5> QED BY <2>2, <2>4, <5>1 DEF TypeOK
      <4>3. CASE i < Len(evs)
        <5>1. /\ i \in 1..Len(evs) /\ i + 1 \in 1..Len(evs) /\ evs # <<>>
              /\ evs'[i] = evs[i] /\ evs'[i + 1] = evs[i + 1] /\ i # Len(evs')
              /\ Len(evs) \in 1..Len(evs)
          BY <2>1, <2>2, <2>3, <4>3
        <5>2. evs[i] # evs[Len(evs)]
          BY <4>3, <5>1 DEF ListInv, IsInjective, TypeOK
        <5>3. evs[i] # c /\ evs[i] \in Cells
          BY <1>2, <5>1 DEF Range, TypeOK
        <5>4. next'[evs[i]] = next[evs[i]]
          BY <2>2, <5>1, <5>2, <5>3 DEF TypeOK
        <5> QED BY <4>3, <5>1, <5>4 DEF ListInv
      <4>4. i = Len(evs') \/ i = Len(evs) \/ i < Len(evs)
        BY <2>1, <2>2, <2>3
      <4> QED BY <4>1, <4>2, <4>3, <4>4
    <3> QED BY <1>2, <2>2, <2>3, <2>6, <3>1, <3>2 DEF ListInv
  <2>8. NodesAreSeated'
    <3>1. \A d, e \in Range(evs') : fd[d] = fd[e] => d = e
      BY <1>1, <2>1, <2>6 DEF NodesAreSeated
    <3> QED BY <1>1, <1>2, <2>2, <2>6, <3>1 DEF NodesAreSeated
  <2>9. LiveNotClosed'
    BY <1>1, <1>2, <2>2, <2>6 DEF LiveNotClosed, WalkInv
  <2> QED BY <1>3, <2>5, <2>7, <2>8, <2>9
<1> QED BY <1>1, <1>4, <1>5 DEF add_epollevent

LEMMA StepRemoves == ASSUME IInv, Removes PROVE IInv'
<1> USE EventLoopAssumption DEF IInv
<1> DEFINE c == Candidate
<1>1. /\ c # NULL /\ isopen[c] = "close" /\ RemoveNode(c) /\ rpc = "sweep"
      /\ mutex_EVENT_lock = NULL /\ temp = NULL
  BY DEF Removes, Closing, ListInv
<1>2. PICK k \in 1..Len(evs) :
        /\ evs[k] = c
        /\ evs' = [i \in 1..Len(evs) - 1 |-> evs[IF i < k THEN i ELSE i + 1]]
  BY <1>1 DEF RemoveNode, TypeOK
<1>3. /\ evs' \in Seq(Cells) /\ Len(evs') = Len(evs) - 1 /\ Len(evs) \in Nat
      /\ \A i \in 1..Len(evs') : evs'[i] = IF i < k THEN evs[i] ELSE evs[i + 1]
      /\ Range(evs') = Range(evs) \ {c}
      /\ IsInjective(evs')
  <2>1. evs \in Seq(Cells) /\ IsInjective(evs) /\ k \in DOMAIN evs /\ evs[k] = c
    BY <1>2 DEF TypeOK, ListInv
  <2>2. evs' = Without(evs, k)
    BY <1>2 DEF Without
  <2> HIDE DEF c, IInv
  <2>3. /\ Without(evs, k) \in Seq(Cells) /\ Len(Without(evs, k)) = Len(evs) - 1
        /\ Len(evs) \in Nat
        /\ \A i \in 1..Len(Without(evs, k)) :
             Without(evs, k)[i] = IF i < k THEN evs[i] ELSE evs[i + 1]
        /\ Range(Without(evs, k)) = Range(evs) \ {evs[k]}
        /\ IsInjective(Without(evs, k))
    BY <2>1, RemoveFacts
  <2> QED BY <2>1, <2>2, <2>3
<1>4. c \in Range(evs) /\ c \in Cells
  BY <1>2 DEF Range, TypeOK
<1>5. /\ next[c] = IF k = Len(evs) THEN NULL ELSE evs[k + 1]
      /\ next[c] \in Cells \cup {NULL}
  BY <1>2, <1>4 DEF ListInv, TypeOK
<1>6. /\ k = 1 <=> perevise = NULL
      /\ k # 1 => perevise = evs[k - 1] /\ k - 1 \in 1..Len(evs)
  <2>1. CASE perevise = NULL
    <3>1. evs[1] = c /\ 1 \in DOMAIN evs /\ k \in DOMAIN evs
      BY <1>1, <1>3, <2>1 DEF Candidate, head, TypeOK
    <3>2. k = 1
      BY <1>2, <3>1 DEF ListInv, IsInjective
    <3> QED BY <2>1, <3>2
  <2>2. CASE perevise # NULL
    <3>1. PICK i \in 1..Len(evs) : perevise = evs[i]
      BY <2>2 DEF ListInv, Range, TypeOK
    <3>2. next[evs[i]] = c
      BY <2>2, <3>1 DEF Candidate
    <3>3. i # Len(evs) /\ evs[i + 1] = c
      BY <1>1, <3>1, <3>2 DEF ListInv
    <3>4. i + 1 \in DOMAIN evs /\ k \in DOMAIN evs
      BY <1>3, <3>1, <3>3 DEF TypeOK
    <3>5. k = i + 1
      BY <1>2, <3>3, <3>4 DEF ListInv, IsInjective
    <3> QED BY <1>3, <2>2, <3>1, <3>5
  <2> QED BY <2>1, <2>2
<1>7. /\ next' = [IF perevise = NULL THEN next ELSE [next EXCEPT ![perevise] = next[c]]
                    EXCEPT ![c] = NULL]
      /\ isopen' = [isopen EXCEPT ![c] = "freed"] /\ fd' = [fd EXCEPT ![c] = NoFd]
      /\ seated' = seated \ {fd[c]} /\ rx' = [rx EXCEPT ![fd[c]] = "none"]
      /\ UNCHANGED <<temp, mutex_EVENT_lock, rpc, events, perevise, jobs, wpc, cur, arg, strayed>>
  BY <1>1 DEF RemoveNode, Relinked, reactor, workers
<1> HIDE DEF c
<1>8. TypeOK' /\ WalkInv'
  <2>1. next' \in [Cells -> Cells \cup {NULL}]
    BY <1>5, <1>7 DEF TypeOK
  <2>2. /\ isopen' \in [Cells -> {"open", "idle", "close", "freed"}]
        /\ fd' \in [Cells -> Fds \cup {NoFd}]
        /\ rx' \in [Fds -> {"none", "data", "eof", "reset"}] /\ seated' \subseteq Fds
    BY <1>7 DEF TypeOK
  <2>3. \A w \in Workers : ~Walking(w)
    BY <1>1, NobodyWalks
  <2>4. WalkInv'
    BY <1>1, <1>7, <2>3 DEF WalkInv, Walking
  <2> QED BY <1>3, <1>7, <2>1, <2>2, <2>4 DEF TypeOK
<1>9. \A d \in Range(evs) \ {c} : isopen'[d] = isopen[d] /\ fd'[d] = fd[d] /\ fd[d] # fd[c]
  BY <1>4, <1>7 DEF ListInv, NodesAreSeated, TypeOK
<1>10. ListInv'
  <2>1. Range(evs') = {d \in Cells : isopen'[d] # "freed"} \ {temp'}
    <3>1. Range(evs) = {d \in Cells : isopen[d] # "freed"}
      BY <1>1 DEF ListInv
    <3> QED BY <1>1, <1>3, <1>7, <3>1 DEF TypeOK
  <2>2. perevise' \in Range(evs') \cup {NULL}
    <3>1. perevise # NULL => perevise \in Range(evs) /\ perevise # c
      <4>1. perevise # NULL => k # 1 /\ perevise = evs[k - 1] /\ k - 1 \in 1..Len(evs)
        BY <1>6
      <4>2. k # 1 => evs[k - 1] # evs[k]
        <5>1. k # 1 => k - 1 \in DOMAIN evs /\ k \in DOMAIN evs /\ k - 1 # k
          BY <1>3, <1>6 DEF TypeOK
        <5> QED BY <5>1 DEF ListInv, IsInjective
      <4> QED BY <1>2, <4>1, <4>2 DEF ListInv
    <3> QED BY <1>3, <1>7, <3>1
  <2>3. ASSUME NEW i \in 1..Len(evs')
        PROVE next'[evs'[i]] = IF i = Len(evs') THEN NULL ELSE evs'[i + 1]
    <3>1. /\ i \in 1..Len(evs) /\ i + 1 \in 1..Len(evs) /\ i \in Int /\ k \in Int
          /\ Len(evs') = Len(evs) - 1 /\ evs'[i] # c
      <4>1. evs'[i] \in Range(evs')
        BY <1>3 DEF Range
      <4> QED BY <1>3, <4>1
    <3>2. CASE i < k - 1
      <4>1. evs'[i] = evs[i] /\ i # Len(evs') /\ evs'[i + 1] = evs[i + 1]
        BY <1>3, <3>1, <3>2
      <4>2. evs[i] # perevise
        <5>1. k - 1 \in 1..Len(evs) /\ k # 1 /\ i # k - 1
          BY <3>1, <3>2
        <5>2. evs[i] # evs[k - 1]
          <6>1. i \in DOMAIN evs /\ k - 1 \in DOMAIN evs
            BY <3>1, <5>1 DEF TypeOK
          <6> QED BY <5>1, <6>1 DEF ListInv, IsInjective
        <5> QED BY <1>6, <5>1, <5>2
      <4>3. next'[evs[i]] = next[evs[i]]
        BY <1>7, <3>1, <4>1, <4>2 DEF TypeOK
      <4> QED BY <3>1, <3>2, <4>1, <4>3 DEF ListInv
    <3>3. CASE i = k - 1
      <4>1. evs'[i] = perevise /\ perevise # NULL /\ perevise \in Cells
        BY <1>3, <1>6, <3>1, <3>3 DEF TypeOK
      <4>2. next'[perevise] = next[c]
        BY <1>7, <3>1, <4>1 DEF TypeOK
      <4>3. i = Len(evs') <=> k = Len(evs)
        BY <3>1, <3>3
      <4>4. i # Len(evs') => evs'[i + 1] = evs[k + 1]
        BY <1>3, <3>1, <3>3
      <4> QED BY <1>5, <4>1, <4>2, <4>3, <4>4
    <3>4. CASE i >= k
      <4>1. evs'[i] = evs[i + 1] /\ (i # Len(evs') => evs'[i + 1] = evs[(i + 1) + 1])
        BY <1>3, <3>1, <3>4
      <4>2. evs[i + 1] # perevise
        <5>1. i + 1 \in DOMAIN evs /\ (k # 1 => k - 1 \in DOMAIN evs /\ k - 1 # i + 1)
          BY <1>6, <3>1, <3>4 DEF TypeOK
        <5>2. k # 1 => evs[i + 1] # evs[k - 1]
          BY <5>1 DEF ListInv, IsInjective
        <5>3. evs[i + 1] # NULL
          BY <5>1 DEF TypeOK
        <5> QED BY <1>6, <5>2, <5>3
      <4>3. next'[evs[i + 1]] = next[evs[i + 1]]
        BY <1>7, <3>1, <4>1, <4>2 DEF TypeOK
      <4>4. next[evs[i + 1]] = IF i + 1 = Len(evs) THEN NULL ELSE evs[(i + 1) + 1]
        BY <3>1 DEF ListInv
      <4> QED BY <3>1, <4>1, <4>3, <4>4
    <3> QED BY <3>1, <3>2, <3>3, <3>4
  <2> QED BY <1>1, <1>3, <1>7, <2>1, <2>2, <2>3 DEF ListInv
<1>11. NodesAreSeated'
  <2>1. events' = {}
    BY <1>1, <1>7 DEF WalkInv
  <2> QED BY <1>1, <1>3, <1>7, <1>9, <2>1 DEF NodesAreSeated
<1>12. LiveNotClosed'
  <2>1. \A d \in Range(evs) \ {c} : rx'[fd[d]] = rx[fd[d]]
    BY <1>7, <1>9 DEF NodesAreSeated, TypeOK
  <2> QED BY <1>3, <1>7, <1>9, <2>1 DEF LiveNotClosed
<1> QED BY <1>8, <1>10, <1>11, <1>12

(* A worker's step that touches neither nodes nor kernel. *)
LEMMA StepWalks ==
  ASSUME IInv, NEW w \in Workers,
         \/ TakesJob(w) \/ ReadsHead(w) \/ Locks(w)
         \/ Unlocks(w) \/ Skips(w) \/ CallsRead(w)
  PROVE  IInv'
<1> USE EventLoopAssumption DEF IInv, Goto, Step
<1>1. UNCHANGED <<evs, next, fd, isopen, temp, seated, rx, rpc, events, perevise>>
  BY DEF TakesJob, ReadsHead, Locks, Unlocks, Skips, CallsRead, nodes, kernel, reactor
<1>2. TypeOK'
  <2>1. head \in Cells \cup {NULL}
    BY DEF head, TypeOK
  <2>2. /\ jobs' \in 0..MaxJobs /\ mutex_EVENT_lock' \in Workers \cup {NULL}
        /\ wpc' \in [Workers -> {"idle", "start", "lock", "walk", "read"}]
    BY DEF TakesJob, ReadsHead, Locks, Unlocks, Skips, CallsRead, TypeOK
  <2>3. cur' \in [Workers -> Cells \cup {NULL}]
    BY <2>1 DEF TakesJob, ReadsHead, Locks, Unlocks, Skips, CallsRead, Sees, nextAt, TypeOK
  <2>4. arg' \in [Workers -> Fds \cup {NoFd}]
    BY DEF TakesJob, ReadsHead, Locks, Unlocks, Skips, CallsRead, Sees, fdAt, TypeOK
  <2>5. strayed' \in BOOLEAN
    <3>1. strayed' = (strayed \/ cur[w] \notin Range(evs) \cup {NULL}) \/ strayed' = strayed
      BY DEF TakesJob, ReadsHead, Locks, Unlocks, Skips, CallsRead
    <3> QED BY <3>1, Zenon DEF TypeOK
  <2> QED BY <1>1, <2>2, <2>3, <2>4, <2>5 DEF TypeOK
<1>3. strayed => strayed'
  BY DEF TakesJob, ReadsHead, Locks, Unlocks, Skips, CallsRead
<1>4. ListInv' /\ NodesAreSeated' /\ LiveNotClosed'
  BY <1>1, <1>3 DEF ListInv, NodesAreSeated, LiveNotClosed
<1>5. \A v \in Workers : wpc[v] \in {"walk", "read"} <=> mutex_EVENT_lock = v
  BY DEF WalkInv, Walking
<1>6. /\ \A v \in Workers : Walking(v)' <=> mutex_EVENT_lock' = v
      /\ \A v \in Workers : wpc'[v] = "read" => cur'[v] # NULL
  <2>1. CASE TakesJob(w) \/ ReadsHead(w)
    BY <1>5, <2>1 DEF TakesJob, ReadsHead, TypeOK, WalkInv, Walking
  <2>2. CASE Locks(w)
    BY <1>5, <2>2 DEF Locks, TypeOK, WalkInv, Walking
  <2>3. CASE Unlocks(w)
    BY <1>5, <2>3 DEF Unlocks, TypeOK, WalkInv, Walking
  <2>4. CASE Skips(w)
    BY <1>5, <2>4 DEF Skips, Sees, TypeOK, WalkInv, Walking
  <2>5. CASE CallsRead(w)
    BY <1>5, <2>5 DEF CallsRead, Sees, TypeOK, WalkInv, Walking
  <2> QED BY <2>1, <2>2, <2>3, <2>4, <2>5
<1>7. ASSUME ~strayed', NEW v \in Workers, Walking(v)'
      PROVE  /\ cur'[v] \in Range(evs) \cup {NULL}
             /\ wpc'[v] = "read" => arg'[v] = fd[cur'[v]]
  <2>1. ~strayed /\ \A u \in Workers : Walking(u) =>
          /\ cur[u] \in Range(evs) \cup {NULL}
          /\ wpc[u] = "read" => arg[u] = fd[cur[u]]
    BY <1>3, <1>7 DEF WalkInv
  <2>2. CASE v # w
    <3>1. cur'[v] = cur[v] /\ arg'[v] = arg[v] /\ wpc'[v] = wpc[v]
      <4>1. cur'[v] = cur[v]
        BY <2>2 DEF TakesJob, ReadsHead, Locks, Unlocks, Skips, CallsRead, TypeOK
      <4>2. arg'[v] = arg[v]
        BY <2>2 DEF TakesJob, ReadsHead, Locks, Unlocks, Skips, CallsRead, TypeOK
      <4>3. wpc'[v] = wpc[v]
        BY <2>2 DEF TakesJob, ReadsHead, Locks, Unlocks, Skips, CallsRead, TypeOK
      <4> QED BY <4>1, <4>2, <4>3
    <3> QED BY <1>7, <2>1, <3>1 DEF Walking
  <2>3. CASE v = w /\ (TakesJob(w) \/ ReadsHead(w) \/ Unlocks(w))
    BY <1>7, <2>3 DEF TakesJob, ReadsHead, Unlocks, Walking, TypeOK
  <2>4. CASE v = w /\ Locks(w)
    BY <1>7, <2>4 DEF Locks, TypeOK
  <2>5. CASE v = w /\ (Skips(w) \/ CallsRead(w))
    <3>1. cur[w] \in Range(evs)
      BY <2>1, <2>5 DEF Skips, CallsRead, Sees, Walking
    <3>2. ~Freed(cur[w]) /\ next[cur[w]] \in Range(evs) \cup {NULL}
      BY <3>1, NextInList DEF Freed
    <3>3. CASE Skips(w)
      BY <2>5, <3>2, <3>3 DEF Skips, Sees, nextAt, TypeOK
    <3>4. CASE CallsRead(w)
      BY <2>5, <3>1, <3>2, <3>4 DEF CallsRead, fdAt, TypeOK
    <3> QED BY <2>5, <3>3, <3>4
  <2> QED BY <2>2, <2>3, <2>4, <2>5
<1>8. WalkInv'
  BY <1>1, <1>3, <1>6, <1>7 DEF WalkInv
<1> QED BY <1>2, <1>4, <1>8

LEMMA StepReadReturns == ASSUME IInv, NEW w \in Workers, ReadReturns(w) PROVE IInv'
<1> USE EventLoopAssumption DEF IInv, Goto, Step
<1>1. PICK c, f : c = cur[w] /\ f = arg[w]
  OBVIOUS
<1>2. PICK i \in {"idle", "close", "error"} :
        /\ Read(f, i)
        /\ isopen' = IF i = "error" \/ Freed(c) THEN isopen ELSE [isopen EXCEPT ![c] = i]
  BY <1>1 DEF ReadReturns
<1>3. /\ wpc[w] = "read" /\ Walking(w) /\ c # NULL /\ c \in Cells /\ f \in Fds \cup {NoFd}
      /\ \E d \in nextAt(c) : cur' = [cur EXCEPT ![w] = d]
      /\ wpc' = [wpc EXCEPT ![w] = "walk"] /\ arg' = [arg EXCEPT ![w] = NoFd]
      /\ UNCHANGED <<evs, next, fd, temp, mutex_EVENT_lock, seated, rpc, events, perevise>>
      /\ UNCHANGED <<jobs, strayed>>
  BY <1>1 DEF ReadReturns, reactor, Walking, WalkInv, TypeOK
<1>4. TypeOK'
  <2>1. isopen' \in [Cells -> {"open", "idle", "close", "freed"}]
    BY <1>2, <1>3 DEF TypeOK
  <2>2. rx' \in [Fds -> {"none", "data", "eof", "reset"}]
    BY <1>2 DEF Read, TypeOK
  <2>3. cur' \in [Workers -> Cells \cup {NULL}]
    BY <1>3 DEF nextAt, TypeOK
  <2> QED BY <1>3, <2>1, <2>2, <2>3 DEF TypeOK
<1>5. \A d \in Cells : (isopen'[d] = "freed" <=> isopen[d] = "freed")
                       /\ (d # c => isopen'[d] = isopen[d])
  BY <1>2, <1>3 DEF Freed, TypeOK
<1>6. ListInv' /\ NodesAreSeated'
  <2>1. {d \in Cells : isopen'[d] # "freed"} = {d \in Cells : isopen[d] # "freed"}
    BY <1>5
  <2>2. temp # NULL => temp \in Cells
    BY DEF TypeOK
  <2>3. ListInv'
    BY <1>3, <1>5, <2>1, <2>2 DEF ListInv
  <2> QED BY <1>3, <2>3 DEF NodesAreSeated
<1>7. ASSUME ~strayed PROVE c \in Range(evs) /\ f = fd[c] /\ f \in seated
  BY <1>1, <1>3, <1>7 DEF WalkInv, NodesAreSeated
<1>8. LiveNotClosed'
  <2>1. ASSUME ~strayed, NEW d \in Range(evs), isopen'[d] = "close" PROVE rx'[fd[d]] = "eof"
    <3>1. d \in Cells /\ fd[d] \in seated /\ fd[d] \in Fds
      BY <2>1, NextInList DEF NodesAreSeated, TypeOK
    <3>2. CASE d = c
      <4>1. i = "close" \/ isopen[c] = "close"
        BY <1>2, <1>3, <2>1, <3>2 DEF TypeOK
      <4>2. isopen[c] = "close" => rx[f] = "eof"
        BY <1>7, <2>1 DEF LiveNotClosed
      <4> QED BY <1>2, <1>7, <2>1, <3>1, <3>2, <4>1, <4>2 DEF Read
    <3>3. CASE d # c
      <4>1. fd[d] # f
        BY <1>7, <2>1, <3>3 DEF NodesAreSeated
      <4>2. rx'[fd[d]] = rx[fd[d]]
        BY <1>2, <3>1, <4>1 DEF Read, TypeOK
      <4> QED BY <1>5, <2>1, <3>1, <3>3, <4>2 DEF LiveNotClosed
    <3> QED BY <3>2, <3>3
  <2> QED BY <1>3, <2>1 DEF LiveNotClosed
<1>9. WalkInv'
  <2>1. \A v \in Workers : Walking(v)' <=> Walking(v)
    BY <1>3 DEF Walking, TypeOK
  <2>2. \A v \in Workers : v # w => ~Walking(v)
    BY <1>3 DEF WalkInv
  <2>3. \A v \in Workers : wpc'[v] # "read"
    BY <1>3, <2>2 DEF Walking, TypeOK
  <2>4. ~strayed => cur'[w] \in Range(evs) \cup {NULL}
    <3>1. ~strayed => ~Freed(c) /\ next[c] \in Range(evs) \cup {NULL}
      BY <1>7, NextInList DEF Freed
    <3> QED BY <1>3, <3>1 DEF nextAt, TypeOK
  <2>5. ~strayed /\ temp # NULL => isopen'[temp] = "open"
    <3>1. ~strayed /\ temp # NULL => temp # c
      BY <1>7 DEF ListInv
    <3> QED BY <1>5, <3>1 DEF WalkInv, TypeOK
  <2> QED BY <1>3, <2>1, <2>2, <2>3, <2>4, <2>5 DEF WalkInv
<1> QED BY <1>4, <1>6, <1>8, <1>9

LEMMA IInvIsInductive == IInv /\ [Next]_vars => IInv'
<1> SUFFICES ASSUME IInv, [Next]_vars PROVE IInv'
  OBVIOUS
<1>1. CASE UNCHANGED vars
  BY <1>1 DEF vars, nodes, kernel, reactor, workers, IInv, TypeOK, WalkInv, Walking, ListInv,
              NodesAreSeated, LiveNotClosed
<1>2. CASE Next
  BY <1>2, StepKernel, StepReactor, StepAllocates, StepAdd, StepRemoves, StepWalks,
     StepReadReturns DEF Next, Reactor, Worker
<1> QED BY <1>1, <1>2

THEOREM Inductive == Spec => []IInv
BY InitIInv, IInvIsInductive, PTL DEF Spec

(* Every field and local keeps to its values; in particular the pool never *)
(* holds more than MaxJobs of the reactor's jobs.                          *)
THEOREM TypeCorrect == Spec => []TypeOK
<1>1. IInv => TypeOK
  BY DEF IInv
<1> QED BY <1>1, Inductive, PTL

(* The list stays well linked and Remove_event's cursor on it, although    *)
(* the reactor searches and follows it without the lock and workers may    *)
(* walk over freed memory and write to it.                                 *)
THEOREM EventListIsSound == Spec => []ListInv
<1>1. IInv => ListInv
  BY DEF IInv
<1> QED BY <1>1, Inductive, PTL

(* A descriptor has one node at most, and a slot whenever it has a node.   *)
THEOREM NodesHaveSlots == Spec => []NodesAreSeated
<1>1. IInv => NodesAreSeated
  BY DEF IInv
<1> QED BY <1>1, Inductive, PTL

(* Until a walk has begun on freed memory, only connections whose peer has *)
(* hung up are closed.                                                     *)
THEOREM LiveStaysOpen == Spec => []LiveNotClosed
<1>1. IInv => LiveNotClosed
  BY DEF IInv
<1> QED BY <1>1, Inductive, PTL

(* No node is freed under a worker that stands on it, be it in the list or *)
(* on the way there.                                                       *)
THEOREM WalkIsSafe == Spec => NotFreedUnderWalk
<1> DEFINE A == \A w \in Workers :
       Walking(w) /\ Allocated(cur[w]) /\ Walking(w)' /\ cur'[w] = cur[w]
         => isopen'[cur[w]] # "freed"
<1>1. IInv /\ [Next]_vars => [A]_vars
  <2> SUFFICES ASSUME IInv, Next, NEW w \in Workers,
                      Walking(w), Allocated(cur[w]), isopen'[cur[w]] = "freed"
               PROVE  FALSE
    OBVIOUS
  <2>1. cur[w] \in Cells /\ isopen[cur[w]] # "freed" /\ mutex_EVENT_lock = w
    BY DEF Allocated, IInv, TypeOK, WalkInv
  <2>2. mutex_EVENT_lock # NULL
    BY <2>1, EventLoopAssumption
  <2>3. ~Removes /\ ~add_epollevent
    BY <2>2 DEF Removes, add_epollevent
  <2>4. ASSUME UNCHANGED isopen PROVE FALSE
    BY <2>1, <2>4
  <2>5. ASSUME NEW v \in Workers, ReadReturns(v) PROVE FALSE
    BY <2>1, <2>5 DEF ReadReturns, Freed, IInv, TypeOK
  <2>6. ASSUME NEW v \in Workers, Worker(v) PROVE FALSE
    BY <2>4, <2>5, <2>6 DEF Worker, TakesJob, ReadsHead, Locks, Skips, CallsRead, Unlocks, nodes
  <2>7. ASSUME NEW f \in Fds, Allocates(f) PROVE FALSE
    BY <2>1, <2>7 DEF Allocates, IInv, TypeOK
  <2>8. ASSUME Reactor PROVE FALSE
    BY <2>3, <2>4, <2>7, <2>8 DEF Reactor, Waits, Looks, Submits, Keeps, SweepEnds, nodes
  <2>9. ASSUME NEW f \in Fds, Seat(f) \/ Talks(f) \/ Resets(f) PROVE FALSE
    BY <2>4, <2>9 DEF Seat, Talks, Resets, nodes
  <2> QED BY <2>6, <2>8, <2>9 DEF Next
<1> QED BY <1>1, Inductive, PTL DEF Spec, NotFreedUnderWalk

-----------------------------------------------------------------------------
(* The reactor's step and the worker's that the clients notice. *)
LEMMA RemovalDrops ==
  ASSUME IInv, Removes
  PROVE  \E f \in Fds : Promise!Drop(f)
<1>1. Candidate \in Range(evs) /\ isopen[Candidate] = "close" /\ RemoveNode(Candidate)
  <2>1. Candidate # NULL /\ isopen[Candidate] = "close" /\ RemoveNode(Candidate)
    BY DEF Removes, Closing
  <2>2. PICK k \in DOMAIN evs : evs[k] = Candidate
    BY <2>1 DEF RemoveNode
  <2> QED BY <2>1, <2>2 DEF Range
<1>2. PICK f : f = fd[Candidate]
  OBVIOUS
<1>3. f \in seated /\ (rx[f] = "eof" \/ strayed) /\ f \in Fds
  BY <1>1, <1>2 DEF IInv, NodesAreSeated, LiveNotClosed, TypeOK
<1>4. seated' = seated \ {f} /\ rx' = [rx EXCEPT ![f] = "none"] /\ UNCHANGED strayed
  BY <1>1, <1>2 DEF RemoveNode, workers
<1> QED BY <1>3, <1>4 DEF Promise!Drop

LEMMA ReadingReceives ==
  ASSUME IInv, NEW w \in Workers, ReadReturns(w)
  PROVE  UNCHANGED Promise!vars \/ \E f \in Fds : Promise!Receive(f) \/ Promise!Notice(f)
<1>1. PICK f, i : f = arg[w] /\ Read(f, i) /\ UNCHANGED <<seated, strayed>>
  BY DEF ReadReturns
<1>2. f \in seated => f \in Fds
  BY DEF IInv, TypeOK
<1> QED BY <1>1, <1>2 DEF Read, Promise!Receive, Promise!Notice, Promise!Becomes, Promise!vars

(* The event loop implements Connections: each of its steps reads what a   *)
(* connected client has sent, drops a client that has hung up (or, after a *)
(* walk over freed memory, any), or changes nothing a client could notice. *)
THEOREM ConnectionsRefined == Spec => RefinesConnections
<1>1. Init => Promise!Init
  BY DEF Init, Promise!Init
<1>2. ASSUME IInv, [Next]_vars PROVE [Promise!Next]_(Promise!vars)
  <2>1. ASSUME UNCHANGED kernel, UNCHANGED strayed PROVE UNCHANGED Promise!vars
    BY <2>1 DEF kernel, Promise!vars
  <2>2. ASSUME NEW f \in Fds, Seat(f) PROVE Promise!Next
    BY <2>2 DEF Seat, workers, Promise!Next, Promise!Connect
  <2>3. ASSUME NEW f \in Fds, Talks(f) PROVE Promise!Next
    <3>1. Promise!Send(f) \/ Promise!HangUp(f)
      BY <2>3 DEF Talks, workers, Promise!Send, Promise!HangUp, Promise!Becomes
    <3> QED BY <3>1 DEF Promise!Next
  <2>4. ASSUME NEW f \in Fds, Resets(f) PROVE Promise!Next
    <3>1. Promise!Break(f)
      BY <2>4 DEF Resets, workers, Promise!Break, Promise!Becomes
    <3> QED BY <3>1 DEF Promise!Next
  <2>5. CASE Removes
    BY <1>2, <2>5, RemovalDrops DEF Promise!Next
  <2>6. ASSUME Reactor, ~Removes PROVE UNCHANGED kernel /\ UNCHANGED strayed
    BY <2>6 DEF Reactor, Waits, Allocates, add_epollevent, Looks, Submits, Keeps, SweepEnds, workers
  <2>7. ASSUME NEW w \in Workers, ReadReturns(w) PROVE UNCHANGED Promise!vars \/ Promise!Next
    BY <1>2, <2>7, ReadingReceives DEF Promise!Next
  <2>8. ASSUME NEW w \in Workers, Locks(w) PROVE UNCHANGED Promise!vars \/ Promise!Next
    <3>1. UNCHANGED kernel /\ (strayed' = strayed \/ strayed' = TRUE)
      BY <1>2, <2>8 DEF Locks, IInv, TypeOK
    <3> QED BY <3>1 DEF kernel, Promise!Next, Promise!Disturb, Promise!vars
  <2>9. ASSUME NEW w \in Workers, Worker(w), ~ReadReturns(w), ~Locks(w)
        PROVE  UNCHANGED kernel /\ UNCHANGED strayed
    BY <2>9 DEF Worker, TakesJob, ReadsHead, Skips, CallsRead, Unlocks
  <2>10. CASE UNCHANGED vars
    BY <2>1, <2>10 DEF vars, workers
  <2> QED BY <1>2, <2>1, <2>2, <2>3, <2>4, <2>5, <2>6, <2>7, <2>8, <2>9, <2>10 DEF Next
<1> QED BY <1>1, <1>2, Inductive, PTL DEF Spec, RefinesConnections, Promise!Spec
=============================================================================

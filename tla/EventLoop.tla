------------------------------ MODULE EventLoop ------------------------------
(***************************************************************************)
(* One reactor of the cluster server and the pool workers that read for    *)
(* it (clustersever-V01/src/cluster_event.c): epoll_reactor turns what     *)
(* epoll_wait returns into nodes of the event list (My_event), gives the   *)
(* pool a job when some node is SOCKOPEN (Read_event) and frees the nodes  *)
(* that are SOCKCLOSE (Remove_event), while read_thread_callfuction walks  *)
(* the same list in the workers.                                           *)
(*                                                                         *)
(* Workers change nodes only under mutex_EVENT_lock; the reactor searches  *)
(* the list and tests isopen without it and initialises a node before it   *)
(* takes it, and a worker reads bigEvent->head before it takes it.  Each   *)
(* of those is a step of its own.  A worker that was overtaken by          *)
(* Remove_event walks over memory that is no longer a node of the list.    *)
(* The pool is the bounded queue that ThreadPool is shown to implement;    *)
(* its jobs all are read_thread_callfuction(bigEvent), so it is a counter. *)
(***************************************************************************)
EXTENDS Integers, Sequences, FiniteSets, Functions

CONSTANTS
  Fds,      \* descriptors the reactor may be given
  Cells,    \* memory malloc can hand out for a struct epollEvent
  Workers,  \* threads of the pool
  MaxJobs,  \* the pool's limit on waiting jobs
  NULL, NoFd

ASSUME EventLoopAssumption ==
  /\ NULL \notin Cells \cup Workers /\ NoFd \notin Fds
  /\ MaxJobs \in Nat \ {0}

VARIABLES
  evs,               \* the nodes of the list, from bigEvent->head on
  next, fd, isopen,  \* fields of the nodes; isopen is "freed" for a cell not allocated
  temp,              \* epollevent_temp: allocated and initialised, not yet in the list
  mutex_EVENT_lock,
  seated,            \* descriptors in sockfd_set, in the epoll set, and open
  rx,                \* kernel: what read would find for each descriptor
  rpc, events,       \* reactor: program counter, events still to convert
  perevise,          \* Remove_event's cursor; NULL while it looks at the head
  jobs,              \* jobs that wait in the pool
  wpc, cur, arg,     \* workers: program counter, epollevent_perevise, Read's argument
  strayed            \* history: a walk has begun on memory that is not in the list

nodes   == <<evs, next, fd, isopen, temp>>
kernel  == <<seated, rx>>
reactor == <<rpc, events, perevise>>
workers == <<wpc, cur, arg, strayed>>
vars    == <<nodes, mutex_EVENT_lock, kernel, reactor, jobs, workers>>

head == IF evs = <<>> THEN NULL ELSE evs[1]

Init ==
  /\ evs = <<>> /\ next = [c \in Cells |-> NULL]
  /\ fd = [c \in Cells |-> NoFd] /\ isopen = [c \in Cells |-> "freed"]
  /\ temp = NULL
  /\ mutex_EVENT_lock = NULL
  /\ seated = {} /\ rx = [f \in Fds |-> "none"]
  /\ rpc = "wait" /\ events = {} /\ perevise = NULL
  /\ jobs = 0
  /\ wpc = [w \in Workers |-> "idle"] /\ cur = [w \in Workers |-> NULL]
  /\ arg = [w \in Workers |-> NoFd] /\ strayed = FALSE

-----------------------------------------------------------------------------
(* The clients and the kernel.  rx: nothing to read, data, end of file, or *)
(* a connection reset, which fails one read and then reads as end of file. *)

Seat(f) ==                         \* In_reactor_event, see Intake
  /\ rpc = "wait" /\ f \notin seated
  /\ seated' = seated \cup {f}
  /\ UNCHANGED <<nodes, mutex_EVENT_lock, rx, reactor, jobs, workers>>

Talks(f) ==
  /\ f \in seated /\ rx[f] = "none"
  /\ \E x \in {"data", "eof"} : rx' = [rx EXCEPT ![f] = x]
  /\ UNCHANGED <<nodes, mutex_EVENT_lock, seated, reactor, jobs, workers>>

Resets(f) ==
  /\ f \in seated /\ rx[f] \in {"none", "data"}
  /\ rx' = [rx EXCEPT ![f] = "reset"]
  /\ UNCHANGED <<nodes, mutex_EVENT_lock, seated, reactor, jobs, workers>>

-----------------------------------------------------------------------------
(* epoll_reactor. *)

Ready == {f \in seated : rx[f] # "none"}

(* epoll_wait returns every descriptor that is ready, or times out. *)
Waits ==
  /\ rpc = "wait"
  /\ events' = Ready
  /\ rpc' = IF Ready = {} THEN "sweep" ELSE "mark"
  /\ UNCHANGED <<nodes, mutex_EVENT_lock, kernel, perevise, jobs, workers>>

(* add_epollevent, as far as 256: a new node, initialised without the      *)
(* lock while a worker may still stand on that memory.                     *)
Allocates(f) ==
  /\ rpc = "mark" /\ temp = NULL /\ f \in events
  /\ \E c \in Cells :
       /\ isopen[c] = "freed"
       /\ isopen' = [isopen EXCEPT ![c] = "open"]
       /\ fd' = [fd EXCEPT ![c] = f]
       /\ next' = [next EXCEPT ![c] = NULL]
       /\ temp' = c
  /\ UNCHANGED <<evs, mutex_EVENT_lock, kernel, reactor, jobs, workers>>

(* The rest of it, under the lock: mark the descriptor's node and free the *)
(* new one, or append the new one as it now is.                            *)
NoNodes(f) == {}                                    \* faulty: does not search the list
NodesOf(f) == {c \in Range(evs) : fd[c] = f}

MarksNot(c) ==                                      \* faulty: leaves a known node as it is
  /\ isopen' = [isopen EXCEPT ![temp] = "freed"]
  /\ fd' = [fd EXCEPT ![temp] = NoFd]
  /\ UNCHANGED <<evs, next>>
Marks(c) ==
  /\ isopen' = [isopen EXCEPT ![c] = "open", ![temp] = "freed"]
  /\ fd' = [fd EXCEPT ![temp] = NoFd]
  /\ UNCHANGED <<evs, next>>

Appends ==
  /\ evs' = Append(evs, temp)
  /\ next' = IF evs = <<>> THEN next ELSE [next EXCEPT ![evs[Len(evs)]] = temp]
  /\ UNCHANGED <<isopen, fd>>

add_epollevent ==
  /\ temp # NULL /\ mutex_EVENT_lock = NULL
  /\ \/ \E c \in NodesOf(fd[temp]) : Marks(c)
     \/ NodesOf(fd[temp]) = {} /\ Appends
  /\ temp' = NULL
  /\ events' = events \ {fd[temp]}
  /\ rpc' = IF events' = {} THEN "look" ELSE "mark"
  /\ UNCHANGED <<mutex_EVENT_lock, kernel, perevise, jobs, workers>>

(* Read_event: look for a node that is SOCKOPEN, without the lock; then    *)
(* call add_pthread_job, every 200 us, until the pool has taken the job.   *)
(* The search is one step: workers neither open nodes nor change the list, *)
(* so it finds what is true when it finds a node or reaches the end.       *)
Looks ==
  /\ rpc = "look"
  /\ rpc' = IF \E c \in Range(evs) : isopen[c] = "open" THEN "submit" ELSE "sweep"
  /\ UNCHANGED <<nodes, mutex_EVENT_lock, kernel, events, perevise, jobs, workers>>

SubmitsAnyway ==                                    \* faulty: ignores the pool's limit
  /\ rpc = "submit"
  /\ jobs' = jobs + 1
  /\ rpc' = "sweep"
  /\ UNCHANGED <<nodes, mutex_EVENT_lock, kernel, events, perevise, workers>>

Submits ==
  /\ rpc = "submit" /\ jobs < MaxJobs
  /\ jobs' = jobs + 1
  /\ rpc' = "sweep"
  /\ UNCHANGED <<nodes, mutex_EVENT_lock, kernel, events, perevise, workers>>

(* Remove_event looks at one node after the other: the head while there is *)
(* no node to keep before it, then the node after perevise.                *)
Candidate == IF perevise = NULL THEN head ELSE next[perevise]

SkipsRelink(c) == next                              \* faulty: leaves the link to the node
Relinked(c) == IF perevise = NULL THEN next ELSE [next EXCEPT ![perevise] = next[c]]

(* rm_sockFdSet empties the slot, leaves the epoll set and closes the      *)
(* descriptor; then the node is unlinked and freed.                        *)
RemoveNode(c) ==
  /\ seated' = seated \ {fd[c]}
  /\ rx' = [rx EXCEPT ![fd[c]] = "none"]
  /\ \E k \in DOMAIN evs :
       /\ evs[k] = c
       /\ evs' = [i \in 1..Len(evs) - 1 |-> evs[IF i < k THEN i ELSE i + 1]]
  /\ next' = [Relinked(c) EXCEPT ![c] = NULL]
  /\ isopen' = [isopen EXCEPT ![c] = "freed"]
  /\ fd' = [fd EXCEPT ![c] = NoFd]
  /\ UNCHANGED <<temp, mutex_EVENT_lock, reactor, jobs, workers>>

Closing == rpc = "sweep" /\ Candidate # NULL /\ isopen[Candidate] = "close"

RemovesUnlocked == Closing /\ RemoveNode(Candidate) \* faulty: does not take the lock

(* A node seen SOCKCLOSE stays so until the reactor itself marks it, hence *)
(* the unlocked test and the locked removal are one step.                  *)
Removes == Closing /\ mutex_EVENT_lock = NULL /\ RemoveNode(Candidate)

Keeps ==
  /\ rpc = "sweep" /\ Candidate # NULL /\ isopen[Candidate] # "close"
  /\ perevise' = Candidate
  /\ UNCHANGED <<nodes, mutex_EVENT_lock, kernel, rpc, events, jobs, workers>>

SweepEnds ==
  /\ rpc = "sweep" /\ Candidate = NULL
  /\ perevise' = NULL
  /\ rpc' = "wait"
  /\ UNCHANGED <<nodes, mutex_EVENT_lock, kernel, events, jobs, workers>>

-----------------------------------------------------------------------------
(* The workers: thread_basic_function, then read_thread_callfuction. *)

Goto(w, pc) == wpc' = [wpc EXCEPT ![w] = pc]
Step(w, c)  == cur' = [cur EXCEPT ![w] = c]

TakesJob(w) ==
  /\ wpc[w] = "idle" /\ jobs > 0
  /\ jobs' = jobs - 1
  /\ Goto(w, "start")
  /\ UNCHANGED <<nodes, mutex_EVENT_lock, kernel, reactor, cur, arg, strayed>>

ReadsHead(w) ==
  /\ wpc[w] = "start"
  /\ Step(w, head)
  /\ Goto(w, "lock")
  /\ UNCHANGED <<nodes, mutex_EVENT_lock, kernel, reactor, jobs, arg, strayed>>

Locks(w) ==
  /\ wpc[w] = "lock" /\ mutex_EVENT_lock = NULL
  /\ mutex_EVENT_lock' = w
  /\ Goto(w, "walk")
  /\ strayed' = (strayed \/ cur[w] \notin Range(evs) \cup {NULL})
  /\ UNCHANGED <<nodes, kernel, reactor, jobs, cur, arg>>

(* Memory that is not allocated may hold anything, what the last node left *)
(* there (SOCKOPEN, when add_epollevent has freed it) or what free and     *)
(* other callers of malloc have written: it may read as SOCKOPEN or not,   *)
(* have any descriptor, and lead to any node or out of the list.  In the   *)
(* model its fields are NoFd and NULL and say nothing.                     *)
Freed(c) == isopen[c] = "freed"
Sees(w, state) == wpc[w] = "walk" /\ cur[w] # NULL /\ (isopen[cur[w]] = state \/ Freed(cur[w]))
fdAt(c) == IF Freed(c) THEN Fds \cup {NoFd} ELSE {fd[c]}
nextAt(c) == IF Freed(c) THEN Cells \cup {NULL} ELSE {next[c]}

Skips(w) ==
  /\ Sees(w, "idle") \/ Sees(w, "close")
  /\ \E c \in nextAt(cur[w]) : Step(w, c)
  /\ UNCHANGED <<nodes, mutex_EVENT_lock, kernel, reactor, jobs, wpc, arg, strayed>>

CallsRead(w) ==
  /\ Sees(w, "open")
  /\ \E f \in fdAt(cur[w]) : arg' = [arg EXCEPT ![w] = f]
  /\ Goto(w, "read")
  /\ UNCHANGED <<nodes, mutex_EVENT_lock, kernel, reactor, jobs, cur, strayed>>

(* Read(f) returns i, data or end of file or an error; with nothing to     *)
(* read it blocks, the lock held.  A descriptor that is none of this       *)
(* reactor's clients may be closed or somebody else's: anything may come.  *)
ReadDoesNotBlock(f, i) ==                           \* faulty: EAGAIN taken for end of file
  \/ f \in seated /\ rx[f] = "data"  /\ i = "idle"  /\ rx' = [rx EXCEPT ![f] = "none"]
  \/ ~(f \in seated /\ rx[f] = "data") /\ i = "close" /\ UNCHANGED rx

Read(f, i) ==
  \/ f \in seated /\ rx[f] = "data"  /\ i = "idle"  /\ rx' = [rx EXCEPT ![f] = "none"]
  \/ f \in seated /\ rx[f] = "eof"   /\ i = "close" /\ UNCHANGED rx
  \/ f \in seated /\ rx[f] = "reset" /\ i = "error" /\ rx' = [rx EXCEPT ![f] = "eof"]
  \/ f \notin seated /\ UNCHANGED rx

(* read returned data: SOCKIDLE; 0: SOCKCLOSE; an error: the node is left  *)
(* as it is.  Written to memory that is not allocated it does nothing to   *)
(* the list; but the reactor may have been given that memory meanwhile.    *)
ReadReturns(w) ==
  /\ wpc[w] = "read"
  /\ \E i \in {"idle", "close", "error"} :
       /\ Read(arg[w], i)
       /\ isopen' = IF i = "error" \/ Freed(cur[w]) THEN isopen
                    ELSE [isopen EXCEPT ![cur[w]] = i]
  /\ \E c \in nextAt(cur[w]) : Step(w, c)
  /\ Goto(w, "walk")
  /\ arg' = [arg EXCEPT ![w] = NoFd]
  /\ UNCHANGED <<evs, next, fd, temp, mutex_EVENT_lock, seated, reactor, jobs, strayed>>

Unlocks(w) ==
  /\ wpc[w] = "walk" /\ cur[w] = NULL
  /\ mutex_EVENT_lock' = NULL
  /\ Goto(w, "idle")
  /\ UNCHANGED <<nodes, kernel, reactor, jobs, cur, arg, strayed>>

-----------------------------------------------------------------------------

Reactor ==
  \/ Waits \/ (\E f \in Fds : Allocates(f)) \/ add_epollevent \/ Looks
  \/ Submits \/ Removes \/ Keeps \/ SweepEnds

Worker(w) ==
  \/ TakesJob(w) \/ ReadsHead(w) \/ Locks(w) \/ Unlocks(w)
  \/ Skips(w) \/ CallsRead(w) \/ ReadReturns(w)

Next ==
  \/ \E f \in Fds : Seat(f) \/ Talks(f) \/ Resets(f)
  \/ Reactor
  \/ \E w \in Workers : Worker(w)

Spec == Init /\ [][Next]_vars

(* Threads that can run do run. *)
ServerFair == WF_vars(Reactor) /\ \A w \in Workers : WF_vars(Worker(w))

(* Clients owe the server nothing ... *)
ServeSpec == Spec /\ ServerFair
(* ... or they all keep talking until they hang up. *)
TalkSpec == ServeSpec /\ \A f \in Fds : WF_vars(Talks(f))
-----------------------------------------------------------------------------
(* Properties. *)

TypeOK ==
  /\ evs \in Seq(Cells) /\ next \in [Cells -> Cells \cup {NULL}]
  /\ fd \in [Cells -> Fds \cup {NoFd}]
  /\ isopen \in [Cells -> {"open", "idle", "close", "freed"}]
  /\ temp \in Cells \cup {NULL} /\ mutex_EVENT_lock \in Workers \cup {NULL}
  /\ seated \subseteq Fds /\ rx \in [Fds -> {"none", "data", "eof", "reset"}]
  /\ rpc \in {"wait", "mark", "look", "submit", "sweep"}
  /\ events \subseteq Fds /\ perevise \in Cells \cup {NULL}
  /\ jobs \in 0..MaxJobs
  /\ wpc \in [Workers -> {"idle", "start", "lock", "walk", "read"}]
  /\ cur \in [Workers -> Cells \cup {NULL}]
  /\ arg \in [Workers -> Fds \cup {NoFd}] /\ strayed \in BOOLEAN

(* The list is what its links say, the memory that is allocated is its     *)
(* nodes and the one add_epollevent is about to link, and Remove_event's   *)
(* cursor stays on it although nodes are unlinked around the cursor: also  *)
(* after workers have walked over freed memory and written to it.          *)
ListInv ==
  /\ Range(evs) = {c \in Cells : isopen[c] # "freed"} \ {temp} /\ IsInjective(evs)
  /\ \A i \in 1..Len(evs) : next[evs[i]] = IF i = Len(evs) THEN NULL ELSE evs[i + 1]
  /\ perevise \in Range(evs) \cup {NULL}
  /\ temp # NULL => isopen[temp] # "freed" /\ next[temp] = NULL /\ rpc = "mark"

(* Each descriptor has one node at most, and only descriptors that are     *)
(* seated have one: rm_sockFdSet, whose search has no other end, finds the *)
(* slot, and Close is given an open descriptor once.                       *)
NodesAreSeated ==
  /\ \A c \in Range(evs) : fd[c] \in seated
  /\ \A c, d \in Range(evs) : fd[c] = fd[d] => c = d
  /\ events \subseteq seated
  /\ temp # NULL => fd[temp] \in events

(* The server closes only connections whose peer has hung up, as long as   *)
(* no walk has begun on freed memory: a node is SOCKCLOSE only when its    *)
(* descriptor is at end of file.  After such a walk it need not be so: the *)
(* worker may read from one descriptor and write the outcome into the node *)
(* the reactor is making for another.                                      *)
LiveNotClosed ==
  ~strayed => \A c \in Range(evs) : isopen[c] = "close" => rx[fd[c]] = "eof"

(* What these rest on: a walking worker holds the lock, epoll_wait's       *)
(* events are all converted before Remove_event can close a descriptor,    *)
(* and a walk that began in the list stays in it, reading from the         *)
(* descriptor of the node under the cursor.                                *)
Walking(w) == wpc[w] \in {"walk", "read"}
WalkInv ==
  /\ \A w \in Workers : Walking(w) <=> mutex_EVENT_lock = w
  /\ rpc # "mark" => events = {}
  /\ \A w \in Workers : wpc[w] = "read" => cur[w] # NULL
  /\ ~strayed => /\ temp # NULL => isopen[temp] = "open"
                 /\ \A w \in Workers : Walking(w) =>
                      /\ cur[w] \in Range(evs) \cup {NULL}
                      /\ wpc[w] = "read" => arg[w] = fd[cur[w]]

IInv == TypeOK /\ WalkInv /\ ListInv /\ NodesAreSeated /\ LiveNotClosed

(* The lock does what it is for once a walk is on a node: no node is freed *)
(* under the worker that stands on it.                                     *)
Allocated(c) == c # NULL /\ isopen[c] # "freed"
NotFreedUnderWalk ==
  [][\A w \in Workers :
       Walking(w) /\ Allocated(cur[w]) /\ Walking(w)' /\ cur'[w] = cur[w]
         => isopen'[cur[w]] # "freed"]_vars

(* The reactor and its workers keep the promise of Connections: they read  *)
(* only what a client has sent, and drop a client before it has hung up    *)
(* only after a walk over freed memory.                                    *)
Promise == INSTANCE Connections WITH
             Clients <- Fds, connected <- seated, inbox <- rx, disturbed <- strayed
RefinesConnections == Promise!Spec

(* What was sent is eventually read, unless a walk goes over freed memory: *)
(* that one may never come back from Read.                                 *)
DataIsRead == \A f \in Fds : rx[f] = "data" ~> rx[f] # "data" \/ strayed

(* cluster_event.c:327, the lock around a removal keeps others from being  *)
(* disturbed by it: no worker walks over a node that was freed.            *)
NoFreedNode ==
  \A w \in Workers : Walking(w) /\ cur[w] # NULL => isopen[cur[w]] # "freed"
=============================================================================

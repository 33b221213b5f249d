------------------------------- MODULE Intake -------------------------------
(***************************************************************************)
(* How a client reaches a reactor of the cluster server: accept_thread     *)
(* queues the descriptors it accepts (cluster_sockfd.c) and every reactor, *)
(* at the top of its loop, moves some of them from the queue to the slots  *)
(* of its own sockfd_set (In_reactor_event, rm_sockFdSet of                *)
(* cluster_event.c).                                                       *)
(*                                                                         *)
(* The queue is linked from sock_tail, where reactors take, to sock_head,  *)
(* where accept_thread adds.  A queue cell is named by the descriptor it   *)
(* holds.  In_reactor_event is one step per descriptor it moves; the rest  *)
(* of a reactor's loop is only the clients it closes (EventLoop has it).   *)
(***************************************************************************)
EXTENDS Integers, Sequences, FiniteSets, Functions

CONSTANTS
  Reactors,   \* the MAXRECTOR reactor threads
  Fds,        \* the descriptors accept can return
  Acceptor,   \* accept_thread
  MAXCLIENT,  \* slots of a reactor
  Batch,      \* MAXCLIENT/100, what one pass of In_reactor_event may move
  NULL,       \* the null pointer, and "nobody" as the owner of the mutex
  NoFd        \* the -1 of a free slot

ASSUME IntakeAssumption ==
  /\ IsFiniteSet(Reactors) /\ IsFiniteSet(Fds)
  /\ Acceptor \notin Reactors /\ NULL \notin Reactors \cup Fds \cup {Acceptor}
  /\ NoFd \notin Fds
  /\ MAXCLIENT \in Nat \ {0} /\ Batch \in Nat

VARIABLES
  sock_head, sock_tail, next, sockfd_current_num,   \* the queue
  queue,                                            \* history: its descriptors, oldest first
  mutex_sock_lock,
  sockfd,                        \* accept_thread's local: accepted, not queued yet
  sockfd_set, maxfd,             \* each reactor's slots
  rpc, set_num, event_num,       \* each reactor's program counter and locals
  open                           \* kernel: descriptors that are open

links    == <<sock_head, sock_tail, next, sockfd_current_num, queue>>
reactors == <<sockfd_set, maxfd, rpc, set_num, event_num>>
vars     == <<links, mutex_sock_lock, sockfd, reactors, open>>

Slots == 0..MAXCLIENT - 1

Init ==
  /\ sock_head = NULL /\ sock_tail = NULL /\ next = [f \in Fds |-> NULL]
  /\ sockfd_current_num = 0 /\ queue = <<>>
  /\ mutex_sock_lock = NULL /\ sockfd = NoFd /\ open = {}
  /\ sockfd_set = [r \in Reactors |-> [i \in Slots |-> NoFd]]
  /\ maxfd = [r \in Reactors |-> 0]
  /\ rpc = [r \in Reactors |-> "in"]
  /\ set_num = [r \in Reactors |-> 0] /\ event_num = [r \in Reactors |-> 0]

-----------------------------------------------------------------------------
(* accept_thread. *)

Accept(f) ==
  /\ sockfd = NoFd /\ f \notin open
  /\ sockfd' = f /\ open' = open \cup {f}
  /\ UNCHANGED <<links, mutex_sock_lock, reactors>>

(* Linking a cell at sock_head. *)
LinkForgetsTail ==                      \* faulty: an empty queue gets no sock_tail
  /\ next' = [next EXCEPT ![sockfd] = NULL]
  /\ sock_head' = sockfd
  /\ queue' = Append(queue, sockfd)
  /\ UNCHANGED sock_tail

LinkAtTail ==                           \* faulty: the newest client is served first
  /\ next' = [next EXCEPT ![sockfd] = sock_tail]
  /\ sock_tail' = sockfd
  /\ sock_head' = IF sockfd_current_num = 0 THEN sockfd ELSE sock_head
  /\ queue' = <<sockfd>> \o queue

Link ==
  /\ \/ /\ sockfd_current_num = 0
        /\ sock_tail' = sockfd
        /\ next' = [next EXCEPT ![sockfd] = NULL]
     \/ /\ sockfd_current_num # 0
        /\ next' = [next EXCEPT ![sockfd] = NULL, ![sock_head] = sockfd]
        /\ UNCHANGED sock_tail
  /\ sock_head' = sockfd
  /\ queue' = Append(queue, sockfd)

add_sockfd ==
  /\ sockfd # NoFd /\ mutex_sock_lock = NULL
  /\ Link
  /\ sockfd_current_num' = sockfd_current_num + 1
  /\ sockfd' = NoFd
  /\ UNCHANGED <<mutex_sock_lock, reactors, open>>

-----------------------------------------------------------------------------
(* In_reactor_event.  Its locals set_num and event_num are 0 outside it. *)

(* The while condition, and the free slots the inner while may still find. *)
LeavesOne(r) ==                         \* faulty: does not take the last client
  sockfd_current_num > 1 /\ event_num[r] < Batch /\ set_num[r] < MAXCLIENT
MoreToTake(r) ==
  sockfd_current_num > 0 /\ event_num[r] < Batch /\ set_num[r] < MAXCLIENT

AnySlot(r) == {i \in Slots : i >= set_num[r]}     \* faulty: takes a slot in use
Free(r) == {i \in Slots : i >= set_num[r] /\ sockfd_set[r][i] = NoFd}

InLocks(r) ==
  /\ rpc[r] = "in" /\ mutex_sock_lock = NULL
  /\ mutex_sock_lock' = r
  /\ rpc' = [rpc EXCEPT ![r] = "fill"]
  /\ UNCHANGED <<links, sockfd, sockfd_set, maxfd, set_num, event_num, open>>

(* rm_sockfd, called with a queue that is not empty. *)
rm_sockfd ==
  /\ sock_tail' = next[sock_tail]
  /\ sockfd_current_num' = sockfd_current_num - 1
  /\ queue' = Tail(queue)
  /\ UNCHANGED <<sock_head, next>>

InSeats(r) ==
  /\ rpc[r] = "fill" /\ MoreToTake(r)
  /\ \E i \in Free(r) :
       /\ \A k \in Free(r) : i <= k
       /\ sockfd_set' = [sockfd_set EXCEPT ![r][i] = sock_tail]
       /\ set_num' = [set_num EXCEPT ![r] = i]
  /\ rm_sockfd
  /\ event_num' = [event_num EXCEPT ![r] = @ + 1]
  /\ UNCHANGED <<mutex_sock_lock, sockfd, maxfd, rpc, open>>

Returns(r) ==
  /\ rpc' = [rpc EXCEPT ![r] = "serve"]
  /\ set_num' = [set_num EXCEPT ![r] = 0]
  /\ event_num' = [event_num EXCEPT ![r] = 0]

(* No slot is left: "return 0", with the mutex locked and maxfd as it was. *)
InFull(r) ==
  /\ rpc[r] = "fill" /\ MoreToTake(r) /\ Free(r) = {}
  /\ Returns(r)
  /\ UNCHANGED <<links, mutex_sock_lock, sockfd, sockfd_set, maxfd, open>>

RaisedPastEnd(r) == set_num[r] + 1      \* faulty: one past the slot in use
NotRaised(r) == maxfd[r]                \* faulty: maxfd is never raised
Raised(r) == IF maxfd[r] < set_num[r] THEN set_num[r] ELSE maxfd[r]

InLeaves(r) ==
  /\ rpc[r] = "fill" /\ ~MoreToTake(r)
  /\ mutex_sock_lock' = NULL
  /\ Returns(r)
  /\ maxfd' = [maxfd EXCEPT ![r] = Raised(r)]
  /\ UNCHANGED <<links, sockfd, sockfd_set, open>>

-----------------------------------------------------------------------------
(* The rest of the reactor's loop, as far as it touches the slots. *)

(* rm_sockFdSet for a client that has hung up.  The search for a new maxfd *)
(* goes down to the first slot that holds -1, from the one just cleared.   *)
rm_sockFdSet(r, i) ==
  /\ rpc[r] = "serve" /\ sockfd_set[r][i] # NoFd
  /\ sockfd_set' = [sockfd_set EXCEPT ![r][i] = NoFd]
  /\ \/ /\ i = maxfd[r]
        /\ \E k \in 0..i :
             /\ sockfd_set'[r][k] = NoFd
             /\ \A m \in k + 1..i : sockfd_set'[r][m] # NoFd
             /\ maxfd' = [maxfd EXCEPT ![r] = k]
     \/ i # maxfd[r] /\ UNCHANGED maxfd
  /\ open' = open \ {sockfd_set[r][i]}
  /\ UNCHANGED <<links, mutex_sock_lock, sockfd, rpc, set_num, event_num>>

Loops(r) ==
  /\ rpc[r] = "serve"
  /\ rpc' = [rpc EXCEPT ![r] = "in"]
  /\ UNCHANGED <<links, mutex_sock_lock, sockfd, sockfd_set, maxfd, set_num, event_num, open>>

-----------------------------------------------------------------------------

In_reactor_event(r) == InLocks(r) \/ InSeats(r) \/ InFull(r) \/ InLeaves(r)

Reactor(r) == In_reactor_event(r) \/ Loops(r)

Next ==
  \/ \E f \in Fds : Accept(f)
  \/ add_sockfd
  \/ \E r \in Reactors : Reactor(r) \/ \E i \in Slots : rm_sockFdSet(r, i)

Spec == Init /\ [][Next]_vars

(* Threads that can run do run; clients need not connect or hang up.  A     *)
(* reactor spends up to 10 ms of every loop in epoll_wait without the      *)
(* mutex, so accept_thread is not starved of it for ever.  Nothing is said *)
(* of Loops: the rest of a reactor's loop may block for ever, at the event *)
(* list's lock while a worker reads from a silent client (line 257, 398),  *)
(* or retrying a pool that stays full (line 310).                          *)
FairSpec == Spec /\ SF_vars(add_sockfd) /\ \A r \in Reactors : WF_vars(In_reactor_event(r))
-----------------------------------------------------------------------------
(* Properties. *)

TypeOK ==
  /\ {sock_head, sock_tail} \subseteq Fds \cup {NULL}
  /\ next \in [Fds -> Fds \cup {NULL}]
  /\ sockfd_current_num \in Nat /\ queue \in Seq(Fds)
  /\ mutex_sock_lock \in Reactors \cup {NULL}
  /\ sockfd \in Fds \cup {NoFd}
  /\ sockfd_set \in [Reactors -> [Slots -> Fds \cup {NoFd}]]
  /\ maxfd \in [Reactors -> Slots] /\ set_num \in [Reactors -> Slots]
  /\ event_num \in [Reactors -> Nat]
  /\ rpc \in [Reactors -> {"in", "fill", "serve"}]
  /\ open \subseteq Fds

(* The two ends of the queue, its links and its counter agree with the     *)
(* order in which clients were accepted.  sock_head is left dangling when  *)
(* the last cell is taken, so it counts only while the queue is not empty. *)
ListInv ==
  /\ sockfd_current_num = Len(queue)
  /\ sock_tail = IF queue = <<>> THEN NULL ELSE queue[1]
  /\ queue # <<>> => sock_head = queue[Len(queue)]
  /\ \A i \in 1..Len(queue) :
       next[queue[i]] = IF i = Len(queue) THEN NULL ELSE queue[i + 1]

Seated == {sockfd_set[r][i] : r \in Reactors, i \in Slots} \ {NoFd}

(* Every open descriptor is in exactly one place - accept_thread's hands,  *)
(* the queue, or one slot of one reactor - and what is there is open: no   *)
(* client is served by two reactors or forgotten, and Close is never given *)
(* a descriptor that is not open (perr_exit would end the server).         *)
FdOwnership ==
  /\ open = ({sockfd} \ {NoFd}) \cup Range(queue) \cup Seated
  /\ sockfd \notin Range(queue) \cup Seated
  /\ IsInjective(queue) /\ Range(queue) \cap Seated = {}
  /\ \A r, s \in Reactors, i, k \in Slots :
       sockfd_set[r][i] # NoFd /\ sockfd_set[r][i] = sockfd_set[s][k] => r = s /\ i = k

(* maxfd covers every slot in use, except while the reactor is moving      *)
(* descriptors or after it left In_reactor_event with the mutex locked.    *)
(* It is a bound only, not the largest slot in use of cluster_event.c:149: *)
(* the search of rm_sockFdSet stops at once, so maxfd is never lowered.    *)
MaxfdCovers ==
  \A r \in Reactors, i \in Slots :
    sockfd_set[r][i] # NoFd /\ mutex_sock_lock # r => i <= maxfd[r]

(* What the invariants above rest on: the reactor in In_reactor_event has  *)
(* the mutex, and the slots it has just filled end at set_num.             *)
FillInv ==
  \A r \in Reactors : rpc[r] = "fill" =>
    /\ mutex_sock_lock = r
    /\ \A i \in Slots : sockfd_set[r][i] # NoFd => i <= maxfd[r] \/ i <= set_num[r]

IInv == TypeOK /\ FillInv /\ ListInv /\ FdOwnership /\ MaxfdCovers

(* The intake implements the hand-out of Dispatch. *)
Serves(r, f) == \E i \in Slots : sockfd_set[r][i] = f
ServerOf(f) ==
  IF \E r \in Reactors : Serves(r, f) THEN CHOOSE r \in Reactors : Serves(r, f) ELSE NULL
HandOut == INSTANCE Dispatch WITH
             Clients <- Fds, Servers <- Reactors, Room <- MAXCLIENT, Nobody <- NULL,
             waiting <- queue, server <- [f \in Fds |-> ServerOf(f)]
RefinesDispatch == HandOut!Spec

StuckFull == \E r \in Reactors : mutex_sock_lock = r /\ rpc[r] # "fill"

(* As long as some reactor, no matter which, keeps coming back from the    *)
(* rest of its loop, every client that was accepted is eventually given to *)
(* a reactor, even if all the others are blocked there for ever; unless a  *)
(* reactor that found itself full has kept the mutex.                      *)
KeepsComing(r) == []<>(rpc[r] # "serve")
SeatedUnlessFull ==
  (\E r \in Reactors : KeepsComing(r)) =>
    \A f \in Fds : sockfd = f \/ f \in Range(queue) ~> f \in Seated \/ StuckFull

(* However busy the reactors come back, a client that was accepted is      *)
(* eventually given to one, which the code achieves only while no reactor  *)
(* fills up.  cluster_main.c:5-6 states it of ten thousand clients for ten *)
(* reactors of a thousand slots.                                           *)
AcceptedIsSeated ==
  (\A r \in Reactors : KeepsComing(r)) =>
    \A f \in Fds : sockfd = f \/ f \in Range(queue) ~> f \in Seated
=============================================================================

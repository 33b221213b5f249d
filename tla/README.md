# TLA+ models of the cluster server and the chat room

The repository holds three C programs:

* `clustersever-V01/`: a server that is meant to hold ten thousand connections
  with ten reactor threads (epoll) and a pool of fifty worker threads;
* `server/`: a chat-room server, a `select` loop and one message thread;
* `client/`: its client, a menu thread and two polling threads.

All three are modelled here.  The chat server and its client are two programs
that meet only at the socket; the cluster server shares no code with them.

## 1. Inventory

| component | state | operations | talks to |
|---|---|---|---|
| thread pool, `threadpool.c` | linked list of jobs, count, close flag; mutex, condition | `threadpool_init`, `add_pthread_job`, `thread_basic_function`, `pthread_pool_destory` | called by the reactors; runs `read_thread_callfuction` |
| socket queue, `cluster_sockfd.c` | linked list of accepted descriptors, count; mutex | `sockfd_Init`, `add_sockfd`, `rm_sockfd` | `accept_thread` adds, the reactors take |
| intake, `cluster_event.c` | each reactor's slots `sockfd_set`, `maxfd` | `accept_thread`, `In_reactor_event`, `rm_sockFdSet` | the socket queue, the kernel's epoll sets |
| event loop, `cluster_event.c` | each reactor's list of `epollEvent` nodes with `isopen`; mutex | `epoll_reactor`, `My_event`, `add_epollevent`, `Read_event`, `Remove_event`, `read_thread_callfuction` | the pool, whose workers walk and change the reactor's list |
| start-up, `cluster_main.c`, `cluster_network.c` | the globals above | `main`, `system_Init`, `epoll_init`, `socket_init` | starts everything once |
| wrappers, `wrap.c` | none | `Accept`, `Read`, `Close`, ... | end the process or return -1 on an error |
| chat server: clients, `server/msgclient.c` | linked list of (descriptor, name) | `Insert_node`, `Remove_node`, `Find_node`, `find_clientname_node`, `sock_flash`, `Isockfd`, `sinert` | used by both threads of the chat server without a lock |
| chat server: threads, `server/main.c`, `Cmmand.c` | one receive buffer, one send buffer, their ids, `msg_status`, `flag_set_all`, `sockfdarrar` | the `select` loop, `thr_fn`, `selectCmmand` and its handlers | everything shared is a global without a lock |
| chat format, `processdata.c`, `Message.c` | none | `processData`, `writeDataBuffer` | both chat programs |
| chat client, `client2.c`, `Cmmand.c` | `readbuf`, `sendbuf`, `msgse_flag`, `chatclient` | `thr_fn`, `thr_f2`, `islogin`, `FindUser`, `sendmessage`, `sendAllUser` | polls the chat server once a second |
| user database, `processsql.c` | MySQL table | `InsertRegiseSql`, `SearchRegiseSql` | external |

What is hard in the cluster server, and what makes each part correct:

* **pool**: the limit and the close flag are used outside the lock; one signal
  per job must not leave a job with every idle worker asleep; a job must be
  run and freed once.
* **queue and intake**: reactors take concurrently from a list whose
  `sock_head` dangles when it is empty; a descriptor must always be in one
  place; a reactor that fills up leaves with the mutex locked.
* **event loop**: the reactor searches the list and tests `isopen` without the
  lock, and workers read its head without it; nodes are freed under their
  feet, and that memory is initialised again, or freed still SOCKOPEN, while
  they stand on it; events are level-triggered and may be stale; `read` blocks
  with the lock held; `rm_sockFdSet` and `Close` do not survive a descriptor
  they are given twice.

What is hard in the chat programs:

* **chat server**: two threads share both buffers, their ids, three flags and
  the list of clients without any lock, and each reads one thing, acts, and
  reads it again; nodes are freed by one thread under the other; slots and
  descriptors are reused in the middle of a request; `select` counts what is
  ready and the loop must find as many.
* **message format**: buffers are parsed while the other thread writes them,
  and a stream does not separate messages.
* **chat client**: main and `thr_f2` parse into one `chatclient`, which each
  reads again after it has tested it; main and the handlers erase and print
  `sendbuf` under the eyes of `thr_fn`, which reads a `volatile` flag twice; an
  answer stays in `readbuf` for one second; what `Read` and `Write` return is
  not looked at when the server has ended.

`PROJECT.json` lists each hazard at its line, with the properties that cover
it or the reason why none does.

## 2. Modules

| module | models | abstract specification |
|---|---|---|
| `ThreadPool` | `threadpool.c` | `JobPool` |
| `Intake` | `cluster_sockfd.c`; `accept_thread`, `In_reactor_event`, `rm_sockFdSet` | `Dispatch` |
| `EventLoop` | `epoll_reactor`, `My_event`, `add_epollevent`, `Read_event`, `Remove_event`, `read_thread_callfuction` | `Connections` |
| `ChatServer` | `server/main.c`, `server/Cmmand.c`, `msgclient.c`; the database as a set of names | |
| `ChatFormat` | `processData` and `writeDataBuffer` | |
| `ChatClient` | `client2.c`, `client/Cmmand.c`; the server as its environment | |
| `QueueLemmas` | facts about sequences without repetition, and about counting in sets of numbers, used by the proofs | |
| `ThreadPoolProofs`, `IntakeProofs`, `EventLoopProofs`, `ChatServerProofs`, `ChatFormatProofs`, `ChatClientProofs` | theorems | |
| `MCEventLoop`, `MCChatServer` | symmetry set, and who owns which descriptor, for TLC | |

### What is one step

A critical section is one action when it reads nothing that is written outside
its lock.  Every read or write the code does *outside* the lock is a step of
its own, and so is every place where a thread can block.

**ThreadPool.**  The variables are the fields of `struct threadpool`, the set
`heap` of job cells malloc has handed out, and a program counter and the local
variable of each thread.  Memory cells have names, so a freed cell can be
handed out again while an old pointer to it still exists.
`add_pthread_job` is `AddBegins` (unlocked test, malloc) or `AddFails`, then
`AddLinks` (link, test of the close flag, signal).  A worker is `WorkerLocks`,
`WorkerTests` (the `while` condition), `WorkerWaits`, `WorkerTakes` or
`WorkerExits`, `WorkerFinishes`; test and wait are two steps because the
destroyer writes the close flag without the lock in between.
`SpuriousWakeup` is what POSIX allows.  `pthread_pool_destory` is six
actions, the purge one job at a time.  `fifo` is a history variable: the order
in which jobs were linked.

**Intake.**  A queue cell is named by the descriptor it holds (a descriptor is
queued once at a time).  `add_sockfd` is one step; `In_reactor_event` is
`InLocks`, one `InSeats` per descriptor (with `rm_sockfd` in it), and
`InLeaves` or `InFull`.  `InFull` is the `return 0` of line 169 that keeps the
mutex.  `queue` is history.  `open` is the kernel's set of open descriptors.
That `maxfd` is written after the unlock is folded into `InLeaves`: it belongs
to one reactor and no other thread reads it.

**EventLoop.**  One reactor and the workers that run its jobs; several
reactors share only the socket queue and the pool.  `evs` is the list from its
head on and `next` the link fields; `ListInv` says they agree, and walks follow
`next`, as the code does.  `rx[f]` is what `read` would find: nothing (it
blocks), data, end of file, or a reset that fails one read.  `add_epollevent`
converts one event; `Looks` is the unlocked search of `Read_event`: only the
reactor makes a node SOCKOPEN or changes the list, so walking it and looking at
all of it at the end of the walk, or when the node is found, give the same
answer.  `add_epollevent` is two steps: `Allocates` hands out memory and
initialises it without the lock (`temp`), the rest marks the descriptor's node
and frees `temp` again, or links `temp`, under the lock.  `Remove_event`'s two
loops are one cursor: `perevise` is NULL while the head is looked at.  A worker
is `TakesJob`, `ReadsHead` (unlocked), `Locks`, for each node `Skips` or
`CallsRead` and `ReadReturns`, and `Unlocks`; between the last two it is in
`Read`, with `arg` the descriptor it read from the node.

Memory that is not allocated reads as anything (`Freed`): as SOCKOPEN, which is
0 and which lines 255 and 268 leave behind, or not; as any descriptor; with a
link to any cell or out of the list.  So an overtaken worker may read from a
descriptor that is not its node's, block there, walk on into the list, and
write the outcome into memory the reactor is initialising for somebody else.
`strayed` is a history variable: some walk has begun outside the list.  What
holds only before that says so (`LiveNotClosed`, `DataIsRead`, `Drop` in
`Connections`); everything else holds throughout.  Beyond the model is what a
write to freed memory does to the allocator, a link out of freed memory to
something that is no `epollEvent` at all, and what a stray read takes from a
descriptor outside this reactor.

The pool is `JobPool`'s bounded queue; as all jobs are the same callback with
the same argument, it is the counter `jobs`, and with one reactor there is one
caller, for which `BoundedExcess` makes the limit exact.

**ChatServer.**  Every access of main or `thr_fn` to a global the other one
writes is a step, in the order of the code: main sets `readbuf_msg.ID`, looks
for the node, clears and fills the buffer, tests `sendbuf_msg.buffer`, compares
the id, and reads the buffer again to write it; `thr_fn` tests the ends of the
request, takes its fields, reads the id of the moment, searches, names,
answers, composes (`writeDataBuffer` passes through the empty and the torn
buffer), clears the request, and tests `msg_status`.  A walk of the list is one
step; what is done with the node it found is another, and `p` becomes `Freed`
if main removes the node in between, or a new node if malloc hands the memory
out again.  `client[]`, `maxi`, `maxfd`, `allset`, `nready` and `rset` are
main's own and are those of the code; `rset` loses what has been served, where
the code moves `i` past it.  A message is its command and the one name its
handling depends on.  `exit` and SIGPIPE set `down`, and nothing happens after
that.  A client (`peer`, `wire`) asks, waits for the answer and only then asks
again, as `client2.c` does (`OneAtATime` of `ChatClient`); it may hang up at any
time, and its connection is reset if it does so with an answer unread.

**ChatFormat.**  The two functions on sequences of character codes, with the
indices of the code, and a small state machine that carries one text from the
writer to a reader who may see it whole, torn, or joined with the next.

**ChatClient.**  Each read or write of `sendbuf`, `readbuf`, `chatclient` and
`msgse_flag` by one of the three threads is a step; the flag is read twice by
`thr_fn`'s `if ... else if`.  What is done twice in the code is done twice
here: `chatclient` is forgotten and filled by a parse (`ForgetsChat`,
`ParsesAnswer`), tested (`TestsChat`), read again as `selectCmmand`'s argument
(`Selects`), printed from (`Prints`) and copied from (`CopiesNames`), and
`thr_f2` may parse another message into it before each of those; `sendbuf` is
erased before it is printed to, in `writeDataBuffer` and in each handler
(`ErasesForHandler`).  `username_arrar` is the set of the messages its text was
copied from.  A listing that `islogin` or `thr_f2` hands to `processLOOK` is
written through a null pointer, which ends the client.  Sleeps take any time,
so "one second" is "until the thread goes on".  The server answers a request
with what was asked for, the default message, or something meant for an earlier
holder of the descriptor (`ServerStrays`): what `ChatServer` lets its clients
see.  It may also leave the request unanswered for ever (`chat_hung`), or end
(`ServerEnds`, `conn`): `Read` then returns 0 or -1 at once, and the writes
after it are answered by a reset, fail, and raise SIGPIPE.  `received` is
history.

## 3. Runs

| run | question | states |
|---|---|---|
| `pool` | pool with 3 workers, 2 callers, 3 cells, limit 1, and the destroyer; every linked job is started | 315,447 |
| `intake` | 2 reactors of 2 slots, 3 descriptors; as long as one reactor comes back from its loop, clients are seated unless a reactor fills up | 91,208 |
| `intake_full` | *violation*: a full reactor stops the intake (`cluster_main.c:6`) | |
| `loop` | 2 descriptors, 3 cells, 1 worker, 1 job; data is read while clients keep talking or hang up, unless a walk strays | 558,626 |
| `loop_freed` | *violation*: a worker walks over a freed node (`cluster_event.c:327`) | |
| `chat_safety` | 2 slots, 3 descriptors, 3 connections, 1 request besides polls | 2,596,453 |
| `chat_serve` | 3 slots, 3 descriptors, 4 connections that poll: what is sent is read | 282,528 |
| `chat_hung` | *violation*: a client is never answered (`server/main.c:29`) | |
| `chat_identity` | *violation*: a login names another client's node (`server/Cmmand.c:3`) | |
| `chat_broadcast` | *violation*: the first member of a broadcast is left out (`readme.txt:19`) | |
| `chat_client` | a login, one command of the menu, one stray answer, a server that may be silent or end | 755,535 |
| `chat_format` | all messages with fields of up to 2 of 3 characters | 304,876 |

**Bounds.**  The cluster server's modules have no cap on any counter: queues
are bounded by the cells or descriptors there are, which are reused for ever.
Three workers are enough for one to hold the mutex, one to sleep and one to
run; two callers for one to overtake another past the unlocked test at a limit
of one; three cells for the list to exceed the limit while a job is in hand, and
for malloc to fail.  Two reactors of two slots with three descriptors fill one
reactor while the other has room and leave a hole below `maxfd`.  Three
cells are a node for each of two descriptors and one that `add_epollevent` has
just made; they are used again under a worker that still points to them.
`loop` has one worker: it and the reactor are enough for every stale pointer,
and the lock lets one worker walk at a time; `loop_freed` has two, and the
theorems any number.  The batch limit MAXCLIENT/100 is the constant `Batch`, 1 in the runs.

The chat modules cap what the environment does: `MaxClients` connections,
`MaxRequests` requests other than polls, `MaxCommands` entries of the menu,
`MaxIncoming` stray answers.  Three connections over two slots close and reuse
a slot and a descriptor and find the table full (`TooManyClients`).  One request
is enough for every handler of `thr_fn` to overlap with polls of other clients
and with the reuse of its descriptor; that a request follows a request is
reached through the polls, which `thr_fn` sees as it sees a request.
One command of the menu after the login, and one stray answer, are what each
race of the client's three threads needs; a private message to a name of the
table takes two commands, and differs from a broadcast, which takes one, only in
the name it carries.
`chat_serve` has no requests: reading does not depend on what `thr_fn` does,
only on the seats and the round, and four connections over three slots leave
and refill holes below `maxi`.  `FlashLen` is 2, so that a broadcast fills
`sockfdarrar`.  In `chat_format`, the characters are "$", "@" and a letter: the
format distinguishes no others.

**Deadlock** is checked in `loop` and `loop_freed`.  It is off where the system
really stops: a pool that has been destroyed, an intake whose mutex is never
released, a chat server that has called `exit`, a client that has ended or
waits for an answer for ever, a message that has been parsed.

**Fairness.**  A thread that can run does run (weak fairness per thread); a
pool callback returns.  Callers of the pool, its destroyer, clients that
connect, talk, reset or hang up, and spurious wake-ups owe nothing, except in
`TalkSpec`, whose clients each keep sending or hang up.  `AcceptedJobRuns` is
about a pool nobody destroys.  `add_sockfd` has strong fairness: the mutex it
waits for is free whenever the reactors sit in `epoll_wait`, up to 10 ms of
every round, so `accept_thread` is not kept from it for ever.  Nothing is
assumed of the rest of a reactor's loop (`Loops`), which a silent client can
block for ever at the event list's lock (`cluster_event.c:257`, held by a worker
in `Read`, 398) or at a pool that stays full (310): `SeatedUnlessFull` asks
only that some reactor keeps coming back (`KeepsComing`), and
`AcceptedIsSeated`, which is refuted, grants that all do.

In `ChatServer`, `FairSpec` says that main goes on serving what is ready
(`Serves`); accepting is not part of it, and `thr_fn` may stand still.
`PollingSpec`, for `chat_hung`, adds that `thr_fn` runs and that a client which
can ask does ask, once a second.  In `ChatClient`, main's menu thread and
`thr_fn` run; the server owes nothing, and the user need not choose anything.

### What the violations show

1. **`intake_full`** (`cluster_event.c:169`): one full reactor, the other empty,
   and the second client is never seated.  What holds instead is
   `SeatedUnlessFull`.
2. **`loop_freed`** (`cluster_event.c:390`): the head is read before the lock.
   What holds instead is `NotFreedUnderWalk`, checked and proved: a worker
   that has got onto the list is never overtaken.
3. **`chat_hung`** (`server/main.c:266`): `thr_fn` erases `sendbuf_msg.buffer`
   after main has tested it; main writes a string of length 0, and the client,
   whose `Read` blocks, never asks again.  What holds is `RequestIsRead`.
4. **`chat_identity`** (`server/main.c:62`): main stores the next client's
   descriptor in `readbuf_msg.ID` before `thr_fn` has read it for a login; the
   name goes to the wrong node.  What holds is `NamesRegistered`.
5. **`chat_broadcast`** (`msgclient.c:155`): index 0 is taken for "not in it".

The models contain more that a caller or user might not expect and that has no
run of its own: the pool's limit is exceeded by fewer jobs than there are callers
(`BoundedExcess`); `add_pthread_job` returns 0 for a linked job, and
`pthread_pool_destory` can wait for ever, if the pool is destroyed, which
nothing does; a client that stays silent blocks a worker with the event lock
(`DataIsRead` holds under `TalkSpec` only); a worker that walks over freed
memory may close a connection that is alive or never return from `Read`; the
chat client's names may be taken from a private message, its login may be
replaced in `sendbuf` by the text of one and never be granted, and its `thr_fn`
may wait for an answer to nothing as soon as it has received anything but the
default; a broadcast does not end when a
member leaves; a client's request or a private message can be overwritten
before it is obeyed or sent.

## 4. Properties

* `ThreadPool`: `ListInv` (pointers, links and count agree with the order of
  arrival), `JobOwnership` (each cell in one place), `BoundedExcess`,
  `NoJobOverslept` (while a worker sleeps, jobs do not outnumber the workers
  on their way), `RefinesJobPool`, `AcceptedJobRuns`.
* `Intake`: `ListInv`, `FdOwnership` (each open descriptor in one place),
  `MaxfdCovers`, `RefinesDispatch` (first come, first served, one reactor with
  room each), `SeatedUnlessFull`.
* `EventLoop`: `ListInv` (with the sweep's cursor), `NodesAreSeated` (what
  `rm_sockFdSet` and `Close` rely on), both also after walks over freed memory;
  `LiveNotClosed`, `NotFreedUnderWalk`, `RefinesConnections` (data is taken by a
  read of its own connection only, and until a walk strays only a client that
  has hung up is dropped), `DataIsRead`.
* `ChatServer`: `Seated` (each open descriptor is in `allset` and in one slot
  that `select` and the loop reach), `ListSound` (one node per connection, none
  for a closed one, although descriptors are reused while `thr_fn` works),
  `NamesRegistered`, `WritesOnlyToAsking`, `RoundServesAll` (counting `nready`
  down never leaves out what `select` reported), `ReadsNeverBlock` (nor does it
  send main into a `Read` that waits), `RequestIsRead`.
* `ChatFormat`: `RoundTrip`, `TornIsIgnored`, `FirstOfJoined`.
* `ChatClient`: `OneAtATime`, `SessionAfterAnswer`, `ListingWasReceived` (what
  the shared `chatclient` must not bring about), `LoginKeepsAsking` (until
  anything but the default has come, `thr_fn` never waits for an answer to
  nothing), `EndsWithServer` (nobody looks at `Read`'s 0 or -1, and the client
  ends all the same).

Each property of a passing run is broken by a faulty variant of one mapped
definition; the variants stand before it, marked `faulty`.

## 5. Proofs

Every theorem is `Spec => ...` for all values of the constants under the
module's assumption:

* `PoolAssumption`: workers, callers, destroyer and NULL are different; finitely
  many workers and callers; `pjob_max` is positive.  Jobs may be infinite.
* `IntakeAssumption`: finitely many reactors and descriptors; NULL and NoFd are
  none of them; at least one slot.
* `EventLoopAssumption`: NULL and NoFd are not cells, workers or descriptors;
  the pool takes at least one job.
* `ChatServerAssumption`: finitely many descriptors, positive numbers; a client
  has one of the names, and "admin" and the empty string are not among them; at
  least one slot and one entry of `sockfdarrar`; the bounds are numbers.
* `ChatFormatAssumption`: characters and the length of a field are numbers, a
  command is one digit.  The characters may include the separators.
* `ChatClientAssumption`: four different names; the bounds are numbers, however
  large (the proofs need only the latter).

Every invariant that a passing run checks, every action property and every
refinement is proved.  Each component has one inductive invariant `IInv`, a
conjunction of named parts:

* **pool**: `TypeOK`, `LockInv` (who holds the mutex is where its counter says),
  `TestInv` (what the holder tested is still true), `HandInv` (who has a job in
  hand), `ListInv`, `JobOwnership`.  Neither of the last two is inductive
  alone: that `WorkerTakes` finds a job needs `TestInv`, which needs `LockInv`;
  that the tail's link stays right needs the new cell to be in no other place.
  `BoundedExcess` is then proved by counting callers past the test, and
  `NoJobOverslept` by counting awake workers, each inductive relative to
  `IInv`; `RefinesJobPool` maps each action to a step of `JobPool` or a
  stutter.
* **intake**: `TypeOK`, `FillInv` (the filling reactor holds the mutex and has
  filled up to `set_num`), `ListInv`, `FdOwnership`, `MaxfdCovers`.
  `RefinesDispatch` rests on it twice.  The abstract `server` is the reactor
  that has a client in a slot, and `FdOwnership` says there is one at most
  (`ServersKnown`); a reactor with a free slot serves fewer than `MAXCLIENT`
  clients, as each of them has a slot of its own (`RoomFacts`, an injection into
  the slots without one).  `add_sockfd` is then `Arrive`, `InSeats` is `Assign`
  (`ListInv` makes `sock_tail` the first in line), `rm_sockFdSet` is `Leave`,
  and all else a stutter.
* **event loop**: `TypeOK`, `WalkInv`, `ListInv`, `NodesAreSeated`,
  `LiveNotClosed`.  `WalkInv` has the lock discipline, that events are converted
  before a sweep, and what separates a walk that stays in the list from one
  that does not: until `strayed`, a walker's cursor is on the list, its `arg` is
  the descriptor of the node it stands on, and the node being made is SOCKOPEN.
  The first two hold of every walk the code can make; `ListInv` and
  `NodesAreSeated` do not need the third, because a stale write changes
  `isopen` only, and never to or from "freed".  `NotFreedUnderWalk` is an action
  property that follows from `IInv`: only `Removes` and `Marks` free, both under
  the lock the walker has, and `Marks` frees `temp`, which is in no list.
  `RefinesConnections` maps `Removes` to `Drop`, `ReadReturns` to `Receive`,
  `Notice` or a stutter, and the first stray `Locks` to `Disturb`: the cursor of
  the sweep is on the list (`ListInv`), so what it closes is seated
  (`NodesAreSeated`), and at end of file unless a walk has strayed
  (`LiveNotClosed`).
* **chat server**: the two halves of the proof are the two threads.  `MainInv` is
  what `thr_fn` cannot touch: types, `Seated`, `WireAsked` (an unread request is
  that of a client that waits, or left while it waited), `RoundInv`,
  `WritesOnlyToAsking`.  `RoundInv` is the strengthening everything about the
  round needs: `nready` is the number of descriptors left in `rset`, each is
  open and, but for the one in hand, still readable, and main is at `select`
  exactly when none is left.  `RoundServesAll` follows at once, and
  `ReadsNeverBlock` from it with `Seated`: what is left has a slot within `maxi`.
  `ListInv` (`ListSound`, `NamesRegistered`) needs `NameKnown`: between the
  lookup in the database and the naming, `chatreceive.name` stays registered,
  which holds because `chatreceive` is `thr_fn`'s own and no name is ever taken
  out of the table.
* **chat format**: the state is simple (`FInv`: what has been read is
  `processData` of what has arrived), the text is not.  `TextFacts` gives the
  text character by character; a separator is found by counting, so `EndIs`,
  `FieldIs` and `AtLeastFour` count with `Below` of `QueueLemmas`.
  `RoundTrip` shows that the first three "$" are the writer's when the names
  have none, and that the fourth is the first of the text or the one after it;
  `FirstOfJoined` that the four counted in the first message are the first four
  of both; `TornIsIgnored` that a part that ends as a message does puts "@$"
  inside the text.  Fields of any length over any characters: the run's three
  characters and length two are not a restriction.
* **chat client**: `Places` and `Values` (the two halves of `TypeOK`), `ReadInv`
  (`readbuf` holds what was read, and no request is under way after the
  server's end), `GoalInv` (where main is says what it asks for), `AnswerInv`,
  `LoginInv`, and the run's own invariants.  `AnswerInv` is what survives
  `thr_f2`: from main's `Initchat` on, whoever parses into `chatclient` takes the
  message from `readbuf`, so whatever main copies has been received, and a
  listing had come when main tested for one - although what it copies need not
  be that listing.  `LoginInv` describes the client as long as nothing but the
  default has come (`Quiet`): main is in its login and handles nothing,
  `thr_f2` does not run, and the flag has been raised once, over a composed
  request.

`QueueLemmas` has what `Append`, `Tail` and taking out the k-th element do to a
sequence without repetition; that a set of numbers has a least element (from
the well-foundedness of inclusion on finite sets, as induction is out of reach);
and how many elements of a finite set are not above one of them.

Only model-checked: `AcceptedJobRuns`, `SeatedUnlessFull`, `DataIsRead`,
`RequestIsRead` and `EndsWithServer` (liveness is out of the prover's reach), and the
violations.

## 6. What is not modelled, and why

* Start-up: it runs before anything is shared.  `sockfd_container` is a local
  of `system_Init` that outlives its function; C gives that no meaning.
* `exit` on a failed malloc, accept or close in the cluster server: the process
  ends and nothing is left to say.
* What the programs print, the record files, sleeping times, MySQL beyond the
  set of names and a query that is refused or fails, passwords.
* `travse_node` and `sinert` (they read the list for a text), `Remove` and the
  wrappers `Readn`, `Writen`, `my_read`, `Readline` (no caller).
* Fields longer than their arrays, and races inside one walk of the chat
  server's list, one `strcpy`, or one parse of `chatclient` beyond empty, torn
  and whole: C gives the outcome no meaning that the model could enumerate.
* That several reactors' jobs wait for each other in the pool: `EventLoop` has
  one reactor (planned, below).
* Whether a hung-up connection of the cluster server is eventually removed:
  every `epoll_wait` marks its node SOCKOPEN again, and whether the sweep ever
  finds it SOCKCLOSE depends on the relative speed of worker and reactor.  Weak
  fairness does not give it.
* Whether a private message arrives: it is offered for one second to a thread
  that polls once a second, and both twice and never are possible.

## 7. Plan

1. *Done*: `ThreadPool`, `Intake`, `EventLoop`, their runs and their proofs.
2. *Done*: `ChatServer` (with the list of clients in it), `ChatFormat`,
   `ChatClient`, and their runs.
3. *Done*: the proofs of every invariant, action property and refinement of
   the runs.
4. Composition: `ClusterServer`, several reactors over one `ThreadPool` and one
   `Intake`; `ChatServer` with `ChatClient` in place of its `Says`.  Their
   interfaces are stated and checked on both sides (`OneAtATime` against
   `WritesOnlyToAsking`, `JobPool` against `Submits`).

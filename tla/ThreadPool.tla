----------------------------- MODULE ThreadPool -----------------------------
(***************************************************************************)
(* The thread pool of the cluster server, clustersever-V01/src/            *)
(* threadpool.c: a linked list of jobs between the threads that call       *)
(* add_pthread_job and the workers that run thread_basic_function, guarded *)
(* by mutex_job_lock and cond_isjob, and pthread_pool_destory.             *)
(*                                                                         *)
(* A critical section that reads nothing written outside the lock is one   *)
(* action.  What the code reads or writes without the lock has a step of   *)
(* its own: the capacity test of add_pthread_job, the write of             *)
(* pthread_close, the gap between a worker's test and its wait.            *)
(***************************************************************************)
EXTENDS Integers, Sequences, FiniteSets, Functions

CONSTANTS
  Workers,     \* the pthread_max threads of the pool
  Submitters,  \* the threads that call add_pthread_job
  Jobs,        \* the cells malloc can hand out for a struct job
  Destroyer,   \* the thread that calls pthread_pool_destory
  pjob_max,    \* the limit given to threadpool_init
  NULL         \* the null pointer, and "nobody" as the owner of the mutex

ASSUME PoolAssumption ==
  /\ IsFiniteSet(Workers) /\ IsFiniteSet(Submitters)
  /\ Workers \cap Submitters = {}
  /\ Destroyer \notin Workers \cup Submitters
  /\ NULL \notin Workers \cup Submitters \cup Jobs \cup {Destroyer}
  /\ pjob_max \in Nat \ {0}

VARIABLES
  job_current_num, job_head, job_tail, next,   \* the list of jobs
  pthread_close,
  mutex_job_lock,  \* the thread that holds it, or NULL
  heap,            \* the job cells malloc has handed out and free has not
  wpc, job_temp,   \* workers: program counter, local job_temp
  spc, work,       \* submitters: program counter, local work
  dpc,             \* the destroyer's program counter
  fifo             \* history: the jobs in the order they were linked

list    == <<job_current_num, job_head, job_tail, next, fifo>>
workers == <<wpc, job_temp>>
callers == <<spc, work>>
vars    == <<list, pthread_close, mutex_job_lock, heap, workers, callers, dpc>>

Asleep == {w \in Workers : wpc[w] = "asleep"}
InCall == {s \in Submitters : spc[s] = "link"}

Init ==
  /\ job_current_num = 0 /\ job_head = NULL /\ job_tail = NULL
  /\ next = [j \in Jobs |-> NULL] /\ fifo = <<>>
  /\ pthread_close = FALSE /\ mutex_job_lock = NULL /\ heap = {}
  /\ wpc = [w \in Workers |-> "lock"] /\ job_temp = [w \in Workers |-> NULL]
  /\ spc = [s \in Submitters |-> "idle"] /\ work = [s \in Submitters |-> NULL]
  /\ dpc = "idle"

-----------------------------------------------------------------------------
(* add_pthread_job.  A caller that is not in the middle of a call is       *)
(* "idle", or "added"/"refused" after a call that returned 1/0.  Calls on  *)
(* a pool that has been freed are outside the function's contract.         *)

Calls(s) == spc[s] # "link" /\ dpc # "freed"

(* The limit is tested before the lock is taken; malloc may fail too. *)
AddFails(s) ==
  /\ Calls(s)
  /\ job_current_num >= pjob_max \/ heap = Jobs
  /\ spc' = [spc EXCEPT ![s] = "refused"]
  /\ UNCHANGED <<list, pthread_close, mutex_job_lock, heap, workers, work, dpc>>

BeginsUntested(s) ==                    \* faulty: the limit is not tested
  /\ Calls(s)
  /\ \E j \in Jobs \ heap :
       /\ heap' = heap \cup {j}
       /\ work' = [work EXCEPT ![s] = j]
       /\ next' = [next EXCEPT ![j] = NULL]
  /\ spc' = [spc EXCEPT ![s] = "link"]
  /\ UNCHANGED <<job_current_num, job_head, job_tail, fifo, pthread_close,
                 mutex_job_lock, workers, dpc>>

AddBegins(s) ==
  /\ Calls(s)
  /\ job_current_num < pjob_max
  /\ \E j \in Jobs \ heap :
       /\ heap' = heap \cup {j}
       /\ work' = [work EXCEPT ![s] = j]
       /\ next' = [next EXCEPT ![j] = NULL]
  /\ spc' = [spc EXCEPT ![s] = "link"]
  /\ UNCHANGED <<job_current_num, job_head, job_tail, fifo, pthread_close,
                 mutex_job_lock, workers, dpc>>

(* Linking a job at the tail, under the lock. *)
LinkFirst(j) ==                         \* faulty: the newest job is run first
  /\ job_current_num' = job_current_num + 1
  /\ next' = [next EXCEPT ![j] = job_head]
  /\ job_head' = j
  /\ job_tail' = IF job_tail = NULL THEN j ELSE job_tail
  /\ fifo' = <<j>> \o fifo

Link(j) ==
  /\ job_current_num' = job_current_num + 1
  /\ \/ /\ job_head = NULL /\ job_tail = NULL
        /\ job_head' = j
        /\ UNCHANGED next
     \/ /\ job_head # NULL \/ job_tail # NULL
        /\ next' = [next EXCEPT ![job_tail] = j]
        /\ UNCHANGED job_head
  /\ job_tail' = j
  /\ fifo' = Append(fifo, j)

(* pthread_cond_signal wakes one of the waiting workers, if there is one. *)
SignalNobody == UNCHANGED wpc           \* faulty: no signal is sent
SignalFirstOnly ==                      \* faulty: only the first job is announced
  \/ job_current_num = 0 /\ \E w \in Asleep : wpc' = [wpc EXCEPT ![w] = "lock"]
  \/ (job_current_num # 0 \/ Asleep = {}) /\ UNCHANGED wpc

Signal ==
  \/ \E w \in Asleep : wpc' = [wpc EXCEPT ![w] = "lock"]
  \/ Asleep = {} /\ UNCHANGED wpc

AddLinks(s) ==
  /\ spc[s] = "link" /\ mutex_job_lock = NULL /\ dpc # "freed"
  /\ Link(work[s])
  /\ work' = [work EXCEPT ![s] = NULL]
  /\ \/ /\ pthread_close                 \* return 0, the mutex still locked
        /\ mutex_job_lock' = s
        /\ spc' = [spc EXCEPT ![s] = "refused"]
        /\ UNCHANGED wpc
     \/ /\ ~pthread_close
        /\ Signal
        /\ spc' = [spc EXCEPT ![s] = "added"]
        /\ UNCHANGED mutex_job_lock
  /\ UNCHANGED <<pthread_close, heap, job_temp, dpc>>

-----------------------------------------------------------------------------
(* thread_basic_function.  "lock": about to take the mutex, at the top of  *)
(* the loop or on the way out of pthread_cond_wait; "test": the while      *)
(* condition; "wait": about to call pthread_cond_wait; "take": past the    *)
(* while; "run": in the callback.                                          *)

Goto(w, pc) == wpc' = [wpc EXCEPT ![w] = pc]

WorkerLocks(w) ==
  /\ wpc[w] = "lock" /\ mutex_job_lock = NULL
  /\ mutex_job_lock' = w
  /\ Goto(w, "test")
  /\ UNCHANGED <<list, pthread_close, heap, job_temp, callers, dpc>>

WorkerTests(w) ==
  /\ wpc[w] = "test"
  /\ Goto(w, IF job_current_num = 0 /\ ~pthread_close THEN "wait" ELSE "take")
  /\ UNCHANGED <<list, pthread_close, mutex_job_lock, heap, job_temp, callers, dpc>>

WorkerWaits(w) ==
  /\ wpc[w] = "wait"
  /\ mutex_job_lock' = NULL
  /\ Goto(w, "asleep")
  /\ UNCHANGED <<list, pthread_close, heap, job_temp, callers, dpc>>

(* POSIX lets pthread_cond_wait return without a signal. *)
SpuriousWakeup(w) ==
  /\ wpc[w] = "asleep"
  /\ Goto(w, "lock")
  /\ UNCHANGED <<list, pthread_close, mutex_job_lock, heap, job_temp, callers, dpc>>

WorkerExits(w) ==
  /\ wpc[w] = "take" /\ pthread_close
  /\ mutex_job_lock' = NULL
  /\ Goto(w, "exited")
  /\ UNCHANGED <<list, pthread_close, heap, job_temp, callers, dpc>>

(* Unlinking the first job, under the lock. *)
UnlinkKeepsTail ==                      \* faulty: the last job stays job_tail
  /\ job_current_num' = job_current_num - 1
  /\ job_head' = next[job_head]
  /\ fifo' = Tail(fifo)
  /\ UNCHANGED <<job_tail, next>>

Unlink ==
  /\ job_current_num' = job_current_num - 1
  /\ \/ /\ job_current_num' = 0
        /\ job_head' = NULL /\ job_tail' = NULL
     \/ /\ job_current_num' # 0
        /\ job_head' = next[job_head]
        /\ UNCHANGED job_tail
  /\ fifo' = Tail(fifo)
  /\ UNCHANGED next

WorkerTakes(w) ==
  /\ wpc[w] = "take" /\ ~pthread_close
  /\ job_temp' = [job_temp EXCEPT ![w] = job_head]
  /\ Unlink
  /\ mutex_job_lock' = NULL
  /\ Goto(w, "run")
  /\ UNCHANGED <<pthread_close, heap, callers, dpc>>

(* The callback has returned: free(job_temp). *)
FinishesCounting(w) ==                  \* faulty: the job is counted off once more
  /\ wpc[w] = "run"
  /\ heap' = heap \ {job_temp[w]}
  /\ job_current_num' = job_current_num - 1
  /\ job_temp' = [job_temp EXCEPT ![w] = NULL]
  /\ Goto(w, "lock")
  /\ UNCHANGED <<job_head, job_tail, next, fifo, pthread_close, mutex_job_lock, callers, dpc>>

FinishesLeaking(w) ==                   \* faulty: the job is not freed
  /\ wpc[w] = "run"
  /\ job_temp' = [job_temp EXCEPT ![w] = NULL]
  /\ Goto(w, "lock")
  /\ UNCHANGED <<list, pthread_close, mutex_job_lock, heap, callers, dpc>>

WorkerFinishes(w) ==
  /\ wpc[w] = "run"
  /\ heap' = heap \ {job_temp[w]}
  /\ job_temp' = [job_temp EXCEPT ![w] = NULL]
  /\ Goto(w, "lock")
  /\ UNCHANGED <<list, pthread_close, mutex_job_lock, callers, dpc>>

-----------------------------------------------------------------------------
(* pthread_pool_destory: the list is purged under the lock, pthread_close  *)
(* is written and the broadcast sent without it, then every thread is      *)
(* joined and the pool freed.                                              *)

DestroyLocks ==
  /\ dpc = "idle" /\ mutex_job_lock = NULL
  /\ \/ /\ job_current_num = 0
        /\ dpc' = "close"
        /\ UNCHANGED mutex_job_lock
     \/ /\ job_current_num # 0
        /\ dpc' = "purge"
        /\ mutex_job_lock' = Destroyer
  /\ UNCHANGED <<list, pthread_close, heap, workers, callers>>

DestroyFrees ==
  /\ dpc = "purge" /\ job_head # NULL
  /\ heap' = heap \ {job_head}
  /\ job_head' = next[job_head]
  /\ fifo' = Tail(fifo)
  /\ UNCHANGED <<job_current_num, job_tail, next, pthread_close,
                 mutex_job_lock, workers, callers, dpc>>

DestroyUnlocks ==
  /\ dpc = "purge" /\ job_head = NULL
  /\ job_tail' = NULL
  /\ job_current_num' = 0
  /\ mutex_job_lock' = NULL
  /\ dpc' = "close"
  /\ UNCHANGED <<job_head, next, fifo, pthread_close, heap, workers, callers>>

DestroyCloses ==
  /\ dpc = "close"
  /\ pthread_close' = TRUE
  /\ dpc' = "broadcast"
  /\ UNCHANGED <<list, mutex_job_lock, heap, workers, callers>>

DestroyBroadcasts ==
  /\ dpc = "broadcast"
  /\ wpc' = [w \in Workers |-> IF wpc[w] = "asleep" THEN "lock" ELSE wpc[w]]
  /\ dpc' = "join"
  /\ UNCHANGED <<list, pthread_close, mutex_job_lock, heap, job_temp, callers>>

DestroyJoins ==
  /\ dpc = "join"
  /\ \A w \in Workers : wpc[w] = "exited"
  /\ dpc' = "freed"
  /\ UNCHANGED <<list, pthread_close, mutex_job_lock, heap, workers, callers>>

-----------------------------------------------------------------------------

Submits(s) == AddFails(s) \/ AddBegins(s) \/ AddLinks(s)

Works(w) ==
  \/ WorkerLocks(w) \/ WorkerTests(w) \/ WorkerWaits(w)
  \/ WorkerExits(w) \/ WorkerTakes(w) \/ WorkerFinishes(w)

Destroys ==
  \/ DestroyLocks \/ DestroyFrees \/ DestroyUnlocks
  \/ DestroyCloses \/ DestroyBroadcasts \/ DestroyJoins

Next ==
  \/ \E s \in Submitters : Submits(s)
  \/ \E w \in Workers : Works(w) \/ SpuriousWakeup(w)
  \/ Destroys

Spec == Init /\ [][Next]_vars

(* A worker that can run does run, and its callback returns. *)
WorkersFair == \A w \in Workers : WF_vars(Works(w))

FairSpec == Spec /\ WorkersFair
-----------------------------------------------------------------------------
(* Properties. *)

TypeOK ==
  /\ job_current_num \in Nat
  /\ {job_head, job_tail} \subseteq Jobs \cup {NULL}
  /\ next \in [Jobs -> Jobs \cup {NULL}]
  /\ fifo \in Seq(Jobs)
  /\ pthread_close \in BOOLEAN
  /\ mutex_job_lock \in Workers \cup Submitters \cup {Destroyer, NULL}
  /\ heap \subseteq Jobs
  /\ wpc \in [Workers -> {"lock", "test", "wait", "asleep", "take", "run", "exited"}]
  /\ job_temp \in [Workers -> Jobs \cup {NULL}]
  /\ spc \in [Submitters -> {"idle", "link", "added", "refused"}]
  /\ work \in [Submitters -> Jobs \cup {NULL}]
  /\ dpc \in {"idle", "purge", "close", "broadcast", "join", "freed"}

(* The pointers, the counter and the order of arrival agree: job_head is   *)
(* the oldest job, next leads from each job to the one linked after it,    *)
(* and, except while the list is being purged, job_tail is the newest and  *)
(* job_current_num the number of jobs.  In particular a worker that leaves *)
(* the while loop never meets a null job_head, and add_pthread_job never   *)
(* writes through a job_tail that has been freed.                          *)
ListInv ==
  /\ job_head = IF fifo = <<>> THEN NULL ELSE fifo[1]
  /\ \A i \in 1..Len(fifo) :
       next[fifo[i]] = IF i = Len(fifo) THEN NULL ELSE fifo[i + 1]
  /\ dpc # "purge" =>
       /\ job_current_num = Len(fifo)
       /\ job_tail = IF fifo = <<>> THEN NULL ELSE fifo[Len(fifo)]

(* The job cells a thread has in hand: a caller's work before it is        *)
(* linked, a worker's job_temp until it is freed.                          *)
InHand == {work[s] : s \in Submitters} \cup {job_temp[w] : w \in Workers}

(* Every allocated job is in exactly one place - a caller's hands, the     *)
(* list, or a worker's hands - and every job in those places is allocated: *)
(* no job is run twice, leaked, freed twice or used after it was freed.    *)
JobOwnership ==
  /\ heap = Range(fifo) \cup (InHand \ {NULL})
  /\ IsInjective(fifo)
  /\ Range(fifo) \cap InHand = {}
  /\ \A s \in Submitters, w \in Workers : work[s] = job_temp[w] => work[s] = NULL
  /\ \A s, t \in Submitters : s # t /\ work[s] = work[t] => work[s] = NULL
  /\ \A v, w \in Workers : v # w /\ job_temp[v] = job_temp[w] => job_temp[v] = NULL

(* What the two invariants above rest on.  The holder of the mutex is the  *)
(* thread whose program counter is in a critical section, what the worker  *)
(* that holds it has just tested still is true, a thread has a job in hand *)
(* exactly between the steps that take it up and hand it on, and only the  *)
(* purge empties the list from the front without counting.                 *)
LockInv ==
  /\ \A w \in Workers : wpc[w] \in {"test", "wait", "take"} <=> mutex_job_lock = w
  /\ dpc = "purge" <=> mutex_job_lock = Destroyer
  /\ pthread_close <=> dpc \in {"broadcast", "join", "freed"}

TestInv ==
  \A w \in Workers :
    /\ wpc[w] = "wait" => job_current_num = 0
    /\ wpc[w] = "take" => job_current_num # 0 \/ pthread_close

HandInv ==
  /\ \A s \in Submitters : spc[s] = "link" <=> work[s] # NULL
  /\ \A s \in Submitters : spc[s] = "link" => next[work[s]] = NULL
  /\ \A w \in Workers : wpc[w] = "run" <=> job_temp[w] # NULL

IInv == TypeOK /\ LockInv /\ TestInv /\ HandInv /\ ListInv /\ JobOwnership

(* The limit is tested before the lock is taken, so callers that passed    *)
(* the test together all link their job; the excess is at most one job per *)
(* caller but the first, and is exact when there is a single caller.       *)
BoundedExcess ==
  job_current_num + Cardinality(InCall) < pjob_max + Cardinality(Submitters)

(* No job waits for a worker that was left asleep: while some worker is    *)
(* asleep, the jobs in the list do not outnumber the workers that are      *)
(* awake and on their way to take one.                                     *)
Heading == {w \in Workers : wpc[w] \in {"lock", "test", "take"}}

NoJobOverslept ==
  ~pthread_close /\ Asleep # {} => job_current_num <= Cardinality(Heading)

(* The pool implements the abstract pool of JobPool. *)
Pool == INSTANCE JobPool WITH
          Nothing <- NULL, Capacity <- pjob_max + Cardinality(Submitters) - 1,
          pending <- fifo, running <- job_temp, stopping <- dpc # "idle"
RefinesJobPool == Pool!Spec

(* While nobody destroys the pool, and nothing in the repository does, a   *)
(* job that was linked is eventually started.                              *)
AcceptedJobRuns ==
  \A j \in Jobs : j \in Range(fifo) ~> dpc # "idle" \/ \E w \in Workers : job_temp[w] = j
=============================================================================

--------------------------- MODULE ThreadPoolInv ----------------------------
(***************************************************************************)
(* The inductive invariant of ThreadPool, in named parts.  TLC checks it   *)
(* on the instances of MCThreadPool, and ThreadPoolProofs proves it.       *)
(***************************************************************************)
EXTENDS ThreadPool

(* The job a thread is about to queue and the job in a worker's hands. *)
Ins(t) == IF At(t, "insert") THEN tgt[t] ELSE NoJob

Closed == pc[Main] \in {"join", "done"}

-----------------------------------------------------------------------------
(* Control: the local variables a thread relies on at its pc. *)

Returning == {"insert", "insertSignal"}

HasJob(w) ==
  \/ pc[w] \in {"getSignal", "run", "errorAssign", "jobDeinit"}
  \/ pc[w] \in Returning /\ ret[w] # "idle"

WorkerControl ==
  \A w \in Workers :
    /\ pc[w] \in Returning => ret[w] \in {"run", "idle", "jobDeinit"}
    /\ pc[w] = "insert" => tgt[w] \in Jobs
    /\ cur[w] # NoJob <=> HasJob(w)

MainControl ==
  /\ pc[Main] \in Returning => ret[Main] = "add"
  /\ pc[Main] = "insert" => tgt[Main] \in Jobs
  /\ cur[Main] = NoJob

(* The counters count: alive_threads the workers between their first and   *)
(* last critical section, working_threads those between Busy and Idle.     *)
AliveWorkers == {w \in Workers : pc[w] \notin {"unborn", "start", "dead"}}
BusyWorkers  == {w \in Workers : pc[w] \in BusyPC}

Counted == alive = Cardinality(AliveWorkers) /\ working = Cardinality(BusyWorkers)

(* Past threadpool_init every worker has started; past the loop of         *)
(* threadpool_deinit every worker is dead.                                 *)
Started ==
  pc[Main] \notin {"create", "initWait"} =>
    \A w \in Workers : pc[w] \notin {"unborn", "start"}

AllDead == pc[Main] \in {"drain", "join", "done"} => \A w \in Workers : pc[w] = "dead"

(* A job that unwinds or enters a handler carries an error. *)
UnwindsWithError ==
  \A j \in Jobs : step[j] \in {"unwind", "handler"} => errState[j] # NoError

(* Jobs are allocated in order and found blank. *)
Allocated ==
  \A j \in Jobs : /\ heap[j] = "unused" <=> j > count
                  /\ j > count => step[j] = "run" /\ parent[j] = NoJob

Control == ThreadTypes /\ WorkerControl /\ MainControl

TInv ==
  /\ Control /\ SyncTypes /\ CounterTypes /\ JobTypes
  /\ Counted /\ Started /\ AllDead /\ UnwindsWithError /\ Allocated

-----------------------------------------------------------------------------
(* Where the jobs are: a live job is in the queue, or with the one worker  *)
(* that runs it, or with the one thread that is about to queue it, or with *)
(* the one child it awaits; a job that is not live is nowhere.             *)

Queued(j)    == \E i \in DOMAIN jobs : jobs[i] = j
Running(j)   == {w \in Workers : cur[w] = j}
Inserting(j) == {t \in Threads : Ins(t) = j}
Awaiting(j)  == {c \in Jobs : Awaited(c) /\ parent[c] = j}

In(j, queued, running, inserting, awaiting) ==
  /\ Queued(j) <=> queued
  /\ Running(j) = running /\ Inserting(j) = inserting /\ Awaiting(j) = awaiting

JobPlaced(j) ==
  IF heap[j] = "live"
  THEN \/ In(j, TRUE, {}, {}, {})
       \/ \E w \in Workers : In(j, FALSE, {w}, {}, {})
       \/ \E t \in Threads : In(j, FALSE, {}, {t}, {})
       \/ \E c \in Jobs : In(j, FALSE, {}, {}, {c})
  ELSE In(j, FALSE, {}, {}, {})

QueueDistinct == \A i, k \in DOMAIN jobs : jobs[i] = jobs[k] => i = k

(* A call is younger than the call that awaits it. *)
ChildIsYounger ==
  \A c \in Jobs : parent[c] # NoJob => parent[c] < c

Placed == QueueDistinct /\ ChildIsYounger /\ \A j \in Jobs : JobPlaced(j)

-----------------------------------------------------------------------------
(* What ErrorAssign is about to publish is an error that no parent awaits. *)
AssignsError ==
  \A w \in Workers : pc[w] = "errorAssign" =>
    errState[cur[w]] # NoError /\ parent[cur[w]] = NoJob

(* Nothing is queued once threadpool_deinit has freed the queue.           *)
Drained == Closed => jobs = <<>>

Core == TInv /\ (Closed \/ Placed) /\ Drained /\ AssignsError /\ QuiescentReturn

-----------------------------------------------------------------------------
(* Sleep: a thread in a condition wait is at the test that the wait        *)
(* returns to, lock3 is held over the test of the queue, lock1 from the    *)
(* test of alive_threads in threadpool_deinit to its sleep.                *)
SleepControl ==
  /\ Main \in cond1 => pc[Main] \in {"initWait", "wait", "deinitCheck"}
  /\ \A w \in cond2 : pc[w] = "lock3"
  /\ \A w \in Workers : pc[w] = "checkJobs" => lock3 = w
  /\ pc[Main] = "deinitSignal" => lock1 = Main /\ alive # 0

(* Once main sleeps in threadpool_deinit no worker will go to sleep.       *)
NoneFallsAsleep ==
  /\ pc[Main] \in ReturnedPC \ {"deinit"} => ~active
  /\ pc[Main] = "deinitCheck" /\ Main \in cond1 =>
       \A w \in Workers : pc[w] # "checkJobs"

WakeInv == SleepControl /\ NoneFallsAsleep /\ NobodyOverslept

-----------------------------------------------------------------------------
(* Locks between two steps: main keeps lock1 over threadpool_deinit's      *)
(* signal, a thread lock2 over the signal of threadpool_insert or _get,    *)
(* a worker lock3 over its test of the queue.                              *)
LockControl ==
  /\ lock1 # NoThread => lock1 = Main /\ pc[Main] = "deinitSignal"
  /\ lock2 # NoThread => pc[lock2] \in {"insertSignal", "getSignal"}
  /\ lock3 # NoThread => lock3 \in Workers /\ pc[lock3] = "checkJobs"

(* Workers leave their loop only once threadpool_deinit has cleared active. *)
LeavesWhenInactive ==
  /\ pc[Main] \notin ReturnedPC \ {"deinit"} => active
  /\ active => \A w \in Workers : pc[w] \notin {"exit", "dead"}

(* The loop of threadpool_init ends with the last thread's creation. *)
CreatesAll == pc[Main] = "create" <=> \E w \in Workers : pc[w] = "unborn"

LockInv == LockControl /\ LeavesWhenInactive /\ CreatesAll

-----------------------------------------------------------------------------
(* Errors: a job that runs its body and a job that awaits carry none, but  *)
(* for one that had reached the program when it was copied to them, and    *)
(* the one that a job is over with is carried by a job that is not, unless *)
(* it was caught or has reached the program.                               *)
Clean(j) == errState[j] # NoError => Reached(errState[j])

RunsClean == \A j \in Jobs : heap[j] # "freed" /\ step[j] = "run" => Clean(j)

AwaitsClean ==
  \A c \in Jobs : Awaited(c) => step[parent[c]] = "resume" /\ Clean(parent[c])

HandsOver(j) == \E w \in Workers : cur[w] = j /\ Finishing(w)
Over(j) == heap[j] = "freed" \/ HandsOver(j)

Carried(e) ==
  e \in caught \/ \E p \in Jobs : heap[p] = "live" /\ ~Over(p) /\ errState[p] = e

LeavesItsError ==
  \A j \in Jobs : Over(j) /\ errState[j] # NoError =>
    Carried(errState[j]) \/ Reached(errState[j])

(* A program that ends with an error may drop jobs that carry others. *)
EndsWithError == Closed /\ err_state # NoError

ErrorsKept == RunsClean /\ AwaitsClean /\ LeavesItsError
ErrorInv == EndsWithError \/ ErrorsKept

-----------------------------------------------------------------------------
IInv == Core /\ WakeInv /\ LockInv /\ ErrorInv
=============================================================================

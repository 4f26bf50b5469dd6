----------------------------- MODULE ThreadPool -----------------------------
(***************************************************************************)
(* The thread pool of the generated programs (codegen-api/thread.cpp) and  *)
(* the protocol that every generated async function follows on it          *)
(* (codegen/fn-decl.cpp, expr-await.cpp, expr-call.cpp, node-throw.cpp,    *)
(* node-try.cpp).  One action is one critical section, or one access to a  *)
(* field that other threads access without a lock.                         *)
(*                                                                         *)
(* A thread's program counter is the point of the C code it has reached.   *)
(* A thread inside a condition wait is a member of cond1 or cond2 and has  *)
(* its pc at the test the wait returns to.                                 *)
(***************************************************************************)
EXTENDS Integers, Sequences, FiniteSets

CONSTANTS
  Workers,         \* the threads that threadpool_init creates
  Main,            \* the thread that runs main()
  NoThread,        \* the owner of a free mutex
  MaxJobs,         \* bound: how many async calls one execution makes
  MaxRequeues,     \* bound: how often jobs put themselves back in the queue
                   \* and handlers of main catch an error
  SpuriousWakeups, \* whether a condition wait may return without a signal
  EndlessYields    \* whether jobs may yield for ever, outside of that bound

ASSUME ThreadsAssumption ==
  /\ IsFiniteSet(Workers) /\ Workers # {}   \* main() calls threadpool_init(5)
  /\ Main \notin Workers
  /\ NoThread \notin Workers \cup {Main}
ASSUME BoundsAssumption ==
  /\ MaxJobs \in Nat
  /\ MaxRequeues \in Nat
  /\ SpuriousWakeups \in BOOLEAN
  /\ EndlessYields \in BOOLEAN

Threads == Workers \cup {Main}

Jobs  == 1..MaxJobs   \* jobs are numbered in the order of their allocation
NoJob == 0

(* An error is known by the job that threw it; main's own errors are 0. *)
NoError   == -1
MainError == 0
Errors    == MainError..MaxJobs

VARIABLES
  pc,        \* where each thread is
  cur,       \* the job a worker is running
  tgt,       \* the job a thread is inserting into the queue
  ret,       \* where the thread goes after the insertion
  lock1, lock2, lock3,   \* the owner of each mutex
  cond1, cond2,          \* the threads waiting on each condition variable
  active, alive, working,  \* active, alive_threads, working_threads
  jobs,      \* the list from jobs to jobs_tail
  err_state, \* id of the program's global error state
  count,     \* how many jobs were allocated
  heap,      \* whether a job is unused, live or freed
  parent,    \* job->parent
  step,      \* job->step, as what the job does when it next runs
  errState,  \* id of the job's own error state (fn_err_state->id)
  requeues,  \* how often a job requeued itself or main caught (for the bound)
  caught,    \* history: the errors that a job's handler has caught
  hidden,    \* history: the jobs' errors that another overwrote in err_state
  mainCaught \* history: the jobs' errors that handlers of main() took from it

threadVars == <<cur, tgt, ret>>
locks      == <<lock1, lock2, lock3>>
conds      == <<cond1, cond2>>
counters   == <<active, alive, working>>
jobVars    == <<count, heap, parent, step, errState, requeues, caught, hidden,
                mainCaught>>
vars == <<pc, threadVars, locks, conds, counters, jobs, err_state, jobVars>>

(* The points of threadpool_worker and of the job it runs ... *)
BusyPC   == {"get", "getSignal", "run", "insert", "insertSignal",
             "errorAssign", "jobDeinit", "idle"}
WorkerPC == {"unborn", "start", "loop", "lock3", "checkJobs", "recheck",
             "busy", "exit", "dead"} \cup BusyPC
(* ... and of main(), threadpool_init, threadpool_wait, threadpool_deinit. *)
ReturnedPC == {"deinit", "deinitCheck", "deinitSignal", "drain", "join", "done"}
MainPC     == {"create", "initWait", "add", "insert", "insertSignal", "unwind",
               "wait"}
                \cup ReturnedPC

(* What a job does when it runs: its body, the check after an await, a     *)
(* cleanup label reached with an error, or the handler of a try.           *)
Steps == {"run", "resume", "unwind", "handler"}

Init ==
  /\ pc  = [t \in Threads |-> IF t = Main THEN "create" ELSE "unborn"]
  /\ cur = [t \in Threads |-> NoJob]
  /\ tgt = [t \in Threads |-> NoJob]
  /\ ret = [t \in Threads |-> "none"]
  /\ lock1 = NoThread /\ lock2 = NoThread /\ lock3 = NoThread
  /\ cond1 = {} /\ cond2 = {}
  /\ active = TRUE /\ alive = 0 /\ working = 0
  /\ jobs = <<>>
  /\ err_state = NoError
  /\ count = 0
  /\ heap     = [j \in Jobs |-> "unused"]
  /\ parent   = [j \in Jobs |-> NoJob]
  /\ step     = [j \in Jobs |-> "run"]
  /\ errState = [j \in Jobs |-> NoError]
  /\ requeues = 0
  /\ caught = {} /\ hidden = {} /\ mainCaught = {}

At(t, p) == pc[t] = p
Goto(t, p) == pc' = [pc EXCEPT ![t] = p]

(* threadpool_cond_signal: one of the waiting threads, if any, stops waiting. *)
Signalled(cond) == IF cond = {} THEN {cond} ELSE {cond \ {t} : t \in cond}

-----------------------------------------------------------------------------
(* threadpool_init *)

CreateThread(w) ==
  /\ At(Main, "create") /\ At(w, "unborn")
  /\ pc' = [pc EXCEPT ![w] = "start",
                      ![Main] = IF \E v \in Workers \ {w} : At(v, "unborn")
                                THEN @ ELSE "initWait"]
  /\ UNCHANGED <<threadVars, locks, conds, counters, jobs, err_state, jobVars>>

InitWait ==
  /\ At(Main, "initWait") /\ Main \notin cond1 /\ lock1 = NoThread
  /\ IF alive # Cardinality(Workers)
     THEN cond1' = cond1 \cup {Main} /\ UNCHANGED pc
     ELSE Goto(Main, "add") /\ UNCHANGED cond1
  /\ UNCHANGED <<threadVars, locks, cond2, counters, jobs, err_state, jobVars>>

-----------------------------------------------------------------------------
(* threadpool_add allocates a job, threadpool_insert queues one.  The new  *)
(* job gets a copy of the error state of its caller.                       *)

Wakeup_Insert_Forgotten == {cond2}
Wakeup_Insert == Signalled(cond2)

Request(t, j, k) ==
  /\ Goto(t, "insert")
  /\ tgt' = [tgt EXCEPT ![t] = j]
  /\ ret' = [ret EXCEPT ![t] = k]

Alloc(p, e) ==
  /\ count < MaxJobs
  /\ count'    = count + 1
  /\ heap'     = [heap EXCEPT ![count + 1] = "live"]
  /\ parent'   = [parent EXCEPT ![count + 1] = p]
  /\ errState' = [errState EXCEPT ![count + 1] = e]

Enqueue_AtHead(j) == <<j>> \o jobs
Enqueue(j) == Append(jobs, j)

Insert(t) ==
  /\ At(t, "insert") /\ lock2 = NoThread
  /\ lock2' = t
  /\ jobs' = Enqueue(tgt[t])
  /\ Goto(t, "insertSignal")
  /\ UNCHANGED <<threadVars, lock1, lock3, conds, counters, err_state, jobVars>>

InsertSignal(t) ==
  /\ At(t, "insertSignal") /\ lock3 = NoThread
  /\ cond2' \in Wakeup_Insert
  /\ lock2' = NoThread
  /\ Goto(t, ret[t])
  /\ tgt' = [tgt EXCEPT ![t] = NoJob]
  /\ ret' = [ret EXCEPT ![t] = "none"]
  /\ UNCHANGED <<cur, lock1, lock3, cond1, counters, jobs, err_state, jobVars>>

(* Loops, throws and catches are counted for the bound. *)
CountRequeue ==
  /\ requeues < MaxRequeues
  /\ requeues' = requeues + 1

(* main() calls async functions, throws, catches or reaches its end, then   *)
(* waits.                                                                  *)
MainAdd ==
  /\ At(Main, "add")
  /\ Alloc(NoJob, err_state)
  /\ Request(Main, count + 1, "add")
  /\ UNCHANGED <<cur, locks, conds, counters, jobs, err_state, step, requeues,
                 caught, hidden, mainCaught>>

(* A job's error that another error overwrites in err_state is lost. *)
Hides(e) == hidden' = hidden \cup ({err_state} \cap (Jobs \ {e}))

(* A throw of main() itself: on to the clean-up label.                     *)
MainThrow ==
  /\ At(Main, "add")
  /\ err_state' = MainError
  /\ Hides(MainError)
  /\ Goto(Main, "unwind")
  /\ UNCHANGED <<threadVars, locks, conds, counters, jobs, count, heap, parent,
                 step, errState, requeues, caught, mainCaught>>

(* The end of a block or of a try of main() tests err_state, and finds the *)
(* error that a job has put there meanwhile.                               *)
MainNotice ==
  /\ At(Main, "add") /\ err_state # NoError
  /\ Goto(Main, "unwind")
  /\ UNCHANGED <<threadVars, locks, conds, counters, jobs, err_state, jobVars>>

(* A handler of main() begins with error_unset(&err_state), whosever error *)
(* is there by now, and main() goes on behind the try ...                  *)
Unset == NoError

MainCatch ==
  /\ At(Main, "unwind")
  /\ CountRequeue
  /\ err_state' = Unset
  /\ mainCaught' = mainCaught \cup ({err_state} \cap Jobs)
  /\ Goto(Main, "add")
  /\ UNCHANGED <<threadVars, locks, conds, counters, jobs, count, heap, parent,
                 step, errState, caught, hidden>>

(* ... or no try of main() has one for it. *)
MainUncaught ==
  /\ At(Main, "unwind")
  /\ Goto(Main, "wait")
  /\ UNCHANGED <<threadVars, locks, conds, counters, jobs, err_state, jobVars>>

(* What may become of an error that main() throws or finds. *)
MainFails == MainThrow \/ MainNotice \/ MainCatch \/ MainUncaught

MainEnd ==
  /\ At(Main, "add")
  /\ Goto(Main, "wait")
  /\ UNCHANGED <<threadVars, locks, conds, counters, jobs, err_state, jobVars>>

-----------------------------------------------------------------------------
(* threadpool_worker *)

(* What the slot of threadpool_worker's counter holds while a job runs. *)
Enter == working + 1

(* A worker that goes idle wakes main for the end of the work or an error. *)
NotifyMain == (working' = 0 /\ jobs = <<>>) \/ err_state # NoError

Wakeup_Exit == Signalled(cond1)

Start(w) ==
  /\ At(w, "start") /\ lock1 = NoThread
  /\ alive' = alive + 1
  /\ cond1' \in Signalled(cond1)
  /\ Goto(w, "loop")
  /\ UNCHANGED <<threadVars, locks, cond2, active, working, jobs, err_state,
                 jobVars>>

Loop(w) ==
  /\ At(w, "loop")
  /\ Goto(w, IF active THEN "lock3" ELSE "exit")
  /\ UNCHANGED <<threadVars, locks, conds, counters, jobs, err_state, jobVars>>

CheckActive(w) ==
  /\ At(w, "lock3") /\ w \notin cond2 /\ lock3 = NoThread
  /\ IF active
     THEN lock3' = w /\ Goto(w, "checkJobs")
     ELSE Goto(w, "recheck") /\ UNCHANGED lock3
  /\ UNCHANGED <<threadVars, lock1, lock2, conds, counters, jobs, err_state,
                 jobVars>>

CheckJobs(w) ==
  /\ At(w, "checkJobs")
  /\ lock3' = NoThread
  /\ IF jobs = <<>>
     THEN cond2' = cond2 \cup {w} /\ Goto(w, "lock3")
     ELSE Goto(w, "recheck") /\ UNCHANGED cond2
  /\ UNCHANGED <<threadVars, lock1, lock2, cond1, counters, jobs, err_state,
                 jobVars>>

Recheck(w) ==
  /\ At(w, "recheck")
  /\ Goto(w, IF active THEN "busy" ELSE "exit")
  /\ UNCHANGED <<threadVars, locks, conds, counters, jobs, err_state, jobVars>>

Busy(w) ==
  /\ At(w, "busy") /\ lock1 = NoThread
  /\ working' = Enter
  /\ Goto(w, "get")
  /\ UNCHANGED <<threadVars, locks, conds, active, alive, jobs, err_state,
                 jobVars>>

(* threadpool_get *)
Get(w) ==
  /\ At(w, "get") /\ lock2 = NoThread
  /\ \/ /\ jobs = <<>>
        /\ Goto(w, "idle")
        /\ UNCHANGED <<cur, lock2, jobs>>
     \/ /\ jobs # <<>>
        /\ jobs' = Tail(jobs)
        /\ cur' = [cur EXCEPT ![w] = Head(jobs)]
        /\ IF Tail(jobs) = <<>>
           THEN Goto(w, "run") /\ UNCHANGED lock2
           ELSE Goto(w, "getSignal") /\ lock2' = w
  /\ UNCHANGED <<tgt, ret, lock1, lock3, conds, counters, err_state, jobVars>>

GetSignal(w) ==
  /\ At(w, "getSignal") /\ lock3 = NoThread
  /\ cond2' \in Signalled(cond2)
  /\ lock2' = NoThread
  /\ Goto(w, "run")
  /\ UNCHANGED <<threadVars, lock1, lock3, cond1, counters, jobs, err_state,
                 jobVars>>

Idle(w) ==
  /\ At(w, "idle") /\ lock1 = NoThread
  /\ working' = working - 1
  /\ IF NotifyMain
     THEN cond1' \in Signalled(cond1)
     ELSE UNCHANGED cond1
  /\ Goto(w, "loop")
  /\ UNCHANGED <<threadVars, locks, cond2, active, alive, jobs, err_state,
                 jobVars>>

Exit(w) ==
  /\ At(w, "exit") /\ lock1 = NoThread
  /\ alive' = alive - 1
  /\ cond1' \in Wakeup_Exit
  /\ Goto(w, "dead")
  /\ UNCHANGED <<threadVars, locks, cond2, active, working, jobs, err_state,
                 jobVars>>

-----------------------------------------------------------------------------
(* The generated async function that a worker calls: job->func.  A job     *)
(* that awaits or requeues itself sets its step first and does not touch   *)
(* itself after the insertion: from then on another worker may run it.     *)

Runs(w, s) == At(w, "run") /\ step[cur[w]] = s

Leave(w, j, s) ==
  /\ step' = [step EXCEPT ![j] = s]
  /\ cur' = [cur EXCEPT ![w] = NoJob]

(* job->step = s; return threadpool_insert(tp, job) *)
Requeue(w, s) ==
  /\ Leave(w, cur[w], s)
  /\ Request(w, cur[w], "idle")

(* A call that is not awaited has no parent: the caller goes on. *)
SpawnParent_Caller(w) == cur[w]
SpawnParent(w) == NoJob

Spawn(w) ==
  /\ Runs(w, "run")
  /\ Alloc(SpawnParent(w), errState[cur[w]])
  /\ Request(w, count + 1, "run")
  /\ UNCHANGED <<cur, locks, conds, counters, jobs, err_state, step, requeues,
                 caught, hidden, mainCaught>>

Await(w) ==
  /\ Runs(w, "run")
  /\ Alloc(cur[w], errState[cur[w]])
  /\ Leave(w, cur[w], "resume")
  /\ Request(w, count + 1, "idle")
  /\ UNCHANGED <<locks, conds, counters, jobs, err_state, requeues, caught, hidden,
                 mainCaught>>

(* The check behind an await: an error of the child goes to the cleanup. *)
ErrorStep_NotAdvanced == "resume"
ErrorStep == "unwind"

Resume(w) ==
  /\ Runs(w, "resume")
  /\ IF errState[cur[w]] # NoError
     THEN Requeue(w, ErrorStep)
     ELSE /\ step' = [step EXCEPT ![cur[w]] = "run"]
          /\ UNCHANGED <<pc, threadVars>>
  /\ UNCHANGED <<locks, conds, counters, jobs, err_state, count, heap, parent,
                 errState, requeues, caught, hidden, mainCaught>>

(* A branch, a loop or the end of a try. *)
Yield(w) ==
  /\ Runs(w, "run")
  /\ IF EndlessYields THEN UNCHANGED requeues ELSE CountRequeue
  /\ Requeue(w, "run")
  /\ UNCHANGED <<locks, conds, counters, jobs, err_state, count, heap, parent,
                 errState, caught, hidden, mainCaught>>

Throw(w) ==
  /\ Runs(w, "run")
  /\ CountRequeue
  /\ errState' = [errState EXCEPT ![cur[w]] = cur[w]]
  /\ caught' = caught \ {cur[w]}
  /\ Requeue(w, "unwind")
  /\ UNCHANGED <<locks, conds, counters, jobs, err_state, count, heap, parent,
                 hidden, mainCaught>>

(* The cleanup of a block ends: a matching handler, or the next block out. *)
Catch(w) ==
  /\ Runs(w, "unwind")
  /\ Requeue(w, "handler")
  /\ UNCHANGED <<locks, conds, counters, jobs, err_state, count, heap, parent,
                 errState, requeues, caught, hidden, mainCaught>>

Unwind(w) ==
  /\ Runs(w, "unwind")
  /\ CountRequeue
  /\ Requeue(w, "unwind")
  /\ UNCHANGED <<locks, conds, counters, jobs, err_state, count, heap, parent,
                 errState, caught, hidden, mainCaught>>

Handle(w) ==
  /\ Runs(w, "handler")
  /\ caught' = caught \cup {errState[cur[w]]}
  /\ errState' = [errState EXCEPT ![cur[w]] = NoError]
  /\ step' = [step EXCEPT ![cur[w]] = "run"]
  /\ UNCHANGED <<pc, threadVars, locks, conds, counters, jobs, err_state, count,
                 heap, parent, requeues, hidden, mainCaught>>

(* The last cleanup of the function: the error goes to the parent and the  *)
(* parent to the queue, or the error goes to the program.                  *)
ErrorToParent_Forgotten(j) == errState
ErrorToParent(j) == IF errState[j] # NoError
                    THEN [errState EXCEPT ![parent[j]] = errState[j]]
                    ELSE errState

Caller_Dropped(j) == NoJob
Caller(j) == parent[j]

Finish(w) ==
  LET j == cur[w]
      p == Caller(j) IN
  /\ Runs(w, "run") \/ Runs(w, "unwind")
  /\ IF p # NoJob
     THEN /\ errState' = ErrorToParent(j)
          /\ Request(w, p, "jobDeinit")
     ELSE /\ Goto(w, IF errState[j] # NoError THEN "errorAssign" ELSE "jobDeinit")
          /\ UNCHANGED <<errState, tgt, ret>>
  /\ UNCHANGED <<cur, locks, conds, counters, jobs, err_state, count, heap,
                 parent, step, requeues, caught, hidden, mainCaught>>

ErrorAssign(w) ==
  /\ At(w, "errorAssign") /\ lock1 = NoThread
  /\ err_state' = errState[cur[w]]
  /\ Hides(errState[cur[w]])
  /\ Goto(w, "jobDeinit")
  /\ UNCHANGED <<threadVars, locks, conds, counters, jobs, count, heap, parent,
                 step, errState, requeues, caught, mainCaught>>

JobDeinit(w) ==
  /\ At(w, "jobDeinit")
  /\ heap' = [heap EXCEPT ![cur[w]] = "freed"]
  /\ parent' = [parent EXCEPT ![cur[w]] = NoJob]
  /\ step' = [step EXCEPT ![cur[w]] = "run"]
  /\ cur' = [cur EXCEPT ![w] = NoJob]
  /\ Goto(w, "idle")
  /\ UNCHANGED <<tgt, ret, locks, conds, counters, jobs, err_state, count,
                 errState, requeues, caught, hidden, mainCaught>>

-----------------------------------------------------------------------------
(* threadpool_wait and threadpool_deinit *)

Unfinished_OnlyQueue == jobs # <<>> /\ err_state = NoError
Unfinished == (working # 0 \/ jobs # <<>>) /\ err_state = NoError

ThreadsRemain_ButOne == alive > 1
ThreadsRemain == alive # 0

Wait ==
  /\ At(Main, "wait") /\ Main \notin cond1 /\ lock1 = NoThread
  /\ IF Unfinished
     THEN cond1' = cond1 \cup {Main} /\ UNCHANGED pc
     ELSE Goto(Main, "deinit") /\ UNCHANGED cond1
  /\ UNCHANGED <<threadVars, locks, cond2, counters, jobs, err_state, jobVars>>

Deinit ==
  /\ At(Main, "deinit")
  /\ active' = FALSE
  /\ Goto(Main, "deinitCheck")
  /\ UNCHANGED <<threadVars, locks, conds, alive, working, jobs, err_state,
                 jobVars>>

DeinitCheck ==
  /\ At(Main, "deinitCheck") /\ Main \notin cond1 /\ lock1 = NoThread
  /\ IF ThreadsRemain
     THEN lock1' = Main /\ Goto(Main, "deinitSignal")
     ELSE Goto(Main, "drain") /\ UNCHANGED lock1
  /\ UNCHANGED <<threadVars, lock2, lock3, conds, counters, jobs, err_state,
                 jobVars>>

DeinitSignal ==
  /\ At(Main, "deinitSignal") /\ lock3 = NoThread
  /\ cond2' \in Signalled(cond2)
  /\ cond1' = cond1 \cup {Main}
  /\ lock1' = NoThread
  /\ Goto(Main, "deinitCheck")
  /\ UNCHANGED <<threadVars, lock2, lock3, counters, jobs, err_state, jobVars>>

(* The jobs still queued are freed; the jobs that await them are not. *)
Drain ==
  /\ At(Main, "drain")
  /\ heap' = [j \in Jobs |-> IF \E i \in DOMAIN jobs : jobs[i] = j
                             THEN "freed" ELSE heap[j]]
  /\ jobs' = <<>>
  /\ Goto(Main, "join")
  /\ UNCHANGED <<threadVars, locks, conds, counters, err_state, count, parent,
                 step, errState, requeues, caught, hidden, mainCaught>>

Join ==
  /\ At(Main, "join")
  /\ \A w \in Workers : At(w, "dead")
  /\ Goto(Main, "done")
  /\ UNCHANGED <<threadVars, locks, conds, counters, jobs, err_state, jobVars>>

-----------------------------------------------------------------------------

SpuriousWakeup(t) ==
  /\ SpuriousWakeups
  /\ t \in cond1 \cup cond2
  /\ cond1' = cond1 \ {t}
  /\ cond2' = cond2 \ {t}
  /\ UNCHANGED <<pc, threadVars, locks, counters, jobs, err_state, jobVars>>

(* The program has exited. *)
Terminated == At(Main, "done") /\ UNCHANGED vars

MainStep ==
  \/ \E w \in Workers : CreateThread(w)
  \/ InitWait \/ MainAdd \/ MainFails \/ MainEnd
  \/ Insert(Main) \/ InsertSignal(Main)
  \/ Wait \/ Deinit \/ DeinitCheck \/ DeinitSignal \/ Drain \/ Join

WorkerStep(w) ==
  \/ Start(w) \/ Loop(w) \/ CheckActive(w) \/ CheckJobs(w) \/ Recheck(w)
  \/ Busy(w) \/ Get(w) \/ GetSignal(w) \/ Idle(w) \/ Exit(w)
  \/ Insert(w) \/ InsertSignal(w)
  \/ Spawn(w) \/ Await(w) \/ Resume(w) \/ Yield(w) \/ Throw(w)
  \/ Catch(w) \/ Unwind(w) \/ Handle(w)
  \/ Finish(w) \/ ErrorAssign(w) \/ JobDeinit(w)

Next ==
  \/ MainStep
  \/ \E w \in Workers : WorkerStep(w)
  \/ \E t \in Threads : SpuriousWakeup(t)
  \/ Terminated

Spec == Init /\ [][Next]_vars

(* Every thread that can proceed is scheduled, and the code of a job does  *)
(* not run forever: the fairness of an operating system's threads.         *)
FairSpec == Spec /\ WF_vars(MainStep) /\ \A w \in Workers : WF_vars(WorkerStep(w))

-----------------------------------------------------------------------------
(* Every variable has its type; a thread is only where its code can be. *)
ThreadTypes ==
  /\ pc \in [Threads -> WorkerPC \cup MainPC]
  /\ pc[Main] \in MainPC
  /\ \A w \in Workers : pc[w] \in WorkerPC
  /\ cur \in [Threads -> Jobs \cup {NoJob}]
  /\ tgt \in [Threads -> Jobs \cup {NoJob}]
  /\ ret \in [Threads -> {"none", "add", "run", "idle", "jobDeinit"}]

SyncTypes ==
  /\ lock1 \in Threads \cup {NoThread}
  /\ lock2 \in Threads \cup {NoThread}
  /\ lock3 \in Threads \cup {NoThread}
  /\ cond1 \subseteq {Main}
  /\ cond2 \subseteq Workers
  /\ active \in BOOLEAN

CounterTypes == alive \in Nat /\ working \in Nat

JobTypes ==
  /\ jobs \in Seq(Jobs)
  /\ err_state \in Errors \cup {NoError}
  /\ count \in 0..MaxJobs
  /\ heap \in [Jobs -> {"unused", "live", "freed"}]
  /\ parent \in [Jobs -> Jobs \cup {NoJob}]
  /\ step \in [Jobs -> Steps]
  /\ errState \in [Jobs -> Errors \cup {NoError}]
  /\ requeues \in 0..MaxRequeues
  /\ caught \subseteq Errors
  /\ hidden \subseteq Jobs
  /\ mainCaught \subseteq Jobs

TypeOK == ThreadTypes /\ SyncTypes /\ CounterTypes /\ JobTypes

(* A worker is handing the result of job j on: j itself runs no more. *)
Finishing(w) ==
  \/ At(w, "jobDeinit")
  \/ pc[w] \in {"insert", "insertSignal"} /\ ret[w] = "jobDeinit"

Awaited(c) ==
  /\ heap[c] = "live" /\ parent[c] # NoJob
  /\ ~ \E w \in Workers : cur[w] = c /\ Finishing(w)

(* Where job j is: positions of the queue, threads about to queue it,      *)
(* workers running it, and the child it awaits.                            *)
Places(j) ==
  {<<"queue", i>> : i \in {i \in DOMAIN jobs : jobs[i] = j}}
    \cup {<<"insert", t>> : t \in {t \in Threads : At(t, "insert") /\ tgt[t] = j}}
    \cup {<<"worker", w>> : w \in {w \in Workers : cur[w] = j}}
    \cup {<<"child", c>> : c \in {c \in Jobs : Awaited(c) /\ parent[c] = j}}

(* No job is lost, queued twice or run by two workers, and a job that is   *)
(* free'd is in nobody's hands: until threadpool_deinit drops the queue, a *)
(* live job is in exactly one place and any other job in none.             *)
OnePlace ==
  pc[Main] \notin {"join", "done"} =>
    \A j \in Jobs : /\ heap[j] = "live" <=> Places(j) # {}
                   /\ \A p, q \in Places(j) : p = q

(* threadpool_wait returns without an error only when every job, the ones  *)
(* nobody awaits too, has finished and has been free'd.                    *)
QuiescentReturn ==
  pc[Main] \in ReturnedPC /\ err_state = NoError =>
    \A j \in Jobs : heap[j] # "live"

(* An error that got as far as the program: main's own, or a job's that is *)
(* in err_state, or was until a handler of main() took it or another error *)
(* overwrote it.                                                           *)
Reached(e) == e \in {MainError, err_state} \cup mainCaught \cup hidden

(* An error that a finished async call ends with was caught, is on its way *)
(* in the error state of a live job, or got as far as the program; unless  *)
(* the program ends with another error and drops the jobs in its queue.    *)
(* What got there is reported or caught, or it is hidden: err_state holds  *)
(* one error, and a later one, which main() may catch, takes its place.    *)
ErrorAccounted ==
  \A j \in Jobs : heap[j] = "freed" /\ errState[j] # NoError =>
    \/ errState[j] \in caught
    \/ Reached(errState[j])
    \/ \E p \in Jobs : heap[p] = "live" /\ errState[p] = errState[j]
    \/ pc[Main] \in {"join", "done"} /\ err_state # NoError

(* threadpool_deinit frees jobs, locks and the pool itself only when no    *)
(* worker can touch them any more.                                         *)
PoolFreedLast ==
  pc[Main] \in {"drain", "join", "done"} => \A w \in Workers : At(w, "dead")

(* No wakeup of cond2 is lost: while jobs are queued and nobody is about   *)
(* to signal, some worker is awake to take one.                            *)
WorkersWoken ==
  active /\ jobs # <<>> /\ lock2 = NoThread => \E w \in Workers : w \notin cond2

(* No wakeup of cond1 is lost: threadpool_wait sleeps only while there is  *)
(* work in the queue or in the hands of a worker that will report it.      *)
WaitWoken ==
  At(Main, "wait") /\ Main \in cond1 =>
    \/ jobs # <<>> /\ err_state = NoError
    \/ \E w \in Workers : pc[w] \in BusyPC

(* threadpool_deinit signals one worker at a time and sleeps only while    *)
(* some worker is awake and still has to count itself out.                 *)
ShutdownWoken ==
  At(Main, "deinitCheck") /\ Main \in cond1 =>
    \E w \in Workers : w \notin cond2 /\ pc[w] # "dead"

(* threadpool_init sleeps only while some worker has yet to count itself.  *)
InitWoken ==
  At(Main, "initWait") /\ Main \in cond1 => \E w \in Workers : At(w, "start")

(* No sleeper is forgotten by those who could wake it: no worker that a    *)
(* queued job waits for, not the main thread in threadpool_init, in        *)
(* threadpool_wait or in threadpool_deinit, whatever order the locks are   *)
(* taken in.                                                               *)
NobodyOverslept == WorkersWoken /\ WaitWoken /\ ShutdownWoken /\ InitWoken

(* The locks that the next step of thread t takes are free: cond1's        *)
(* functions take lock1, the queue's lock2, cond2's lock3.                 *)
LocksFree(t) ==
  /\ pc[t] \in {"start", "busy", "idle", "exit", "errorAssign",
                "initWait", "wait", "deinitCheck"} => lock1 = NoThread
  /\ pc[t] \in {"insert", "get"} => lock2 = NoThread
  /\ pc[t] \in {"lock3", "getSignal", "insertSignal", "deinitSignal"} =>
       lock3 = NoThread

(* Thread t has a step to take: it runs, sleeps in no condition wait, has  *)
(* the locks it needs and, in threadpool_init's and threadpool_deinit's    *)
(* loops over the threads, one left to create or all of them to join.      *)
CanGo(t) ==
  /\ pc[t] \notin {"unborn", "dead", "done"}
  /\ t \notin cond1 \cup cond2
  /\ LocksFree(t)
  /\ At(t, "create") => \E w \in Workers : At(w, "unborn")
  /\ At(t, "join") => \A w \in Workers : At(w, "dead")

(* No deadlock: until the program ends some thread can take a step without *)
(* a spurious wakeup, so nobody waits for a lock, a signal or a thread     *)
(* that waits for him.                                                     *)
NeverDeadlocked == At(Main, "done") \/ \E t \in Threads : CanGo(t)

(* The program ends: nobody waits for ever for a lock, a job or a wakeup. *)
Termination == <>At(Main, "done")

(* A queued job is taken by a worker, unless an error ends the program. *)
QueuedIsServed ==
  \A j \in Jobs : (\E i \in DOMAIN jobs : jobs[i] = j) ~>
    (\E w \in Workers : cur[w] = j) \/ err_state # NoError

(* An await ends: a suspended caller runs again, unless an error ends the  *)
(* program.                                                                *)
AwaitReturns ==
  \A j \in Jobs : (heap[j] = "live" /\ step[j] = "resume") ~>
    (\E w \in Workers : cur[w] = j) \/ err_state # NoError
=============================================================================

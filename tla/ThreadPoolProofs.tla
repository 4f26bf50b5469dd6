--------------------------- MODULE ThreadPoolProofs ---------------------------
(***************************************************************************)
(* The safety theorems of ThreadPool, for every number of workers, calls   *)
(* and requeues.  First the threads one by one: what a thread may rely on  *)
(* at each point of its code, and what the counters count; every lemma     *)
(* about a step has the same shape, one step for each action.  Then the    *)
(* jobs: one is always in one place only, and the lemmas say where each    *)
(* kind of step moves it.  Last the sleepers and the errors: every sleeper *)
(* is woken, and every error is raised once.                               *)
(***************************************************************************)
EXTENDS ThreadPoolInv, IntervalLemmas

USE ThreadsAssumption, BoundsAssumption

(* A worker goes to a point of threadpool_worker that is not a call. *)
LEMMA WorkerMoves ==
  ASSUME Control, NEW w \in Workers, NEW p \in WorkerPC \ Returning,
         Goto(w, p), UNCHANGED threadVars,
         HasJob(w) <=> p \in {"getSignal", "run", "errorAssign", "jobDeinit"}
  PROVE  Control'
BY DEF Control, ThreadTypes, WorkerControl, MainControl, HasJob, Goto,
   threadVars, Threads, Returning

LEMMA MainMoves ==
  ASSUME Control, NEW p \in MainPC \ Returning, Goto(Main, p),
         UNCHANGED threadVars
  PROVE  Control'
BY DEF Control, ThreadTypes, WorkerControl, MainControl, HasJob, Goto,
   threadVars, Threads, Returning

(* A running job leaves its worker, or hands over to a call of insert. *)
LEMMA WorkerRequests ==
  ASSUME Control, NEW w \in Workers, NEW j \in Jobs,
         NEW r \in {"run", "idle", "jobDeinit"}, At(w, "run"), Request(w, j, r),
         \/ r = "idle" /\ cur' = [cur EXCEPT ![w] = NoJob]
         \/ r # "idle" /\ UNCHANGED cur
  PROVE  Control'
BY DEF Control, ThreadTypes, WorkerControl, MainControl, HasJob, At, Goto,
   Request, threadVars, Threads, Returning, WorkerPC, MainPC, BusyPC, Jobs, NoJob

(* The worker that runs a job has it. *)
LEMMA RunningHasJob ==
  ASSUME Control, NEW w \in Workers, HasJob(w)
  PROVE  cur[w] \in Jobs
BY DEF Control, ThreadTypes, WorkerControl, Threads

-----------------------------------------------------------------------------
LEMMA ControlStep == TInv /\ [Next]_vars => Control'
<1> SUFFICES ASSUME TInv, [Next]_vars PROVE Control'
  OBVIOUS
<1> USE DEF TInv
<1>1. ASSUME NEW w \in Workers, CreateThread(w) PROVE Control'
  BY <1>1 DEF CreateThread, Control, ThreadTypes, WorkerControl, MainControl,
     HasJob, At, threadVars, Threads, WorkerPC, MainPC, BusyPC, Returning
<1>2. ASSUME InitWait \/ Wait PROVE Control'
  <2>1. UNCHANGED <<pc, threadVars>> \/ Goto(Main, "add") \/ Goto(Main, "deinit")
    BY <1>2 DEF InitWait, Wait
  <2>2. UNCHANGED threadVars
    BY <1>2 DEF InitWait, Wait
  <2> QED BY <2>1, <2>2, MainMoves DEF MainPC, ReturnedPC, Returning, Control,
             ThreadTypes, WorkerControl, MainControl, HasJob, threadVars
<1>3. ASSUME MainFails \/ MainEnd \/ Deinit \/ DeinitSignal \/ Drain \/ Join
      PROVE  Control'
  BY <1>3, MainMoves DEF MainFails, MainThrow, MainNotice, MainCatch, MainUncaught,
     MainEnd, Deinit, DeinitSignal, Drain, Join, MainPC, ReturnedPC, Returning
<1>4. ASSUME DeinitCheck PROVE Control'
  <2>1. PICK p \in {"deinitSignal", "drain"} : Goto(Main, p)
    BY <1>4 DEF DeinitCheck
  <2> QED BY <1>4, <2>1, MainMoves DEF DeinitCheck, MainPC, ReturnedPC, Returning
<1>5. ASSUME MainAdd PROVE Control'
  BY <1>5 DEF MainAdd, Alloc, Request, Control, ThreadTypes, WorkerControl,
     MainControl, HasJob, JobTypes, At, Goto, Threads, WorkerPC, MainPC, BusyPC,
     Returning, Jobs, NoJob
<1>6. ASSUME NEW t \in Threads, Insert(t) PROVE Control'
  BY <1>6 DEF Insert, Control, ThreadTypes, WorkerControl, MainControl, HasJob,
     At, Goto, threadVars, Threads, WorkerPC, MainPC, BusyPC, Returning, NoJob
<1>7. ASSUME NEW t \in Threads, InsertSignal(t) PROVE Control'
  BY <1>7 DEF InsertSignal, Control, ThreadTypes, WorkerControl, MainControl,
     HasJob, At, Goto, Threads, WorkerPC, MainPC, BusyPC, Returning, NoJob
<1>8. ASSUME NEW w \in Workers, Start(w) \/ Busy(w) \/ Idle(w) \/ Exit(w)
      PROVE  Control'
  BY <1>8, WorkerMoves DEF Start, Busy, Idle, Exit, HasJob, At, WorkerPC, BusyPC,
     Returning, threadVars
<1>9. ASSUME NEW w \in Workers, Loop(w) \/ CheckActive(w) \/ CheckJobs(w) \/ Recheck(w)
      PROVE  Control'
  <2>1. PICK p \in {"lock3", "exit", "checkJobs", "recheck", "busy"} : Goto(w, p)
    BY <1>9 DEF Loop, CheckActive, CheckJobs, Recheck
  <2>2. ~ HasJob(w) /\ UNCHANGED threadVars
    BY <1>9 DEF Loop, CheckActive, CheckJobs, Recheck, HasJob, At, Returning,
       threadVars
  <2> QED BY <2>1, <2>2, WorkerMoves DEF WorkerPC, Returning
<1>10. ASSUME NEW w \in Workers, Get(w) PROVE Control'
  <2>1. CASE jobs = <<>>
    BY <1>10, <2>1, WorkerMoves DEF Get, HasJob, At, WorkerPC, BusyPC, Returning,
       threadVars
  <2>2. CASE jobs # <<>>
    <3>1. Head(jobs) \in Jobs
      BY <2>2 DEF JobTypes
    <3>2. PICK p \in {"run", "getSignal"} : Goto(w, p)
      BY <1>10, <2>2 DEF Get
    <3>3. /\ cur' = [cur EXCEPT ![w] = Head(jobs)]
          /\ UNCHANGED <<tgt, ret>> /\ At(w, "get")
      BY <1>10, <2>2 DEF Get
    <3> QED BY <3>1, <3>2, <3>3 DEF Control, ThreadTypes, WorkerControl,
               MainControl, HasJob, At, Goto, Threads, WorkerPC, MainPC, BusyPC,
               Returning, Jobs, NoJob
  <2> QED BY <2>1, <2>2
<1>11. ASSUME NEW w \in Workers, GetSignal(w) \/ ErrorAssign(w) PROVE Control'
  BY <1>11, WorkerMoves DEF GetSignal, ErrorAssign, HasJob, At, WorkerPC, BusyPC,
     Returning, threadVars
<1>12. ASSUME NEW w \in Workers, Spawn(w) \/ Await(w) PROVE Control'
  <2>1. count + 1 \in Jobs
    BY <1>12 DEF Spawn, Await, Alloc, JobTypes, Jobs
  <2> QED BY <1>12, <2>1, WorkerRequests DEF Spawn, Await, Runs, Leave
<1>13. ASSUME NEW w \in Workers, Yield(w) \/ Throw(w) \/ Catch(w) \/ Unwind(w)
       PROVE  Control'
  <2>1. cur[w] \in Jobs
    BY <1>13, RunningHasJob DEF Yield, Throw, Catch, Unwind, Runs, At, HasJob
  <2> QED BY <1>13, <2>1, WorkerRequests DEF Yield, Throw, Catch, Unwind, Runs,
             Requeue, Leave
<1>14. ASSUME NEW w \in Workers, Resume(w) PROVE Control'
  <2>1. cur[w] \in Jobs
    BY <1>14, RunningHasJob DEF Resume, Runs, At, HasJob
  <2>2. CASE errState[cur[w]] # NoError
    BY <1>14, <2>1, <2>2, WorkerRequests DEF Resume, Runs, Requeue, Leave
  <2>3. CASE errState[cur[w]] = NoError
    BY <1>14, <2>3 DEF Resume, Control, ThreadTypes, WorkerControl, MainControl,
       HasJob, threadVars
  <2> QED BY <2>2, <2>3
<1>15. ASSUME NEW w \in Workers, Handle(w) PROVE Control'
  BY <1>15 DEF Handle, Control, ThreadTypes, WorkerControl, MainControl, HasJob,
     threadVars
<1>16. ASSUME NEW w \in Workers, Finish(w) PROVE Control'
  <2>0. cur[w] \in Jobs /\ At(w, "run")
    BY <1>16, RunningHasJob DEF Finish, Runs, At, HasJob
  <2>1. CASE parent[cur[w]] # NoJob
    <3>1. parent[cur[w]] \in Jobs
      BY <2>0, <2>1 DEF JobTypes
    <3> QED BY <1>16, <2>0, <2>1, <3>1, WorkerRequests DEF Finish, Caller
  <2>2. CASE parent[cur[w]] = NoJob
    <3>1. PICK p \in {"errorAssign", "jobDeinit"} : Goto(w, p)
      BY <1>16, <2>2 DEF Finish, Caller
    <3>2. UNCHANGED threadVars
      BY <1>16, <2>2 DEF Finish, Caller, threadVars
    <3> QED BY <2>0, <3>1, <3>2, WorkerMoves DEF WorkerPC, BusyPC, Returning,
               HasJob, At
  <2> QED BY <2>1, <2>2
<1>17. ASSUME NEW w \in Workers, JobDeinit(w) PROVE Control'
  BY <1>17 DEF JobDeinit, Control, ThreadTypes, WorkerControl, MainControl, HasJob,
     At, Goto, Threads, WorkerPC, MainPC, BusyPC, Returning, NoJob
<1>18. ASSUME UNCHANGED <<pc, threadVars>> PROVE Control'
  BY <1>18 DEF Control, ThreadTypes, WorkerControl, MainControl, HasJob, threadVars
<1> QED
  BY <1>1, <1>2, <1>3, <1>4, <1>5, <1>6, <1>7, <1>8, <1>9, <1>10, <1>11, <1>12,
     <1>13, <1>14, <1>15, <1>16, <1>17, <1>18
     DEF Next, MainStep, WorkerStep, SpuriousWakeup, Terminated, vars, Threads

-----------------------------------------------------------------------------
(* Mutexes are owned by threads, and only main waits on cond1 and only     *)
(* workers on cond2.                                                       *)
LEMMA SyncStep == TInv /\ [Next]_vars => SyncTypes'
<1> SUFFICES ASSUME TInv, [Next]_vars PROVE SyncTypes'
  OBVIOUS
<1> USE DEF TInv, SyncTypes, Threads
<1>1. ASSUME UNCHANGED <<locks, conds, active>> PROVE SyncTypes'
  BY <1>1 DEF locks, conds
<1>2. ASSUME InitWait \/ Wait \/ Deinit \/ DeinitCheck \/ DeinitSignal
      PROVE  SyncTypes'
  BY <1>2 DEF InitWait, Wait, Deinit, DeinitCheck, DeinitSignal, Signalled, locks,
     conds, counters
<1>3. ASSUME NEW t \in Threads, Insert(t) \/ InsertSignal(t) PROVE SyncTypes'
  BY <1>3 DEF Insert, InsertSignal, Wakeup_Insert, Signalled, locks, conds, counters
<1>4. ASSUME NEW w \in Workers,
             Start(w) \/ CheckActive(w) \/ CheckJobs(w) \/ GetSignal(w)
      PROVE  SyncTypes'
  BY <1>4 DEF Start, CheckActive, CheckJobs, GetSignal, Signalled, locks, conds,
     counters
<1>5. ASSUME NEW w \in Workers, Get(w) \/ Idle(w) \/ Exit(w) PROVE SyncTypes'
  BY <1>5 DEF Get, Idle, Exit, Wakeup_Exit, Signalled, locks, conds, counters
<1>6. ASSUME NEW t \in Threads, SpuriousWakeup(t) PROVE SyncTypes'
  BY <1>6 DEF SpuriousWakeup, locks, conds, counters
<1>7. ASSUME MainAdd \/ MainFails \/ MainEnd \/ Drain \/ Join
             \/ \E w \in Workers : CreateThread(w)
      PROVE  SyncTypes'
  BY <1>1, <1>7 DEF MainAdd, MainFails, MainThrow, MainNotice, MainCatch,
     MainUncaught, MainEnd, Drain, Join, CreateThread, locks, conds, counters
<1>8. ASSUME NEW w \in Workers,
             \/ Loop(w) \/ Recheck(w) \/ Busy(w) \/ Spawn(w) \/ Await(w)
             \/ Resume(w) \/ Yield(w) \/ Throw(w) \/ Catch(w) \/ Unwind(w)
             \/ Handle(w) \/ Finish(w) \/ ErrorAssign(w) \/ JobDeinit(w)
      PROVE  SyncTypes'
  BY <1>1, <1>8 DEF Loop, Recheck, Busy, Spawn, Await, Resume, Yield, Throw, Catch,
     Unwind, Handle, Finish, ErrorAssign, JobDeinit, locks, conds, counters
<1> QED
  BY <1>1, <1>2, <1>3, <1>4, <1>5, <1>6, <1>7, <1>8
     DEF Next, MainStep, WorkerStep, Terminated, vars, counters

-----------------------------------------------------------------------------
(* The fields of the jobs, the queue and the errors keep their types.      *)
LEMMA JobStep == TInv /\ [Next]_vars => JobTypes'
<1> SUFFICES ASSUME TInv, [Next]_vars PROVE JobTypes'
  OBVIOUS
<1> USE DEF TInv, JobTypes, Jobs, Errors, NoJob, NoError, MainError
<1>1. ASSUME UNCHANGED <<jobs, err_state, jobVars>> PROVE JobTypes'
  BY <1>1 DEF jobVars
<1>2. ASSUME MainAdd PROVE JobTypes'
  BY <1>2 DEF MainAdd, Alloc
<1>3. ASSUME MainFails PROVE JobTypes'
  <2>1. CASE MainNotice \/ MainUncaught
    BY <2>1 DEF MainNotice, MainUncaught, jobVars
  <2>2. CASE MainThrow
    <3>1. hidden' \in SUBSET Jobs
      BY <2>2 DEF MainThrow, Hides
    <3> QED BY <2>2, <3>1 DEF MainThrow
  <2>3. CASE MainCatch
    <3>1. mainCaught' \in SUBSET Jobs /\ requeues' \in 0..MaxRequeues
      BY <2>3 DEF MainCatch, CountRequeue
    <3> QED BY <2>3, <3>1 DEF MainCatch, Unset
  <2> QED BY <1>3, <2>1, <2>2, <2>3 DEF MainFails
<1>12. ASSUME Drain PROVE JobTypes'
  <2>1. jobs' \in Seq(Jobs)
    BY <1>12 DEF Drain
  <2>2. heap' \in [Jobs -> {"unused", "live", "freed"}]
    BY <1>12 DEF Drain
  <2> QED BY <1>12, <2>1, <2>2 DEF Drain
<1>4. ASSUME NEW t \in Threads, Insert(t) PROVE JobTypes'
  <2>1. tgt[t] \in Jobs
    BY <1>4 DEF Insert, At, Control, WorkerControl, MainControl, Returning, Threads
  <2> QED BY <1>4, <2>1 DEF Insert, Enqueue, jobVars
<1>5. ASSUME NEW w \in Workers, Get(w) PROVE JobTypes'
  <2>1. jobs' \in Seq(Jobs)
    <3>1. jobs # <<>> => Tail(jobs) \in Seq(Jobs)
      OBVIOUS
    <3> QED BY <1>5, <3>1 DEF Get
  <2> QED BY <1>5, <2>1 DEF Get, jobVars
<1>6. ASSUME NEW w \in Workers, HasJob(w) PROVE cur[w] \in Jobs
  BY <1>6, RunningHasJob
<1>7. ASSUME NEW w \in Workers, Spawn(w) \/ Await(w) PROVE JobTypes'
  <2>1. cur[w] \in Jobs
    BY <1>6, <1>7 DEF Spawn, Await, Runs, At, HasJob
  <2>2. step' \in [Jobs -> Steps]
    BY <1>7, <2>1 DEF Spawn, Await, Leave, Steps
  <2>3. \E p \in Jobs \cup {NoJob} : Alloc(p, errState[cur[w]])
    BY <1>7, <2>1 DEF Spawn, SpawnParent, Await
  <2>4. UNCHANGED <<jobs, err_state, requeues, caught>>
    BY <1>7 DEF Spawn, Await
  <2>5. UNCHANGED <<hidden, mainCaught>>
    BY <1>7 DEF Spawn, Await
  <2> QED BY <2>1, <2>2, <2>3, <2>4, <2>5 DEF Alloc
<1>8. ASSUME NEW w \in Workers,
             \/ Resume(w) \/ Yield(w) \/ Throw(w)
             \/ Catch(w) \/ Unwind(w) \/ Handle(w)
      PROVE  JobTypes'
  <2>1. cur[w] \in Jobs
    BY <1>6, <1>8 DEF Resume, Yield, Throw, Catch, Unwind, Handle, Runs, At, HasJob
  <2>2. step' \in [Jobs -> Steps]
    BY <1>8, <2>1 DEF Resume, ErrorStep, Yield, Throw, Catch, Unwind, Handle,
       Requeue, Leave, Steps
  <2>3. errState' \in [Jobs -> Errors \cup {NoError}]
    <3>1. CASE Throw(w)
      BY <2>1, <3>1 DEF Throw
    <3>2. CASE Handle(w)
      BY <2>1, <3>2 DEF Handle
    <3> QED BY <1>8, <3>1, <3>2 DEF Resume, Yield, Catch, Unwind
  <2>4. requeues' \in 0..MaxRequeues
    BY <1>8 DEF Resume, Yield, Throw, Catch, Unwind, Handle, CountRequeue
  <2>5. caught' \subseteq Errors
    <3>1. CASE Handle(w)
      <4>1. Runs(w, "handler")
        BY <3>1 DEF Handle
      <4>2. errState[cur[w]] # NoError
        BY <2>1, <4>1 DEF Runs, UnwindsWithError
      <4> QED BY <2>1, <3>1, <4>2 DEF Handle
    <3>2. CASE Throw(w)
      BY <3>2 DEF Throw
    <3> QED BY <1>8, <3>1, <3>2 DEF Resume, Yield, Catch, Unwind
  <2>6. UNCHANGED <<jobs, err_state, count, heap, parent, hidden, mainCaught>>
    BY <1>8 DEF Resume, Yield, Throw, Catch, Unwind, Handle
  <2> QED BY <2>2, <2>3, <2>4, <2>5, <2>6
<1>9. ASSUME NEW w \in Workers, Finish(w) \/ ErrorAssign(w) \/ JobDeinit(w)
      PROVE  JobTypes'
  <2>1. cur[w] \in Jobs
    BY <1>6, <1>9 DEF Finish, ErrorAssign, JobDeinit, Runs, At, HasJob
  <2> QED BY <1>9, <2>1 DEF Finish, Caller, ErrorToParent, ErrorAssign, Hides,
             JobDeinit, Steps, jobVars
<1>10. ASSUME \/ InitWait \/ MainEnd \/ Wait \/ Deinit \/ DeinitCheck
              \/ DeinitSignal \/ Join \/ \E w \in Workers : CreateThread(w)
              \/ \E t \in Threads : InsertSignal(t) \/ SpuriousWakeup(t)
       PROVE  JobTypes'
  BY <1>1, <1>10 DEF InitWait, MainEnd, Wait, Deinit, DeinitCheck, DeinitSignal,
     Join, CreateThread, InsertSignal, SpuriousWakeup
<1>11. ASSUME NEW w \in Workers,
              \/ Start(w) \/ Loop(w) \/ CheckActive(w) \/ CheckJobs(w)
              \/ Recheck(w) \/ Busy(w) \/ GetSignal(w) \/ Idle(w) \/ Exit(w)
       PROVE  JobTypes'
  BY <1>1, <1>11 DEF Start, Loop, CheckActive, CheckJobs, Recheck, Busy, GetSignal,
     Idle, Exit
<1> QED
  BY <1>1, <1>2, <1>3, <1>4, <1>5, <1>7, <1>8, <1>9, <1>10, <1>11,
     <1>12
     DEF Next, MainStep, WorkerStep, Terminated, vars, Threads

-----------------------------------------------------------------------------
(* alive_threads and working_threads count. *)
LEMMA Finite ==
  /\ IsFiniteSet(AliveWorkers) /\ IsFiniteSet(BusyWorkers)
  /\ IsFiniteSet(AliveWorkers') /\ IsFiniteSet(BusyWorkers')
BY FS_Subset DEF AliveWorkers, BusyWorkers

(* The points of a worker that the two counters tell apart. *)
Outside == {"unborn", "start", "dead"}

LEMMA SameCounts ==
  ASSUME Counted, UNCHANGED <<alive, working>>,
         \A w \in Workers : /\ pc'[w] \in Outside <=> pc[w] \in Outside
                            /\ pc'[w] \in BusyPC <=> pc[w] \in BusyPC
  PROVE  Counted'
<1>1. AliveWorkers' = AliveWorkers
  BY DEF AliveWorkers, Outside
<1>2. BusyWorkers' = BusyWorkers
  BY DEF BusyWorkers
<1> QED BY <1>1, <1>2 DEF Counted

(* One thread goes from p to q, both inside or both outside the counts. *)
LEMMA SameCountsGoto ==
  ASSUME Control, Counted, UNCHANGED <<alive, working>>,
         NEW t \in Threads, NEW q, Goto(t, q),
         t \in Workers => /\ q \in Outside <=> pc[t] \in Outside
                          /\ q \in BusyPC <=> pc[t] \in BusyPC
  PROVE  Counted'
<1>1. \A w \in Workers : pc'[w] = IF w = t THEN q ELSE pc[w]
  BY DEF Control, ThreadTypes, Goto, Threads
<1>2. \A w \in Workers : /\ pc'[w] \in Outside <=> pc[w] \in Outside
                         /\ pc'[w] \in BusyPC <=> pc[w] \in BusyPC
  BY <1>1
<1> QED BY <1>2, SameCounts

LEMMA CountStep == TInv /\ [Next]_vars => Counted'
<1> SUFFICES ASSUME TInv, [Next]_vars PROVE Counted'
  OBVIOUS
<1> USE DEF TInv
<1>0. \A w \in Workers : pc[w] \in WorkerPC /\ w # Main
  BY DEF Control, ThreadTypes
<1>1. ASSUME NEW w \in Workers, CreateThread(w) PROVE Counted'
  <2>1. \A v \in Workers : pc'[v] = IF v = w THEN "start" ELSE pc[v]
    BY <1>1 DEF CreateThread, Control, ThreadTypes, Threads
  <2>2. \A v \in Workers : /\ pc'[v] \in Outside <=> pc[v] \in Outside
                           /\ pc'[v] \in BusyPC <=> pc[v] \in BusyPC
    <3>1. pc[w] = "unborn"
      BY <1>1 DEF CreateThread, At
    <3> QED BY <2>1, <3>1 DEF Outside, BusyPC
  <2> QED BY <1>1, <2>2, SameCounts DEF CreateThread, counters
<1>2. ASSUME UNCHANGED <<pc, alive, working>> PROVE Counted'
  BY <1>2, SameCounts
<1>3. ASSUME NEW q, Goto(Main, q), UNCHANGED <<alive, working>> PROVE Counted'
  BY <1>3, SameCountsGoto DEF Threads
<1>4. ASSUME NEW w \in Workers, Start(w) PROVE Counted'
  <2>1. AliveWorkers' = AliveWorkers \cup {w} /\ w \notin AliveWorkers
    BY <1>4 DEF Start, At, Goto, AliveWorkers, Control, ThreadTypes, Threads
  <2>2. BusyWorkers' = BusyWorkers
    BY <1>4 DEF Start, At, Goto, BusyWorkers, BusyPC, Control, ThreadTypes, Threads
  <2>3. Cardinality(AliveWorkers') = Cardinality(AliveWorkers) + 1
    BY <2>1, Finite, FS_AddElement
  <2> QED BY <1>4, <2>2, <2>3 DEF Start, Counted
<1>5. ASSUME NEW w \in Workers, Exit(w) PROVE Counted'
  <2>1. AliveWorkers' = AliveWorkers \ {w} /\ w \in AliveWorkers
    BY <1>5 DEF Exit, At, Goto, AliveWorkers, Control, ThreadTypes, Threads
  <2>2. BusyWorkers' = BusyWorkers
    BY <1>5 DEF Exit, At, Goto, BusyWorkers, BusyPC, Control, ThreadTypes, Threads
  <2>3. Cardinality(AliveWorkers') = Cardinality(AliveWorkers) - 1
    BY <2>1, Finite, FS_RemoveElement
  <2> QED BY <1>5, <2>2, <2>3 DEF Exit, Counted
<1>6. ASSUME NEW w \in Workers, Busy(w) PROVE Counted'
  <2>1. BusyWorkers' = BusyWorkers \cup {w} /\ w \notin BusyWorkers
    BY <1>6 DEF Busy, At, Goto, BusyWorkers, BusyPC, Control, ThreadTypes, Threads
  <2>2. AliveWorkers' = AliveWorkers
    BY <1>6 DEF Busy, At, Goto, AliveWorkers, Control, ThreadTypes, Threads
  <2>3. Cardinality(BusyWorkers') = Cardinality(BusyWorkers) + 1
    BY <2>1, Finite, FS_AddElement
  <2> QED BY <1>6, <2>2, <2>3 DEF Busy, Enter, Counted
<1>7. ASSUME NEW w \in Workers, Idle(w) PROVE Counted'
  <2>1. BusyWorkers' = BusyWorkers \ {w} /\ w \in BusyWorkers
    BY <1>7 DEF Idle, At, Goto, BusyWorkers, BusyPC, Control, ThreadTypes, Threads
  <2>2. AliveWorkers' = AliveWorkers
    BY <1>7 DEF Idle, At, Goto, AliveWorkers, Control, ThreadTypes, Threads
  <2>3. Cardinality(BusyWorkers') = Cardinality(BusyWorkers) - 1
    BY <2>1, Finite, FS_RemoveElement
  <2> QED BY <1>7, <2>2, <2>3 DEF Idle, Counted
<1>8. ASSUME \/ InitWait \/ MainAdd \/ MainFails \/ MainEnd \/ Wait \/ Deinit
             \/ DeinitCheck \/ DeinitSignal \/ Drain \/ Join
             \/ Insert(Main) \/ InsertSignal(Main)
      PROVE  Counted'
  <2>1. UNCHANGED <<alive, working>>
    BY <1>8 DEF InitWait, MainAdd, MainFails, MainThrow, MainNotice, MainCatch,
       MainUncaught, MainEnd, Wait, Deinit, DeinitCheck, DeinitSignal, Drain, Join,
       Insert, InsertSignal, counters
  <2>2. UNCHANGED pc \/ \E q \in MainPC : Goto(Main, q)
    <3>1. InsertSignal(Main) => ret[Main] = "add"
      BY DEF InsertSignal, At, Control, MainControl, Returning
    <3> QED BY <1>8, <3>1 DEF InitWait, MainAdd, Request, MainFails, MainThrow,
               MainNotice, MainCatch, MainUncaught, MainEnd, Wait, Deinit,
               DeinitCheck, DeinitSignal, Drain, Join, Insert, InsertSignal, MainPC,
               ReturnedPC
  <2> QED BY <1>2, <1>3, <2>1, <2>2
<1>9. ASSUME NEW w \in Workers,
             \/ Loop(w) \/ CheckActive(w) \/ CheckJobs(w) \/ Recheck(w)
      PROVE  Counted'
  <2>1. PICK q \in {"lock3", "exit", "checkJobs", "recheck", "busy"} : Goto(w, q)
    BY <1>9 DEF Loop, CheckActive, CheckJobs, Recheck
  <2>2. pc[w] \in {"loop", "lock3", "checkJobs", "recheck"}
    BY <1>9 DEF Loop, CheckActive, CheckJobs, Recheck, At
  <2>3. UNCHANGED <<alive, working>>
    BY <1>9 DEF Loop, CheckActive, CheckJobs, Recheck, counters
  <2> QED BY <2>1, <2>2, <2>3, SameCountsGoto DEF Threads, Outside, BusyPC
<1>10. ASSUME NEW w \in Workers,
              \/ Get(w) \/ GetSignal(w) \/ Insert(w) \/ InsertSignal(w)
              \/ Spawn(w) \/ Await(w) \/ Resume(w) \/ Yield(w) \/ Throw(w)
              \/ Catch(w) \/ Unwind(w) \/ Handle(w) \/ Finish(w)
              \/ ErrorAssign(w) \/ JobDeinit(w)
       PROVE  Counted'
  <2>1. pc[w] \in BusyPC
    BY <1>10 DEF Get, GetSignal, Insert, InsertSignal, Spawn, Await, Resume, Yield,
       Throw, Catch, Unwind, Handle, Finish, ErrorAssign, JobDeinit, Runs, At, BusyPC
  <2>2. UNCHANGED <<alive, working>>
    BY <1>10 DEF Get, GetSignal, Insert, InsertSignal, Spawn, Await, Resume, Yield,
       Throw, Catch, Unwind, Handle, Finish, ErrorAssign, JobDeinit, counters
  <2>3. UNCHANGED pc \/ \E q \in BusyPC : Goto(w, q)
    <3>1. InsertSignal(w) => ret[w] \in BusyPC
      BY DEF InsertSignal, At, Control, WorkerControl, Returning, BusyPC
    <3>2. Finish(w) => \E q \in BusyPC : Goto(w, q)
      BY DEF Finish, Request, BusyPC
    <3>3. Get(w) => \E q \in BusyPC : Goto(w, q)
      BY DEF Get, BusyPC
    <3>4. Resume(w) => UNCHANGED pc \/ \E q \in BusyPC : Goto(w, q)
      BY DEF Resume, Requeue, Request, BusyPC
    <3> QED BY <1>10, <3>1, <3>2, <3>3, <3>4 DEF GetSignal, Insert, InsertSignal,
               Spawn, Await, Yield, Throw, Catch, Unwind, Handle, ErrorAssign,
               JobDeinit, Requeue, Request, BusyPC
  <2>4. BusyPC \cap Outside = {}
    BY DEF BusyPC, Outside
  <2> QED BY <1>2, <2>1, <2>2, <2>3, <2>4, SameCountsGoto DEF Threads
<1> QED
  BY <1>1, <1>2, <1>4, <1>5, <1>6, <1>7, <1>8, <1>9, <1>10
     DEF Next, MainStep, WorkerStep, SpuriousWakeup, Terminated, vars, counters

-----------------------------------------------------------------------------
(* A worker starts once and dies once, and main leaves threadpool_init and *)
(* the loop of threadpool_deinit by their tests of alive_threads.          *)
LEMMA WorkerProgress ==
  ASSUME TInv, [Next]_vars, NEW w \in Workers
  PROVE  /\ pc'[w] \in {"unborn", "start"} => pc[w] \in {"unborn", "start"}
         /\ pc[w] = "dead" => pc'[w] = "dead"
<1> DEFINE P == /\ pc'[w] \in {"unborn", "start"} => pc[w] \in {"unborn", "start"}
                /\ pc[w] = "dead" => pc'[w] = "dead"
<1> USE DEF TInv
<1>1. CASE UNCHANGED pc
  BY <1>1
<1>2. ASSUME NEW t \in Threads, NEW q, q \notin {"unborn", "start"},
             pc[t] # "dead", Goto(t, q)
      PROVE  P
  BY <1>2 DEF Goto, Control, ThreadTypes
<1>3. ASSUME NEW v \in Workers, CreateThread(v) PROVE P
  <2>1. pc[v] = "unborn" /\ pc'[v] = "start"
    BY <1>3 DEF CreateThread, At, Control, ThreadTypes, Threads
  <2>2. v # w => pc'[w] = pc[w]
    BY <1>3 DEF CreateThread, Control, ThreadTypes, Threads
  <2> QED BY <2>1, <2>2
<1>4. pc[Main] # "dead"
  BY DEF Control, ThreadTypes, MainPC, ReturnedPC
<1>5. ASSUME \/ InitWait \/ MainAdd \/ MainFails \/ MainEnd \/ Wait \/ Deinit
             \/ DeinitCheck \/ DeinitSignal \/ Drain \/ Join
      PROVE  P
  <2>1. UNCHANGED pc \/ \E q \in MainPC : Goto(Main, q)
    BY <1>5 DEF InitWait, MainAdd, Request, MainFails, MainThrow, MainNotice,
       MainCatch, MainUncaught, MainEnd, Wait, Deinit, DeinitCheck, DeinitSignal,
       Drain, Join, MainPC, ReturnedPC
  <2>2. MainPC \cap {"unborn", "start"} = {}
    BY DEF MainPC, ReturnedPC
  <2> QED BY <1>1, <1>2, <1>4, <2>1, <2>2 DEF Threads
<1>6. ASSUME NEW t \in Threads, Insert(t) \/ InsertSignal(t) PROVE P
  <2>1. Insert(t) => Goto(t, "insertSignal")
    BY DEF Insert
  <2>2. InsertSignal(t) => Goto(t, ret[t])
    BY DEF InsertSignal
  <2>3. ret[t] \notin {"unborn", "start"} /\ pc[t] # "dead"
    BY <1>6 DEF Insert, InsertSignal, At, Control, ThreadTypes
  <2> QED BY <1>2, <1>6, <2>1, <2>2, <2>3
<1>7. ASSUME NEW v \in Workers,
             \/ Start(v) \/ Loop(v) \/ CheckActive(v) \/ CheckJobs(v) \/ Recheck(v)
             \/ Busy(v) \/ Get(v) \/ GetSignal(v) \/ Idle(v) \/ Exit(v)
      PROVE  P
  <2>1. \E q \in {"loop", "lock3", "exit", "recheck", "checkJobs", "busy", "get",
                  "idle", "run", "getSignal", "dead"} : Goto(v, q)
    <3>1. Get(v) => \E q \in {"idle", "run", "getSignal"} : Goto(v, q)
      BY DEF Get
    <3> QED BY <1>7, <3>1 DEF Start, Loop, CheckActive, CheckJobs, Recheck, Busy,
               GetSignal, Idle, Exit
  <2>2. pc[v] # "dead"
    BY <1>7 DEF Start, Loop, CheckActive, CheckJobs, Recheck, Busy, Get, GetSignal,
       Idle, Exit, At
  <2> QED BY <1>2, <2>1, <2>2 DEF Threads
<1>8. ASSUME NEW v \in Workers,
             \/ Spawn(v) \/ Await(v) \/ Resume(v) \/ Yield(v) \/ Throw(v)
             \/ Catch(v) \/ Unwind(v) \/ Handle(v) \/ Finish(v) \/ ErrorAssign(v)
             \/ JobDeinit(v)
      PROVE  P
  <2>1. UNCHANGED pc
          \/ \E q \in {"insert", "errorAssign", "jobDeinit", "idle"} : Goto(v, q)
    <3>1. Finish(v) => \E q \in {"insert", "errorAssign", "jobDeinit"} : Goto(v, q)
      BY DEF Finish, Request
    <3>2. Resume(v) => UNCHANGED pc \/ Goto(v, "insert")
      BY DEF Resume, Requeue, Request
    <3> QED BY <1>8, <3>1, <3>2 DEF Spawn, Await, Yield, Throw, Catch, Unwind,
               Handle, ErrorAssign, JobDeinit, Requeue, Request
  <2>2. pc[v] # "dead"
    BY <1>8 DEF Spawn, Await, Resume, Yield, Throw, Catch, Unwind, Handle, Finish,
       ErrorAssign, JobDeinit, Runs, At
  <2> QED BY <1>1, <1>2, <2>1, <2>2 DEF Threads
<1> QED
  BY <1>1, <1>3, <1>5, <1>6, <1>7, <1>8
     DEF Next, MainStep, WorkerStep, SpuriousWakeup, Terminated, vars, Threads

(* The step of a worker leaves every other thread where it is. *)
LEMMA WorkerLeavesOthers ==
  ASSUME TInv, NEW w \in Workers, WorkerStep(w), NEW t \in Threads, t # w
  PROVE  pc'[t] = pc[t] /\ cur'[t] = cur[t]
<1> USE DEF TInv, Control, ThreadTypes
<1>1. ASSUME Get(w) \/ CheckActive(w) \/ CheckJobs(w) \/ Resume(w) \/ Finish(w)
      PROVE  pc'[t] = pc[t] /\ cur'[t] = cur[t]
  BY <1>1 DEF Get, CheckActive, CheckJobs, Resume, Finish, Goto, Requeue, Leave,
     Request, threadVars
<1>2. ASSUME \/ Start(w) \/ Loop(w) \/ Recheck(w) \/ Busy(w) \/ GetSignal(w)
             \/ Idle(w) \/ Exit(w) \/ Insert(w) \/ InsertSignal(w) \/ Spawn(w)
      PROVE  pc'[t] = pc[t] /\ cur'[t] = cur[t]
  BY <1>2 DEF Start, Loop, Recheck, Busy, GetSignal, Idle, Exit, Insert,
     InsertSignal, Spawn, Goto, Request, threadVars
<1>3. ASSUME \/ Await(w) \/ Yield(w) \/ Throw(w) \/ Catch(w) \/ Unwind(w)
             \/ Handle(w) \/ ErrorAssign(w) \/ JobDeinit(w)
      PROVE  pc'[t] = pc[t] /\ cur'[t] = cur[t]
  BY <1>3 DEF Await, Yield, Throw, Catch, Unwind, Handle, ErrorAssign, JobDeinit,
     Goto, Requeue, Leave, Request, threadVars
<1> QED BY <1>1, <1>2, <1>3 DEF WorkerStep

(* The step of main leaves a worker where it is, or creates it. *)
LEMMA MainLeavesWorkers ==
  ASSUME TInv, MainStep, NEW w \in Workers
  PROVE  /\ pc'[w] # pc[w] => pc[w] = "unborn" /\ pc'[w] = "start"
         /\ cur'[w] = cur[w]
<1> USE DEF TInv, Control, ThreadTypes, Threads
<1>1. ASSUME NEW v \in Workers, CreateThread(v)
      PROVE  /\ pc'[w] # pc[w] => pc[w] = "unborn" /\ pc'[w] = "start"
             /\ cur'[w] = cur[w]
  <2>1. pc[v] = "unborn" /\ pc'[v] = "start" /\ cur' = cur
    BY <1>1 DEF CreateThread, At, threadVars
  <2>2. w # v => pc'[w] = pc[w]
    BY <1>1 DEF CreateThread
  <2> QED BY <2>1, <2>2
<1>2. ASSUME \/ InitWait \/ MainAdd \/ MainFails \/ MainEnd \/ Insert(Main)
             \/ InsertSignal(Main) \/ Wait \/ Deinit \/ DeinitCheck \/ DeinitSignal
             \/ Drain \/ Join
      PROVE  pc'[w] = pc[w] /\ cur'[w] = cur[w]
  BY <1>2 DEF InitWait, MainAdd, MainFails, MainThrow, MainNotice, MainCatch,
     MainUncaught, MainEnd, Insert, InsertSignal, Wait, Deinit, DeinitCheck,
     DeinitSignal, Drain, Join, Goto, Request, threadVars
<1> QED BY <1>1, <1>2 DEF MainStep

(* Only main moves main. *)
LEMMA WorkerLeavesMain ==
  ASSUME TInv, NEW w \in Workers, WorkerStep(w) \/ CreateThread(w)
  PROVE  \/ pc'[Main] = pc[Main]
         \/ pc[Main] = "create" /\ pc'[Main] = "initWait"
<1>1. CASE CreateThread(w)
  BY <1>1 DEF CreateThread, At, TInv, Control, ThreadTypes, Threads
<1>2. CASE WorkerStep(w)
  BY <1>2, WorkerLeavesOthers DEF Threads
<1> QED BY <1>1, <1>2

LEMMA MainProgress ==
  ASSUME TInv, [Next]_vars
  PROVE  /\ pc'[Main] \notin {"create", "initWait"} =>
              \/ pc[Main] \notin {"create", "initWait"}
              \/ alive = Cardinality(Workers)
         /\ pc'[Main] \in {"drain", "join", "done"} =>
              \/ pc[Main] \in {"drain", "join", "done"}
              \/ pc[Main] = "deinitCheck" /\ alive = 0
<1>1. CASE InitWait \/ Wait \/ DeinitCheck
  BY <1>1 DEF InitWait, Wait, DeinitCheck, ThreadsRemain, At, Goto, TInv, Control,
     ThreadTypes, Threads
<1>2. CASE \/ MainAdd \/ MainFails \/ MainEnd \/ Deinit \/ DeinitSignal \/ Drain
           \/ Join \/ Insert(Main)
  BY <1>2 DEF MainAdd, Request, MainFails, MainThrow, MainNotice, MainCatch,
     MainUncaught, MainEnd, Deinit, DeinitSignal, Drain, Join, Insert, At, Goto,
     TInv, Control, ThreadTypes, Threads
<1>3. CASE InsertSignal(Main)
  BY <1>3 DEF InsertSignal, At, Goto, TInv, Control, ThreadTypes, MainControl,
     Returning, Threads
<1>4. CASE UNCHANGED pc
  BY <1>4
<1> QED
  BY <1>1, <1>2, <1>3, <1>4, WorkerLeavesMain
     DEF Next, MainStep, SpuriousWakeup, Terminated, vars

LEMMA StartedStep == TInv /\ [Next]_vars => Started' /\ AllDead'
<1> SUFFICES ASSUME TInv, [Next]_vars PROVE Started' /\ AllDead'
  OBVIOUS
<1>1. alive = Cardinality(Workers) => \A w \in Workers : w \in AliveWorkers
  BY FS_Subset DEF TInv, Counted, AliveWorkers
<1>2. alive = 0 => AliveWorkers = {}
  BY Finite, FS_EmptySet DEF TInv, Counted
<1>3. Started'
  BY <1>1, WorkerProgress, MainProgress DEF TInv, Started, AliveWorkers
<1>4. AllDead'
  <2>1. pc[Main] = "deinitCheck" /\ alive = 0 => \A w \in Workers : pc[w] = "dead"
    BY <1>2 DEF TInv, Started, AliveWorkers
  <2> QED BY <2>1, WorkerProgress, MainProgress DEF TInv, AllDead
<1> QED BY <1>3, <1>4

----------------------------------------------------------------------------
(* The places name jobs. *)
LEMMA PlaceTypes ==
  ASSUME TInv
  PROVE  /\ NoJob \notin Jobs
         /\ \A t \in Threads : cur[t] \in Jobs \cup {NoJob}
         /\ \A t \in Threads : Ins(t) \in Jobs \cup {NoJob}
         /\ \A c \in Jobs : Awaited(c) => parent[c] \in Jobs
<1>1. NoJob \notin Jobs
  BY DEF Jobs, NoJob
<1>2. \A t \in Threads : cur[t] \in Jobs \cup {NoJob} /\ tgt[t] \in Jobs \cup {NoJob}
  BY DEF TInv, Control, ThreadTypes
<1>3. \A c \in Jobs : parent[c] \in Jobs \cup {NoJob}
  BY DEF TInv, JobTypes
<1> QED BY <1>1, <1>2, <1>3 DEF Ins, Awaited

(* Who has a job tells its place. *)
LEMMA InQueue ==
  ASSUME Placed, NEW j \in Jobs, Queued(j)
  PROVE  heap[j] = "live" /\ In(j, TRUE, {}, {}, {})
BY DEF Placed, JobPlaced, In

LEMMA InWorker ==
  ASSUME Placed, NEW w \in Workers, cur[w] \in Jobs
  PROVE  heap[cur[w]] = "live" /\ In(cur[w], FALSE, {w}, {}, {})
<1>1. w \in Running(cur[w])
  BY DEF Running
<1> QED BY <1>1 DEF Placed, JobPlaced, In

LEMMA InInsert ==
  ASSUME Placed, NEW t \in Threads, Ins(t) \in Jobs
  PROVE  heap[Ins(t)] = "live" /\ In(Ins(t), FALSE, {}, {t}, {})
<1>1. t \in Inserting(Ins(t))
  BY DEF Inserting
<1> QED BY <1>1 DEF Placed, JobPlaced, In

LEMMA InAwait ==
  ASSUME Placed, NEW c \in Jobs, Awaited(c), parent[c] \in Jobs
  PROVE  heap[parent[c]] = "live" /\ In(parent[c], FALSE, {}, {}, {c})
<1>1. c \in Awaiting(parent[c])
  BY DEF Awaiting
<1> QED BY <1>1 DEF Placed, JobPlaced, In

(* A step keeps every job in one place if it moves the jobs S to one place *)
(* each and leaves the other ones where they are.                          *)
SameAt(j) ==
  /\ heap'[j] = heap[j]
  /\ Queued(j)' <=> Queued(j)
  /\ Running(j)' = Running(j)
  /\ Inserting(j)' = Inserting(j)
  /\ Awaiting(j)' = Awaiting(j)

LEMMA Moved ==
  ASSUME Placed, QueueDistinct', ChildIsYounger', NEW S,
         \A j \in Jobs \ S : SameAt(j),
         \A j \in Jobs \cap S : JobPlaced(j)'
  PROVE  Placed'
<1>1. ASSUME NEW j \in Jobs \ S PROVE JobPlaced(j)'
  BY <1>1 DEF SameAt, Placed, JobPlaced, In
<1> QED BY <1>1 DEF Placed

(* Nothing moves. *)
LEMMA SamePlaces ==
  ASSUME Placed, UNCHANGED <<jobs, cur, heap, parent>>,
         \A t \in Threads : Ins(t)' = Ins(t),
         \A c \in Jobs : Awaited(c)' <=> Awaited(c)
  PROVE  Placed' /\ \A j \in Jobs : SameAt(j)
<1>1. ASSUME NEW j \in Jobs PROVE SameAt(j)
  <2>1. (Queued(j)' <=> Queued(j)) /\ Running(j)' = Running(j)
    BY DEF Queued, Running
  <2>2. Inserting(j)' = Inserting(j)
    BY DEF Inserting
  <2>3. Awaiting(j)' = Awaiting(j)
    BY DEF Awaiting
  <2> QED BY <2>1, <2>2, <2>3 DEF SameAt
<1>2. QueueDistinct' /\ ChildIsYounger'
  BY DEF Placed, QueueDistinct, ChildIsYounger
<1>3. (\A j \in Jobs \ {} : SameAt(j)) /\ \A j \in Jobs \cap {} : JobPlaced(j)'
  BY <1>1
<1> QED BY <1>1, <1>2, <1>3, Moved

(* An awaited job stays so unless its worker changes its mind about it. *)
LEMMA SameAwaited ==
  ASSUME UNCHANGED <<cur, heap, parent>>,
         \A w \in Workers : cur[w] # NoJob /\ parent[cur[w]] # NoJob =>
                              (Finishing(w)' <=> Finishing(w))
  PROVE  \A c \in Jobs : Awaited(c)' <=> Awaited(c)
BY DEF Awaited, Jobs, NoJob

(* A thread goes on without touching a job. *)
LEMMA GotoPlaces ==
  ASSUME TInv, Placed, NEW t \in Threads, NEW q, Goto(t, q),
         UNCHANGED <<threadVars, jobs, heap, parent>>,
         pc[t] \notin {"insert", "insertSignal", "jobDeinit"},
         q \notin {"insert", "insertSignal"},
         q = "jobDeinit" => parent[cur[t]] = NoJob
  PROVE  Placed' /\ \A j \in Jobs : SameAt(j)
<1>1. \A u \in Threads : pc'[u] = IF u = t THEN q ELSE pc[u]
  BY DEF TInv, Control, ThreadTypes, Goto
<1>2. \A u \in Threads : Ins(u)' = Ins(u)
  BY <1>1 DEF Ins, At, threadVars
<1>3. \A w \in Workers : cur[w] # NoJob /\ parent[cur[w]] # NoJob =>
                           (Finishing(w)' <=> Finishing(w))
  BY <1>1 DEF Finishing, At, threadVars, Threads
<1>4. \A c \in Jobs : Awaited(c)' <=> Awaited(c)
  BY <1>3, SameAwaited DEF threadVars
<1> QED BY <1>2, <1>4, SamePlaces DEF threadVars

(* A new job is blank and nobody's. *)
LEMMA Fresh ==
  ASSUME TInv, Placed, count < MaxJobs
  PROVE  /\ count + 1 \in Jobs
         /\ heap[count + 1] = "unused" /\ step[count + 1] = "run"
         /\ parent[count + 1] = NoJob
         /\ In(count + 1, FALSE, {}, {}, {})
         /\ \A j \in Jobs : heap[j] = "live" => j < count + 1
<1>1. count \in 0..MaxJobs
  BY DEF TInv, JobTypes
<1>2. count + 1 \in Jobs /\ count + 1 > count
  BY <1>1 DEF Jobs
<1>3. /\ heap[count + 1] = "unused" /\ step[count + 1] = "run"
      /\ parent[count + 1] = NoJob
  BY <1>2 DEF TInv, Allocated
<1>4. In(count + 1, FALSE, {}, {}, {})
  BY <1>2, <1>3 DEF Placed, JobPlaced
<1>5. \A j \in Jobs : heap[j] = "live" => j < count + 1
  BY <1>1 DEF TInv, Allocated, Jobs
<1> QED BY <1>2, <1>3, <1>4, <1>5

-----------------------------------------------------------------------------
(* Where the jobs move, one lemma for each kind of step: every job has one *)
(* place after it, and all but those it is about have the place they had.  *)

(* A new job goes to the thread that is about to queue it. *)
LEMMA AllocPlaces ==
  ASSUME TInv, Placed, NEW t \in Threads, NEW e, NEW r,
         Alloc(NoJob, e), Request(t, count + 1, r),
         pc[t] \notin {"insert", "insertSignal", "jobDeinit"}, r # "jobDeinit",
         UNCHANGED <<cur, jobs>>
  PROVE  Placed' /\ \A j \in Jobs \ {count + 1} : SameAt(j)
<1>0. PICK c \in Jobs : c = count + 1
  BY Fresh DEF Alloc
<1>1. /\ heap[c] = "unused" /\ parent[c] = NoJob
      /\ In(c, FALSE, {}, {}, {})
      /\ heap' = [heap EXCEPT ![c] = "live"]
      /\ parent' = [parent EXCEPT ![c] = NoJob]
      /\ pc' = [pc EXCEPT ![t] = "insert"]
      /\ tgt' = [tgt EXCEPT ![t] = c]
      /\ ret' = [ret EXCEPT ![t] = r]
  BY <1>0, Fresh DEF Alloc, Request, Goto
<1>2. parent' = parent
  BY <1>1 DEF TInv, JobTypes
<1>3. \A u \in Threads : Ins(u)' = IF u = t THEN c ELSE Ins(u)
  BY <1>1 DEF Ins, At, TInv, Control, ThreadTypes
<1>4. \A w \in Workers : Finishing(w)' <=> Finishing(w)
  BY <1>1 DEF Finishing, At, TInv, Control, ThreadTypes, Threads
<1>5. \A b \in Jobs : Awaited(b)' <=> Awaited(b)
  BY <1>1, <1>2, <1>4 DEF Awaited, TInv, JobTypes
<1>6. \A j \in Jobs : /\ Queued(j)' <=> Queued(j)
                      /\ Running(j)' = Running(j)
                      /\ Awaiting(j)' = Awaiting(j)
  BY <1>2, <1>5 DEF Queued, Running, Awaiting
<1>7. ASSUME NEW j \in Jobs \ {c} PROVE SameAt(j)
  <2>1. Inserting(j)' = Inserting(j)
    <3>1. Ins(t) # j
      BY PlaceTypes DEF Ins, At
    <3> QED BY <1>3, <3>1 DEF Inserting
  <2>2. heap'[j] = heap[j]
    BY <1>1 DEF TInv, JobTypes
  <2> QED BY <1>6, <2>1, <2>2 DEF SameAt
<1>8. JobPlaced(c)'
  <2>1. Inserting(c)' = {t}
    BY <1>1, <1>3 DEF In, Inserting
  <2>2. heap'[c] = "live"
    BY <1>1 DEF TInv, JobTypes
  <2> QED BY <1>1, <1>6, <2>1, <2>2 DEF JobPlaced, In
<1>9. QueueDistinct' /\ ChildIsYounger'
  BY <1>2 DEF Placed, QueueDistinct, ChildIsYounger
<1>10. (\A j \in Jobs \ {c} : SameAt(j)) /\ \A j \in Jobs \cap {c} : JobPlaced(j)'
  BY <1>7, <1>8
<1> QED BY <1>0, <1>9, <1>10, Moved

(* The caller of an awaited job leaves its worker for its new child. *)
LEMMA AwaitPlaces ==
  ASSUME TInv, Placed, NEW w \in Workers, Await(w)
  PROVE  Placed' /\ \A j \in Jobs \ {count + 1, cur[w]} : SameAt(j)
<1>0. PICK c, p \in Jobs : c = count + 1 /\ p = cur[w]
  BY Fresh, RunningHasJob DEF TInv, Await, Alloc, Runs, At, HasJob
<1>1. pc[w] = "run" /\ heap[p] = "live" /\ In(p, FALSE, {w}, {}, {})
  BY <1>0, InWorker DEF Await, Runs, At
<1>2. /\ heap[c] = "unused" /\ parent[c] = NoJob /\ p < c
      /\ In(c, FALSE, {}, {}, {})
      /\ heap' = [heap EXCEPT ![c] = "live"]
      /\ parent' = [parent EXCEPT ![c] = p]
      /\ cur' = [cur EXCEPT ![w] = NoJob]
      /\ pc' = [pc EXCEPT ![w] = "insert"]
      /\ tgt' = [tgt EXCEPT ![w] = c]
      /\ ret' = [ret EXCEPT ![w] = "idle"]
      /\ jobs' = jobs
  BY <1>0, <1>1, Fresh DEF Await, Alloc, Leave, Request, Goto
<1>3. p # c
  BY <1>1, <1>2
<1>4. \A u \in Threads : Ins(u)' = IF u = w THEN c ELSE Ins(u)
  BY <1>2 DEF Ins, At, TInv, Control, ThreadTypes, Threads
<1>5. Ins(w) = NoJob /\ ~ Finishing(w) /\ ~ Finishing(w)'
  BY <1>1, <1>2 DEF Ins, Finishing, At, TInv, Control, ThreadTypes, Threads
<1>6. \A v \in Workers : /\ cur'[v] = IF v = w THEN NoJob ELSE cur[v]
                         /\ v # w => (Finishing(v)' <=> Finishing(v))
  BY <1>2 DEF Finishing, At, TInv, Control, ThreadTypes, Threads
<1>7. \A v \in Workers : cur[v] # c /\ (cur[v] = p <=> v = w)
  BY <1>0, <1>1, <1>2 DEF In, Running
<1>8. \A b \in Jobs : /\ heap'[b] = IF b = c THEN "live" ELSE heap[b]
                      /\ parent'[b] = IF b = c THEN p ELSE parent[b]
  BY <1>2 DEF TInv, JobTypes
<1>9. NoJob \notin Jobs
  BY PlaceTypes
<1>10. \A b \in Jobs : Awaited(b)' <=> (Awaited(b) \/ b = c)
  BY <1>1, <1>5, <1>6, <1>7, <1>8, <1>9 DEF Awaited
<1>11. ~ Awaited(c) /\ \A b \in Jobs : Awaited(b) => parent[b] \notin {c, p}
  BY <1>1, <1>2 DEF Awaited, In, Awaiting
<1>12. \A j \in Jobs : /\ Queued(j)' <=> Queued(j)
                       /\ Running(j)' = Running(j) \ {w}
                       /\ Inserting(j)' = IF j = c THEN {w} ELSE Inserting(j)
                       /\ Awaiting(j)' = IF j = p THEN {c} ELSE Awaiting(j)
  <2>1. ASSUME NEW j \in Jobs PROVE Queued(j)' <=> Queued(j)
    BY <1>2 DEF Queued
  <2>2. ASSUME NEW j \in Jobs PROVE Running(j)' = Running(j) \ {w}
    BY <1>6, <1>9 DEF Running
  <2>3. ASSUME NEW j \in Jobs
        PROVE  Inserting(j)' = IF j = c THEN {w} ELSE Inserting(j)
    BY <1>2, <1>4, <1>5, <1>9 DEF Inserting, In, Threads
  <2>4. ASSUME NEW j \in Jobs
        PROVE  Awaiting(j)' = IF j = p THEN {c} ELSE Awaiting(j)
    BY <1>2, <1>8, <1>10, <1>11 DEF Awaiting
  <2> QED BY <2>1, <2>2, <2>3, <2>4
<1>13. ASSUME NEW j \in Jobs \ {c, p} PROVE SameAt(j)
  <2>1. w \notin Running(j)
    BY <1>0, <1>13 DEF Running
  <2> QED BY <1>8, <1>12, <2>1 DEF SameAt
<1>14. JobPlaced(c)' /\ JobPlaced(p)'
  BY <1>1, <1>2, <1>3, <1>8, <1>12 DEF JobPlaced, In, Threads
<1>15. QueueDistinct' /\ ChildIsYounger'
  BY <1>2, <1>8 DEF Placed, QueueDistinct, ChildIsYounger
<1>16. /\ \A j \in Jobs \ {c, p} : SameAt(j)
       /\ \A j \in Jobs \cap {c, p} : JobPlaced(j)'
  BY <1>13, <1>14
<1> QED BY <1>0, <1>15, <1>16, Moved

(* The queue as a set. *)
Elements(q) == {q[i] : i \in DOMAIN q}
Distinct(q) == \A i, k \in DOMAIN q : q[i] = q[k] => i = k

LEMMA AppendElements ==
  ASSUME NEW q \in Seq(Jobs), NEW j \in Jobs
  PROVE  /\ Elements(Append(q, j)) = Elements(q) \cup {j}
         /\ Distinct(q) /\ j \notin Elements(q) => Distinct(Append(q, j))
<1> DEFINE r == Append(q, j)
<1>1. /\ Len(q) \in Nat /\ DOMAIN q = 1..Len(q) /\ DOMAIN r = 1..(Len(q) + 1)
      /\ r[Len(q) + 1] = j /\ \A i \in 1..Len(q) : r[i] = q[i]
  OBVIOUS
<1> HIDE DEF r
<1>2. Elements(r) = Elements(q) \cup {j}
  <2>1. Elements(r) \subseteq Elements(q) \cup {j}
    BY <1>1 DEF Elements
  <2>2. Elements(q) \subseteq Elements(r) /\ j \in Elements(r)
    BY <1>1 DEF Elements
  <2> QED BY <2>1, <2>2
<1>3. Distinct(q) /\ j \notin Elements(q) => Distinct(r)
  BY <1>1 DEF Elements, Distinct
<1> QED BY <1>2, <1>3 DEF r

LEMMA TailElements ==
  ASSUME NEW q \in Seq(Jobs), q # <<>>, Distinct(q)
  PROVE  /\ Head(q) \in Jobs /\ Head(q) \in Elements(q)
         /\ Elements(Tail(q)) = Elements(q) \ {Head(q)}
         /\ Distinct(Tail(q))
<1> DEFINE r == Tail(q)
           h == Head(q)
<1>1. /\ Len(q) \in Nat /\ Len(q) > 0
      /\ DOMAIN q = 1..Len(q) /\ DOMAIN r = 1..(Len(q) - 1)
      /\ h = q[1] /\ \A i \in 1..(Len(q) - 1) : r[i] = q[i + 1]
  OBVIOUS
<1>2. h \in Jobs
  BY <1>1
<1> HIDE DEF r, h
<1>3. h \in Elements(q)
  BY <1>1 DEF Elements
<1>4. Elements(r) = Elements(q) \ {h}
  <2>1. Elements(r) \subseteq Elements(q)
    BY <1>1 DEF Elements
  <2>2. h \notin Elements(r)
    <3>1. ASSUME NEW i \in DOMAIN r, r[i] = h PROVE FALSE
      <4>1. i + 1 \in DOMAIN q /\ 1 \in DOMAIN q /\ q[i + 1] = q[1]
        BY <1>1, <3>1
      <4> QED BY <1>1, <4>1 DEF Distinct
    <3> QED BY <3>1 DEF Elements
  <2>3. ASSUME NEW i \in DOMAIN q, q[i] # h PROVE q[i] \in Elements(r)
    <3>1. i - 1 \in DOMAIN r /\ r[i - 1] = q[i]
      BY <1>1, <2>3
    <3> QED BY <3>1 DEF Elements
  <2> QED BY <2>1, <2>2, <2>3 DEF Elements
<1>5. Distinct(r)
  <2>1. ASSUME NEW i \in DOMAIN r, NEW k \in DOMAIN r, r[i] = r[k] PROVE i = k
    <3>1. i + 1 \in DOMAIN q /\ k + 1 \in DOMAIN q /\ q[i + 1] = q[k + 1]
      BY <1>1, <2>1
    <3> QED BY <1>1, <3>1 DEF Distinct
  <2> QED BY <2>1 DEF Distinct
<1> QED BY <1>2, <1>3, <1>4, <1>5 DEF r, h

LEMMA QueuedElements ==
  /\ \A j \in Jobs : Queued(j) <=> j \in Elements(jobs)
  /\ QueueDistinct <=> Distinct(jobs)
BY DEF Queued, Elements, QueueDistinct, Distinct

(* The job of a thread enters the queue. *)
LEMMA InsertPlaces ==
  ASSUME TInv, Placed, NEW t \in Threads, Insert(t)
  PROVE  Placed' /\ \A j \in Jobs \ {tgt[t]} : SameAt(j)
<1>1. PICK j \in Jobs : j = tgt[t] /\ j = Ins(t)
  BY DEF Insert, Ins, At, TInv, Control, WorkerControl, MainControl, Threads
<1>2. heap[j] = "live" /\ In(j, FALSE, {}, {t}, {})
  BY <1>1, InInsert
<1>3. /\ jobs' = Append(jobs, j) /\ pc[t] = "insert"
      /\ pc' = [pc EXCEPT ![t] = "insertSignal"]
      /\ UNCHANGED <<cur, tgt, ret, heap, parent>>
  BY <1>1 DEF Insert, Enqueue, At, Goto, threadVars, jobVars
<1>4. \A u \in Threads : Ins(u)' = IF u = t THEN NoJob ELSE Ins(u)
  BY <1>3 DEF Ins, At, TInv, Control, ThreadTypes
<1>5. \A w \in Workers : Finishing(w)' <=> Finishing(w)
  BY <1>3 DEF Finishing, At, TInv, Control, ThreadTypes, Threads
<1>6. \A b \in Jobs : Awaited(b)' <=> Awaited(b)
  BY <1>3, <1>5, SameAwaited
<1>7. jobs \in Seq(Jobs)
  BY DEF TInv, JobTypes
<1>8. /\ Elements(jobs') = Elements(jobs) \cup {j}
      /\ Distinct(jobs')
  BY <1>2, <1>3, <1>7, AppendElements, QueuedElements DEF Placed, In
<1>9. QueueDistinct' /\ \A b \in Jobs : Queued(b)' <=> (Queued(b) \/ b = j)
  <2>1. /\ \A b \in Jobs : Queued(b)' <=> b \in Elements(jobs')
        /\ QueueDistinct' <=> Distinct(jobs')
    BY DEF Queued, Elements, QueueDistinct, Distinct
  <2> QED BY <1>8, <2>1, QueuedElements
<1>10. \A b \in Jobs : /\ Running(b)' = Running(b)
                       /\ Inserting(b)' = IF b = j THEN {} ELSE Inserting(b)
                       /\ Awaiting(b)' = Awaiting(b)
  <2>1. ASSUME NEW b \in Jobs PROVE Running(b)' = Running(b)
    BY <1>3 DEF Running
  <2>2. ASSUME NEW b \in Jobs
        PROVE  Inserting(b)' = IF b = j THEN {} ELSE Inserting(b)
    BY <1>1, <1>2, <1>4, PlaceTypes DEF Inserting, In
  <2>3. ASSUME NEW b \in Jobs PROVE Awaiting(b)' = Awaiting(b)
    BY <1>3, <1>6 DEF Awaiting
  <2> QED BY <2>1, <2>2, <2>3
<1>11. \A b \in Jobs \ {j} : SameAt(b)
  BY <1>3, <1>9, <1>10 DEF SameAt
<1>12. \A b \in Jobs \cap {j} : JobPlaced(b)'
  BY <1>2, <1>3, <1>9, <1>10 DEF JobPlaced, In
<1>13. ChildIsYounger'
  BY <1>3 DEF Placed, ChildIsYounger
<1> QED BY <1>1, <1>9, <1>11, <1>12, <1>13, Moved

(* A worker takes the first job of the queue. *)
LEMMA GetPlaces ==
  ASSUME TInv, Placed, NEW w \in Workers, Get(w), jobs # <<>>
  PROVE  Placed' /\ \A j \in Jobs \ {Head(jobs)} : SameAt(j)
<1>1. jobs \in Seq(Jobs) /\ Distinct(jobs)
  BY QueuedElements DEF TInv, JobTypes, Placed
<1>2. PICK j \in Jobs : j = Head(jobs) /\ Queued(j)
  BY <1>1, TailElements, QueuedElements
<1>3. heap[j] = "live" /\ In(j, TRUE, {}, {}, {})
  BY <1>2, InQueue
<1>4. /\ jobs' = Tail(jobs) /\ pc[w] = "get"
      /\ cur' = [cur EXCEPT ![w] = j]
      /\ \E q \in {"run", "getSignal"} : pc' = [pc EXCEPT ![w] = q]
      /\ UNCHANGED <<tgt, ret, heap, parent>>
  BY <1>2 DEF Get, At, Goto, jobVars
<1>5. cur[w] = NoJob
  BY <1>4 DEF TInv, Control, WorkerControl, HasJob, Returning
<1>6. \A u \in Threads : Ins(u)' = Ins(u)
  BY <1>4 DEF Ins, At, TInv, Control, ThreadTypes
<1>7. ~ Finishing(w)' /\ \A v \in Workers : v # w => (Finishing(v)' <=> Finishing(v))
  BY <1>4 DEF Finishing, At, TInv, Control, ThreadTypes, Threads
<1>8. \A v \in Workers : cur'[v] = IF v = w THEN j ELSE cur[v]
  BY <1>4 DEF TInv, Control, ThreadTypes, Threads
<1>9. \A b \in Jobs : Awaited(b)' <=> Awaited(b)
  <2>1. \A v \in Workers : cur[v] # j
    BY <1>3 DEF In, Running
  <2> QED BY <1>4, <1>5, <1>7, <1>8, <2>1, PlaceTypes DEF Awaited
<1>10. QueueDistinct' /\ \A b \in Jobs : Queued(b)' <=> (Queued(b) /\ b # j)
  <2>1. /\ \A b \in Jobs : Queued(b)' <=> b \in Elements(jobs')
        /\ QueueDistinct' <=> Distinct(jobs')
    BY DEF Queued, Elements, QueueDistinct, Distinct
  <2>2. Elements(jobs') = Elements(jobs) \ {j} /\ Distinct(jobs')
    BY <1>1, <1>2, <1>4, TailElements
  <2> QED BY <2>1, <2>2, QueuedElements
<1>11. \A b \in Jobs : /\ Running(b)' = IF b = j THEN {w} ELSE Running(b)
                       /\ Inserting(b)' = Inserting(b)
                       /\ Awaiting(b)' = Awaiting(b)
  <2>1. ASSUME NEW b \in Jobs PROVE Running(b)' = IF b = j THEN {w} ELSE Running(b)
    BY <1>3, <1>5, <1>8, PlaceTypes DEF Running, In
  <2>2. ASSUME NEW b \in Jobs PROVE Inserting(b)' = Inserting(b)
    BY <1>6 DEF Inserting
  <2>3. ASSUME NEW b \in Jobs PROVE Awaiting(b)' = Awaiting(b)
    BY <1>4, <1>9 DEF Awaiting
  <2> QED BY <2>1, <2>2, <2>3
<1>12. \A b \in Jobs \ {j} : SameAt(b)
  BY <1>4, <1>10, <1>11 DEF SameAt
<1>13. \A b \in Jobs \cap {j} : JobPlaced(b)'
  BY <1>3, <1>4, <1>10, <1>11 DEF JobPlaced, In
<1>14. ChildIsYounger'
  BY <1>4 DEF Placed, ChildIsYounger
<1> QED BY <1>2, <1>10, <1>12, <1>13, <1>14, Moved

(* A job requeues itself: it leaves its worker for the call of insert. *)
LEMMA RequeuePlaces ==
  ASSUME TInv, Placed, NEW w \in Workers, NEW r, At(w, "run"), Requeue(w, r),
         UNCHANGED <<jobs, heap, parent>>
  PROVE  Placed' /\ \A j \in Jobs \ {cur[w]} : SameAt(j)
<1>1. PICK j \in Jobs : j = cur[w]
  BY RunningHasJob DEF TInv, At, HasJob
<1>2. heap[j] = "live" /\ In(j, FALSE, {w}, {}, {})
  BY <1>1, InWorker
<1>3. /\ pc[w] = "run"
      /\ cur' = [cur EXCEPT ![w] = NoJob]
      /\ pc' = [pc EXCEPT ![w] = "insert"]
      /\ tgt' = [tgt EXCEPT ![w] = j]
      /\ ret' = [ret EXCEPT ![w] = "idle"]
  BY <1>1 DEF At, Requeue, Leave, Request, Goto
<1>4. /\ \A u \in Threads : Ins(u)' = IF u = w THEN j ELSE Ins(u)
      /\ Ins(w) = NoJob
  BY <1>3 DEF Ins, At, TInv, Control, ThreadTypes, Threads
<1>5. /\ ~ Finishing(w) /\ ~ Finishing(w)'
      /\ \A v \in Workers : v # w => (Finishing(v)' <=> Finishing(v))
  BY <1>3 DEF Finishing, At, TInv, Control, ThreadTypes, Threads
<1>6. \A v \in Workers : cur'[v] = IF v = w THEN NoJob ELSE cur[v]
  BY <1>3 DEF TInv, Control, ThreadTypes, Threads
<1>7. \A b \in Jobs : Awaited(b)' <=> Awaited(b)
  BY <1>5, <1>6, PlaceTypes DEF Awaited
<1>8. \A b \in Jobs : /\ Queued(b)' <=> Queued(b)
                      /\ Running(b)' = IF b = j THEN {} ELSE Running(b)
                      /\ Inserting(b)' = IF b = j THEN {w} ELSE Inserting(b)
                      /\ Awaiting(b)' = Awaiting(b)
  <2>1. ASSUME NEW b \in Jobs PROVE Queued(b)' <=> Queued(b)
    BY DEF Queued
  <2>2. ASSUME NEW b \in Jobs PROVE Running(b)' = IF b = j THEN {} ELSE Running(b)
    BY <1>1, <1>2, <1>6, PlaceTypes DEF Running, In
  <2>3. ASSUME NEW b \in Jobs
        PROVE  Inserting(b)' = IF b = j THEN {w} ELSE Inserting(b)
    BY <1>2, <1>4, PlaceTypes DEF Inserting, In, Threads
  <2>4. ASSUME NEW b \in Jobs PROVE Awaiting(b)' = Awaiting(b)
    BY <1>7 DEF Awaiting
  <2> QED BY <2>1, <2>2, <2>3, <2>4
<1>9. \A b \in Jobs \ {j} : SameAt(b)
  BY <1>8 DEF SameAt
<1>10. \A b \in Jobs \cap {j} : JobPlaced(b)'
  BY <1>2, <1>8 DEF JobPlaced, In, Threads
<1>11. QueueDistinct' /\ ChildIsYounger'
  BY DEF Placed, QueueDistinct, ChildIsYounger
<1> QED BY <1>1, <1>9, <1>10, <1>11, Moved

(* A job that ends hands its parent over to the call of insert. *)
LEMMA FinishPlaces ==
  ASSUME TInv, Placed, NEW w \in Workers, Finish(w), parent[cur[w]] # NoJob
  PROVE  Placed' /\ \A j \in Jobs \ {parent[cur[w]]} : SameAt(j)
<1>1. PICK j \in Jobs : j = cur[w] /\ pc[w] = "run"
  BY RunningHasJob DEF TInv, Finish, Runs, At, HasJob
<1>2. heap[j] = "live" /\ In(j, FALSE, {w}, {}, {})
  BY <1>1, InWorker
<1>3. ~ Finishing(w)
  BY <1>1 DEF Finishing, At
<1>4. Awaited(j)
  BY <1>1, <1>2, <1>3 DEF Awaited, In, Running
<1>5. PICK p \in Jobs : p = parent[j]
  BY <1>4, PlaceTypes
<1>6. heap[p] = "live" /\ In(p, FALSE, {}, {}, {j})
  BY <1>4, <1>5, InAwait
<1>7. /\ pc' = [pc EXCEPT ![w] = "insert"]
      /\ tgt' = [tgt EXCEPT ![w] = p]
      /\ ret' = [ret EXCEPT ![w] = "jobDeinit"]
      /\ UNCHANGED <<cur, jobs, heap, parent>>
  BY <1>1, <1>5 DEF Finish, Caller, Request, Goto
<1>8. /\ \A u \in Threads : Ins(u)' = IF u = w THEN p ELSE Ins(u)
      /\ Ins(w) = NoJob
  BY <1>1, <1>7 DEF Ins, At, TInv, Control, ThreadTypes, Threads
<1>9. Finishing(w)' /\ \A v \in Workers : v # w => (Finishing(v)' <=> Finishing(v))
  BY <1>1, <1>7 DEF Finishing, At, TInv, Control, ThreadTypes, Threads
<1>10. \A b \in Jobs : Awaited(b)' <=> (Awaited(b) /\ b # j)
  <2>1. \A v \in Workers : cur[v] = j <=> v = w
    BY <1>2 DEF In, Running
  <2> QED BY <1>7, <1>9, <2>1 DEF Awaited
<1>11. \A b \in Jobs : /\ Queued(b)' <=> Queued(b)
                       /\ Running(b)' = Running(b)
                       /\ Inserting(b)' = IF b = p THEN {w} ELSE Inserting(b)
                       /\ Awaiting(b)' = IF b = p THEN {} ELSE Awaiting(b)
  <2>1. ASSUME NEW b \in Jobs
        PROVE  (Queued(b)' <=> Queued(b)) /\ Running(b)' = Running(b)
    BY <1>7 DEF Queued, Running
  <2>2. ASSUME NEW b \in Jobs
        PROVE  Inserting(b)' = IF b = p THEN {w} ELSE Inserting(b)
    BY <1>6, <1>8, PlaceTypes DEF Inserting, In, Threads
  <2>3. ASSUME NEW b \in Jobs
        PROVE  Awaiting(b)' = IF b = p THEN {} ELSE Awaiting(b)
    BY <1>5, <1>6, <1>7, <1>10 DEF Awaiting, In
  <2> QED BY <2>1, <2>2, <2>3
<1>12. \A b \in Jobs \ {p} : SameAt(b)
  BY <1>7, <1>11 DEF SameAt
<1>13. \A b \in Jobs \cap {p} : JobPlaced(b)'
  BY <1>6, <1>7, <1>11 DEF JobPlaced, In, Threads
<1>14. QueueDistinct' /\ ChildIsYounger'
  BY <1>7 DEF Placed, QueueDistinct, ChildIsYounger
<1> QED BY <1>1, <1>5, <1>12, <1>13, <1>14, Moved

(* A job that is free'd is nowhere. *)
LEMMA JobDeinitPlaces ==
  ASSUME TInv, Placed, NEW w \in Workers, JobDeinit(w)
  PROVE  Placed' /\ \A j \in Jobs \ {cur[w]} : SameAt(j)
<1>1. PICK j \in Jobs : j = cur[w]
  BY RunningHasJob DEF TInv, JobDeinit, At, HasJob
<1>2. heap[j] = "live" /\ In(j, FALSE, {w}, {}, {})
  BY <1>1, InWorker
<1>3. /\ pc[w] = "jobDeinit"
      /\ cur' = [cur EXCEPT ![w] = NoJob]
      /\ pc' = [pc EXCEPT ![w] = "idle"]
      /\ \A b \in Jobs : heap'[b] = IF b = j THEN "freed" ELSE heap[b]
      /\ \A b \in Jobs : parent'[b] = IF b = j THEN NoJob ELSE parent[b]
      /\ UNCHANGED <<tgt, ret, jobs>>
  BY <1>1 DEF At, JobDeinit, Goto, TInv, JobTypes
<1>4. \A u \in Threads : Ins(u)' = Ins(u)
  BY <1>3 DEF Ins, At, TInv, Control, ThreadTypes
<1>5. Finishing(w) /\ \A v \in Workers : v # w => (Finishing(v)' <=> Finishing(v))
  BY <1>3 DEF Finishing, At, TInv, Control, ThreadTypes, Threads
<1>6. \A v \in Workers : cur'[v] = IF v = w THEN NoJob ELSE cur[v]
  BY <1>3 DEF TInv, Control, ThreadTypes, Threads
<1>7. \A b \in Jobs : Awaited(b)' <=> Awaited(b)
  <2>1. ~ Awaited(j)
    BY <1>1, <1>5 DEF Awaited
  <2>2. ~ Awaited(j)'
    BY <1>3 DEF Awaited
  <2>3. ASSUME NEW b \in Jobs, b # j PROVE Awaited(b)' <=> Awaited(b)
    BY <1>1, <1>3, <1>5, <1>6, <2>3, PlaceTypes DEF Awaited
  <2> QED BY <2>1, <2>2, <2>3
<1>8. \A b \in Jobs : /\ Queued(b)' <=> Queued(b)
                      /\ Running(b)' = IF b = j THEN {} ELSE Running(b)
                      /\ Inserting(b)' = Inserting(b)
                      /\ Awaiting(b)' = Awaiting(b)
  <2>1. ASSUME NEW b \in Jobs PROVE Queued(b)' <=> Queued(b)
    BY <1>3 DEF Queued
  <2>2. ASSUME NEW b \in Jobs PROVE Running(b)' = IF b = j THEN {} ELSE Running(b)
    BY <1>1, <1>2, <1>6, PlaceTypes DEF Running, In
  <2>3. ASSUME NEW b \in Jobs PROVE Inserting(b)' = Inserting(b)
    BY <1>4 DEF Inserting
  <2>4. ASSUME NEW b \in Jobs PROVE Awaiting(b)' = Awaiting(b)
    <3>1. ~ Awaited(j)
      BY <1>1, <1>5 DEF Awaited
    <3> QED BY <1>3, <1>7, <3>1 DEF Awaiting
  <2> QED BY <2>1, <2>2, <2>3, <2>4
<1>9. \A b \in Jobs \ {j} : SameAt(b)
  BY <1>3, <1>8 DEF SameAt
<1>10. \A b \in Jobs \cap {j} : JobPlaced(b)'
  BY <1>2, <1>3, <1>8 DEF JobPlaced, In
<1>11. QueueDistinct' /\ ChildIsYounger'
  BY <1>3 DEF Placed, QueueDistinct, ChildIsYounger
<1> QED BY <1>1, <1>9, <1>10, <1>11, Moved

(* A thread returns from its call of insert. *)
LEMMA InsertSignalPlaces ==
  ASSUME TInv, Placed, NEW t \in Threads, InsertSignal(t)
  PROVE  Placed' /\ \A j \in Jobs : SameAt(j)
<1>1. /\ pc[t] = "insertSignal" /\ ret[t] \in {"add", "run", "idle", "jobDeinit"}
      /\ pc' = [pc EXCEPT ![t] = ret[t]]
      /\ ret' = [ret EXCEPT ![t] = "none"]
      /\ tgt' = [tgt EXCEPT ![t] = NoJob]
      /\ UNCHANGED <<cur, jobs, heap, parent>>
  BY DEF InsertSignal, At, Goto, jobVars, TInv, Control, WorkerControl, MainControl,
     Returning, Threads
<1>2. \A u \in Threads : Ins(u)' = Ins(u)
  BY <1>1 DEF Ins, At, TInv, Control, ThreadTypes
<1>3. \A w \in Workers : Finishing(w)' <=> Finishing(w)
  BY <1>1 DEF Finishing, At, TInv, Control, ThreadTypes, Threads
<1> QED BY <1>1, <1>2, <1>3, SameAwaited, SamePlaces

(* Jobs are not placed once threadpool_deinit has dropped the queue.       *)
LEMMA ClosedStays ==
  ASSUME TInv, [Next]_vars, Closed
  PROVE  Closed'
<1>1. CASE UNCHANGED pc
  BY <1>1 DEF Closed
<1>2. CASE MainStep
  BY <1>2, WorkerLeavesMain DEF MainStep, CreateThread, InitWait, MainAdd,
     MainFails, MainThrow, MainNotice, MainCatch, MainUncaught, MainEnd, Insert,
     InsertSignal, Wait, Deinit, DeinitCheck, DeinitSignal, Drain, Join, At, Goto,
     Closed, TInv, Control, ThreadTypes, Threads
<1>3. CASE \E w \in Workers : WorkerStep(w)
  BY <1>3, WorkerLeavesMain DEF Closed
<1> QED BY <1>1, <1>2, <1>3 DEF Next, SpuriousWakeup, Terminated, vars

(* A thread that has left threadpool_worker takes no step. *)
LEMMA DeadIsDone ==
  ASSUME NEW w \in Workers, pc[w] = "dead"
  PROVE  ~ WorkerStep(w)
BY DEF WorkerStep, Start, Loop, CheckActive, CheckJobs, Recheck, Busy, Get,
   GetSignal, Idle, Exit, Insert, InsertSignal, Spawn, Await, Resume, Yield,
   Throw, Catch, Unwind, Handle, Finish, ErrorAssign, JobDeinit, Runs, At

LEMMA DrainedStep ==
  ASSUME Core, [Next]_vars
  PROVE  Drained'
<1> USE DEF Core
<1> SUFFICES ASSUME Closed' PROVE jobs' = <<>>
  BY DEF Drained
<1>1. CASE Drain
  BY <1>1 DEF Drain
<1>2. CASE Join
  BY <1>2 DEF Join, At, Closed, Drained
<1>3. CASE MainStep /\ ~ Drain /\ ~ Join
  <2>1. ~ Closed
    BY <1>3 DEF MainStep, CreateThread, InitWait, MainAdd, MainFails, MainThrow,
       MainNotice, MainCatch, MainUncaught, MainEnd, Insert, InsertSignal, Wait,
       Deinit, DeinitCheck, DeinitSignal, At, Closed
  <2>2. \/ UNCHANGED pc \/ \E w \in Workers : CreateThread(w)
        \/ \E q : q \notin {"join", "done"} /\ Goto(Main, q)
    <3>1. InsertSignal(Main) => ret[Main] = "add"
      BY DEF InsertSignal, At, TInv, Control, MainControl, Returning
    <3> QED BY <1>3, <3>1 DEF MainStep, InitWait, MainAdd, Request, MainFails,
               MainThrow, MainNotice, MainCatch, MainUncaught, MainEnd, Insert,
               InsertSignal, Wait, Deinit, DeinitCheck, DeinitSignal
  <2> QED BY <2>1, <2>2, WorkerLeavesMain DEF Closed, Goto, TInv, Control, ThreadTypes,
             Threads
<1>4. ASSUME NEW w \in Workers, WorkerStep(w) PROVE FALSE
  BY <1>4, WorkerLeavesMain, DeadIsDone DEF Closed, TInv, AllDead
<1>5. CASE UNCHANGED <<pc, jobs>>
  BY <1>5 DEF Closed, Drained
<1> QED BY <1>1, <1>2, <1>3, <1>4, <1>5
        DEF Next, SpuriousWakeup, Terminated, vars

LEMMA PlacedStep ==
  ASSUME Core, [Next]_vars
  PROVE  (Closed \/ Placed)'
<1> USE DEF Core
<1>1. CASE Closed
  BY <1>1, ClosedStays
<1>2. CASE Placed
  <2>1. ASSUME UNCHANGED <<pc, threadVars, jobs, heap, parent>> PROVE Placed'
    BY <1>2, <2>1, SamePlaces, SameAwaited DEF Ins, At, Finishing, threadVars
  <2>2. ASSUME NEW w \in Workers, CreateThread(w) PROVE Placed'
    <3>1. \A t \in Threads : /\ pc'[t] # pc[t] => pc[t] \in {"create", "unborn"}
                             /\ pc'[t] # pc[t] => pc'[t] \in {"start", "initWait"}
      BY <2>2 DEF CreateThread, At, TInv, Control, ThreadTypes
    <3>2. UNCHANGED <<threadVars, jobs, heap, parent>>
      BY <2>2 DEF CreateThread, jobVars
    <3>3. \A t \in Threads : Ins(t)' = Ins(t)
      BY <3>1, <3>2 DEF Ins, At, threadVars
    <3>4. \A v \in Workers : Finishing(v)' <=> Finishing(v)
      BY <3>1, <3>2 DEF Finishing, At, threadVars, Threads
    <3> QED BY <1>2, <3>2, <3>3, <3>4, SamePlaces, SameAwaited DEF threadVars
  <2>3. CASE MainFails \/ MainEnd \/ Deinit \/ DeinitSignal
    BY <1>2, <2>3, GotoPlaces DEF MainFails, MainThrow, MainNotice, MainCatch,
       MainUncaught, MainEnd, Deinit, DeinitSignal, At, jobVars, Threads
  <2>4. CASE InitWait \/ Wait \/ DeinitCheck
    <3>1. UNCHANGED pc \/ \E q \in {"add", "deinit", "deinitSignal", "drain"} :
                            Goto(Main, q)
      BY <2>4 DEF InitWait, Wait, DeinitCheck
    <3>2. /\ UNCHANGED <<threadVars, jobs, heap, parent>>
          /\ pc[Main] \in {"initWait", "wait", "deinitCheck"}
      BY <2>4 DEF InitWait, Wait, DeinitCheck, At, jobVars
    <3> QED BY <1>2, <2>1, <3>1, <3>2, GotoPlaces DEF Threads
  <2>5. CASE MainAdd
    BY <1>2, <2>5, AllocPlaces DEF MainAdd, At, Threads
  <2>6. CASE Drain \/ Join
    BY <2>6 DEF Drain, Join, Goto, Closed, TInv, Control, ThreadTypes, Threads
  <2>7. ASSUME NEW t \in Threads, Insert(t) \/ InsertSignal(t) PROVE Placed'
    BY <1>2, <2>7, InsertPlaces, InsertSignalPlaces
  <2>8. ASSUME NEW w \in Workers,
               \/ Start(w) \/ Loop(w) \/ CheckActive(w) \/ CheckJobs(w)
               \/ Recheck(w) \/ Busy(w) \/ GetSignal(w) \/ Idle(w) \/ Exit(w)
        PROVE  Placed'
    <3>1. \E q \in {"loop", "lock3", "exit", "checkJobs", "recheck", "busy", "get",
                    "run", "dead"} : Goto(w, q)
      BY <2>8 DEF Start, Loop, CheckActive, CheckJobs, Recheck, Busy, GetSignal,
         Idle, Exit
    <3>2. UNCHANGED <<threadVars, jobs, heap, parent>>
      BY <2>8 DEF Start, Loop, CheckActive, CheckJobs, Recheck, Busy, GetSignal,
         Idle, Exit, jobVars
    <3>3. pc[w] \notin {"insert", "insertSignal", "jobDeinit"}
      BY <2>8 DEF Start, Loop, CheckActive, CheckJobs, Recheck, Busy, GetSignal,
         Idle, Exit, At
    <3> QED BY <1>2, <3>1, <3>2, <3>3, GotoPlaces DEF Threads
  <2>9. ASSUME NEW w \in Workers, Get(w) PROVE Placed'
    <3>1. CASE jobs = <<>>
      BY <1>2, <2>9, <3>1, GotoPlaces DEF Get, At, jobVars, threadVars, Threads
    <3>2. CASE jobs # <<>>
      BY <1>2, <2>9, <3>2, GetPlaces
    <3> QED BY <3>1, <3>2
  <2>10. ASSUME NEW w \in Workers, Spawn(w) PROVE Placed'
    BY <1>2, <2>10, AllocPlaces DEF Spawn, SpawnParent, Runs, At, Threads
  <2>11. ASSUME NEW w \in Workers, Await(w) PROVE Placed'
    BY <1>2, <2>11, AwaitPlaces
  <2>12. ASSUME NEW w \in Workers, Yield(w) \/ Throw(w) \/ Catch(w) \/ Unwind(w)
         PROVE  Placed'
    BY <1>2, <2>12, RequeuePlaces DEF Yield, Throw, Catch, Unwind, Runs
  <2>13. ASSUME NEW w \in Workers, Resume(w) PROVE Placed'
    <3>1. CASE errState[cur[w]] # NoError
      BY <1>2, <2>13, <3>1, RequeuePlaces DEF Resume, Runs
    <3>2. CASE errState[cur[w]] = NoError
      BY <2>1, <2>13, <3>2 DEF Resume
    <3> QED BY <3>1, <3>2
  <2>14. ASSUME NEW w \in Workers, Handle(w) PROVE Placed'
    BY <2>1, <2>14 DEF Handle
  <2>15. ASSUME NEW w \in Workers, Finish(w) PROVE Placed'
    <3>1. CASE parent[cur[w]] # NoJob
      BY <1>2, <2>15, <3>1, FinishPlaces
    <3>2. CASE parent[cur[w]] = NoJob
      <4>1. PICK q \in {"errorAssign", "jobDeinit"} : Goto(w, q)
        BY <2>15, <3>2 DEF Finish, Caller
      <4>2. UNCHANGED <<threadVars, jobs, heap, parent>> /\ pc[w] = "run"
        BY <2>15, <3>2 DEF Finish, Caller, Runs, At, threadVars
      <4> QED BY <1>2, <3>2, <4>1, <4>2, GotoPlaces DEF Threads
    <3> QED BY <3>1, <3>2
  <2>16. ASSUME NEW w \in Workers, ErrorAssign(w) PROVE Placed'
    <3>1. parent[cur[w]] = NoJob
      BY <2>16 DEF ErrorAssign, At, AssignsError
    <3> QED BY <1>2, <2>16, <3>1, GotoPlaces DEF ErrorAssign, At, jobVars, Threads
  <2>17. ASSUME NEW w \in Workers, JobDeinit(w) PROVE Placed'
    BY <1>2, <2>17, JobDeinitPlaces
  <2>18. ASSUME NEW t \in Threads, SpuriousWakeup(t) PROVE Placed'
    BY <2>1, <2>18 DEF SpuriousWakeup, jobVars
  <2>19. CASE UNCHANGED vars
    BY <2>1, <2>19 DEF vars, jobVars
  <2> QED
    BY <2>2, <2>3, <2>4, <2>5, <2>6, <2>7, <2>8, <2>9, <2>10, <2>11, <2>12, <2>13,
       <2>14, <2>15, <2>16, <2>17, <2>18, <2>19
       DEF Next, MainStep, WorkerStep, Terminated, Threads
<1> QED BY <1>1, <1>2

-----------------------------------------------------------------------------
(* A worker with a job has a live one. *)
LEMMA HeldIsLive ==
  ASSUME Core, NEW w \in Workers, HasJob(w)
  PROVE  /\ cur[w] \in Jobs /\ heap[cur[w]] = "live" /\ cur[w] <= count
         /\ \A v \in Workers : cur[v] = cur[w] => v = w
<1>1. cur[w] \in Jobs
  BY RunningHasJob DEF Core, TInv
<1>2. pc[w] # "dead"
  BY DEF HasJob, Returning
<1>3. Placed
  BY <1>2 DEF Core, TInv, Closed, AllDead
<1>4. heap[cur[w]] = "live" /\ In(cur[w], FALSE, {w}, {}, {})
  BY <1>1, <1>3, InWorker
<1>5. cur[w] <= count
  BY <1>1, <1>4 DEF Core, TInv, Allocated, JobTypes, Jobs
<1> QED BY <1>1, <1>4, <1>5 DEF In, Running

(* What a job carries when it unwinds, and what an unused job looks like. *)
LEMMA FieldsStep ==
  ASSUME Core, [Next]_vars
  PROVE  UnwindsWithError' /\ Allocated'
<1> USE DEF Core
<1>1. /\ count \in 0..MaxJobs
      /\ heap \in [Jobs -> {"unused", "live", "freed"}]
      /\ parent \in [Jobs -> Jobs \cup {NoJob}]
      /\ step \in [Jobs -> Steps]
      /\ errState \in [Jobs -> Errors \cup {NoError}]
  BY DEF TInv, JobTypes
<1>2. /\ \A j \in Jobs : step[j] \in {"unwind", "handler"} => errState[j] # NoError
      /\ \A j \in Jobs : /\ heap[j] = "unused" <=> j > count
                         /\ j > count => step[j] = "run" /\ parent[j] = NoJob
  BY DEF TInv, UnwindsWithError, Allocated
<1>3. ASSUME UNCHANGED <<count, heap, parent, step, errState>>
      PROVE  UnwindsWithError' /\ Allocated'
  BY <1>2, <1>3 DEF UnwindsWithError, Allocated
<1>4. CASE MainAdd \/ \E w \in Workers : Spawn(w)
  <2>1. PICK e : Alloc(NoJob, e) /\ step' = step
    BY <1>4 DEF MainAdd, Spawn, SpawnParent
  <2>2. count < MaxJobs /\ count + 1 \in Jobs
    BY <1>1, <2>1 DEF Alloc, Jobs
  <2>3. UnwindsWithError'
    BY <1>1, <1>2, <2>1, <2>2 DEF Alloc, UnwindsWithError, Jobs
  <2>4. Allocated'
    BY <1>1, <1>2, <2>1, <2>2 DEF Alloc, Allocated, Jobs
  <2> QED BY <2>3, <2>4
<1>5. ASSUME NEW w \in Workers, Await(w) PROVE UnwindsWithError' /\ Allocated'
  <2>1. cur[w] \in Jobs /\ cur[w] <= count
    BY <1>5, HeldIsLive DEF Await, Runs, At, HasJob
  <2>2. /\ count < MaxJobs /\ count + 1 \in Jobs /\ count' = count + 1
        /\ heap' = [heap EXCEPT ![count + 1] = "live"]
        /\ parent' = [parent EXCEPT ![count + 1] = cur[w]]
        /\ errState' = [errState EXCEPT ![count + 1] = errState[cur[w]]]
        /\ step' = [step EXCEPT ![cur[w]] = "resume"]
    BY <1>1, <1>5 DEF Await, Alloc, Leave, Jobs
  <2>3. UnwindsWithError'
    BY <1>1, <1>2, <2>1, <2>2 DEF UnwindsWithError, Jobs
  <2>4. Allocated'
    BY <1>1, <1>2, <2>1, <2>2 DEF Allocated, Jobs
  <2> QED BY <2>3, <2>4
<1>6. ASSUME NEW w \in Workers,
             \/ Resume(w) \/ Yield(w) \/ Throw(w) \/ Catch(w) \/ Unwind(w)
             \/ Handle(w) \/ Finish(w) \/ JobDeinit(w)
      PROVE  UnwindsWithError' /\ Allocated'
  <2>1. cur[w] \in Jobs /\ cur[w] <= count
    BY <1>6, HeldIsLive DEF Resume, Yield, Throw, Catch, Unwind, Handle, Finish,
       JobDeinit, Runs, At, HasJob
  <2>2. UNCHANGED count
    BY <1>6 DEF Resume, Yield, Throw, Catch, Unwind, Handle, Finish, JobDeinit
  <2>3. \A j \in Jobs : j # cur[w] => heap'[j] = heap[j] /\ parent'[j] = parent[j]
                                      /\ step'[j] = step[j]
    BY <1>1, <1>6 DEF Resume, Yield, Throw, Catch, Unwind, Handle, Finish, JobDeinit,
       Requeue, Leave
  <2>4. heap'[cur[w]] = heap[cur[w]] \/ heap'[cur[w]] = "freed"
    BY <1>1, <1>6, <2>1 DEF Resume, Yield, Throw, Catch, Unwind, Handle, Finish,
       JobDeinit
  <2>5. Allocated'
    <3>1. ~ (cur[w] > count)
      BY <1>1, <2>1 DEF Jobs
    <3> QED BY <1>2, <2>1, <2>2, <2>3, <2>4, <3>1 DEF Allocated
  <2>6. CASE Resume(w) \/ Yield(w) \/ Unwind(w) \/ Catch(w) \/ JobDeinit(w)
    <3>1. errState' = errState
      BY <2>6 DEF Resume, Yield, Unwind, Catch, JobDeinit
    <3>2. step'[cur[w]] \in {"unwind", "handler"} => errState[cur[w]] # NoError
      BY <1>1, <1>2, <2>1, <2>6 DEF Resume, Yield, Unwind, Catch, JobDeinit, Runs,
         ErrorStep, Requeue, Leave
    <3> QED BY <1>2, <2>3, <2>5, <3>1, <3>2 DEF UnwindsWithError
  <2>7. CASE Throw(w)
    <3>1. errState' = [errState EXCEPT ![cur[w]] = cur[w]] /\ cur[w] # NoError
      BY <2>1, <2>7 DEF Throw, Jobs, NoError
    <3> QED BY <1>1, <1>2, <2>1, <2>3, <2>5, <3>1 DEF UnwindsWithError
  <2>8. CASE Handle(w)
    BY <1>1, <1>2, <2>1, <2>5, <2>8 DEF Handle, UnwindsWithError
  <2>9. CASE Finish(w)
    <3>1. step' = step /\ \A j \in Jobs : errState[j] # NoError => errState'[j] # NoError
      BY <1>1, <2>9 DEF Finish, ErrorToParent
    <3> QED BY <1>2, <2>5, <3>1 DEF UnwindsWithError
  <2> QED BY <1>6, <2>6, <2>7, <2>8, <2>9
<1>7. CASE Drain
  <2>1. Placed
    BY <1>7 DEF Drain, At, Closed
  <2>2. \A j \in Jobs : heap'[j] = heap[j] \/ (heap'[j] = "freed" /\ heap[j] = "live")
    BY <1>7, <2>1, InQueue DEF Drain, Queued
  <2>3. UNCHANGED <<count, parent, step, errState>>
    BY <1>7 DEF Drain
  <2> QED BY <1>2, <2>2, <2>3 DEF UnwindsWithError, Allocated
<1>8. CASE \/ InitWait \/ MainFails \/ MainEnd \/ Wait \/ Deinit \/ DeinitCheck
           \/ DeinitSignal \/ Join \/ \E w \in Workers : CreateThread(w)
           \/ \E t \in Threads : Insert(t) \/ InsertSignal(t) \/ SpuriousWakeup(t)
  BY <1>3, <1>8 DEF InitWait, MainFails, MainThrow, MainNotice, MainCatch,
     MainUncaught, MainEnd, Wait, Deinit, DeinitCheck, DeinitSignal, Join,
     CreateThread, Insert, InsertSignal, SpuriousWakeup, jobVars
<1>9. CASE \E w \in Workers :
             \/ Start(w) \/ Loop(w) \/ CheckActive(w) \/ CheckJobs(w) \/ Recheck(w)
             \/ Busy(w) \/ Get(w) \/ GetSignal(w) \/ Idle(w) \/ Exit(w)
             \/ ErrorAssign(w)
  BY <1>3, <1>9 DEF Start, Loop, CheckActive, CheckJobs, Recheck, Busy, Get,
     GetSignal, Idle, Exit, ErrorAssign, jobVars
<1>10. CASE UNCHANGED vars
  BY <1>3, <1>10 DEF vars, jobVars
<1> QED
  BY <1>4, <1>5, <1>6, <1>7, <1>8, <1>9, <1>10
     DEF Next, MainStep, WorkerStep, Terminated, Threads

(* What ErrorAssign will publish stays an error nobody awaits. *)
LEMMA AssignsErrorStep ==
  ASSUME Core, [Next]_vars
  PROVE  AssignsError'
<1> USE DEF Core
<1> SUFFICES ASSUME NEW w \in Workers, pc'[w] = "errorAssign"
             PROVE  errState'[cur'[w]] # NoError /\ parent'[cur'[w]] = NoJob
  BY DEF AssignsError
<1>1. /\ errState \in [Jobs -> Errors \cup {NoError}]
      /\ parent \in [Jobs -> Jobs \cup {NoJob}]
      /\ count \in 0..MaxJobs
  BY DEF TInv, JobTypes
<1>2. CASE Finish(w)
  <2>1. pc[w] = "run" /\ cur[w] \in Jobs
    BY <1>2, HeldIsLive DEF Finish, Runs, At, HasJob
  <2>2. parent[cur[w]] = NoJob
    BY <1>2, <2>1 DEF Finish, Caller, Request, Goto, TInv, Control, ThreadTypes, Threads
  <2> QED BY <1>2, <2>1, <2>2 DEF Finish, Caller, Goto, TInv, Control, ThreadTypes,
             Threads, jobVars
<1>3. CASE pc[w] = "errorAssign" /\ ~ ErrorAssign(w)
  <2>1. cur[w] \in Jobs /\ cur[w] <= count /\ \A v \in Workers : cur[v] = cur[w] => v = w
    BY <1>3, HeldIsLive DEF HasJob
  <2>2. errState[cur[w]] # NoError /\ parent[cur[w]] = NoJob
    BY <1>3 DEF AssignsError
  <2>3. cur'[w] = cur[w]
    <3>1. ~ WorkerStep(w)
      BY <1>3 DEF WorkerStep, Start, Loop, CheckActive, CheckJobs, Recheck, Busy, Get,
         GetSignal, Idle, Exit, Insert, InsertSignal, Spawn, Await, Resume, Yield,
         Throw, Catch, Unwind, Handle, Finish, JobDeinit, Runs, At
    <3> QED BY <3>1, WorkerLeavesOthers, MainLeavesWorkers
               DEF Next, SpuriousWakeup, Terminated, vars, threadVars, Threads
  <2>4. errState'[cur[w]] # NoError /\ parent'[cur[w]] = NoJob
    <3>1. CASE UNCHANGED <<errState, parent>>
      BY <2>2, <3>1
    <3>2. CASE \E p, e : Alloc(p, e)
      BY <1>1, <2>1, <2>2, <3>2 DEF Alloc, Jobs
    <3>3. ASSUME NEW v \in Workers, Throw(v) \/ Handle(v) \/ Finish(v) \/ JobDeinit(v)
          PROVE  errState'[cur[w]] # NoError /\ parent'[cur[w]] = NoJob
      <4>1. cur[v] \in Jobs /\ pc[v] \in {"run", "jobDeinit"}
        BY <3>3, HeldIsLive DEF Throw, Handle, Finish, JobDeinit, Runs, At, HasJob
      <4>2. cur[v] # cur[w]
        BY <1>3, <2>1, <4>1
      <4> QED BY <1>1, <2>1, <2>2, <3>3, <4>1, <4>2 DEF Throw, Handle, Finish,
                 ErrorToParent, JobDeinit
    <3>4. CASE \/ InitWait \/ MainFails \/ MainEnd \/ Wait \/ Deinit \/ DeinitCheck
               \/ DeinitSignal \/ Drain \/ Join \/ \E v \in Workers : CreateThread(v)
               \/ \E t \in Threads : Insert(t) \/ InsertSignal(t) \/ SpuriousWakeup(t)
      BY <3>1, <3>4 DEF InitWait, MainFails, MainThrow, MainNotice, MainCatch,
         MainUncaught, MainEnd, Wait, Deinit, DeinitCheck, DeinitSignal, Drain,
         Join, CreateThread, Insert, InsertSignal, SpuriousWakeup, jobVars
    <3>5. CASE \E v \in Workers :
                 \/ Start(v) \/ Loop(v) \/ CheckActive(v) \/ CheckJobs(v) \/ Recheck(v)
                 \/ Busy(v) \/ Get(v) \/ GetSignal(v) \/ Idle(v) \/ Exit(v)
                 \/ ErrorAssign(v) \/ Resume(v) \/ Yield(v) \/ Catch(v) \/ Unwind(v)
      BY <3>1, <3>5 DEF Start, Loop, CheckActive, CheckJobs, Recheck, Busy, Get,
         GetSignal, Idle, Exit, ErrorAssign, Resume, Yield, Catch, Unwind, jobVars
    <3>6. CASE MainAdd \/ \E v \in Workers : Spawn(v) \/ Await(v)
      BY <3>2, <3>6 DEF MainAdd, Spawn, Await
    <3>7. CASE UNCHANGED vars
      BY <3>1, <3>7 DEF vars, jobVars
    <3> QED BY <3>3, <3>4, <3>5, <3>6, <3>7
               DEF Next, MainStep, WorkerStep, Terminated, Threads
  <2> QED BY <2>3, <2>4
<1>4. CASE ErrorAssign(w)
  BY <1>4 DEF ErrorAssign, Goto, TInv, Control, ThreadTypes, Threads
<1>5. pc[w] = "errorAssign" \/ Finish(w)
  <2>1. CASE WorkerStep(w) /\ ~ Finish(w)
    <3>1. InsertSignal(w) => ret[w] # "errorAssign"
      BY DEF InsertSignal, At, TInv, Control, WorkerControl, Returning
    <3>2. UNCHANGED pc \/ \E q : q # "errorAssign" /\ Goto(w, q)
      BY <2>1, <3>1 DEF WorkerStep, Start, Loop, CheckActive, CheckJobs, Recheck, Busy,
         Get, GetSignal, Idle, Exit, Insert, InsertSignal, Spawn, Await, Resume, Yield,
         Throw, Catch, Unwind, Handle, ErrorAssign, JobDeinit, Requeue, Request
    <3> QED BY <3>2 DEF Goto, TInv, Control, ThreadTypes, Threads
  <2> QED BY <2>1, WorkerLeavesOthers, MainLeavesWorkers
             DEF Next, SpuriousWakeup, Terminated, vars, Threads
<1> QED BY <1>2, <1>3, <1>4, <1>5

-----------------------------------------------------------------------------
(* When nothing is queued and no worker is busy no job is live: a live job *)
(* would await a live job that is younger, and there is a youngest one.    *)
LEMMA QuietIsEmpty ==
  ASSUME TInv, Placed, working = 0, jobs = <<>>, pc[Main] # "insert"
  PROVE  \A j \in Jobs : heap[j] # "live"
<1> DEFINE L == {j \in Jobs : heap[j] = "live"}
<1>1. BusyWorkers = {}
  BY Finite, FS_EmptySet DEF TInv, Counted
<1>2. \A w \in Workers : cur[w] = NoJob /\ pc[w] # "insert"
  BY <1>1 DEF BusyWorkers, BusyPC, TInv, Control, WorkerControl, HasJob, Returning
<1>3. \A t \in Threads : Ins(t) = NoJob
  BY <1>2 DEF Ins, At, Threads
<1>4. ASSUME NEW j \in L PROVE \E c \in L : j < c
  <2>1. ~ Queued(j)
    BY DEF Queued
  <2>2. Running(j) = {} /\ Inserting(j) = {}
    BY <1>2, <1>3, PlaceTypes DEF Running, Inserting
  <2>3. PICK c \in Jobs : In(j, FALSE, {}, {}, {c})
    BY <2>1, <2>2 DEF Placed, JobPlaced, In
  <2>4. Awaited(c) /\ parent[c] = j
    BY <2>3 DEF In, Awaiting
  <2> QED BY <2>4 DEF Awaited, Placed, ChildIsYounger
<1>5. L = {}
  <2>1. SUFFICES ASSUME L # {} PROVE FALSE
    OBVIOUS
  <2>2. L \in SUBSET (1..MaxJobs)
    BY DEF Jobs
  <2> HIDE DEF L
  <2>3. PICK m \in L : \A x \in L : x <= m
    BY <2>1, <2>2, LargestMember
  <2>4. PICK c \in L : m < c
    BY <1>4
  <2> QED BY <2>2, <2>3, <2>4
<1> QED BY <1>5

(* Once threadpool_wait has returned, the error of the program stays. *)
LEMMA OutcomeStays ==
  ASSUME Core, [Next]_vars, err_state' = NoError, pc[Main] \in ReturnedPC
  PROVE  err_state = NoError
<1>1. ASSUME NEW w \in Workers, ErrorAssign(w) PROVE FALSE
  BY <1>1 DEF ErrorAssign, At, Core, AssignsError
<1>2. ~ MainFails
  BY DEF MainFails, MainThrow, MainNotice, MainCatch, MainUncaught, At, ReturnedPC
<1>3. err_state' = err_state
  BY <1>1, <1>2 DEF Next, MainStep, CreateThread, InitWait, MainAdd, MainEnd,
     Insert, InsertSignal, Wait, Deinit, DeinitCheck, DeinitSignal, Drain, Join,
     WorkerStep, Start, Loop, CheckActive, CheckJobs, Recheck, Busy, Get,
     GetSignal, Idle, Exit, Spawn, Await, Resume, Yield, Throw, Catch, Unwind,
     Handle, Finish, JobDeinit, SpuriousWakeup, Terminated, vars
<1> QED BY <1>3

LEMMA QuiescentStep ==
  ASSUME Core, [Next]_vars
  PROVE  QuiescentReturn'
<1> USE DEF Core
<1> SUFFICES ASSUME pc'[Main] \in ReturnedPC, err_state' = NoError,
                    NEW j \in Jobs
             PROVE  heap'[j] # "live"
  BY DEF QuiescentReturn
<1>1. heap \in [Jobs -> {"unused", "live", "freed"}]
  BY DEF TInv, JobTypes
<1>2. CASE Wait /\ pc[Main] # pc'[Main]
  <2>1. pc[Main] = "wait" /\ heap' = heap /\ err_state = NoError
    BY <1>2 DEF Wait, At, jobVars
  <2>2. ~ Unfinished
    BY <1>2 DEF Wait
  <2>3. working = 0 /\ jobs = <<>>
    BY <2>1, <2>2 DEF Unfinished
  <2>4. Placed
    BY <2>1 DEF Closed
  <2> QED BY <2>1, <2>3, <2>4, QuietIsEmpty
<1>3. CASE pc[Main] \in ReturnedPC
  <2>1. err_state = NoError
    BY <1>3, OutcomeStays
  <2>2. \A i \in Jobs : heap[i] # "live"
    BY <1>3, <2>1 DEF QuiescentReturn
  <2>3. ASSUME NEW w \in Workers PROVE pc[w] # "run"
    BY <2>2, HeldIsLive DEF HasJob
  <2>4. ~ MainAdd
    BY <1>3 DEF MainAdd, At, ReturnedPC
  <2>5. heap' = heap \/ Drain \/ \E w \in Workers : JobDeinit(w)
    BY <2>3, <2>4 DEF Next, MainStep, CreateThread, InitWait, MainFails, MainThrow,
       MainNotice, MainCatch, MainUncaught, MainEnd, Insert, InsertSignal, Wait,
       Deinit, DeinitCheck, DeinitSignal, Join, WorkerStep, Start, Loop,
       CheckActive, CheckJobs, Recheck, Busy, Get, GetSignal, Idle, Exit, Spawn,
       Await, Runs, At, Resume, Yield, Throw, Catch, Unwind, Handle, Finish,
       ErrorAssign, SpuriousWakeup, Terminated, vars, jobVars
  <2>6. CASE Drain \/ \E w \in Workers : JobDeinit(w)
    BY <1>1, <2>2, <2>6 DEF Drain, JobDeinit
  <2> QED BY <2>2, <2>5, <2>6
<1>4. \/ Wait /\ pc[Main] # pc'[Main]
      \/ pc[Main] \in ReturnedPC
  <2>1. CASE MainStep /\ ~ Wait
    <3>1. InsertSignal(Main) => ret[Main] = "add"
      BY DEF InsertSignal, At, TInv, Control, MainControl, Returning
    <3> QED BY <2>1, <3>1, WorkerLeavesMain DEF MainStep, InitWait, MainAdd,
               Request, MainFails, MainThrow, MainNotice, MainCatch, MainUncaught,
               MainEnd, Insert, InsertSignal, Deinit, DeinitCheck, DeinitSignal,
               Drain, Join, At, Goto, ReturnedPC, TInv, Control, ThreadTypes,
               Threads
  <2>2. CASE \E w \in Workers : WorkerStep(w)
    BY <2>2, WorkerLeavesMain DEF ReturnedPC
  <2>3. CASE UNCHANGED pc
    BY <2>3
  <2> QED BY <2>1, <2>2, <2>3 DEF Next, MainStep, SpuriousWakeup, Terminated, vars
<1> QED BY <1>2, <1>3, <1>4

-----------------------------------------------------------------------------
LEMMA InitCore == Init => Core
<1> SUFFICES ASSUME Init PROVE Core
  OBVIOUS
<1> USE DEF Init
<1>1. pc[Main] = "create" /\ \A w \in Workers : pc[w] = "unborn"
  BY DEF Threads
<1>2. Control
  BY <1>1 DEF Control, ThreadTypes, WorkerControl, MainControl, HasJob, Threads,
     WorkerPC, MainPC, BusyPC, Returning, Jobs, NoJob
<1>3. SyncTypes /\ CounterTypes /\ JobTypes
  BY DEF SyncTypes, CounterTypes, JobTypes, Steps, Jobs, Errors, NoJob, NoError,
     MainError
<1>4. Counted
  <2>1. AliveWorkers = {} /\ BusyWorkers = {}
    BY <1>1 DEF AliveWorkers, BusyWorkers, BusyPC
  <2> QED BY <2>1, FS_EmptySet DEF Counted
<1>5. Started /\ AllDead /\ AssignsError /\ QuiescentReturn
  BY <1>1 DEF Started, AllDead, AssignsError, QuiescentReturn, ReturnedPC
<1>6. UnwindsWithError /\ Allocated
  BY DEF UnwindsWithError, Allocated, Jobs
<1>7. Placed
  <2>1. \A t \in Threads : cur[t] = NoJob /\ Ins(t) = NoJob
    BY DEF Ins
  <2>2. NoJob \notin Jobs
    BY DEF Jobs, NoJob
  <2>3. ASSUME NEW j \in Jobs PROVE JobPlaced(j)
    <3>1. Running(j) = {} /\ Inserting(j) = {}
      BY <2>1, <2>2 DEF Running, Inserting, Threads
    <3>2. Awaiting(j) = {} /\ ~ Queued(j)
      BY DEF Awaiting, Awaited, Queued
    <3> QED BY <3>1, <3>2 DEF JobPlaced, In
  <2> QED BY <2>3 DEF Placed, QueueDistinct, ChildIsYounger
<1>8. Drained
  BY DEF Drained
<1> QED BY <1>2, <1>3, <1>4, <1>5, <1>6, <1>7, <1>8 DEF Core, TInv

LEMMA CoreStep == Core /\ [Next]_vars => Core'
<1> SUFFICES ASSUME Core, [Next]_vars PROVE Core'
  OBVIOUS
<1>1. TInv
  BY DEF Core
<1>2. Counted'
  BY <1>1, CountStep
<1>3. CounterTypes'
  BY <1>2, Finite, FS_CardinalityType DEF Counted, CounterTypes
<1>4. TInv'
  BY <1>1, <1>2, <1>3, ControlStep, SyncStep, JobStep, StartedStep, FieldsStep
     DEF TInv
<1> QED BY <1>4, PlacedStep, DrainedStep, AssignsErrorStep, QuiescentStep DEF Core

(* The inductive invariant: what each thread may rely on, what the         *)
(* counters count and where the jobs are (threadpool_worker, _insert, _get *)
(* and the generated code around them).                                    *)
THEOREM CoreHolds == Spec => []Core
BY InitCore, CoreStep, PTL DEF Spec

(* Every variable keeps its type and every thread runs its own code. *)
THEOREM TypesHold == Spec => []TypeOK
<1>1. Core => TypeOK
  BY DEF Core, TInv, Control, TypeOK
<1> QED BY <1>1, CoreHolds, PTL

(* For every number of workers and calls, no job is lost, queued twice or  *)
(* run by two workers, and a job that is free'd is in nobody's hands.      *)
THEOREM OnePlaceHolds == Spec => []OnePlace
<1>1. ASSUME Core, pc[Main] \notin {"join", "done"}, NEW j \in Jobs
      PROVE  /\ heap[j] = "live" <=> Places(j) # {}
             /\ \A p, q \in Places(j) : p = q
  <2>1. JobPlaced(j)
    BY <1>1 DEF Core, Closed, Placed
  <2>2. NoJob # j /\ \A t \in Threads : (At(t, "insert") /\ tgt[t] = j) <=> Ins(t) = j
    BY DEF Ins, Jobs, NoJob
  <2>3. Places(j) = {<<"queue", i>> : i \in {i \in DOMAIN jobs : jobs[i] = j}}
                      \cup {<<"insert", t>> : t \in Inserting(j)}
                      \cup {<<"worker", w>> : w \in Running(j)}
                      \cup {<<"child", c>> : c \in Awaiting(j)}
    BY <2>2 DEF Places, Inserting, Running, Awaiting
  <2>4. CASE In(j, FALSE, {}, {}, {})
    BY <2>1, <2>3, <2>4 DEF In, Queued, JobPlaced
  <2>5. CASE In(j, TRUE, {}, {}, {})
    <3>1. PICK i \in DOMAIN jobs : jobs[i] = j
      BY <2>5 DEF In, Queued
    <3>2. \A k \in DOMAIN jobs : jobs[k] = j => k = i
      BY <1>1, <3>1 DEF Core, Closed, Placed, QueueDistinct
    <3>3. Places(j) = {<<"queue", i>>}
      BY <2>3, <2>5, <3>1, <3>2 DEF In
    <3> QED BY <2>1, <2>5, <3>3 DEF JobPlaced, In
  <2>6. CASE \E w \in Workers : In(j, FALSE, {w}, {}, {})
    <3>1. PICK w \in Workers : In(j, FALSE, {w}, {}, {})
      BY <2>6
    <3>2. Places(j) = {<<"worker", w>>}
      BY <2>3, <3>1 DEF In, Queued
    <3> QED BY <2>1, <3>1, <3>2 DEF JobPlaced, In
  <2>7. CASE \E t \in Threads : In(j, FALSE, {}, {t}, {})
    <3>1. PICK t \in Threads : In(j, FALSE, {}, {t}, {})
      BY <2>7
    <3>2. Places(j) = {<<"insert", t>>}
      BY <2>3, <3>1 DEF In, Queued
    <3> QED BY <2>1, <3>1, <3>2 DEF JobPlaced, In
  <2>8. CASE \E c \in Jobs : In(j, FALSE, {}, {}, {c})
    <3>1. PICK c \in Jobs : In(j, FALSE, {}, {}, {c})
      BY <2>8
    <3>2. Places(j) = {<<"child", c>>}
      BY <2>3, <3>1 DEF In, Queued
    <3> QED BY <2>1, <3>1, <3>2 DEF JobPlaced, In
  <2> QED BY <2>1, <2>4, <2>5, <2>6, <2>7, <2>8 DEF JobPlaced
<1>2. Core => OnePlace
  BY <1>1 DEF OnePlace
<1> QED BY <1>2, CoreHolds, PTL

(* threadpool_wait returns without an error only when every job has been   *)
(* free'd, whatever the order in which workers, jobs and main take steps.  *)
THEOREM QuiescentReturnHolds == Spec => []QuiescentReturn
<1>1. Core => QuiescentReturn
  BY DEF Core
<1> QED BY <1>1, CoreHolds, PTL

(* threadpool_deinit frees the pool only after the last worker has left.   *)
THEOREM PoolFreedLastHolds == Spec => []PoolFreedLast
<1>1. Core => PoolFreedLast
  BY DEF Core, TInv, AllDead, PoolFreedLast, At
<1> QED BY <1>1, CoreHolds, PTL

-----------------------------------------------------------------------------
(***************************************************************************)
(* Nothing gets lost between the threads: no wakeup (who sleeps in a       *)
(* condition wait, and who is left to wake the sleepers) and no error (who *)
(* carries the error of a call that is over).                              *)
(***************************************************************************)

(* A thread goes where its step takes it, everybody else stays. *)
LEMMA GotoMoves ==
  ASSUME TInv, NEW t \in Threads, NEW q, Goto(t, q)
  PROVE  \A u \in Threads : pc'[u] = IF u = t THEN q ELSE pc[u]
BY DEF TInv, Control, ThreadTypes, Goto

-----------------------------------------------------------------------------
(* What the steps of a worker do to locks, sleepers and the queue. *)

(* A worker goes to sleep when it finds the queue empty, and in no other   *)
(* way; it wakes others and never puts them to sleep.                      *)
FallsAsleep(w) ==
  /\ pc[w] = "checkJobs" /\ jobs = <<>> /\ jobs' = <<>>
  /\ cond2' = cond2 \cup {w} /\ pc'[w] = "lock3"

LEMMA WorkerSleeps ==
  ASSUME TInv, NEW w \in Workers, WorkerStep(w)
  PROVE  /\ active' = active /\ cond1' \subseteq cond1
         /\ cond2' \subseteq cond2 \/ FallsAsleep(w)
         /\ pc[w] = "lock3" => w \notin cond2
<1> USE DEF TInv
<1>1. CASE CheckJobs(w)
  BY <1>1, GotoMoves DEF CheckJobs, FallsAsleep, At, Threads, counters
<1>2. CASE \/ Start(w) \/ Idle(w) \/ Exit(w)
  BY <1>2 DEF Start, Idle, Exit, Wakeup_Exit, Signalled, At, counters
<1>3. CASE GetSignal(w) \/ InsertSignal(w)
  BY <1>3 DEF GetSignal, InsertSignal, Wakeup_Insert, Signalled, At, counters
<1>4. CASE \/ Loop(w) \/ CheckActive(w) \/ Recheck(w) \/ Busy(w) \/ Get(w)
           \/ Insert(w) \/ Spawn(w) \/ Await(w) \/ Resume(w) \/ Yield(w)
           \/ Throw(w) \/ Catch(w) \/ Unwind(w) \/ Handle(w) \/ Finish(w)
           \/ ErrorAssign(w) \/ JobDeinit(w)
  BY <1>4 DEF Loop, CheckActive, Recheck, Busy, Get, Insert, Spawn, Await, Resume,
     Yield, Throw, Catch, Unwind, Handle, Finish, ErrorAssign, JobDeinit, Runs, At,
     conds, counters
<1> QED BY <1>1, <1>2, <1>3, <1>4 DEF WorkerStep

(* lock3 is held from CheckActive to CheckJobs, lock1 by no worker. *)
LEMMA WorkerLocks ==
  ASSUME TInv, NEW w \in Workers, WorkerStep(w)
  PROVE  /\ lock1' = lock1
         /\ alive' # alive => lock1 = NoThread
         /\ pc[w] # "checkJobs" => lock3' = lock3 \/ lock3 = NoThread
         /\ pc'[w] = "checkJobs" => active /\ lock3' = w
<1> USE DEF TInv
<1>1. CASE CheckJobs(w) \/ CheckActive(w)
  BY <1>1, GotoMoves DEF CheckJobs, CheckActive, At, Threads, counters
<1>2. CASE Start(w) \/ Exit(w)
  BY <1>2, GotoMoves DEF Start, Exit, locks, Threads
<1>3. CASE \/ Loop(w) \/ Recheck(w) \/ Busy(w) \/ Get(w) \/ GetSignal(w) \/ Idle(w)
  <2>1. lock1' = lock1 /\ lock3' = lock3 /\ alive' = alive
    BY <1>3 DEF Loop, Recheck, Busy, Get, GetSignal, Idle, locks, counters
  <2>2. \E q : q # "checkJobs" /\ Goto(w, q)
    BY <1>3 DEF Loop, Recheck, Busy, Get, GetSignal, Idle
  <2> QED BY <2>1, <2>2, GotoMoves DEF Threads
<1>4. CASE \/ Insert(w) \/ InsertSignal(w)
  <2>1. lock1' = lock1 /\ lock3' = lock3 /\ alive' = alive
    BY <1>4 DEF Insert, InsertSignal, counters
  <2>2. \E q : q # "checkJobs" /\ Goto(w, q)
    BY <1>4 DEF Insert, InsertSignal, At, Control, WorkerControl, Returning
  <2> QED BY <2>1, <2>2, GotoMoves DEF Threads
<1>5. CASE \/ Spawn(w) \/ Await(w) \/ Resume(w) \/ Yield(w) \/ Throw(w) \/ Catch(w)
           \/ Unwind(w) \/ Handle(w) \/ Finish(w) \/ ErrorAssign(w) \/ JobDeinit(w)
  <2>1. lock1' = lock1 /\ lock3' = lock3 /\ alive' = alive
    BY <1>5 DEF Spawn, Await, Resume, Yield, Throw, Catch, Unwind, Handle, Finish,
       ErrorAssign, JobDeinit, locks, counters
  <2>2. \/ \E q : q # "checkJobs" /\ Goto(w, q)
        \/ UNCHANGED pc /\ pc[w] # "checkJobs"
    BY <1>5 DEF Spawn, Await, Resume, Yield, Throw, Catch, Unwind, Handle, Finish,
       ErrorAssign, JobDeinit, Requeue, Request, Runs, At
  <2> QED BY <2>1, <2>2, GotoMoves DEF Threads
<1> QED BY <1>1, <1>2, <1>3, <1>4, <1>5 DEF WorkerStep

(* Only a worker that is busy touches the queue and the error, it reports  *)
(* to main when it stops being busy, and it leaves through Exit.           *)
LEMMA WorkerReports ==
  ASSUME TInv, NEW w \in Workers, WorkerStep(w)
  PROVE  /\ pc[w] \notin BusyPC => jobs' = jobs /\ err_state' = err_state
         /\ pc[w] \in BusyPC /\ pc'[w] \notin BusyPC => Idle(w)
         /\ pc'[w] = "dead" => Exit(w)
<1> USE DEF TInv
<1>1. CASE \/ Start(w) \/ Loop(w) \/ CheckActive(w) \/ CheckJobs(w) \/ Recheck(w)
           \/ Busy(w) \/ Exit(w) \/ Idle(w)
  <2>1. jobs' = jobs /\ err_state' = err_state
    BY <1>1 DEF Start, Loop, CheckActive, CheckJobs, Recheck, Busy, Exit, Idle
  <2>2. pc[w] \notin BusyPC \/ Idle(w)
    BY <1>1 DEF Start, Loop, CheckActive, CheckJobs, Recheck, Busy, Exit, At, BusyPC
  <2>3. Exit(w) \/ \E q : q # "dead" /\ Goto(w, q)
    BY <1>1 DEF Start, Loop, CheckActive, CheckJobs, Recheck, Busy, Idle
  <2> QED BY <2>1, <2>2, <2>3, GotoMoves DEF Threads
<1>2. CASE \/ Get(w) \/ GetSignal(w) \/ Insert(w) \/ InsertSignal(w)
           \/ Spawn(w) \/ Await(w) \/ Resume(w) \/ Yield(w) \/ Throw(w)
           \/ Catch(w) \/ Unwind(w) \/ Handle(w) \/ Finish(w)
           \/ ErrorAssign(w) \/ JobDeinit(w)
  <2>1. pc[w] \in BusyPC
    BY <1>2 DEF Get, GetSignal, Insert, InsertSignal, Spawn, Await, Resume, Yield,
       Throw, Catch, Unwind, Handle, Finish, ErrorAssign, JobDeinit, Runs, At, BusyPC
  <2>2. UNCHANGED pc \/ \E q \in BusyPC : Goto(w, q)
    BY <1>2 DEF Get, GetSignal, Insert, InsertSignal, Spawn, Await, Resume, Yield,
       Throw, Catch, Unwind, Handle, Finish, ErrorAssign, JobDeinit, Requeue, Request,
       At, Control, WorkerControl, Returning, BusyPC
  <2>3. pc'[w] \in BusyPC
    BY <2>1, <2>2, GotoMoves DEF Threads
  <2> QED BY <2>1, <2>3 DEF BusyPC
<1> QED BY <1>1, <1>2 DEF WorkerStep

-----------------------------------------------------------------------------
(* What the steps of main do to them. *)

LEMMA MainLocks ==
  ASSUME TInv, MainStep
  PROVE  /\ lock3' = lock3 /\ alive' = alive
         /\ cond2' \subseteq cond2
         /\ cond1' # cond1 => InitWait \/ Wait \/ DeinitSignal
<1> USE DEF TInv
<1>1. CASE \/ InitWait \/ MainAdd \/ MainFails \/ MainEnd \/ Insert(Main) \/ Wait
           \/ Deinit \/ DeinitCheck \/ Drain \/ Join \/ \E w \in Workers : CreateThread(w)
  BY <1>1 DEF InitWait, MainAdd, MainFails, MainThrow, MainNotice, MainCatch,
     MainUncaught, MainEnd, Insert, Wait, Deinit, DeinitCheck, Drain, Join,
     CreateThread, locks, conds, counters
<1>2. CASE InsertSignal(Main) \/ DeinitSignal
  BY <1>2 DEF InsertSignal, DeinitSignal, Wakeup_Insert, Signalled, counters
<1> QED BY <1>1, <1>2 DEF MainStep

(* Main does nothing while it sleeps. *)
LEMMA SleeperStays ==
  ASSUME TInv, SleepControl, Main \in cond1
  PROVE  ~ MainStep
BY DEF SleepControl, MainStep, CreateThread, InitWait, MainAdd, MainFails,
   MainThrow, MainNotice, MainCatch, MainUncaught, MainEnd, Insert, InsertSignal,
   Wait, Deinit, DeinitCheck, DeinitSignal, Drain, Join, At

(* Where main comes from. *)
LEMMA MainMovesOn ==
  ASSUME TInv, MainStep
  PROVE  /\ pc'[Main] = "deinitSignal" => DeinitCheck
         /\ pc'[Main] \in ReturnedPC \ {"deinit"} =>
              pc[Main] \in ReturnedPC \ {"deinit"} \/ Deinit
<1> USE DEF TInv, ReturnedPC
<1>1. CASE \/ InitWait \/ MainAdd \/ MainFails \/ MainEnd \/ Wait
           \/ Insert(Main) \/ InsertSignal(Main)
  <2>1. pc[Main] \notin {"create", "deinitSignal"} \cup ReturnedPC
    BY <1>1 DEF InitWait, MainAdd, MainFails, MainThrow, MainNotice, MainCatch,
       MainUncaught, MainEnd, Wait, Insert, InsertSignal, At
  <2>2. UNCHANGED pc \/ \E q \in {"add", "insert", "insertSignal", "unwind", "wait",
                                    "deinit"} : Goto(Main, q)
    <3>1. InsertSignal(Main) => ret[Main] = "add"
      BY DEF InsertSignal, At, Control, MainControl, Returning
    <3> QED BY <1>1, <3>1 DEF InitWait, MainAdd, Request, MainFails, MainThrow,
               MainNotice, MainCatch, MainUncaught, MainEnd, Wait, Insert,
               InsertSignal
  <2> QED BY <2>1, <2>2, GotoMoves DEF Threads
<1>2. CASE Deinit \/ DeinitCheck \/ DeinitSignal \/ Drain \/ Join
  <2>1. /\ pc[Main] \in ReturnedPC
        /\ pc[Main] = "deinit" => Deinit
        /\ DeinitCheck \/ \E q : q # "deinitSignal" /\ Goto(Main, q)
    BY <1>2 DEF Deinit, DeinitCheck, DeinitSignal, Drain, Join, At
  <2> QED BY <2>1, GotoMoves DEF Threads
<1>3. ASSUME NEW w \in Workers, CreateThread(w)
      PROVE  pc'[Main] \in {"create", "initWait"}
  BY <1>3 DEF CreateThread, At, Control, ThreadTypes, Threads
<1> QED BY <1>1, <1>2, <1>3 DEF MainStep

-----------------------------------------------------------------------------
(* The parts of the invariant, one by one. *)

LEMMA SleepControlStep ==
  ASSUME TInv, SleepControl, [Next]_vars
  PROVE  SleepControl'
<1> USE DEF TInv, SleepControl
<1>1. ASSUME NEW v \in Workers, WorkerStep(v) PROVE SleepControl'
  <2>1. pc'[Main] = pc[Main]
    BY <1>1, WorkerLeavesOthers DEF Threads
  <2>2. Main \in cond1' => pc'[Main] \in {"initWait", "wait", "deinitCheck"}
    BY <1>1, <2>1, WorkerSleeps
  <2>3. ASSUME NEW w \in cond2' PROVE pc'[w] = "lock3"
    <3>1. CASE FallsAsleep(v) /\ w = v
      BY <3>1 DEF FallsAsleep
    <3>2. CASE w \in cond2
      BY <1>1, <3>2, WorkerSleeps, WorkerLeavesOthers DEF SyncTypes, Threads
    <3> QED BY <1>1, <3>1, <3>2, WorkerSleeps DEF FallsAsleep
  <2>4. ASSUME NEW w \in Workers, pc'[w] = "checkJobs" PROVE lock3' = w
    <3>1. CASE w # v
      BY <1>1, <2>4, <3>1, WorkerLeavesOthers, WorkerLocks DEF Threads
    <3> QED BY <1>1, <2>4, <3>1, WorkerLocks
  <2>5. pc'[Main] = "deinitSignal" => lock1' = Main /\ alive' # 0
    BY <1>1, <2>1, WorkerLocks
  <2> QED BY <2>2, <2>3, <2>4, <2>5
<1>2. CASE MainStep
  <2>1. Main \notin cond1
    BY <1>2, SleeperStays
  <2>2. Main \in cond1' => pc'[Main] \in {"initWait", "wait", "deinitCheck"}
    <3>1. InitWait \/ Wait \/ DeinitSignal =>
            (Main \in cond1' => pc'[Main] \in {"initWait", "wait", "deinitCheck"})
      BY <2>1, GotoMoves DEF InitWait, Wait, DeinitSignal, At, Threads
    <3> QED BY <1>2, <2>1, <3>1, MainLocks
  <2>3. ASSUME NEW w \in Workers PROVE pc'[w] = pc[w] \/ pc'[w] = "start"
    BY <1>2, MainLeavesWorkers
  <2>4. ASSUME NEW w \in cond2' PROVE pc'[w] = "lock3"
    <3>1. w \in Workers /\ pc[w] = "lock3"
      BY <1>2, MainLocks DEF SyncTypes
    <3> QED BY <1>2, <3>1, MainLeavesWorkers
  <2>5. pc'[Main] = "deinitSignal" => lock1' = Main /\ alive' # 0
    BY <1>2, MainMovesOn DEF DeinitCheck, ThreadsRemain, Goto, Control, ThreadTypes,
       Threads, counters
  <2> QED BY <1>2, <2>2, <2>3, <2>4, <2>5, MainLocks
<1>3. ASSUME NEW t \in Threads, SpuriousWakeup(t) PROVE SleepControl'
  BY <1>3 DEF SpuriousWakeup, locks, counters
<1>4. CASE UNCHANGED vars
  BY <1>4 DEF vars, locks, conds, counters
<1> QED BY <1>1, <1>2, <1>3, <1>4 DEF Next, Terminated

LEMMA NoneFallsAsleepStep ==
  ASSUME TInv, SleepControl, NoneFallsAsleep, [Next]_vars
  PROVE  NoneFallsAsleep'
<1> USE DEF TInv, NoneFallsAsleep
<1>1. ASSUME NEW v \in Workers, WorkerStep(v) PROVE NoneFallsAsleep'
  <2>1. pc'[Main] = pc[Main] /\ active' = active /\ cond1' \subseteq cond1
    BY <1>1, WorkerLeavesOthers, WorkerSleeps DEF Threads
  <2>2. ASSUME pc[Main] = "deinitCheck", Main \in cond1, NEW w \in Workers
        PROVE  pc'[w] # "checkJobs"
    <3>1. ~active
      BY <2>2 DEF ReturnedPC
    <3> QED BY <1>1, <2>2, <3>1, WorkerLeavesOthers, WorkerLocks DEF Threads
  <2> QED BY <2>1, <2>2
<1>2. CASE MainStep
  <2>1. pc'[Main] \in ReturnedPC \ {"deinit"} => ~active'
    <3>1. Deinit \/ active' = active
      BY <1>2 DEF MainStep, CreateThread, InitWait, MainAdd, MainFails, MainThrow,
         MainNotice, MainCatch, MainUncaught, MainEnd, Insert, InsertSignal, Wait,
         DeinitCheck, DeinitSignal, Drain, Join, counters
    <3> QED BY <1>2, <3>1, MainMovesOn DEF Deinit
  <2>2. ASSUME Main \in cond1', pc'[Main] = "deinitCheck", NEW w \in Workers
        PROVE  pc'[w] # "checkJobs"
    <3>1. DeinitSignal
      <4>1. InitWait \/ Wait => pc'[Main] # "deinitCheck"
        BY GotoMoves DEF InitWait, Wait, At, Threads
      <4> QED BY <1>2, <2>2, <4>1, SleeperStays, MainLocks
    <3>2. pc[w] # "checkJobs"
      BY <3>1 DEF DeinitSignal, SleepControl
    <3> QED BY <1>2, <3>2, MainLeavesWorkers
  <2> QED BY <2>1, <2>2
<1>3. ASSUME NEW t \in Threads, SpuriousWakeup(t) PROVE NoneFallsAsleep'
  BY <1>3 DEF SpuriousWakeup, counters
<1>4. CASE UNCHANGED vars
  BY <1>4 DEF vars, conds, counters
<1> QED BY <1>1, <1>2, <1>3, <1>4 DEF Next, Terminated

(* Who takes a step is awake, and stays so unless it found no job. *)
LEMMA StepsAwake ==
  ASSUME TInv, SleepControl, NEW w \in Workers, WorkerStep(w)
  PROVE  w \notin cond2' \/ FallsAsleep(w)
<1>1. w \notin cond2
  BY WorkerSleeps DEF SleepControl
<1> QED BY <1>1, WorkerSleeps

(* A signal wakes one of the sleepers, if there is any. *)
LEMMA SomebodyAwake ==
  ASSUME TInv, cond2' \in Signalled(cond2)
  PROVE  /\ \E w \in Workers : w \notin cond2'
         /\ cond2 # {} => \E w \in cond2 : w \notin cond2'
BY DEF TInv, SyncTypes, Signalled

LEMMA WorkersWokenStep ==
  ASSUME TInv, SleepControl, WorkersWoken, [Next]_vars
  PROVE  WorkersWoken'
<1> USE DEF TInv, WorkersWoken
<1>1. ASSUME NEW v \in Workers, WorkerStep(v) PROVE WorkersWoken'
  BY <1>1, StepsAwake DEF FallsAsleep
<1>2. CASE InsertSignal(Main)
  BY <1>2, SomebodyAwake DEF InsertSignal, Wakeup_Insert
<1>3. CASE MainStep /\ ~ InsertSignal(Main)
  <2>1. \/ active' = FALSE \/ jobs' = <<>> \/ lock2' = Main
        \/ UNCHANGED <<active, jobs, lock2>>
    BY <1>3 DEF MainStep, CreateThread, InitWait, MainAdd, MainFails, MainThrow,
       MainNotice, MainCatch, MainUncaught, MainEnd, Insert, Wait, Deinit,
       DeinitCheck, DeinitSignal, Drain, Join, counters, locks
  <2>2. lock2' = Main => lock2' # NoThread
    BY DEF Threads
  <2> QED BY <1>3, <2>1, <2>2, MainLocks
<1>4. ASSUME NEW t \in Threads, SpuriousWakeup(t) PROVE WorkersWoken'
  BY <1>4 DEF SpuriousWakeup, counters, locks
<1>5. CASE UNCHANGED vars
  BY <1>5 DEF vars, locks, conds, counters
<1> QED BY <1>1, <1>2, <1>3, <1>4, <1>5 DEF Next, Terminated

(* Workers are busy as long as working_threads counts one. *)
LEMMA SomebodyBusy ==
  ASSUME Counted, working # 0
  PROVE  \E w \in Workers : pc[w] \in BusyPC
<1>1. BusyWorkers # {}
  BY FS_EmptySet DEF Counted
<1> QED BY <1>1 DEF BusyWorkers

LEMMA SomebodyBusyNext ==
  ASSUME Counted', working' # 0
  PROVE  \E w \in Workers : pc'[w] \in BusyPC
<1>1. BusyWorkers' # {}
  BY FS_EmptySet DEF Counted
<1> QED BY <1>1 DEF BusyWorkers

LEMMA WaitWokenStep ==
  ASSUME TInv, TInv', SleepControl, WaitWoken, [Next]_vars
  PROVE  WaitWoken'
<1> USE DEF TInv
<1> SUFFICES ASSUME pc'[Main] = "wait", Main \in cond1'
             PROVE  \/ jobs' # <<>> /\ err_state' = NoError
                    \/ \E w \in Workers : pc'[w] \in BusyPC
  BY DEF WaitWoken, At
<1>1. ASSUME NEW v \in Workers, WorkerStep(v), pc'[v] \notin BusyPC
      PROVE  \/ jobs' # <<>> /\ err_state' = NoError
             \/ \E w \in Workers : pc'[w] \in BusyPC
  <2>1. \/ jobs # <<>> /\ err_state = NoError
        \/ \E w \in Workers : pc[w] \in BusyPC
    BY <1>1, WorkerLeavesOthers, WorkerSleeps DEF WaitWoken, At, Threads
  <2>2. CASE pc[v] \notin BusyPC
    BY <1>1, <2>1, <2>2, WorkerLeavesOthers, WorkerReports DEF Threads
  <2>3. CASE pc[v] \in BusyPC
    <3>1. Idle(v)
      BY <1>1, <2>3, WorkerReports
    <3>2. ~ NotifyMain
      <4>1. cond1' \subseteq cond1 /\ cond1 \subseteq {Main}
        BY <1>1, WorkerSleeps DEF SyncTypes
      <4>2. ~ (cond1' \in Signalled(cond1))
        BY <4>1 DEF Signalled
      <4> QED BY <3>1, <4>2 DEF Idle
    <3>3. err_state' = NoError /\ (working' # 0 \/ jobs' # <<>>)
      BY <3>1, <3>2 DEF Idle, NotifyMain
    <3> QED BY <3>3, SomebodyBusyNext
  <2> QED BY <2>2, <2>3
<1>2. CASE MainStep
  <2>1. Wait
    <3>1. InitWait \/ DeinitSignal => pc'[Main] # "wait"
      BY GotoMoves DEF InitWait, DeinitSignal, At, Threads
    <3> QED BY <1>2, <3>1, SleeperStays, MainLocks
  <2>2. Unfinished /\ UNCHANGED <<pc, jobs, err_state>>
    <3>1. Main \notin cond1
      BY <2>1 DEF Wait
    <3> QED BY <2>1, <3>1 DEF Wait
  <2> QED BY <2>2, SomebodyBusy DEF Unfinished
<1>3. ASSUME NEW t \in Threads, SpuriousWakeup(t)
      PROVE  Main \in cond1 /\ UNCHANGED <<pc, jobs, err_state>>
  BY <1>3 DEF SpuriousWakeup
<1>4. CASE UNCHANGED vars
  BY <1>4 DEF vars, conds, WaitWoken, At
<1> QED BY <1>1, <1>2, <1>3, <1>4 DEF Next, Terminated, WaitWoken, At

LEMMA ShutdownWokenStep ==
  ASSUME TInv, SleepControl, NoneFallsAsleep, ShutdownWoken, [Next]_vars
  PROVE  ShutdownWoken'
<1> USE DEF TInv
<1> SUFFICES ASSUME pc'[Main] = "deinitCheck", Main \in cond1'
             PROVE  \E w \in Workers : w \notin cond2' /\ pc'[w] # "dead"
  BY DEF ShutdownWoken, At
<1>1. ASSUME NEW v \in Workers, WorkerStep(v)
      PROVE  v \notin cond2' /\ pc'[v] # "dead"
  <2>1. pc[Main] = "deinitCheck" /\ Main \in cond1
    BY <1>1, WorkerLeavesOthers, WorkerSleeps DEF Threads
  <2>2. ~ FallsAsleep(v)
    BY <2>1 DEF FallsAsleep, NoneFallsAsleep
  <2>3. ~ Exit(v)
    BY <2>1 DEF Exit, Wakeup_Exit, Signalled, SyncTypes
  <2> QED BY <1>1, <2>2, <2>3, StepsAwake, WorkerReports
<1>2. CASE MainStep
  <2>1. DeinitSignal
    <3>1. InitWait \/ Wait => pc'[Main] # "deinitCheck"
      BY GotoMoves DEF InitWait, Wait, At, Threads
    <3> QED BY <1>2, <3>1, SleeperStays, MainLocks
  <2>2. PICK w \in Workers : pc[w] \notin {"unborn", "dead"}
    <3>1. AliveWorkers # {}
      BY <2>1, FS_EmptySet DEF DeinitSignal, At, SleepControl, Counted
    <3> QED BY <3>1 DEF AliveWorkers
  <2>3. \A u \in Workers : pc'[u] = pc[u]
    BY <2>1, GotoMoves DEF DeinitSignal, Threads
  <2>4. CASE cond2 = {}
    BY <2>1, <2>2, <2>3, <2>4 DEF DeinitSignal, Signalled
  <2>5. CASE cond2 # {}
    <3>1. PICK u \in cond2 : u \notin cond2'
      BY <2>1, <2>2, <2>5, SomebodyAwake DEF DeinitSignal
    <3>2. u \in Workers /\ pc[u] = "lock3"
      BY DEF SleepControl, SyncTypes
    <3> QED BY <2>3, <3>1, <3>2
  <2> QED BY <2>4, <2>5
<1>3. ASSUME NEW t \in Threads, SpuriousWakeup(t)
      PROVE  Main \in cond1 /\ cond2' \subseteq cond2 /\ UNCHANGED pc
  BY <1>3 DEF SpuriousWakeup
<1>4. CASE UNCHANGED vars
  BY <1>4 DEF vars, conds, ShutdownWoken, At
<1> QED BY <1>1, <1>2, <1>3, <1>4 DEF Next, Terminated, ShutdownWoken, At

-----------------------------------------------------------------------------
(* Locks between two steps. *)
HoldingLock2 == {"insertSignal", "getSignal"}

LEMMA WorkerHolds ==
  ASSUME TInv, SleepControl, LockControl, NEW w \in Workers, WorkerStep(w)
  PROVE  /\ lock2' = lock2 \/ lock2' = NoThread \/ lock2' = w
         /\ lock2' = w => pc'[w] \in HoldingLock2
         /\ lock3' = lock3 \/ lock3' = NoThread \/ lock3' = w
         /\ lock3' = w => pc'[w] = "checkJobs"
<1> USE DEF TInv, LockControl, HoldingLock2, Threads
<1>1. CASE CheckJobs(w) \/ CheckActive(w)
  BY <1>1, GotoMoves DEF CheckJobs, CheckActive, At
<1>2. CASE GetSignal(w) \/ InsertSignal(w)
  BY <1>2 DEF GetSignal, InsertSignal, At
<1>3. CASE Get(w) \/ Insert(w)
  BY <1>3, GotoMoves DEF Get, Insert, At
<1>4. CASE \/ Start(w) \/ Loop(w) \/ Recheck(w) \/ Busy(w) \/ Idle(w) \/ Exit(w)
           \/ Spawn(w) \/ Await(w) \/ Resume(w) \/ Yield(w) \/ Throw(w) \/ Catch(w)
           \/ Unwind(w) \/ Handle(w) \/ Finish(w) \/ ErrorAssign(w) \/ JobDeinit(w)
  <2>1. UNCHANGED locks
    BY <1>4 DEF Start, Loop, Recheck, Busy, Idle, Exit, Spawn, Await, Resume, Yield,
       Throw, Catch, Unwind, Handle, Finish, ErrorAssign, JobDeinit
  <2>2. pc[w] \notin HoldingLock2 \cup {"checkJobs"}
    BY <1>4 DEF Start, Loop, Recheck, Busy, Idle, Exit, Spawn, Await, Resume, Yield,
       Throw, Catch, Unwind, Handle, Finish, ErrorAssign, JobDeinit, Runs, At
  <2> QED BY <2>1, <2>2 DEF locks
<1> QED BY <1>1, <1>2, <1>3, <1>4 DEF WorkerStep

LEMMA LockControlStep ==
  ASSUME TInv, SleepControl, LockControl, [Next]_vars
  PROVE  LockControl'
<1> USE DEF TInv, LockControl, Threads
<1>1. ASSUME NEW v \in Workers, WorkerStep(v) PROVE LockControl'
  <2>1. lock1' # NoThread => lock1' = Main /\ pc'[Main] = "deinitSignal"
    BY <1>1, WorkerLocks, WorkerLeavesOthers
  <2>2. lock2' # NoThread => pc'[lock2'] \in HoldingLock2
    <3>1. CASE lock2' = v
      BY <1>1, <3>1, WorkerHolds
    <3>2. CASE lock2' = lock2 /\ lock2 \in Threads /\ lock2 # v
      BY <1>1, <3>2, WorkerLeavesOthers DEF HoldingLock2
    <3> QED BY <1>1, <3>1, <3>2, WorkerHolds DEF SyncTypes
  <2>3. lock3' # NoThread => lock3' \in Workers /\ pc'[lock3'] = "checkJobs"
    <3>1. CASE lock3' = v
      BY <1>1, <3>1, WorkerHolds
    <3>2. CASE lock3' = lock3 /\ lock3 \in Workers /\ lock3 # v
      BY <1>1, <3>2, WorkerLeavesOthers
    <3> QED BY <1>1, <3>1, <3>2, WorkerHolds
  <2> QED BY <2>1, <2>2, <2>3 DEF HoldingLock2
<1>2. CASE MainStep
  <2>1. lock3' # NoThread => lock3' \in Workers /\ pc'[lock3'] = "checkJobs"
    BY <1>2, MainLocks, MainLeavesWorkers
  <2>2. lock2 \in Workers => pc'[lock2] \in HoldingLock2
    BY <1>2, MainLeavesWorkers DEF HoldingLock2
  <2>3. CASE \/ InitWait \/ MainAdd \/ MainFails \/ MainEnd \/ Wait \/ Deinit \/ Drain
             \/ Join \/ \E w \in Workers : CreateThread(w)
    <3>1. UNCHANGED locks
      BY <2>3 DEF InitWait, MainAdd, MainFails, MainThrow, MainNotice, MainCatch,
         MainUncaught, MainEnd, Wait, Deinit, Drain, Join, CreateThread
    <3>2. pc[Main] \notin HoldingLock2 \cup {"deinitSignal"}
      BY <2>3 DEF InitWait, MainAdd, MainFails, MainThrow, MainNotice, MainCatch,
         MainUncaught, MainEnd, Wait, Deinit, Drain, Join, CreateThread, At,
         HoldingLock2
    <3> QED BY <2>1, <2>2, <3>1, <3>2 DEF locks, HoldingLock2, SyncTypes
  <2>4. CASE Insert(Main) \/ InsertSignal(Main)
    BY <2>1, <2>2, <2>4, GotoMoves DEF Insert, InsertSignal, At, HoldingLock2
  <2>5. CASE DeinitCheck \/ DeinitSignal
    BY <2>1, <2>2, <2>5, GotoMoves DEF DeinitCheck, DeinitSignal, At, HoldingLock2,
       SyncTypes
  <2> QED BY <1>2, <2>3, <2>4, <2>5 DEF MainStep
<1>3. CASE UNCHANGED vars \/ \E t \in Threads : SpuriousWakeup(t)
  BY <1>3 DEF SpuriousWakeup, vars, locks
<1> QED BY <1>1, <1>2, <1>3 DEF Next, Terminated

(* A worker that takes a step has been created, and leaves its loop only   *)
(* when the pool is no longer active.                                      *)
LEMMA WorkerLeaves ==
  ASSUME TInv, NEW w \in Workers, WorkerStep(w)
  PROVE  /\ pc[w] # "unborn" /\ pc'[w] \notin {"unborn", "start"}
         /\ pc'[w] \in {"exit", "dead"} => ~active \/ pc[w] = "exit"
         /\ pc[w] = "start" => Start(w)
<1> USE DEF TInv
<1>1. CASE Loop(w) \/ Recheck(w) \/ Exit(w) \/ Start(w)
  BY <1>1, GotoMoves DEF Loop, Recheck, Exit, Start, At, Threads
<1>2. CASE \/ CheckActive(w) \/ CheckJobs(w) \/ Busy(w) \/ Get(w) \/ GetSignal(w)
           \/ Idle(w) \/ Insert(w) \/ InsertSignal(w)
  <2>1. \E q : q \notin {"unborn", "start", "exit", "dead"} /\ Goto(w, q)
    <3>1. InsertSignal(w) => ret[w] \in {"run", "idle", "jobDeinit"}
      BY DEF InsertSignal, At, Control, WorkerControl, Returning
    <3> QED BY <1>2, <3>1 DEF CheckActive, CheckJobs, Busy, Get, GetSignal, Idle,
               Insert, InsertSignal
  <2>2. pc[w] \notin {"unborn", "start"}
    BY <1>2 DEF CheckActive, CheckJobs, Busy, Get, GetSignal, Idle, Insert,
       InsertSignal, At
  <2> QED BY <2>1, <2>2, GotoMoves DEF Threads
<1>3. CASE \/ Spawn(w) \/ Await(w) \/ Resume(w) \/ Yield(w) \/ Throw(w) \/ Catch(w)
           \/ Unwind(w) \/ Handle(w) \/ Finish(w) \/ ErrorAssign(w) \/ JobDeinit(w)
  <2>1. pc[w] \in {"run", "errorAssign", "jobDeinit"}
    BY <1>3 DEF Spawn, Await, Resume, Yield, Throw, Catch, Unwind, Handle, Finish,
       ErrorAssign, JobDeinit, Runs, At
  <2>2. \/ \E q : q \notin {"unborn", "start", "exit", "dead"} /\ Goto(w, q)
        \/ UNCHANGED pc
    BY <1>3 DEF Spawn, Await, Resume, Yield, Throw, Catch, Unwind, Handle, Finish,
       ErrorAssign, JobDeinit, Requeue, Request
  <2> QED BY <2>1, <2>2, GotoMoves DEF Threads
<1> QED BY <1>1, <1>2, <1>3 DEF WorkerStep

(* What main does to the creation of the workers and to active. *)
LEMMA MainCreates ==
  ASSUME TInv, MainStep
  PROVE  /\ \/ /\ pc[Main] # "create" /\ pc'[Main] # "create"
               /\ \A w \in Workers : pc'[w] = pc[w]
            \/ /\ pc'[Main] = "create" <=> \E w \in Workers : pc'[w] = "unborn"
               /\ pc[Main] = "create" /\ pc'[Main] \in {"create", "initWait"}
         /\ active' = active \/ Deinit
<1> USE DEF TInv, Threads
<1>1. CASE \/ InitWait \/ MainAdd \/ MainFails \/ MainEnd \/ Wait \/ Deinit
           \/ DeinitCheck \/ DeinitSignal \/ Drain \/ Join
           \/ Insert(Main) \/ InsertSignal(Main)
  <2>1. UNCHANGED pc \/ \E q : q # "create" /\ Goto(Main, q)
    <3>1. InsertSignal(Main) => ret[Main] = "add"
      BY DEF InsertSignal, At, Control, MainControl, Returning
    <3> QED BY <1>1, <3>1 DEF InitWait, MainAdd, Request, MainFails, MainThrow,
               MainNotice, MainCatch, MainUncaught, MainEnd, Wait, Deinit,
               DeinitCheck, DeinitSignal, Drain, Join, Insert, InsertSignal
  <2>2. pc[Main] # "create" /\ (active' = active \/ Deinit)
    BY <1>1 DEF InitWait, MainAdd, MainFails, MainThrow, MainNotice, MainCatch,
       MainUncaught, MainEnd, Wait, Deinit, DeinitCheck, DeinitSignal, Drain, Join,
       Insert, InsertSignal, At, counters
  <2> QED BY <2>1, <2>2, GotoMoves
<1>2. ASSUME NEW v \in Workers, CreateThread(v)
      PROVE  /\ pc'[Main] = "create" <=> \E w \in Workers : pc'[w] = "unborn"
             /\ pc[Main] = "create" /\ pc'[Main] \in {"create", "initWait"}
             /\ active' = active
  <2>1. /\ pc[Main] = "create"
        /\ pc'[Main] = IF \E w \in Workers \ {v} : pc[w] = "unborn"
                       THEN "create" ELSE "initWait"
        /\ \A w \in Workers : pc'[w] = IF w = v THEN "start" ELSE pc[w]
    BY <1>2 DEF CreateThread, At, Control, ThreadTypes
  <2>2. active' = active
    BY <1>2 DEF CreateThread, counters
  <2>3. (\E w \in Workers : pc'[w] = "unborn") <=> \E w \in Workers \ {v} : pc[w] = "unborn"
    BY <2>1
  <2>4. pc'[Main] = "create" <=> \E w \in Workers : pc'[w] = "unborn"
    BY <2>1, <2>3
  <2>5. pc'[Main] \in {"create", "initWait"}
    BY <2>1
  <2> QED BY <2>1, <2>2, <2>4, <2>5
<1>3. CASE \E v \in Workers : CreateThread(v)
  BY <1>2, <1>3
<1> QED BY <1>1, <1>3 DEF MainStep

LEMMA LeavesWhenInactiveStep ==
  ASSUME TInv, LeavesWhenInactive, [Next]_vars
  PROVE  LeavesWhenInactive'
<1> USE DEF TInv, LeavesWhenInactive, Threads
<1>1. ASSUME NEW v \in Workers, WorkerStep(v) PROVE LeavesWhenInactive'
  <2>1. pc'[Main] = pc[Main] /\ active' = active
    BY <1>1, WorkerLeavesOthers DEF WorkerStep, Start, Loop, CheckActive, CheckJobs,
       Recheck, Busy, Get, GetSignal, Idle, Exit, Insert, InsertSignal, Spawn, Await,
       Resume, Yield, Throw, Catch, Unwind, Handle, Finish, ErrorAssign, JobDeinit,
       counters
  <2>2. ASSUME active, NEW w \in Workers PROVE pc'[w] \notin {"exit", "dead"}
    BY <1>1, <2>2, WorkerLeaves, WorkerLeavesOthers
  <2> QED BY <2>1, <2>2
<1>2. CASE MainStep
  <2>1. Deinit => pc'[Main] \in ReturnedPC \ {"deinit"} /\ active' = FALSE
    BY GotoMoves DEF Deinit, ReturnedPC
  <2>2. pc'[Main] \notin ReturnedPC \ {"deinit"} =>
          pc[Main] \notin ReturnedPC \ {"deinit"}
    <3>1. CASE DeinitCheck \/ DeinitSignal \/ Drain \/ Join
      BY <3>1, GotoMoves DEF DeinitCheck, DeinitSignal, Drain, Join, ReturnedPC, At
    <3>2. CASE \/ InitWait \/ MainAdd \/ MainFails \/ MainEnd \/ Wait \/ Deinit
               \/ Insert(Main) \/ InsertSignal(Main)
               \/ \E w \in Workers : CreateThread(w)
      BY <3>2 DEF InitWait, MainAdd, MainFails, MainThrow, MainNotice, MainCatch,
         MainUncaught, MainEnd, Wait, Deinit, Insert, InsertSignal, CreateThread,
         At, ReturnedPC
    <3> QED BY <1>2, <3>1, <3>2 DEF MainStep
  <2>3. \A w \in Workers : pc'[w] \in {"exit", "dead"} => pc[w] \in {"exit", "dead"}
    BY <1>2, MainLeavesWorkers
  <2> QED BY <1>2, <2>1, <2>2, <2>3, MainCreates
<1>3. CASE UNCHANGED vars \/ \E t \in Threads : SpuriousWakeup(t)
  BY <1>3 DEF SpuriousWakeup, vars, counters
<1> QED BY <1>1, <1>2, <1>3 DEF Next, Terminated

LEMMA CreatesAllStep ==
  ASSUME TInv, CreatesAll, [Next]_vars
  PROVE  CreatesAll'
<1> USE DEF CreatesAll
<1>1. ASSUME NEW v \in Workers, WorkerStep(v) PROVE CreatesAll'
  <2>1. \A w \in Workers : pc'[w] = "unborn" <=> pc[w] = "unborn"
    BY <1>1, WorkerLeaves, WorkerLeavesOthers DEF Threads
  <2>2. pc'[Main] = pc[Main]
    BY <1>1, WorkerLeavesOthers DEF Threads
  <2> QED BY <2>1, <2>2
<1>2. CASE MainStep
  BY <1>2, MainCreates
<1>3. CASE UNCHANGED vars \/ \E t \in Threads : SpuriousWakeup(t)
  BY <1>3 DEF SpuriousWakeup, vars
<1> QED BY <1>1, <1>2, <1>3 DEF Next, Terminated

LEMMA InitWokenStep ==
  ASSUME TInv, TInv', SleepControl, LeavesWhenInactive, CreatesAll, InitWoken,
         [Next]_vars
  PROVE  InitWoken'
<1> USE DEF Threads
<1> SUFFICES ASSUME pc'[Main] = "initWait", Main \in cond1'
             PROVE  \E w \in Workers : pc'[w] = "start"
  BY DEF InitWoken, At
<1>1. ASSUME NEW v \in Workers, WorkerStep(v)
      PROVE  \E w \in Workers : pc'[w] = "start"
  <2>1. PICK w \in Workers : pc[w] = "start"
    BY <1>1, WorkerLeavesOthers, WorkerSleeps DEF InitWoken, At
  <2>2. ~ Start(v)
    BY DEF Start, Signalled, TInv, SyncTypes
  <2> QED BY <1>1, <2>1, <2>2, WorkerLeaves, WorkerLeavesOthers
<1>2. CASE MainStep
  <2>1. InitWait /\ alive # Cardinality(Workers) /\ UNCHANGED pc
    <3>1. Wait \/ DeinitSignal => pc'[Main] # "initWait"
      BY GotoMoves DEF Wait, DeinitSignal, At
    <3>2. Main \notin cond1
      BY <1>2, SleeperStays
    <3>3. InitWait
      BY <1>2, <3>1, <3>2, MainLocks
    <3> QED BY <3>2, <3>3 DEF InitWait
  <2>2. pc[Main] = "initWait"
    BY <2>1
  <2>3. \A w \in Workers : pc[w] \notin {"unborn", "dead"}
    BY <2>2 DEF CreatesAll, LeavesWhenInactive, ReturnedPC
  <2>4. AliveWorkers # Workers
    BY <2>1 DEF TInv, Counted
  <2>5. \E w \in Workers : pc[w] = "start"
    BY <2>3, <2>4 DEF AliveWorkers
  <2> QED BY <2>1, <2>5
<1>3. ASSUME NEW t \in Threads, SpuriousWakeup(t)
      PROVE  \E w \in Workers : pc'[w] = "start"
  BY <1>3 DEF SpuriousWakeup, InitWoken, At
<1>4. CASE UNCHANGED vars
  BY <1>4 DEF vars, conds, InitWoken, At
<1> QED BY <1>1, <1>2, <1>3, <1>4 DEF Next, Terminated

-----------------------------------------------------------------------------
LEMMA InitWake == Init => WakeInv /\ LockInv
<1> SUFFICES ASSUME Init PROVE WakeInv /\ LockInv
  OBVIOUS
<1>1. WakeInv
  BY DEF Init, WakeInv, SleepControl, NoneFallsAsleep, NobodyOverslept, InitWoken,
     WorkersWoken, WaitWoken, ShutdownWoken, At, ReturnedPC, Threads
<1>2. LockInv
  BY DEF Init, LockInv, LockControl, LeavesWhenInactive, CreatesAll, Threads
<1> QED BY <1>1, <1>2

LEMMA WakeStep == Core /\ WakeInv /\ LockInv /\ [Next]_vars => WakeInv' /\ LockInv'
<1> SUFFICES ASSUME Core, WakeInv, LockInv, [Next]_vars PROVE WakeInv' /\ LockInv'
  OBVIOUS
<1>1. TInv /\ TInv'
  BY CoreStep DEF Core
<1>2. SleepControl' /\ NoneFallsAsleep'
  BY <1>1, SleepControlStep, NoneFallsAsleepStep DEF WakeInv
<1>3. WorkersWoken' /\ WaitWoken' /\ ShutdownWoken' /\ InitWoken'
  BY <1>1, WorkersWokenStep, WaitWokenStep, ShutdownWokenStep, InitWokenStep
     DEF WakeInv, NobodyOverslept, LockInv
<1>4. LockInv'
  BY <1>1, LockControlStep, LeavesWhenInactiveStep, CreatesAllStep DEF LockInv, WakeInv
<1> QED BY <1>2, <1>3, <1>4 DEF WakeInv, NobodyOverslept

-----------------------------------------------------------------------------
(* No error is lost.  Which jobs are over depends on the workers that hand *)
(* a result on; most steps change neither that nor the errors.             *)

(* What has reached the program never leaves its histories. *)
StillReached == \A e \in Errors : Reached(e) => Reached(e)'

LEMMA ReachedStays ==
  ASSUME TInv, [Next]_vars
  PROVE  StillReached
<1> USE DEF StillReached, Reached, Errors
<1>1. CASE MainFails
  BY <1>1 DEF MainFails, MainThrow, MainNotice, MainCatch, MainUncaught, Hides,
     jobVars, MainError, Jobs
<1>2. ASSUME NEW w \in Workers, ErrorAssign(w) PROVE StillReached
  BY <1>2 DEF ErrorAssign, Hides, MainError, Jobs
<1>3. CASE ~ MainFails /\ \A w \in Workers : ~ ErrorAssign(w)
  <2>1. UNCHANGED <<err_state, hidden, mainCaught>>
    BY <1>3 DEF Next, MainStep, CreateThread, InitWait, MainAdd, MainEnd,
       Insert, InsertSignal, Wait, Deinit, DeinitCheck, DeinitSignal, Drain, Join,
       WorkerStep, Start, Loop, CheckActive, CheckJobs, Recheck, Busy, Get,
       GetSignal, Idle, Exit, Spawn, Await, Resume, Yield, Throw, Catch, Unwind,
       Handle, Finish, JobDeinit, SpuriousWakeup, Terminated, vars, jobVars
  <2> QED BY <2>1
<1> QED BY <1>1, <1>2, <1>3

LEMMA SameErrors ==
  ASSUME TInv, ErrorsKept, StillReached,
         UNCHANGED <<heap, parent, step, errState, caught>>,
         \A j \in Jobs : HandsOver(j)' <=> HandsOver(j)
  PROVE  ErrorsKept'
<1>1. \A j \in Jobs : (Over(j)' <=> Over(j)) /\ (Awaited(j)' <=> Awaited(j))
  BY DEF Over, Awaited, HandsOver
<1>2. \A e : Carried(e) => Carried(e)'
  BY <1>1 DEF Carried
<1>3. \A j \in Jobs : Clean(j) => Clean(j)'
  BY DEF Clean, StillReached, TInv, JobTypes
<1>4. RunsClean' /\ AwaitsClean'
  BY <1>1, <1>3, PlaceTypes DEF ErrorsKept, RunsClean, AwaitsClean, Awaited, NoJob
<1>5. LeavesItsError'
  BY <1>1, <1>2 DEF ErrorsKept, LeavesItsError, StillReached, TInv, JobTypes
<1> QED BY <1>4, <1>5 DEF ErrorsKept

(* A worker that has a job is its only one, and no child is awaited by it. *)
LEMMA Holder ==
  ASSUME TInv, Placed, NEW w \in Workers, HasJob(w)
  PROVE  /\ cur[w] \in Jobs /\ heap[cur[w]] = "live"
         /\ \A v \in Workers : cur[v] = cur[w] => v = w
         /\ \A c \in Jobs : Awaited(c) => parent[c] # cur[w]
         /\ HandsOver(cur[w]) <=> Finishing(w)
<1>1. cur[w] \in Jobs
  BY RunningHasJob DEF TInv
<1>2. heap[cur[w]] = "live" /\ In(cur[w], FALSE, {w}, {}, {})
  BY <1>1, InWorker
<1> QED BY <1>1, <1>2 DEF In, Running, Awaiting, HandsOver

LEMMA OthersHandOver ==
  ASSUME TInv, NEW w \in Workers, WorkerStep(w), NEW v \in Workers, v # w
  PROVE  cur'[v] = cur[v] /\ (Finishing(v)' <=> Finishing(v))
<1> USE DEF TInv, Control, ThreadTypes
<1>1. ret'[v] = ret[v]
  <2>1. CASE \/ Resume(w) \/ Finish(w) \/ Get(w) \/ CheckActive(w) \/ CheckJobs(w)
    BY <2>1 DEF Resume, Finish, Get, CheckActive, CheckJobs, Requeue, Leave, Request,
       threadVars, Threads
  <2>2. CASE \/ Start(w) \/ Loop(w) \/ Recheck(w) \/ Busy(w) \/ GetSignal(w)
             \/ Idle(w) \/ Exit(w) \/ Insert(w) \/ InsertSignal(w) \/ Spawn(w)
    BY <2>2 DEF Start, Loop, Recheck, Busy, GetSignal, Idle, Exit, Insert,
       InsertSignal, Spawn, Request, threadVars, Threads
  <2>3. CASE \/ Await(w) \/ Yield(w) \/ Throw(w) \/ Catch(w) \/ Unwind(w)
             \/ Handle(w) \/ ErrorAssign(w) \/ JobDeinit(w)
    BY <2>3 DEF Await, Yield, Throw, Catch, Unwind, Handle, ErrorAssign, JobDeinit,
       Requeue, Leave, Request, threadVars, Threads
  <2> QED BY <2>1, <2>2, <2>3 DEF WorkerStep
<1> QED BY <1>1, WorkerLeavesOthers DEF Finishing, At, Threads

(* A worker that neither was nor gets at handing a result on. *)
LEMMA NothingHandedOver ==
  ASSUME TInv, NEW w \in Workers, WorkerStep(w), ~ Finishing(w),
         cur'[w] \in Jobs => ~ Finishing(w)'
  PROVE  \A j \in Jobs : HandsOver(j)' <=> HandsOver(j)
BY OthersHandOver DEF HandsOver

(* A new job starts with no error but one that has reached the program; an *)
(* awaiting caller has no other either.                                    *)
LEMMA AllocErrors ==
  ASSUME TInv, Placed, ErrorsKept, StillReached, NEW p, NEW c \in Jobs,
         NEW e \in Errors \cup {NoError}, e # NoError => Reached(e),
         c = count + 1, Alloc(p, e), caught' = caught,
         \/ p = NoJob /\ UNCHANGED step
         \/ /\ p \in Jobs /\ p # c /\ heap[p] = "live" /\ Clean(p)
            /\ step' = [step EXCEPT ![p] = "resume"],
         \A j \in Jobs : HandsOver(j)' <=> HandsOver(j)
  PROVE  ErrorsKept'
<1>1. /\ heap[c] = "unused" /\ parent[c] = NoJob
      /\ In(c, FALSE, {}, {}, {})
      /\ \A j \in Jobs : /\ heap'[j] = IF j = c THEN "live" ELSE heap[j]
                         /\ parent'[j] = IF j = c THEN p ELSE parent[j]
                         /\ errState'[j] = IF j = c THEN e ELSE errState[j]
                         /\ step'[j] = IF j = p THEN "resume" ELSE step[j]
  <2>1. /\ heap[c] = "unused" /\ parent[c] = NoJob
        /\ In(c, FALSE, {}, {}, {})
    BY Fresh DEF Alloc
  <2>2. ASSUME NEW j \in Jobs
        PROVE  /\ heap'[j] = IF j = c THEN "live" ELSE heap[j]
               /\ parent'[j] = IF j = c THEN p ELSE parent[j]
               /\ errState'[j] = IF j = c THEN e ELSE errState[j]
    BY DEF Alloc, TInv, JobTypes
  <2>3. ASSUME NEW j \in Jobs PROVE step'[j] = IF j = p THEN "resume" ELSE step[j]
    BY PlaceTypes DEF TInv, JobTypes
  <2> QED BY <2>1, <2>2, <2>3
<1>2. ~ HandsOver(c)
  BY <1>1 DEF HandsOver, In, Running
<1>3. \A j \in Jobs : Over(j)' <=> Over(j)
  BY <1>1 DEF Over
<1>4. \A x : Carried(x) => Carried(x)'
  BY <1>1, <1>3 DEF Carried
<1>5. \A j \in Jobs : Clean(j) \/ j = c => Clean(j)'
  BY <1>1 DEF Clean, StillReached, TInv, JobTypes
<1>6. RunsClean'
  BY <1>1, <1>5 DEF ErrorsKept, RunsClean
<1>7. AwaitsClean'
  <2>1. ASSUME NEW b \in Jobs, Awaited(b)', NEW q, parent'[b] = q
        PROVE  step'[q] = "resume" /\ Clean(q)'
    <3>1. CASE b = c
      BY <1>1, <1>5, <2>1, <3>1 DEF Awaited
    <3>2. CASE b # c
      <4>1. Awaited(b) /\ parent[b] = q
        BY <1>1, <2>1, <3>2 DEF Awaited, HandsOver
      <4>2. q \in Jobs /\ q # c
        BY <1>1, <4>1, PlaceTypes DEF In, Awaiting
      <4>3. step[q] = "resume" /\ Clean(q)
        BY <4>1 DEF ErrorsKept, AwaitsClean
      <4> QED BY <1>1, <1>5, <4>2, <4>3
    <3> QED BY <3>1, <3>2
  <2> QED BY <2>1 DEF AwaitsClean, Clean
<1>8. LeavesItsError'
  <2>1. ASSUME NEW j \in Jobs, Over(j), NEW x, x = errState'[j], x # NoError
        PROVE  Carried(x)' \/ Reached(x)'
    <3>1. j # c
      BY <1>1, <1>2, <2>1 DEF Over
    <3>2. x = errState[j] /\ x \in Errors
      BY <1>1, <2>1, <3>1 DEF TInv, JobTypes
    <3>3. Carried(x) \/ Reached(x)
      BY <2>1, <3>2 DEF ErrorsKept, LeavesItsError
    <3> QED BY <1>4, <3>2, <3>3 DEF StillReached
  <2> QED BY <1>3, <2>1 DEF LeavesItsError, Carried, Reached
<1> QED BY <1>6, <1>7, <1>8 DEF ErrorsKept

(* The running job changes its step, its error, and what was caught. *)
LEMMA RunnerErrors ==
  ASSUME TInv, Placed, ErrorsKept, StillReached, NEW w \in Workers, At(w, "run"),
         NEW j \in Jobs, j = cur[w], NEW s, NEW e \in Errors \cup {NoError},
         UNCHANGED <<heap, parent>>,
         step' = [step EXCEPT ![j] = s], errState' = [errState EXCEPT ![j] = e],
         s = "run" /\ e # NoError => Reached(e),
         \A x \in caught \ caught' : x = e,
         errState[j] \in caught' \/ errState[j] = e \/ Clean(j),
         \A i \in Jobs : HandsOver(i)' <=> HandsOver(i)
  PROVE  ErrorsKept'
<1>1. \A i \in Jobs : /\ step'[i] = IF i = j THEN s ELSE step[i]
                      /\ errState'[i] = IF i = j THEN e ELSE errState[i]
  BY DEF TInv, JobTypes
<1>2. /\ heap[j] = "live" /\ ~ HandsOver(j)
      /\ \A c \in Jobs : Awaited(c) => parent[c] # j
  BY Holder DEF HasJob, Finishing, At
<1>3. \A i \in Jobs : (Over(i)' <=> Over(i)) /\ (Awaited(i)' <=> Awaited(i))
  BY DEF Over, Awaited, HandsOver
<1>4. ~ Over(j)
  BY <1>2 DEF Over
<1>5. \A i \in Jobs : i # j /\ Clean(i) => Clean(i)'
  BY <1>1 DEF Clean, StillReached, TInv, JobTypes
<1>6. RunsClean'
  <2>1. s = "run" => Clean(j)'
    BY <1>1 DEF Clean, StillReached
  <2> QED BY <1>1, <1>5, <2>1 DEF ErrorsKept, RunsClean
<1>7. AwaitsClean'
  BY <1>1, <1>2, <1>3, <1>5, PlaceTypes DEF ErrorsKept, AwaitsClean
<1>8. ASSUME NEW x \in Errors, Carried(x) PROVE Carried(x)' \/ Reached(x)'
  <2>1. x = e => Carried(x)'
    BY <1>1, <1>2, <1>3, <1>4 DEF Carried
  <2>2. CASE x = errState[j]
    <3>1. Clean(j) => Reached(x)'
      BY <2>2 DEF Clean, StillReached, Errors, MainError, NoError, Jobs
    <3> QED BY <2>1, <2>2, <3>1 DEF Carried
  <2>3. CASE x \in caught
    BY <2>1, <2>3 DEF Carried
  <2>4. CASE \E p \in Jobs : p # j /\ heap[p] = "live" /\ ~ Over(p) /\ errState[p] = x
    BY <1>1, <1>3, <2>4 DEF Carried
  <2> QED BY <1>8, <2>2, <2>3, <2>4 DEF Carried
<1>9. LeavesItsError'
  <2>1. ASSUME NEW i \in Jobs, Over(i), NEW x, x = errState'[i], x # NoError
        PROVE  Carried(x)' \/ Reached(x)'
    <3>1. x = errState[i] /\ x \in Errors
      BY <1>1, <1>4, <2>1 DEF TInv, JobTypes
    <3>2. Carried(x) \/ Reached(x)
      BY <2>1, <3>1 DEF ErrorsKept, LeavesItsError
    <3> QED BY <1>8, <3>1, <3>2 DEF StillReached
  <2> QED BY <1>3, <2>1 DEF LeavesItsError, Carried, Reached
<1> QED BY <1>6, <1>7, <1>9 DEF ErrorsKept

(* A job that ends leaves its error to the one that awaits it ...          *)
LEMMA FinishErrors ==
  ASSUME TInv, Placed, ErrorsKept, StillReached, NEW w \in Workers, Finish(w),
         parent[cur[w]] # NoJob
  PROVE  ErrorsKept'
<1>1. PICK j \in Jobs : j = cur[w] /\ pc[w] = "run"
  BY RunningHasJob DEF TInv, Finish, Runs, At, HasJob
<1>2. /\ heap[j] = "live" /\ ~ HandsOver(j)
      /\ \A v \in Workers : cur[v] = j <=> v = w
      /\ Awaited(j)
  BY <1>1, Holder DEF HasJob, Finishing, At, Awaited, HandsOver
<1>3. PICK p \in Jobs : p = parent[j]
  BY <1>2, PlaceTypes
<1>4. /\ heap[p] = "live" /\ ~ HandsOver(p) /\ p # j
      /\ \A c \in Jobs : Awaited(c) /\ parent[c] = p <=> c = j
  BY <1>2, <1>3, InAwait DEF In, Running, Awaiting, HandsOver, Placed, ChildIsYounger,
     Jobs, NoJob
<1>5. step[p] = "resume" /\ Clean(p)
  BY <1>2, <1>3 DEF ErrorsKept, AwaitsClean
<1>6. /\ UNCHANGED <<cur, heap, parent, step, caught>>
      /\ Finishing(w)'
      /\ \A i \in Jobs : errState'[i] = IF i = p /\ errState[j] # NoError
                                        THEN errState[j] ELSE errState[i]
  <2>1. UNCHANGED <<cur, heap, parent, step, caught>> /\ Request(w, p, "jobDeinit")
    BY <1>1, <1>3 DEF Finish, Caller
  <2>2. Finishing(w)'
    BY <2>1 DEF Request, Goto, Finishing, At, TInv, Control, ThreadTypes, Threads
  <2>3. ASSUME NEW i \in Jobs
        PROVE  errState'[i] = IF i = p /\ errState[j] # NoError
                              THEN errState[j] ELSE errState[i]
    BY <1>1, <1>3 DEF Finish, Caller, ErrorToParent, TInv, JobTypes
  <2> QED BY <2>1, <2>2, <2>3
<1>7. \A i \in Jobs : HandsOver(i)' <=> HandsOver(i) \/ i = j
  <2>1. WorkerStep(w)
    BY DEF WorkerStep
  <2> QED BY <1>1, <1>2, <1>6, <2>1, OthersHandOver DEF HandsOver
<1>8. \A i \in Jobs : /\ Over(i)' <=> Over(i) \/ i = j
                      /\ Awaited(i)' <=> Awaited(i) /\ i # j
  BY <1>2, <1>6, <1>7 DEF Over, Awaited, HandsOver
<1>9. ~ Over(p) /\ ~ Over(p)'
  BY <1>4, <1>8 DEF Over
<1>10. \A i \in Jobs : i # p /\ Clean(i) => Clean(i)'
  BY <1>6 DEF Clean, StillReached, TInv, JobTypes
<1>11. RunsClean'
  BY <1>5, <1>6, <1>10 DEF ErrorsKept, RunsClean
<1>12. AwaitsClean'
  <2>1. \A c \in Jobs : Awaited(c)' => parent[c] \in Jobs \ {p}
    BY <1>4, <1>8, PlaceTypes DEF Awaited
  <2> QED BY <1>6, <1>8, <1>10, <2>1 DEF ErrorsKept, AwaitsClean
<1>13. ASSUME NEW x \in Errors, Carried(x) \/ x = errState[j]
       PROVE  Carried(x)' \/ Reached(x)'
  <2> USE DEF Errors, MainError, NoError, Jobs
  <2>1. x = errState[j] => Carried(x)'
    BY <1>4, <1>6, <1>9 DEF Carried
  <2>2. CASE x \in caught
    BY <1>6, <2>2 DEF Carried
  <2>3. CASE x = errState[p]
    BY <1>5, <2>3 DEF Clean, StillReached
  <2>4. CASE \E q \in Jobs \ {j, p} : heap[q] = "live" /\ ~ Over(q) /\ errState[q] = x
    BY <1>6, <1>8, <2>4 DEF Carried
  <2> QED BY <1>13, <2>1, <2>2, <2>3, <2>4 DEF Carried
<1>14. LeavesItsError'
  <2>1. ASSUME NEW i \in Jobs, Over(i)', NEW x, x = errState'[i], x # NoError
        PROVE  Carried(x)' \/ Reached(x)'
    <3>1. (Over(i) \/ i = j) /\ i # p
      BY <1>8, <1>9, <2>1
    <3>2. x = errState[i] /\ x \in Errors
      BY <1>6, <2>1, <3>1 DEF TInv, JobTypes
    <3>3. Over(i) => Carried(x) \/ Reached(x)
      BY <2>1, <3>2 DEF ErrorsKept, LeavesItsError
    <3> QED BY <1>13, <3>1, <3>2, <3>3 DEF StillReached
  <2> QED BY <2>1 DEF LeavesItsError, Carried, Reached
<1> QED BY <1>11, <1>12, <1>14 DEF ErrorsKept

(* A job is over whose error, if it has one, has reached the program.       *)
LEMMA OverErrors ==
  ASSUME TInv, ErrorsKept, StillReached, NEW j \in Jobs,
         UNCHANGED <<heap, parent, step, errState, caught>>,
         errState[j] # NoError => Reached(errState[j])',
         \A i \in Jobs : (Over(i)' <=> Over(i) \/ i = j) /\ (Awaited(i)' => Awaited(i)),
         \A x \in Errors : Carried(x) => Carried(x)' \/ Reached(x)'
  PROVE  ErrorsKept'
<1>1. \A i \in Jobs : Clean(i) => Clean(i)'
  BY DEF Clean, StillReached, TInv, JobTypes
<1>2. RunsClean' /\ AwaitsClean'
  BY <1>1, PlaceTypes DEF ErrorsKept, RunsClean, AwaitsClean, Awaited
<1>3. LeavesItsError'
  <2> SUFFICES ASSUME NEW i \in Jobs, Over(i), errState[i] # NoError
               PROVE  Carried(errState[i])' \/ Reached(errState[i])'
    BY DEF LeavesItsError
  <2>1. errState[i] \in Errors
    BY DEF TInv, JobTypes
  <2> QED BY <2>1 DEF ErrorsKept, LeavesItsError, StillReached
<1> QED BY <1>2, <1>3 DEF ErrorsKept

(* ... or goes to threadpool_worker's errorAssign with it, or has none.    *)
LEMMA EndErrors ==
  ASSUME TInv, Placed, ErrorsKept, StillReached, NEW w \in Workers, Finish(w),
         parent[cur[w]] = NoJob
  PROVE  ErrorsKept'
<1>1. PICK j \in Jobs : j = cur[w] /\ pc[w] = "run"
  BY RunningHasJob DEF TInv, Finish, Runs, At, HasJob
<1>2. /\ heap[j] = "live" /\ ~ HandsOver(j) /\ ~ Finishing(w)
      /\ \A v \in Workers : cur[v] = j <=> v = w
  BY <1>1, Holder DEF HasJob, Finishing, At
<1>3. UNCHANGED <<cur, heap, parent, step, caught, errState>>
  BY <1>1 DEF Finish, Caller
<1>4. WorkerStep(w)
  BY DEF WorkerStep
<1>5. CASE errState[j] # NoError
  <2>1. ~ Finishing(w)'
    BY <1>1, <1>5 DEF Finish, Caller, Goto, Finishing, At, TInv, Control, ThreadTypes,
       Threads
  <2> QED BY <1>2, <1>3, <1>4, <2>1, NothingHandedOver, SameErrors
<1>6. CASE errState[j] = NoError
  <2>1. Finishing(w)'
    BY <1>1, <1>6 DEF Finish, Caller, Goto, Finishing, At, TInv, Control, ThreadTypes,
       Threads
  <2>2. \A i \in Jobs : HandsOver(i)' <=> HandsOver(i) \/ i = j
    BY <1>1, <1>2, <1>3, <1>4, <2>1, OthersHandOver DEF HandsOver
  <2>3. \A i \in Jobs : /\ Over(i)' <=> Over(i) \/ i = j
                        /\ Awaited(i)' => Awaited(i)
    BY <1>3, <2>2 DEF Over, Awaited, HandsOver
  <2>4. ASSUME NEW x \in Errors, Carried(x) PROVE Carried(x)'
    BY <1>3, <1>6, <2>3, <2>4 DEF Carried, Errors, MainError, NoError, Jobs
  <2> QED BY <1>3, <1>6, <2>3, <2>4, OverErrors
<1> QED BY <1>5, <1>6

(* threadpool_error_assign: the error has reached the program. *)
LEMMA AssignErrors ==
  ASSUME TInv, Placed, ErrorsKept, StillReached, NEW w \in Workers, ErrorAssign(w)
  PROVE  ErrorsKept'
<1>1. PICK j \in Jobs : j = cur[w] /\ pc[w] = "errorAssign"
  BY RunningHasJob DEF TInv, ErrorAssign, At, HasJob
<1>2. /\ ~ HandsOver(j) /\ ~ Finishing(w)
      /\ \A v \in Workers : cur[v] = j <=> v = w
  BY <1>1, Holder DEF HasJob, Finishing, At
<1>3. UNCHANGED <<cur, heap, parent, step, caught, errState>> /\ err_state' = errState[j]
  BY <1>1 DEF ErrorAssign, threadVars
<1>4. WorkerStep(w)
  BY DEF WorkerStep
<1>5. Finishing(w)'
  BY DEF ErrorAssign, Goto, Finishing, At, TInv, Control, ThreadTypes, Threads
<1>6. \A i \in Jobs : HandsOver(i)' <=> HandsOver(i) \/ i = j
  BY <1>1, <1>2, <1>3, <1>4, <1>5, OthersHandOver DEF HandsOver
<1>7. \A i \in Jobs : (Over(i)' <=> Over(i) \/ i = j) /\ (Awaited(i)' => Awaited(i))
  BY <1>3, <1>6 DEF Over, Awaited, HandsOver
<1>8. Reached(errState[j])'
  BY <1>3 DEF Reached
<1>9. ASSUME NEW x \in Errors, Carried(x) PROVE Carried(x)' \/ Reached(x)'
  <2>1. CASE x = err_state'
    BY <2>1 DEF Reached
  <2>2. CASE x # errState[j]
    BY <1>3, <1>7, <1>9, <2>2 DEF Carried
  <2> QED BY <1>3, <2>1, <2>2
<1> QED BY <1>3, <1>7, <1>8, <1>9, OverErrors

LEMMA JobDeinitErrors ==
  ASSUME TInv, Placed, ErrorsKept, StillReached, NEW w \in Workers, JobDeinit(w)
  PROVE  ErrorsKept'
<1>1. PICK j \in Jobs : j = cur[w] /\ pc[w] = "jobDeinit"
  BY RunningHasJob DEF TInv, JobDeinit, At, HasJob
<1>2. /\ HandsOver(j) /\ \A v \in Workers : cur[v] = j <=> v = w
      /\ \A c \in Jobs : Awaited(c) => parent[c] # j
  BY <1>1, Holder DEF HasJob, Finishing, At
<1>3. /\ UNCHANGED <<errState, caught>> /\ cur'[w] = NoJob
      /\ \A i \in Jobs : /\ heap'[i] = IF i = j THEN "freed" ELSE heap[i]
                         /\ parent'[i] = IF i = j THEN NoJob ELSE parent[i]
                         /\ step'[i] = IF i = j THEN "run" ELSE step[i]
  BY <1>1 DEF JobDeinit, TInv, Control, ThreadTypes, JobTypes, Threads
<1>4. \A i \in Jobs : HandsOver(i)' <=> HandsOver(i) /\ i # j
  <2>1. WorkerStep(w) /\ NoJob \notin Jobs
    BY PlaceTypes DEF WorkerStep
  <2> QED BY <1>1, <1>2, <1>3, <2>1, OthersHandOver DEF HandsOver
<1>5. \A i \in Jobs : /\ Over(i)' <=> Over(i)
                      /\ Awaited(i)' => Awaited(i) /\ i # j
  BY <1>2, <1>3, <1>4 DEF Over, Awaited, HandsOver
<1>6. \A e : Carried(e) => Carried(e)'
  BY <1>2, <1>3, <1>5 DEF Carried, Over
<1>7. \A i \in Jobs : Clean(i) => Clean(i)'
  BY <1>3 DEF Clean, StillReached, TInv, JobTypes
<1>8. RunsClean'
  BY <1>3, <1>7 DEF ErrorsKept, RunsClean
<1>9. LeavesItsError'
  BY <1>3, <1>5, <1>6 DEF ErrorsKept, LeavesItsError, StillReached, TInv, JobTypes
<1>10. AwaitsClean'
  BY <1>2, <1>3, <1>5, <1>7, PlaceTypes DEF ErrorsKept, AwaitsClean
<1> QED BY <1>8, <1>9, <1>10 DEF ErrorsKept

LEMMA MainHandsNothingOver ==
  ASSUME TInv, MainStep
  PROVE  \A j \in Jobs : HandsOver(j)' <=> HandsOver(j)
<1> SUFFICES ASSUME NEW w \in Workers
             PROVE  cur'[w] = cur[w] /\ (Finishing(w)' <=> Finishing(w))
  BY DEF HandsOver
<1>1. ret'[w] = ret[w]
  BY DEF MainStep, CreateThread, InitWait, MainAdd, MainFails, MainThrow,
     MainNotice, MainCatch, MainUncaught, MainEnd, Insert, InsertSignal, Wait,
     Deinit, DeinitCheck, DeinitSignal, Drain, Join, Request, threadVars, TInv,
     Control, ThreadTypes, Threads
<1> QED BY <1>1, MainLeavesWorkers DEF Finishing, At

(* The steps of threadpool_worker around the job. *)
LEMMA LoopErrors ==
  ASSUME Core, ErrorsKept, StillReached, NEW w \in Workers,
         \/ Start(w) \/ Loop(w) \/ CheckActive(w) \/ CheckJobs(w) \/ Recheck(w)
         \/ Busy(w) \/ Get(w) \/ GetSignal(w) \/ Idle(w) \/ Exit(w)
  PROVE  ErrorsKept'
<1> USE DEF Core
<1>1. UNCHANGED <<heap, parent, step, errState, caught>>
  BY DEF Start, Loop, CheckActive, CheckJobs, Recheck, Busy, Get, GetSignal,
     Idle, Exit, jobVars
<1>2. ~ Finishing(w)
  BY DEF Start, Loop, CheckActive, CheckJobs, Recheck, Busy, Get, GetSignal,
     Idle, Exit, Finishing, At
<1>3. \E q : q \notin {"jobDeinit", "insert", "insertSignal"} /\ Goto(w, q)
  BY DEF Start, Loop, CheckActive, CheckJobs, Recheck, Busy, Get, GetSignal,
     Idle, Exit
<1>4. ~ Finishing(w)'
  BY <1>3, GotoMoves DEF Finishing, At, Threads
<1>5. WorkerStep(w)
  BY DEF WorkerStep
<1> QED BY <1>1, <1>2, <1>4, <1>5, NothingHandedOver, SameErrors

LEMMA InsertErrors ==
  ASSUME Core, ErrorsKept, StillReached, NEW t \in Threads,
         Insert(t) \/ InsertSignal(t)
  PROVE  ErrorsKept'
<1> USE DEF Core
<1>1. UNCHANGED <<cur, heap, parent, step, errState, caught>>
  BY DEF Insert, InsertSignal, threadVars, jobVars
<1>2. ASSUME NEW w \in Workers PROVE Finishing(w)' <=> Finishing(w)
  <2>1. CASE Insert(t)
    BY <2>1, GotoMoves DEF Insert, Finishing, At, threadVars, Threads
  <2>2. CASE InsertSignal(t)
    <3>1. /\ pc[t] = "insertSignal" /\ ret[t] \in {"add", "run", "idle", "jobDeinit"}
          /\ pc' = [pc EXCEPT ![t] = ret[t]] /\ ret' = [ret EXCEPT ![t] = "none"]
      BY <2>2 DEF InsertSignal, At, Goto, TInv, Control, WorkerControl, MainControl,
         Returning, Threads
    <3> QED BY <3>1 DEF Finishing, At, TInv, Control, ThreadTypes, Threads
  <2> QED BY <2>1, <2>2
<1>3. \A j \in Jobs : HandsOver(j)' <=> HandsOver(j)
  BY <1>1, <1>2 DEF HandsOver
<1> QED BY <1>1, <1>3, SameErrors

(* The steps of the job itself. *)
LEMMA RunErrors ==
  ASSUME Core, Placed, ErrorsKept, StillReached, NEW w \in Workers,
         \/ Spawn(w) \/ Await(w) \/ Resume(w) \/ Yield(w) \/ Throw(w) \/ Catch(w)
         \/ Unwind(w) \/ Handle(w)
  PROVE  ErrorsKept'
<1> USE DEF Core
<1>1. PICK j \in Jobs : j = cur[w] /\ At(w, "run")
  BY RunningHasJob DEF TInv, Spawn, Await, Resume, Yield, Throw, Catch, Unwind,
     Handle, Runs, At, HasJob
<1>2. /\ heap[j] = "live" /\ (step[j] = "run" => Clean(j))
      /\ errState[j] \in Errors \cup {NoError} /\ j \in Errors
      /\ Clean(j) => (errState[j] # NoError => Reached(errState[j]))
  BY <1>1, Holder DEF HasJob, At, ErrorsKept, RunsClean, Clean, TInv, JobTypes, Errors,
     MainError, Jobs
<1>3. /\ errState = [errState EXCEPT ![j] = errState[j]]
      /\ step = [step EXCEPT ![j] = step[j]]
  BY DEF TInv, JobTypes
<1>4. \A i \in Jobs : HandsOver(i)' <=> HandsOver(i)
  <2>1. ~ Finishing(w)
    BY <1>1 DEF Finishing, At
  <2>2. cur'[w] \in Jobs => ~ Finishing(w)'
    <3>1. CASE Spawn(w)
      BY <3>1 DEF Spawn, Request, Goto, Finishing, At, TInv, Control, ThreadTypes,
         Threads
    <3>2. CASE Handle(w)
      BY <2>1, <3>2 DEF Handle, Finishing, At, threadVars
    <3>3. CASE Resume(w) /\ errState[j] = NoError
      BY <1>1, <2>1, <3>3 DEF Resume, Finishing, At, threadVars
    <3>4. CASE \/ Await(w) \/ Yield(w) \/ Throw(w) \/ Catch(w) \/ Unwind(w)
               \/ Resume(w) /\ errState[j] # NoError
      <4>1. cur' = [cur EXCEPT ![w] = NoJob]
        BY <1>1, <3>4 DEF Await, Yield, Throw, Catch, Unwind, Resume, Requeue, Leave
      <4> QED BY <4>1, PlaceTypes DEF TInv, Control, ThreadTypes, Threads
    <3> QED BY <3>1, <3>2, <3>3, <3>4
  <2>3. WorkerStep(w)
    BY DEF WorkerStep
  <2> QED BY <2>1, <2>2, <2>3, NothingHandedOver
<1>5. CASE Spawn(w) \/ Await(w)
  <2>1. PICK c \in Jobs : c = count + 1
    BY <1>5, Fresh DEF Spawn, Await, Alloc
  <2>2. Clean(j) /\ c # j
    BY <1>1, <1>2, <1>5, <2>1, Fresh DEF Spawn, Await, Alloc, Runs
  <2>3. CASE Spawn(w)
    BY <1>1, <1>4, <1>2, <2>1, <2>2, <2>3, AllocErrors DEF Spawn, SpawnParent
  <2>4. CASE Await(w)
    BY <1>1, <1>2, <1>4, <2>1, <2>2, <2>4, AllocErrors DEF Await, Leave
  <2> QED BY <1>5, <2>3, <2>4
<1>6. CASE Yield(w) \/ Catch(w) \/ Unwind(w)
  <2>1. PICK s : /\ UNCHANGED <<heap, parent, errState, caught>>
                 /\ step' = [step EXCEPT ![j] = s]
                 /\ s = "run" => Clean(j)
    BY <1>1, <1>2, <1>6 DEF Yield, Catch, Unwind, Requeue, Leave, Runs
  <2>2. errState' = [errState EXCEPT ![j] = errState[j]] /\ caught \ caught' = {}
    BY <1>3, <2>1
  <2> QED BY <1>1, <1>2, <1>4, <2>1, <2>2, RunnerErrors
<1>7. CASE Resume(w)
  <2>1. PICK s : /\ UNCHANGED <<heap, parent, errState, caught>>
                 /\ step' = [step EXCEPT ![j] = s]
                 /\ s = "run" => Clean(j)
    BY <1>1, <1>7 DEF Resume, ErrorStep, Requeue, Leave, Clean
  <2>2. errState' = [errState EXCEPT ![j] = errState[j]] /\ caught \ caught' = {}
    BY <1>3, <2>1
  <2> QED BY <1>1, <1>2, <1>4, <2>1, <2>2, RunnerErrors
<1>8. CASE Throw(w)
  <2>1. /\ UNCHANGED <<heap, parent>> /\ caught' = caught \ {j}
        /\ step' = [step EXCEPT ![j] = "unwind"]
        /\ errState' = [errState EXCEPT ![j] = j]
        /\ Clean(j)
    BY <1>1, <1>2, <1>8 DEF Throw, Requeue, Leave, Runs
  <2>2. caught \ caught' \subseteq {j}
    BY <2>1
  <2>3. PICK e \in Errors : e = j
    BY <1>2
  <2>4. PICK s : s = "unwind"
    OBVIOUS
  <2>5. /\ UNCHANGED <<heap, parent>>
        /\ step' = [step EXCEPT ![j] = s] /\ errState' = [errState EXCEPT ![j] = e]
        /\ s = "run" /\ e # NoError => Reached(e)
        /\ \A x \in caught \ caught' : x = e
        /\ errState[j] \in caught' \/ errState[j] = e \/ Clean(j)
    BY <2>1, <2>2, <2>3, <2>4
  <2> QED BY ONLY TInv, Placed, ErrorsKept, StillReached, <1>1, <1>4, <2>5, RunnerErrors
<1>9. CASE Handle(w)
  <2>1. /\ UNCHANGED <<heap, parent>> /\ caught' = caught \cup {errState[j]}
        /\ step' = [step EXCEPT ![j] = "run"]
        /\ errState' = [errState EXCEPT ![j] = NoError]
    BY <1>1, <1>9 DEF Handle
  <2> QED BY <1>1, <1>2, <1>4, <2>1, RunnerErrors
<1> QED BY <1>5, <1>6, <1>7, <1>8, <1>9

(* Main takes errors from err_state only: what it drops from the queue at  *)
(* the end carries none, for nothing is left when threadpool_wait has      *)
(* returned without an error.                                              *)
LEMMA MainErrors ==
  ASSUME Core, Placed, ErrorsKept, StillReached, MainStep
  PROVE  ErrorInv'
<1> USE DEF Core
<1>1. CASE MainAdd
  <2>1. PICK c \in Jobs : c = count + 1
    BY <1>1, Fresh DEF MainAdd, Alloc
  <2>2. err_state \in Errors \cup {NoError} /\ (err_state # NoError => Reached(err_state))
    BY DEF Reached, TInv, JobTypes
  <2>3. ErrorsKept'
    BY <1>1, <2>1, <2>2, MainHandsNothingOver, AllocErrors DEF MainAdd
  <2> QED BY <2>3 DEF ErrorInv
<1>2. CASE Drain /\ err_state # NoError
  BY <1>2 DEF Drain, Goto, ErrorInv, EndsWithError, Closed, TInv, Control,
     ThreadTypes, Threads
<1>3. CASE Drain /\ err_state = NoError
  <2>1. \A j \in Jobs : heap[j] # "live"
    BY <1>3 DEF Drain, At, QuiescentReturn, ReturnedPC
  <2>2. heap' = heap
    <3>1. \A j \in Jobs : ~ Queued(j)
      BY <2>1, InQueue
    <3> QED BY <1>3, <3>1 DEF Drain, Queued, TInv, JobTypes
  <2>3. ErrorsKept'
    BY <1>3, <2>2, MainHandsNothingOver, SameErrors DEF Drain
  <2> QED BY <2>3 DEF ErrorInv
<1>4. CASE ~ MainAdd /\ ~ Drain
  <2>1. UNCHANGED <<heap, parent, step, errState, caught>>
    BY <1>4 DEF MainStep, CreateThread, InitWait, MainFails, MainThrow, MainNotice,
       MainCatch, MainUncaught, MainEnd, Insert, InsertSignal, Wait, Deinit,
       DeinitCheck, DeinitSignal, Join, jobVars
  <2>2. ErrorsKept'
    BY <2>1, MainHandsNothingOver, SameErrors
  <2> QED BY <2>2 DEF ErrorInv
<1> QED BY <1>1, <1>2, <1>3, <1>4

LEMMA ErrorInvStep ==
  ASSUME Core, ErrorInv, [Next]_vars
  PROVE  ErrorInv'
<1> USE DEF Core
<1>1. StillReached
  BY ReachedStays
<1>2. ASSUME NEW w \in Workers, WorkerStep(w) PROVE ~ Closed
  <2>1. pc[w] # "dead"
    BY <1>2, DeadIsDone
  <2> QED BY <2>1 DEF TInv, AllDead, Closed
<1>3. CASE EndsWithError
  <2>1. Closed' /\ err_state' = err_state
    <3>1. MainStep => Join
      BY <1>3 DEF EndsWithError, Closed, MainStep, CreateThread, InitWait, MainAdd,
         MainFails, MainThrow, MainNotice, MainCatch, MainUncaught, MainEnd, Insert,
         InsertSignal, Wait, Deinit, DeinitCheck, DeinitSignal, Drain, At
    <3>2. Join => Closed' /\ err_state' = err_state
      BY DEF Join, Goto, Closed, TInv, Control, ThreadTypes, Threads
    <3> QED BY <1>2, <1>3, <3>1, <3>2 DEF EndsWithError, Closed, Next,
               SpuriousWakeup, Terminated, vars
  <2> QED BY <1>3, <2>1 DEF EndsWithError, ErrorInv
<1>4. CASE ErrorsKept
  <2>1. ASSUME UNCHANGED <<pc, threadVars, jobVars>> PROVE ErrorsKept'
    BY <1>1, <1>4, <2>1, SameErrors DEF HandsOver, Finishing, At, threadVars, jobVars
  <2>2. CASE UNCHANGED vars \/ \E t \in Threads : SpuriousWakeup(t)
    BY <2>1, <2>2 DEF SpuriousWakeup, vars, ErrorInv
  <2>3. CASE Closed /\ MainStep
    <3>1. Join
      BY <2>3 DEF Closed, MainStep, CreateThread, InitWait, MainAdd, MainFails,
         MainThrow, MainNotice, MainCatch, MainUncaught, MainEnd, Insert,
         InsertSignal, Wait, Deinit, DeinitCheck, DeinitSignal, Drain, Join, At
    <3>2. ErrorsKept'
      BY <1>1, <1>4, <2>3, <3>1, MainHandsNothingOver, SameErrors DEF Join, jobVars
    <3> QED BY <3>2 DEF ErrorInv
  <2>4. CASE Placed /\ MainStep
    BY <1>1, <1>4, <2>4, MainErrors
  <2>5. ASSUME NEW w \in Workers, WorkerStep(w) PROVE ErrorsKept'
    <3>1. Placed
      BY <1>2, <2>5
    <3>2. CASE Finish(w)
      BY <1>1, <1>4, <3>1, <3>2, FinishErrors, EndErrors
    <3>3. CASE \/ Start(w) \/ Loop(w) \/ CheckActive(w) \/ CheckJobs(w) \/ Recheck(w)
               \/ Busy(w) \/ Get(w) \/ GetSignal(w) \/ Idle(w) \/ Exit(w)
      BY <1>1, <1>4, <3>3, LoopErrors
    <3>4. CASE Insert(w) \/ InsertSignal(w) \/ ErrorAssign(w) \/ JobDeinit(w)
      BY <1>1, <1>4, <3>1, <3>4, InsertErrors, AssignErrors, JobDeinitErrors DEF Threads
    <3>5. CASE \/ Spawn(w) \/ Await(w) \/ Resume(w) \/ Yield(w) \/ Throw(w)
               \/ Catch(w) \/ Unwind(w) \/ Handle(w)
      BY <1>1, <1>4, <3>1, <3>5, RunErrors
    <3> QED BY <2>5, <3>2, <3>3, <3>4, <3>5 DEF WorkerStep
  <2> QED BY <2>2, <2>3, <2>4, <2>5 DEF Next, Terminated, ErrorInv
<1> QED BY <1>3, <1>4 DEF ErrorInv

LEMMA InitError == Init => ErrorInv
BY DEF Init, ErrorInv, ErrorsKept, RunsClean, Clean, AwaitsClean, LeavesItsError,
   Over, HandsOver, Awaited

-----------------------------------------------------------------------------
(* The inductive invariant of the pool: what threads, counters and jobs    *)
(* are in for, who wakes whom, and who carries which error.                *)
THEOREM InvariantHolds == Spec => []IInv
<1>1. Init => IInv
  BY InitCore, InitWake, InitError DEF IInv
<1>2. IInv /\ [Next]_vars => IInv'
  BY CoreStep, WakeStep, ErrorInvStep DEF IInv
<1> QED BY <1>1, <1>2, PTL DEF Spec

(* No wakeup is lost, for every number of workers, with spurious wakeups   *)
(* or without: while a job is queued, or main is in threadpool_wait or in  *)
(* threadpool_deinit, somebody is awake who will signal the sleepers.      *)
THEOREM NobodyOversleptHolds == Spec => []NobodyOverslept
<1>1. IInv => NobodyOverslept
  BY DEF IInv, WakeInv
<1> QED BY <1>1, InvariantHolds, PTL

(* No error is lost on its way to the program, for every number of workers *)
(* and calls: the one that a finished call ended with was caught by a      *)
(* handler, is with a job that still lives, or got to err_state (the end   *)
(* of a function in fn-decl.cpp, the check after an await in               *)
(* expr-await.cpp), where only a handler of main() or another error takes  *)
(* it away (node-try.cpp, node-throw.cpp); or the program ends with        *)
(* another error.                                                          *)
THEOREM ErrorAccountedHolds == Spec => []ErrorAccounted
<1>1. IInv => ErrorAccounted
  BY DEF IInv, ErrorInv, EndsWithError, Closed, ErrorsKept, LeavesItsError, Over,
     Carried, ErrorAccounted
<1> QED BY <1>1, InvariantHolds, PTL

-----------------------------------------------------------------------------
(* Who can go.  A thread that holds a lock does not sleep and needs no     *)
(* lock that a thread holds which needs the one it has; when all locks are *)
(* free, everybody who is awake can go.                                    *)
LEMMA LockHolderGoes ==
  ASSUME IInv, lock1 # NoThread \/ lock2 # NoThread \/ lock3 # NoThread
  PROVE  \E t \in Threads : CanGo(t)
<1> USE DEF IInv, Core, TInv, SyncTypes, WakeInv, SleepControl, LockInv, LockControl,
            CanGo, LocksFree, At, Threads
<1>1. CASE lock3 # NoThread
  <2>1. lock3 \in Workers /\ pc[lock3] = "checkJobs" /\ lock3 \notin cond1 \cup cond2
    BY <1>1
  <2> QED BY <2>1
<1>2. CASE lock3 = NoThread /\ lock2 # NoThread
  <2>1. /\ lock2 \in Threads /\ pc[lock2] \in {"insertSignal", "getSignal"}
        /\ lock2 \notin cond1 \cup cond2
    BY <1>2
  <2> QED BY <1>2, <2>1
<1>3. CASE lock3 = NoThread /\ lock2 = NoThread /\ lock1 # NoThread
  <2>1. pc[Main] = "deinitSignal" /\ Main \notin cond1 \cup cond2
    BY <1>3
  <2> QED BY <1>3, <2>1
<1> QED BY <1>1, <1>2, <1>3

LEMMA AwakeGoes ==
  ASSUME IInv, lock1 = NoThread, lock2 = NoThread, lock3 = NoThread
  PROVE  /\ \A w \in Workers : w \notin cond2 /\ pc[w] \notin {"unborn", "dead"} => CanGo(w)
         /\ Main \notin cond1 /\ pc[Main] # "done" => CanGo(Main)
<1> USE DEF IInv, Core, TInv, SyncTypes, CanGo, LocksFree, At, Threads
<1>1. ASSUME NEW w \in Workers, w \notin cond2, pc[w] \notin {"unborn", "dead"}
      PROVE  CanGo(w)
  <2>1. pc[w] \notin {"create", "join", "done"}
    BY DEF Control, ThreadTypes, WorkerPC, BusyPC
  <2>2. w \notin cond1
    OBVIOUS
  <2> QED BY <1>1, <2>1, <2>2
<1>2. ASSUME Main \notin cond1, pc[Main] # "done" PROVE CanGo(Main)
  <2>1. Main \notin cond2 /\ pc[Main] \notin {"unborn", "dead"}
    BY DEF Control, ThreadTypes, MainPC, ReturnedPC
  <2>2. pc[Main] = "create" => \E w \in Workers : pc[w] = "unborn"
    BY DEF LockInv, CreatesAll
  <2>3. pc[Main] = "join" => \A w \in Workers : pc[w] = "dead"
    BY DEF AllDead
  <2> QED BY <1>2, <2>1, <2>2, <2>3
<1> QED BY <1>1, <1>2

LEMMA SleeperIsServed ==
  ASSUME IInv, lock2 = NoThread, Main \in cond1
  PROVE  \E w \in Workers : w \notin cond2 /\ pc[w] \notin {"unborn", "dead"}
<1> USE DEF IInv, Core, TInv, WakeInv, SleepControl, NobodyOverslept, At
<1>1. CASE pc[Main] = "initWait"
  BY <1>1 DEF InitWoken
<1>2. CASE pc[Main] = "deinitCheck"
  BY <1>2 DEF ShutdownWoken, Started
<1>3. CASE pc[Main] = "wait"
  <2>1. CASE \E w \in Workers : pc[w] \in BusyPC
    BY <2>1 DEF BusyPC
  <2>2. CASE jobs # <<>>
    <3>1. active
      BY <1>3 DEF LockInv, LeavesWhenInactive, ReturnedPC
    <3>2. PICK w \in Workers : w \notin cond2
      BY <2>2, <3>1 DEF WorkersWoken
    <3>3. pc[w] \notin {"unborn", "dead"}
      BY <1>3, <3>1 DEF Started, LockInv, LeavesWhenInactive
    <3> QED BY <3>2, <3>3
  <2> QED BY <1>3, <2>1, <2>2 DEF WaitWoken
<1> QED BY <1>1, <1>2, <1>3

(* No deadlock, for every number of workers and calls and without the help *)
(* of spurious wakeups: until the program has ended some thread can take a *)
(* step.  Nobody waits in threadpool_init, threadpool_insert, _get, _wait, *)
(* _deinit or threadpool_worker for a lock or a signal of somebody who     *)
(* waits for him.                                                          *)
THEOREM NeverDeadlockedHolds == Spec => []NeverDeadlocked
<1>1. ASSUME IInv PROVE NeverDeadlocked
  <2>1. CASE lock1 # NoThread \/ lock2 # NoThread \/ lock3 # NoThread
    BY <1>1, <2>1, LockHolderGoes DEF NeverDeadlocked
  <2>2. CASE lock1 = NoThread /\ lock2 = NoThread /\ lock3 = NoThread
    <3>1. Main \in cond1 => \E w \in Workers : CanGo(w)
      BY <1>1, <2>2, AwakeGoes, SleeperIsServed
    <3> QED BY <1>1, <2>2, <3>1, AwakeGoes DEF NeverDeadlocked, At, Threads
  <2> QED BY <2>1, <2>2
<1> QED BY <1>1, InvariantHolds, PTL
=============================================================================
